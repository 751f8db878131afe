----------------------------- MODULE MCGateway -----------------------------
(* Values of Gateway's constants for TLC.                                   *)
EXTENDS Gateway, TLC

CONSTANTS k1, k2

Interchangeable == Permutations({k1, k2})

ThreeKeys == {k1, k2, EmptyKey}

\* Two spellings of one resolver, the other resolver, one the module does not
\* have, another module, no module at all, and one that looks like the token.
SomeQueryKeys ==
  {<<"image", "webp">>, <<"image", "webp", "b">>, <<"image", "resized">>,
   <<"image", "crop">>, <<"music", "webp">>, <<"image">>, <<"auth", "webp">>}

SomeValues == {"true", "false", "big"}
=============================================================================
