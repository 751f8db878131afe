--------------------------- MODULE MCLifecycle ---------------------------
(* Values of Lifecycle's constants for TLC.                                *)
EXTENDS Lifecycle, TLC

CONSTANTS h1, h2, p1, p2

TwoCallers == {h1, h2}
OnePath    == {p1}
TwoPaths   == {p1, p2}

\* A copy from memory, a processed copy, an upload.
SomeRequests == {<<"cache">>, <<"db", "io", "cache", "io">>, <<"io", "db">>}

CacheRequests == {<<"cache">>}
=============================================================================
