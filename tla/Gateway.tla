------------------------------ MODULE Gateway ------------------------------
(***************************************************************************)
(* What a request has to pass before a handler works for it: the Auth      *)
(* middleware, with the operations of the bucket and the token, and, for a *)
(* Get, the parse of its query into resolvers and the name of the copy.    *)
(* One request; the bucket is the entry of BucketStore's cache, where the  *)
(* middleware and the handler see the same one.                            *)
(*                                                                         *)
(* Parse and UseResolvers range over Go maps, in any order.  A key of the  *)
(* query is the sequence of its parts between dots.                        *)
(***************************************************************************)
EXTENDS Naturals, Sequences, FiniteSets

CONSTANTS
  SigningKeys,  \* keys a client may sign with
  EmptyKey,     \* ... one of them: the empty string
  NoKeys,       \* the nil slice
  QueryKeys,    \* keys of a query, without that of the token
  Values,       \* values of a query
  MaxOps,       \* bound: operations of a bucket
  MaxKeys,      \* bound: keys of an operation
  MaxPairs      \* bound: pairs of a query

ASSUME KeysAssumption == EmptyKey \in SigningKeys /\ NoKeys \notin Seq(SigningKeys)
ASSUME QueryAssumption == QueryKeys \subseteq Seq(STRING) \ {<<>>, <<"auth">>}
ASSUME BoundsAssumption == {MaxOps, MaxKeys, MaxPairs} \subseteq Nat

OpNames == {"get", "post", "delete"}

\* A slice of keys, or nil.
KeyLists == {NoKeys} \union UNION {[1..n -> SigningKeys] : n \in 0..MaxKeys}

\* An operation that BucketOperation accepts; nothing is asked of its keys.
Operations ==
  [name : OpNames, type : {"public"}, keys : {NoKeys}]
    \union [name : OpNames, type : {"private"}, keys : KeyLists]

\* The resolvers of the one module, their defaults and their arguments.
Module    == "image"
Resolvers == {"webp", "resized"}
Defaults  == [r \in Resolvers |-> "false"]

\* Mutant: any argument will do.
Allowed_Any(r) == IF r \in Resolvers THEN Values ELSE {}

Allowed(r) == IF r \in Resolvers THEN {"true", "false"} ELSE {}

\* ToHttp's table, for the errors a request can meet here.
Status ==
  [ErrMissingAuthKey |-> "401", ErrMissingAuthHeader |-> "401",
   ErrInvalidAuthHeader |-> "401", ErrAccessDenied |-> "403", Internal |-> "500",
   ModuleError |-> "400"]

\* A token: none; no second word in the header; not a token; with another
\* algorithm; or signed, with a payload that is no JSON or with the two claims.
Claims == [bucket : {"this", "other"}, file : {"this", "other", ""}]
Tokens ==
  [form : {"none", "oneword", "malformed", "algorithm"}]
    \union [form : {"nojson"}, key : SigningKeys]
    \union [form : {"signed"}, key : SigningKeys, claims : Claims]

NoToken == [form |-> "none"]

VARIABLES
  op,      \* the operation
  ops,     \* the bucket's operations
  module,  \* the bucket's module, once the handler looks at it
  token,   \* the token of the request
  pc,      \* where the request is
  i,       \* index of a loop
  keys,    \* the keys that are tried
  valid,   \* one has verified the token
  query,   \* the pairs of the query
  left,    \* keys or resolvers a loop over a map has still to visit
  modmap,  \* resolvers and arguments
  diff,    \* diffHits
  answer   \* the status, or where the request got to

policy == <<op, ops, module, token>>
auth   == <<i, keys, valid>>
parse  == <<query, left, modmap, diff>>
vars   == <<policy, pc, auth, parse, answer>>

Init ==
  /\ op \in OpNames
  /\ ops \in UNION {[1..n -> Operations] : n \in 0..MaxOps}
  /\ module = ""
  /\ token \in Tokens
  /\ pc = "ops"
  /\ i = 1
  /\ keys = NoKeys
  /\ valid = FALSE
  /\ query = <<>>
  /\ left = {}
  /\ modmap = <<>>
  /\ diff = 0
  /\ answer = "none"

Fail(error) == pc' = "done" /\ answer' = Status[error]
Goto(l)     == pc' = l /\ UNCHANGED answer

\* The handler sees nothing of what Auth worked with.
Serve == Goto("handler")

-----------------------------------------------------------------------------
(* Auth.                                                                    *)

\* Mutant: the type is looked at, the name is not.
LookAtOp_AnyName ==
  /\ pc = "ops"
  /\ i <= Len(ops)
  /\ i' = i + 1
  /\ IF ops[i].type = "public" THEN Serve /\ UNCHANGED keys
                               ELSE Goto("ops") /\ keys' = ops[i].keys
  /\ UNCHANGED <<policy, valid, parse>>

\* The loop over the operations: a public one serves the request, one without
\* keys denies it, and the keys of the last one with some are tried.
LookAtOp ==
  /\ pc = "ops"
  /\ i <= Len(ops)
  /\ i' = i + 1
  /\ CASE ops[i].name # op -> Goto("ops") /\ UNCHANGED keys
       [] ops[i].name = op /\ ops[i].type = "public" -> Serve /\ UNCHANGED keys
       [] ops[i].name = op /\ ops[i].type = "private" /\ ops[i].keys = NoKeys ->
            Fail("ErrAccessDenied") /\ UNCHANGED keys
       [] OTHER -> Goto("ops") /\ keys' = ops[i].keys
  /\ UNCHANGED <<policy, valid, parse>>

ParseToken ==
  /\ pc = "ops"
  /\ i > Len(ops)
  /\ i' = 1
  /\ CASE token.form = "none" ->
            Fail(IF op = "get" THEN "ErrMissingAuthKey" ELSE "ErrMissingAuthHeader")
       [] token.form = "oneword" /\ op # "get" -> Fail("ErrInvalidAuthHeader")
       [] OTHER -> Goto("keys")
  /\ UNCHANGED <<policy, keys, valid, parse>>

NumKeys == IF keys = NoKeys THEN 0 ELSE Len(keys)
Wanted  == [bucket |-> "this", file |-> IF op = "post" THEN "" ELSE "this"]

\* Mutant: the loop ends at the first key that does not verify.
TryKey_FirstOnly ==
  /\ pc = "keys" /\ i <= NumKeys
  /\ IF token.form = "signed" /\ token.key = keys[i] /\ token.claims = Wanted
       THEN valid' = TRUE /\ i' = i + 1 /\ Goto("keys")
       ELSE Fail("ErrAccessDenied") /\ UNCHANGED <<i, valid>>
  /\ UNCHANGED <<policy, keys, parse>>

\* One key.  For the empty one the verifier is a nil pointer, which is used on
\* everything that has the form of a token.
TryKey ==
  /\ pc = "keys" /\ i <= NumKeys
  /\ i' = i + 1
  /\ \/ token.form \in {"malformed", "oneword"} /\ Goto("keys") /\ UNCHANGED valid
     \/ /\ token.form \in {"algorithm", "nojson", "signed"} /\ keys[i] = EmptyKey
        /\ pc' = "done" /\ answer' = "panic" /\ UNCHANGED valid
     \/ token.form = "algorithm" /\ keys[i] # EmptyKey /\ Fail("Internal") /\ UNCHANGED valid
     \/ /\ token.form \in {"nojson", "signed"} /\ keys[i] \notin {EmptyKey, token.key}
        /\ Goto("keys") /\ UNCHANGED valid
     \/ /\ token.form = "nojson" /\ keys[i] # EmptyKey /\ keys[i] = token.key
        /\ Fail("Internal") /\ UNCHANGED valid
     \/ /\ token.form = "signed" /\ keys[i] # EmptyKey /\ keys[i] = token.key
        /\ Goto("keys") /\ valid' = (valid \/ token.claims = Wanted)
  /\ UNCHANGED <<policy, keys, parse>>

Decide ==
  /\ pc = "keys"
  /\ i > NumKeys
  /\ IF valid THEN Serve ELSE Fail("ErrAccessDenied")
  /\ UNCHANGED <<policy, auth, parse>>

-----------------------------------------------------------------------------
(* Get: the parse of the query.                                             *)

Pairs   == {K \in SUBSET QueryKeys : IsFiniteSet(K) /\ Cardinality(K) <= MaxPairs}
Queries == UNION {[K -> Values] : K \in Pairs}

\* What the middleware knew is gone; the query comes in, without the token.
StartParse ==
  /\ pc = "handler" /\ op = "get"
  /\ ops' = <<>> /\ token' = NoToken
  /\ i' = 1 /\ keys' = NoKeys /\ valid' = FALSE
  /\ module' \in {Module, ""}
  /\ query' \in Queries
  /\ left' = DOMAIN query'
  /\ modmap' = IF query' = <<>> THEN <<>> ELSE Defaults
  /\ IF module' = "" THEN Fail("ModuleError") ELSE Goto("parse")
  /\ UNCHANGED <<op, diff>>

\* Mutant: a default is written as well, over what another key has set.
ParseKey_Overwrites ==
  /\ pc = "parse"
  /\ \E k \in left :
       /\ left' = left \ {k}
       /\ IF Len(k) > 1 /\ k[1] = module /\ query[k] \in Allowed(k[2])
            THEN /\ modmap' = [modmap EXCEPT ![k[2]] = query[k]]
                 /\ diff' = IF query[k] = Defaults[k[2]] THEN diff ELSE diff + 1
                 /\ Goto("parse")
            ELSE Fail("ModuleError") /\ UNCHANGED <<modmap, diff>>
  /\ UNCHANGED <<policy, auth, query>>

\* Mutant: a resolver nobody knows is skipped.
ParseKey_SkipsUnknown ==
  /\ pc = "parse"
  /\ \E k \in left :
       /\ left' = left \ {k}
       /\ IF Len(k) > 1 /\ k[1] = module
            THEN IF query[k] \in Allowed(k[2]) /\ query[k] # Defaults[k[2]]
                   THEN modmap' = [modmap EXCEPT ![k[2]] = query[k]] /\ diff' = diff + 1
                        /\ Goto("parse")
                   ELSE Goto("parse") /\ UNCHANGED <<modmap, diff>>
            ELSE Fail("ModuleError") /\ UNCHANGED <<modmap, diff>>
  /\ UNCHANGED <<policy, auth, query>>

\* valuesFromQueryPair: the module and the resolver of a key.  One that begins
\* with the token's is skipped there, and its module is the empty string.
ModuleOf(k) == IF k[1] = "auth" THEN "" ELSE k[1]
Accepted(k) == Len(k) > 1 /\ ModuleOf(k) = module /\ query[k] \in Allowed(k[2])

\* One key of the query, in the order the map gives them.
ParseKey ==
  /\ pc = "parse"
  /\ \E k \in left :
       /\ left' = left \ {k}
       /\ \/ ~Accepted(k) /\ Fail("ModuleError") /\ UNCHANGED <<modmap, diff>>
          \/ /\ Accepted(k)
             /\ Goto("parse")
             /\ IF query[k] = Defaults[k[2]]
                  THEN UNCHANGED <<modmap, diff>>
                  ELSE modmap' = [modmap EXCEPT ![k[2]] = query[k]] /\ diff' = diff + 1
  /\ UNCHANGED <<policy, auth, query>>

\* Without a difference to the defaults the original is asked for, else the
\* copy whose name Raw makes of all resolvers, sorted, and their arguments.
EndParse ==
  /\ pc = "parse"
  /\ left = {}
  /\ modmap' = IF diff = 0 THEN <<>> ELSE modmap
  /\ Goto("named")
  /\ UNCHANGED <<policy, auth, query, left, diff>>

Next ==
  \/ LookAtOp \/ ParseToken \/ TryKey \/ Decide
  \/ StartParse \/ ParseKey \/ EndParse
  \/ pc \in {"done", "named"} /\ UNCHANGED vars
  \/ pc = "handler" /\ op # "get" /\ UNCHANGED vars

Spec == Init /\ [][Next]_vars

-----------------------------------------------------------------------------
\* Types of the variables; there is an argument for every resolver, or none.
TypeOK ==
  /\ op \in OpNames
  /\ ops \in Seq(Operations) /\ Len(ops) <= MaxOps
  /\ module \in {Module, ""}
  /\ token \in Tokens
  /\ pc \in {"ops", "keys", "handler", "parse", "named", "done"}
  /\ i \in 1..(MaxOps + MaxKeys + 1)
  /\ keys \in KeyLists
  /\ valid \in BOOLEAN
  /\ query \in Queries
  /\ left \subseteq QueryKeys
  /\ modmap = <<>> \/ modmap \in [Resolvers -> {"true", "false"}]
  /\ diff \in 0..MaxPairs
  /\ answer \in {"none", "panic"} \union {Status[e] : e \in DOMAIN Status}

Matching == {j \in 1..Len(ops) : ops[j].name = op}
KeysOf(j) == IF ops[j].keys = NoKeys THEN {} ELSE {ops[j].keys[n] : n \in 1..Len(ops[j].keys)}

Proves(j) == /\ token.form = "signed"
             /\ token.key \in KeysOf(j) \ {EmptyKey}
             /\ token.claims = Wanted

\* A handler is reached only for an operation the bucket defines: a public
\* one, or a private one with a token that one of its keys has signed for this
\* bucket and this file; never by way of an empty key.
AccessIsEarned ==
  pc = "handler" =>
    \E j \in Matching : ops[j].type = "public" \/ (ops[j].type = "private" /\ Proves(j))

\* README.md, "Important to know": when an operation has several keys, a token
\* signed with any of them passes, whatever the others make of it.
GoodTokenPasses ==
  (\E j \in 1..Len(ops) : Matching = {j} /\ Proves(j) /\ EmptyKey \notin KeysOf(j)) =>
    answer = "none"

\* The meaning of a query: an argument that differs from the default, when a
\* key gives it.
Meaning ==
  [r \in Resolvers |->
     IF \E k \in DOMAIN query : Len(k) > 1 /\ k[2] = r /\ query[k] # Defaults[r]
       THEN "true" ELSE Defaults[r]]

\* The name of a copy depends on the meaning of the query, not on the order in
\* which its keys are visited, on their spelling or number; the original is
\* asked for exactly when all arguments are the defaults.
NameIsCanonical ==
  pc = "named" => modmap = IF Meaning = Defaults THEN <<>> ELSE Meaning

\* A query with a key that no resolver of the bucket's module takes is refused
\* with 400, in whatever order its keys are visited.
BadQueryIsRefused ==
  pc = "named" => \A k \in DOMAIN query :
    /\ Len(k) > 1
    /\ k[1] = module
    /\ k[2] \in Resolvers
    /\ query[k] \in {"true", "false"}

=============================================================================
