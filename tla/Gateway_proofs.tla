---------------------------- MODULE Gateway_proofs ----------------------------
(***************************************************************************)
(* Theorems about Gateway for any signing keys, operations and queries.    *)
(*                                                                         *)
(* The argument.  The keys that are tried are those of a matching private  *)
(* operation, so a token that one of them verifies proves that operation   *)
(* (Asked); when only one operation matches, its keys are the ones tried   *)
(* and none of them ends the loop (Trying).  A loop over a map keeps its   *)
(* result a function of the keys it has visited (Parsing), not of their    *)
(* order, and visits all or refuses.  Each visit counts one difference at  *)
(* most, of as many keys as the query has (Counted).                       *)
(***************************************************************************)
EXTENDS Gateway, SequenceTheorems, FiniteSetTheorems, TLAPS

-----------------------------------------------------------------------------
(* The invariant.                                                           *)

\* What the loops know of their variables.
Types ==
  /\ op \in OpNames
  /\ Len(ops) \in Nat /\ \A j \in 1..Len(ops) : ops[j] \in Operations
  /\ pc \in {"ops", "keys", "handler", "parse", "named", "done"}
  /\ i \in Nat /\ i >= 1
  /\ pc \in {"ops", "keys", "handler"} => answer = "none" /\ diff = 0
  /\ diff \in Nat
  /\ pc \in {"parse", "named"} => ops = <<>>

\* One of the flag's two values; apart, for it is handled by another prover.
Flag == valid \in BOOLEAN

\* Asked: where the keys come from, and what a verified token proves.
Asked ==
  /\ pc = "ops" => ~valid
  /\ pc \in {"ops", "keys"} =>
       \/ keys = NoKeys
       \/ \E j \in Matching : ops[j].type = "private" /\ ops[j].keys = keys
  /\ pc = "keys" /\ valid => \E j \in Matching : ops[j].type = "private" /\ Proves(j)
  /\ AccessIsEarned

\* The premise of GoodTokenPasses.
Good(j) ==
  j \in 1..Len(ops) /\ Matching = {j} /\ Proves(j) /\ EmptyKey \notin KeysOf(j)

\* Trying: the keys of the one operation that matches are tried, and a token
\* that one of them has signed is found to be valid when that one was tried.
Trying ==
  \A j \in 1..Len(ops) : Good(j) =>
    /\ pc = "ops" => keys = IF i > j THEN ops[j].keys ELSE NoKeys
    /\ pc = "keys" =>
         /\ keys = ops[j].keys
         /\ valid \/ \E n \in 1..Len(keys) : n >= i /\ keys[n] = token.key
    /\ answer = "none"

\* Parsing: the arguments are those of the visited keys, and all visited keys
\* were accepted.
Visited == DOMAIN query \ left
Differs(k) == Len(k) > 1 /\ query[k] # Defaults[k[2]]

\* The argument of a resolver, by the keys that were visited.
Argument(r) == IF \E k \in Visited : k[2] = r /\ Differs(k) THEN "true" ELSE "false"

Parsing ==
  pc = "parse" =>
    /\ module # ""
    /\ left \subseteq DOMAIN query
    /\ \A k \in Visited : Accepted(k)
    /\ diff = 0 <=> \A k \in Visited : ~Differs(k)
    /\ query # <<>> => modmap = [r \in Resolvers |-> Argument(r)]

Named == NameIsCanonical /\ BadQueryIsRefused

\* Counted: the differences found and the keys to come are no more than the
\* pairs of the query.
Counted ==
  /\ query \in Queries
  /\ left \subseteq DOMAIN query /\ IsFiniteSet(left)
  /\ diff + Cardinality(left) <= MaxPairs

\* Typed: the rest of the types; a request has come to one of the answers.
Typed ==
  /\ ops \in Seq(Operations) /\ Len(ops) <= MaxOps
  /\ module \in {Module, ""}
  /\ token \in Tokens
  /\ i \in 1..(MaxOps + MaxKeys + 1)
  /\ keys \in KeyLists
  /\ modmap = <<>> \/ modmap \in [Resolvers -> {"true", "false"}]
  /\ answer \in {"none", "panic"} \union {Status[e] : e \in DOMAIN Status}

IInv == Types /\ Flag /\ Asked /\ Trying /\ Parsing /\ Named /\ Counted /\ Typed

-----------------------------------------------------------------------------
LEMMA ResolverFacts ==
  /\ \A r : Allowed(r) # {} => r \in Resolvers
  /\ \A r \in Resolvers : Defaults[r] = "false" /\ Allowed(r) = {"true", "false"}
  BY DEF Allowed, Resolvers, Defaults

\* Every error a request can meet here has a status.
LEMMA Answers ==
  \A e \in {"ErrMissingAuthKey", "ErrMissingAuthHeader", "ErrInvalidAuthHeader",
            "ErrAccessDenied", "Internal", "ModuleError"} :
    Status[e] \in {Status[d] : d \in DOMAIN Status}
  BY DEF Status

\* The empty query is one.
LEMMA EmptyQuery == <<>> \in Queries /\ DOMAIN <<>> = {}
<1>1. IsFiniteSet({}) /\ Cardinality({}) = 0
  BY FS_EmptySet
<1>2. {} \in Pairs
  BY <1>1, BoundsAssumption DEF Pairs
<1>3. <<>> \in [{} -> Values] /\ DOMAIN <<>> = {}
  OBVIOUS
<1> QED
  BY <1>2, <1>3 DEF Queries

\* The lists of keys.
LEMMA KeyListFacts ==
  /\ NoKeys \in KeyLists
  /\ \A K \in KeyLists : K # NoKeys => Len(K) \in Nat /\ Len(K) <= MaxKeys
<1>1. NoKeys \in KeyLists
  BY DEF KeyLists
<1>2. ASSUME NEW K \in KeyLists, K # NoKeys
      PROVE  Len(K) \in Nat /\ Len(K) <= MaxKeys
  <2>1. PICK n \in 0..MaxKeys : K \in [1..n -> SigningKeys]
    BY <1>2 DEF KeyLists
  <2>2. n \in Nat /\ n <= MaxKeys
    BY <2>1, BoundsAssumption
  <2>3. Len(K) = n
    BY <2>1, <2>2
  <2> QED
    BY <2>2, <2>3
<1> QED
  BY <1>1, <1>2

\* The indices of the loops.
LEMMA Indices ==
  /\ MaxOps \in Nat /\ MaxKeys \in Nat /\ 1 \in 1..(MaxOps + MaxKeys + 1)
  /\ \A n \in Nat, m \in Nat :
       n >= 1 /\ n <= m /\ (m <= MaxOps \/ m <= MaxKeys) => n + 1 \in 1..(MaxOps + MaxKeys + 1)
  BY BoundsAssumption

LEMMA InitIInv == Init => IInv
<1> SUFFICES ASSUME Init PROVE IInv
  OBVIOUS
<1>1. Len(ops) \in Nat /\ \A j \in 1..Len(ops) : ops[j] \in Operations
  <2>1. PICK n \in 0..MaxOps : ops \in [1..n -> Operations]
    BY DEF Init
  <2>2. n \in Nat
    BY <2>1, BoundsAssumption
  <2>3. Len(ops) = n
    BY <2>1, <2>2
  <2> QED
    BY <2>1, <2>2, <2>3
<1>2. Types
  <2>1. op \in OpNames /\ pc = "ops" /\ i = 1 /\ answer = "none" /\ diff = 0
    BY DEF Init
  <2> QED
    BY <1>1, <2>1 DEF Types
<1>3. Flag
  BY DEF Init, Flag
<1>4. Asked /\ Parsing /\ Named
  BY DEF Init, Asked, AccessIsEarned, Parsing, Named, NameIsCanonical, BadQueryIsRefused
<1>5. Trying
  <2>1. pc = "ops" /\ i = 1 /\ keys = NoKeys /\ answer = "none"
    BY DEF Init
  <2>2. \A j \in 1..Len(ops) : ~(i > j)
    BY <1>1, <2>1
  <2> QED
    BY <2>1, <2>2 DEF Trying
<1>6. Counted
  <2>1. query = <<>> /\ left = {} /\ diff = 0
    BY DEF Init
  <2>2. IsFiniteSet({}) /\ Cardinality({}) = 0
    BY FS_EmptySet
  <2> QED
    BY <2>1, <2>2, EmptyQuery, BoundsAssumption DEF Counted
<1>7. Typed
  <2>1. ops \in Seq(Operations) /\ Len(ops) <= MaxOps
    <3>1. PICK n \in 0..MaxOps : ops \in [1..n -> Operations]
      BY DEF Init
    <3> QED
      BY <3>1, BoundsAssumption
  <2>2. i \in 1..(MaxOps + MaxKeys + 1) /\ keys \in KeyLists
    <3>1. i = 1 /\ keys = NoKeys
      BY DEF Init
    <3> QED
      BY <3>1, Indices, KeyListFacts
  <2>3. module \in {Module, ""} /\ token \in Tokens /\ modmap = <<>> /\ answer = "none"
    BY DEF Init
  <2> QED
    BY <2>1, <2>2, <2>3 DEF Typed
<1> QED
  BY <1>2, <1>3, <1>4, <1>5, <1>6, <1>7 DEF IInv

LEMMA StepTypes == Types /\ [Next]_vars => Types'
<1> SUFFICES ASSUME Types, [Next]_vars PROVE Types'
  OBVIOUS
<1> USE DEF Types, policy, auth, parse, Goto, Fail, Serve
<1>1. CASE LookAtOp
  BY <1>1 DEF LookAtOp
<1>2. CASE ParseToken
  BY <1>2 DEF ParseToken
<1>3. CASE TryKey
  <2>1. /\ pc = "keys" /\ i' = i + 1 /\ op' = op /\ ops' = ops /\ diff' = diff
        /\ (pc' = "done" \/ (pc' = "keys" /\ answer' = answer))
    BY <1>3 DEF TryKey
  <2> QED
    BY <2>1
<1>4. CASE Decide
  BY <1>4 DEF Decide
<1>5. CASE StartParse
  <2>1. op' = op /\ ops' = <<>> /\ i' = 1 /\ diff' = diff /\ pc' \in {"parse", "done"}
    BY <1>5 DEF StartParse
  <2> QED
    BY <2>1
<1>6. CASE ParseKey
  BY <1>6 DEF ParseKey
<1>7. CASE EndParse
  BY <1>7 DEF EndParse
<1>8. CASE UNCHANGED vars
  BY <1>8 DEF vars
<1> QED
  BY <1>1, <1>2, <1>3, <1>4, <1>5, <1>6, <1>7, <1>8 DEF Next

LEMMA StepFlag == Flag /\ [Next]_vars => Flag'
<1> SUFFICES ASSUME Flag, [Next]_vars PROVE valid' \in BOOLEAN
  BY DEF Flag
<1>1. CASE TryKey
  <2>1. valid' = valid \/ valid' = (valid \/ token.claims = Wanted)
    BY <1>1, Zenon DEF TryKey
  <2> QED
    BY <2>1, Zenon DEF Flag
<1>2. CASE ~TryKey
  <2>1. valid' = valid \/ valid' = FALSE
    BY <1>2, Zenon DEF Next, vars, auth, LookAtOp, ParseToken, Decide, StartParse, ParseKey, EndParse
  <2> QED
    BY <2>1, Zenon DEF Flag
<1> QED
  BY <1>1, <1>2

\* What a step of the middleware leaves alone.
LEMMA PolicyKept ==
  ASSUME policy' = policy
  PROVE  /\ Matching' = Matching /\ op' = op /\ ops' = ops /\ token' = token
         /\ \A j : Proves(j)' = Proves(j) /\ KeysOf(j)' = KeysOf(j) /\ Good(j)' = Good(j)
  BY DEF policy, Matching, Proves, KeysOf, Wanted, Good

LEMMA StepAsked == Types /\ Asked /\ [Next]_vars => Asked'
<1> SUFFICES ASSUME Types, Asked, [Next]_vars PROVE Asked'
  OBVIOUS
<1> USE DEF Goto, Fail, Serve
<1>1. CASE LookAtOp
  <2>1. /\ pc = "ops" /\ i \in 1..Len(ops) /\ ops[i] \in Operations /\ ~valid /\ valid' = valid
        /\ policy' = policy
    BY <1>1 DEF LookAtOp, Types, Asked, policy
  <2>2. \/ keys' = keys
        \/ ops[i].name = op /\ ops[i].type = "private" /\ keys' = ops[i].keys
    BY <1>1, <2>1 DEF LookAtOp, Operations
  <2>3. pc' = "handler" => ops[i].name = op /\ ops[i].type = "public"
    BY <1>1 DEF LookAtOp
  <2>4. pc' \in {"ops", "handler", "done"}
    BY <1>1 DEF LookAtOp
  <2> QED
    BY <2>1, <2>2, <2>3, <2>4, PolicyKept DEF Asked, AccessIsEarned, Matching
<1>2. CASE ParseToken
  <2>1. pc = "ops" /\ pc' \in {"keys", "done"} /\ keys' = keys /\ valid' = valid /\ policy' = policy
    BY <1>2 DEF ParseToken, policy
  <2> QED
    BY <2>1, PolicyKept DEF Asked, AccessIsEarned
<1>3. CASE TryKey
  <2>1. /\ pc = "keys" /\ pc' \in {"keys", "done"} /\ keys' = keys /\ policy' = policy
        /\ i \in Nat /\ i >= 1 /\ i <= NumKeys
    BY <1>3 DEF TryKey, Types, policy
  <2>2. pc' = "keys" /\ valid' => \/ valid
                                  \/ /\ token.form = "signed" /\ token.key = keys[i]
                                     /\ keys[i] # EmptyKey /\ token.claims = Wanted
    BY <1>3 DEF TryKey, Types
  <2>3. keys # NoKeys /\ i \in 1..Len(keys)
    BY <2>1 DEF NumKeys
  <2>4. pc' = "keys" /\ valid' => \E j \in Matching : ops[j].type = "private" /\ Proves(j)
    BY <2>1, <2>2, <2>3 DEF Asked, Proves, KeysOf
  <2> QED
    BY <2>1, <2>4, PolicyKept DEF Asked, AccessIsEarned
<1>4. CASE Decide
  <2>1. pc = "keys" /\ (pc' = "done" \/ (valid /\ pc' = "handler")) /\ policy' = policy
    BY <1>4 DEF Decide, policy
  <2> QED
    BY <2>1, PolicyKept DEF Asked, AccessIsEarned
<1>5. CASE StartParse \/ ParseKey \/ EndParse
  <2>1. pc' \in {"parse", "named", "done"}
    BY <1>5 DEF StartParse, ParseKey, EndParse
  <2> QED
    BY <2>1 DEF Asked, AccessIsEarned
<1>6. CASE UNCHANGED vars
  <2>1. pc' = pc /\ keys' = keys /\ valid' = valid /\ policy' = policy
    BY <1>6 DEF vars, auth
  <2> QED
    BY <2>1, PolicyKept DEF Asked, AccessIsEarned
<1> QED
  BY <1>1, <1>2, <1>3, <1>4, <1>5, <1>6 DEF Next

\* The keys of an operation that a token proves.
LEMMA KeysFacts ==
  ASSUME Types, NEW j \in 1..Len(ops), Proves(j)
  PROVE  /\ ops[j].type = "private" /\ ops[j].keys # NoKeys
         /\ Len(ops[j].keys) \in Nat
         /\ KeysOf(j) = {ops[j].keys[n] : n \in 1..Len(ops[j].keys)}
         /\ token.form = "signed" /\ token.claims = Wanted
         /\ \E n \in 1..Len(ops[j].keys) : ops[j].keys[n] = token.key
<1>1. ops[j].keys # NoKeys
  BY DEF Proves, KeysOf
<1>2. ops[j] \in Operations
  BY DEF Types
<1>3. ops[j].type = "private" /\ ops[j].keys \in KeyLists
  BY <1>1, <1>2 DEF Operations
<1>4. Len(ops[j].keys) \in Nat
  BY <1>1, <1>3, KeyListFacts
<1> QED
  BY <1>1, <1>3, <1>4 DEF Proves, KeysOf

LEMMA StepTrying == Types /\ Trying /\ [Next]_vars => Trying'
<1> SUFFICES ASSUME Types, Trying, [Next]_vars PROVE Trying'
  OBVIOUS
<1> USE DEF Goto, Fail, Serve
<1>1. CASE StartParse
  <2>1. ops' = <<>>
    BY <1>1 DEF StartParse
  <2> QED
    BY <2>1 DEF Trying
<1>2. CASE ParseKey \/ EndParse
  <2>1. ops = <<>> /\ ops' = ops
    BY <1>2 DEF ParseKey, EndParse, Types, policy
  <2> QED
    BY <2>1 DEF Trying
<1>3. CASE UNCHANGED vars
  <2>1. pc' = pc /\ policy' = policy /\ i' = i /\ keys' = keys /\ valid' = valid /\ answer' = answer
    BY <1>3 DEF vars, auth
  <2> QED
    BY <2>1, PolicyKept DEF Trying
<1>4. CASE LookAtOp \/ ParseToken \/ TryKey \/ Decide
  <2>1. policy' = policy
    BY <1>4 DEF LookAtOp, ParseToken, TryKey, Decide, policy
  <2> SUFFICES ASSUME NEW j \in 1..Len(ops), Good(j)
               PROVE  /\ pc' = "ops" => keys' = IF i' > j THEN ops[j].keys ELSE NoKeys
                      /\ pc' = "keys" =>
                           /\ keys' = ops[j].keys
                           /\ valid' \/ \E n \in 1..Len(keys') : n >= i' /\ keys'[n] = token.key
                      /\ answer' = "none"
    BY <2>1, PolicyKept DEF Trying
  <2> DEFINE K == ops[j].keys
  <2>2. /\ Matching = {j} /\ j \in Nat /\ i \in Nat /\ i >= 1 /\ Len(ops) \in Nat
        /\ ops[j].type = "private" /\ K # NoKeys /\ Len(K) \in Nat
        /\ token.form = "signed" /\ token.claims = Wanted
        /\ \E n \in 1..Len(K) : K[n] = token.key
        /\ \A n \in 1..Len(K) : K[n] # EmptyKey
    BY KeysFacts DEF Good, Types
  <2>3. /\ pc = "ops" => keys = IF i > j THEN K ELSE NoKeys
        /\ pc = "keys" => keys = K /\ (valid \/ \E n \in 1..Len(K) : n >= i /\ K[n] = token.key)
        /\ answer = "none"
    BY DEF Trying
  <2>4. CASE LookAtOp
    <3>1. pc = "ops" /\ i \in 1..Len(ops) /\ i' = i + 1
      BY <2>4, <2>2 DEF LookAtOp
    <3>2. CASE ops[i].name # op
      <4>1. i # j /\ pc' = "ops" /\ keys' = keys /\ answer' = answer
        BY <3>1, <3>2, <2>2, <2>4 DEF LookAtOp, Matching
      <4> QED
        BY <4>1, <3>1, <2>2, <2>3
    <3>3. CASE ops[i].name = op
      <4>1. i = j
        BY <3>1, <3>3, <2>2 DEF Matching
      <4>2. pc' = "ops" /\ keys' = K /\ answer' = answer
        BY <4>1, <3>3, <2>2, <2>4 DEF LookAtOp
      <4> QED
        BY <4>1, <4>2, <3>1, <2>2, <2>3
    <3> QED
      BY <3>2, <3>3
  <2>5. CASE ParseToken
    <3>1. pc = "ops" /\ i > Len(ops) /\ i' = 1 /\ keys' = keys /\ pc' = "keys" /\ answer' = answer
      BY <2>5, <2>2 DEF ParseToken
    <3>2. keys = K
      BY <3>1, <2>2, <2>3
    <3> QED
      BY <3>1, <3>2, <2>2, <2>3
  <2>6. CASE TryKey
    <3>1. pc = "keys" /\ i <= NumKeys /\ i' = i + 1 /\ keys' = keys /\ keys = K
      BY <2>6, <2>3 DEF TryKey
    <3>2. i \in 1..Len(K) /\ K[i] # EmptyKey
      BY <3>1, <2>2 DEF NumKeys
    <3>3. /\ pc' = "keys" /\ answer' = answer
          /\ \/ K[i] # token.key /\ valid' = valid
             \/ valid' = (valid \/ token.claims = Wanted)
      BY <3>1, <3>2, <2>2, <2>6 DEF TryKey
    <3>4. CASE K[i] # token.key /\ valid' = valid
      BY <3>1, <3>2, <3>3, <3>4, <2>2, <2>3
    <3>5. CASE valid' = (valid \/ token.claims = Wanted)
      <4>1. valid'
        BY <3>5, <2>2
      <4> QED
        BY <4>1, <3>1, <3>3, <2>3
    <3> QED
      BY <3>3, <3>4, <3>5
  <2>7. CASE Decide
    <3>1. pc = "keys" /\ i > Len(K)
      BY <2>7, <2>2, <2>3 DEF Decide, NumKeys
    <3>2. valid
      BY <3>1, <2>2, <2>3
    <3>3. pc' = "handler" /\ answer' = answer
      BY <3>2, <2>7 DEF Decide
    <3> QED
      BY <3>3, <2>3
  <2> QED
    BY <1>4, <2>4, <2>5, <2>6, <2>7
<1> QED
  BY <1>1, <1>2, <1>3, <1>4 DEF Next

LEMMA StepParsing == Types /\ Parsing /\ [Next]_vars => Parsing'
<1> SUFFICES ASSUME Types, Parsing, [Next]_vars, pc' = "parse" PROVE Parsing'
  BY DEF Parsing
<1> USE DEF Goto, Fail, Serve
<1>1. CASE StartParse
  <2>1. /\ module' # "" /\ left' = DOMAIN query' /\ diff' = 0
        /\ query' # <<>> => modmap' = Defaults
    BY <1>1 DEF StartParse, Types
  <2>2. Visited' = {}
    BY <2>1 DEF Visited
  <2>3. Defaults = [r \in Resolvers |-> Argument(r)']
    BY <2>2 DEF Defaults, Argument
  <2> QED
    BY <2>1, <2>2, <2>3 DEF Parsing
<1>2. CASE ParseKey
  <2>1. pc = "parse" /\ query' = query /\ module' = module
    BY <1>2 DEF ParseKey, policy
  <2>2. PICK k \in left : /\ left' = left \ {k} /\ Accepted(k)
                          /\ IF query[k] = Defaults[k[2]]
                               THEN modmap' = modmap /\ diff' = diff
                               ELSE modmap' = [modmap EXCEPT ![k[2]] = query[k]] /\ diff' = diff + 1
    BY <1>2 DEF ParseKey
  <2>3. k \in DOMAIN query /\ query # <<>> /\ modmap = [r \in Resolvers |-> Argument(r)]
    <3>1. k \in DOMAIN query
      BY <2>1, <2>2 DEF Parsing
    <3>2. query # <<>>
      BY <3>1
    <3> QED
      BY <3>1, <3>2, <2>1 DEF Parsing
  <2>4. Visited' = Visited \union {k}
    BY <2>1, <2>2, <2>3 DEF Visited
  <2>5. \A q : Accepted(q)' = Accepted(q) /\ Differs(q)' = Differs(q)
    BY <2>1 DEF Accepted, ModuleOf, Differs
  <2>6. k[2] \in Resolvers /\ query[k] \in {"true", "false"} /\ Defaults[k[2]] = "false" /\ Len(k) > 1
    BY <2>2, ResolverFacts DEF Accepted
  <2>7. \A q \in Visited' : Accepted(q)'
    BY <2>1, <2>2, <2>4, <2>5 DEF Parsing
  <2>8. diff' = 0 <=> \A q \in Visited' : ~Differs(q)'
    <3>1. CASE query[k] = Defaults[k[2]]
      BY <3>1, <2>1, <2>2, <2>4, <2>5 DEF Parsing, Differs
    <3>2. CASE query[k] # Defaults[k[2]]
      BY <3>2, <2>2, <2>4, <2>5, <2>6 DEF Types, Differs
    <3> QED
      BY <3>1, <3>2
  <2>9. modmap' = [r \in Resolvers |-> Argument(r)']
    <3>1. CASE query[k] = Defaults[k[2]]
      <4>1. \A r : Argument(r)' = Argument(r)
        BY <3>1, <2>4, <2>5 DEF Argument, Differs
      <4> QED
        BY <3>1, <4>1, <2>2, <2>3
    <3>2. CASE query[k] # Defaults[k[2]]
      <4>1. query[k] = "true" /\ Differs(k)
        BY <3>2, <2>6 DEF Differs
      <4>2. \A r : Argument(r)' = IF r = k[2] THEN "true" ELSE Argument(r)
        BY <4>1, <2>4, <2>5 DEF Argument
      <4> QED
        BY <3>2, <4>1, <4>2, <2>2, <2>3, <2>6
    <3> QED
      BY <3>1, <3>2
  <2> QED
    BY <2>1, <2>2, <2>7, <2>8, <2>9 DEF Parsing
<1>3. CASE LookAtOp \/ ParseToken \/ TryKey \/ Decide \/ EndParse
  <2>1. pc' # "parse"
    BY <1>3 DEF LookAtOp, ParseToken, TryKey, Decide, EndParse
  <2> QED
    BY <2>1
<1>4. CASE UNCHANGED vars
  <2>1. /\ pc' = pc /\ query' = query /\ left' = left /\ modmap' = modmap /\ diff' = diff
        /\ module' = module
    BY <1>4 DEF vars, parse, policy
  <2>2. Visited' = Visited
    BY <2>1 DEF Visited
  <2>3. \A q : Accepted(q)' = Accepted(q) /\ Differs(q)' = Differs(q)
    BY <2>1 DEF Accepted, ModuleOf, Differs
  <2>4. \A r : Argument(r)' = Argument(r)
    BY <2>2, <2>3 DEF Argument
  <2> QED
    BY <2>1, <2>2, <2>3, <2>4 DEF Parsing
<1> QED
  BY <1>1, <1>2, <1>3, <1>4 DEF Next

LEMMA StepNamed == Types /\ Parsing /\ Named /\ [Next]_vars => Named'
<1> SUFFICES ASSUME Types, Parsing, Named, [Next]_vars, pc' = "named" PROVE Named'
  BY DEF Named, NameIsCanonical, BadQueryIsRefused
<1> USE DEF Goto, Fail, Serve
<1>1. CASE EndParse
  <2>1. /\ pc = "parse" /\ left = {} /\ query' = query /\ module' = module
        /\ modmap' = IF diff = 0 THEN <<>> ELSE modmap
    BY <1>1 DEF EndParse, policy
  <2>2. Visited = DOMAIN query
    BY <2>1 DEF Visited
  <2>3. \A k \in DOMAIN query : Accepted(k)
    BY <2>1, <2>2 DEF Parsing
  <2>4. BadQueryIsRefused'
    <3> SUFFICES ASSUME NEW k \in DOMAIN query
                 PROVE  Len(k) > 1 /\ k[1] = module /\ k[2] \in Resolvers /\ query[k] \in {"true", "false"}
      BY <2>1 DEF BadQueryIsRefused
    <3>1. Accepted(k) /\ module # ""
      BY <2>1, <2>3 DEF Parsing
    <3> QED
      BY <3>1, ResolverFacts DEF Accepted, ModuleOf
  <2>5. \A k \in DOMAIN query : Len(k) > 1 /\ k[2] \in Resolvers /\ Defaults[k[2]] = "false"
    BY <2>3, ResolverFacts DEF Accepted
  <2>6. Meaning = [r \in Resolvers |-> Argument(r)]
    <3>1. ASSUME NEW r \in Resolvers
          PROVE  Argument(r) = IF \E k \in DOMAIN query : Len(k) > 1 /\ k[2] = r /\ query[k] # Defaults[r]
                                 THEN "true" ELSE Defaults[r]
      BY <2>2, <2>5, ResolverFacts DEF Argument, Differs
    <3> QED
      BY <3>1 DEF Meaning
  <2>7. diff = 0 <=> \A k \in DOMAIN query : ~Differs(k)
    BY <2>1, <2>2 DEF Parsing
  <2>8. modmap' = IF Meaning = Defaults THEN <<>> ELSE Meaning
    <3>1. CASE diff = 0
      <4>1. \A r : Argument(r) = "false"
        BY <3>1, <2>2, <2>7 DEF Argument
      <4> QED
        BY <3>1, <4>1, <2>1, <2>6 DEF Defaults
    <3>2. CASE diff # 0
      <4>1. PICK k \in DOMAIN query : Differs(k)
        BY <3>2, <2>7
      <4>2. k[2] \in Resolvers /\ Argument(k[2]) = "true" /\ Defaults[k[2]] = "false"
        BY <4>1, <2>2, <2>5 DEF Argument
      <4>3. Meaning[k[2]] = "true"
        BY <4>2, <2>6
      <4>4. Meaning # Defaults
        BY <4>2, <4>3
      <4>5. query # <<>>
        BY <4>1
      <4> QED
        BY <3>2, <4>4, <4>5, <2>1, <2>6 DEF Parsing
    <3> QED
      BY <3>1, <3>2
  <2>9. Meaning' = Meaning
    BY <2>1 DEF Meaning
  <2> QED
    BY <2>4, <2>8, <2>9 DEF Named, NameIsCanonical
<1>2. CASE UNCHANGED vars
  <2>1. pc' = pc /\ query' = query /\ modmap' = modmap /\ module' = module
    BY <1>2 DEF vars, parse, policy
  <2>2. Meaning' = Meaning
    BY <2>1 DEF Meaning
  <2> QED
    BY <2>1, <2>2 DEF Named, NameIsCanonical, BadQueryIsRefused
<1>3. CASE LookAtOp \/ ParseToken \/ TryKey \/ Decide \/ StartParse \/ ParseKey
  <2>1. pc' # "named"
    BY <1>3 DEF LookAtOp, ParseToken, TryKey, Decide, StartParse, ParseKey
  <2> QED
    BY <2>1
<1> QED
  BY <1>1, <1>2, <1>3 DEF Next

LEMMA StepCounted == Types /\ Counted /\ [Next]_vars => Counted'
<1> SUFFICES ASSUME Types, Counted, [Next]_vars PROVE Counted'
  OBVIOUS
<1>1. CASE StartParse
  <2>1. query' \in Queries /\ left' = DOMAIN query' /\ diff' = 0
    BY <1>1 DEF StartParse, Types
  <2>2. PICK K \in Pairs : query' \in [K -> Values]
    BY <2>1 DEF Queries
  <2>3. IsFiniteSet(K) /\ Cardinality(K) <= MaxPairs /\ Cardinality(K) \in Nat /\ left' = K
    BY <2>1, <2>2, FS_CardinalityType DEF Pairs
  <2> QED
    BY <2>1, <2>3 DEF Counted
<1>2. CASE ParseKey
  <2>1. PICK k \in left : left' = left \ {k}
    BY <1>2 DEF ParseKey
  <2>2. query' = query /\ (diff' = diff \/ diff' = diff + 1)
    BY <1>2 DEF ParseKey
  <2>3. IsFiniteSet(left') /\ Cardinality(left') = Cardinality(left) - 1
    BY <2>1, FS_RemoveElement DEF Counted
  <2>4. Cardinality(left) \in Nat /\ diff \in Nat
    BY FS_CardinalityType DEF Counted, Types
  <2> QED
    BY <2>1, <2>2, <2>3, <2>4, BoundsAssumption DEF Counted
<1>3. CASE ~StartParse /\ ~ParseKey
  <2>1. query' = query /\ left' = left /\ diff' = diff
    BY <1>3 DEF Next, vars, parse, LookAtOp, ParseToken, TryKey, Decide, EndParse
  <2> QED
    BY <2>1 DEF Counted
<1> QED
  BY <1>1, <1>2, <1>3

LEMMA StepTyped == Types /\ Parsing /\ Counted /\ Typed /\ [Next]_vars => Typed'
<1> SUFFICES ASSUME Types, Parsing, Counted, Typed, [Next]_vars PROVE Typed'
  OBVIOUS
<1> USE DEF policy, auth, parse, Goto, Fail, Serve
<1>1. CASE LookAtOp
  <2>1. i \in 1..Len(ops) /\ ops[i] \in Operations /\ i' = i + 1
    BY <1>1 DEF LookAtOp, Types
  <2>2. keys' = keys \/ keys' = ops[i].keys
    BY <1>1 DEF LookAtOp
  <2>3. keys' \in KeyLists
    BY <2>1, <2>2, KeyListFacts DEF Operations, Typed
  <2>4. i' \in 1..(MaxOps + MaxKeys + 1)
    <3>1. i \in Nat /\ i >= 1 /\ Len(ops) \in Nat
      BY DEF Types
    <3>2. Len(ops) <= MaxOps
      BY DEF Typed
    <3>3. i <= Len(ops)
      BY <2>1, <3>1
    <3> QED
      BY <2>1, <3>1, <3>2, <3>3, Indices
  <2>5. answer' = answer \/ answer' = Status["ErrAccessDenied"]
    BY <1>1 DEF LookAtOp
  <2>6. policy' = policy /\ modmap' = modmap
    BY <1>1 DEF LookAtOp
  <2> QED
    BY <2>3, <2>4, <2>5, <2>6, Answers DEF Typed
<1>2. CASE ParseToken
  <2>1. i' = 1 /\ keys' = keys /\ policy' = policy /\ modmap' = modmap
    BY <1>2 DEF ParseToken
  <2>2. \/ answer' = answer \/ answer' = Status["ErrMissingAuthKey"]
        \/ answer' = Status["ErrMissingAuthHeader"] \/ answer' = Status["ErrInvalidAuthHeader"]
    BY <1>2 DEF ParseToken
  <2>3. i' \in 1..(MaxOps + MaxKeys + 1)
    BY <2>1, Indices
  <2> QED
    BY <2>1, <2>2, <2>3, Answers DEF Typed
<1>3. CASE TryKey
  <2>1. i <= NumKeys /\ i' = i + 1 /\ keys' = keys /\ policy' = policy /\ modmap' = modmap
    BY <1>3 DEF TryKey
  <2>2. answer' = answer \/ answer' = "panic" \/ answer' = Status["Internal"]
    BY <1>3 DEF TryKey
  <2>3. NumKeys \in Nat /\ NumKeys <= MaxKeys
    <3>1. keys \in KeyLists
      BY DEF Typed
    <3>2. CASE keys = NoKeys
      BY <3>2, Indices DEF NumKeys
    <3>3. CASE keys # NoKeys
      BY <3>1, <3>3, KeyListFacts DEF NumKeys
    <3> QED
      BY <3>2, <3>3
  <2>4. i' \in 1..(MaxOps + MaxKeys + 1)
    <3>1. i \in Nat /\ i >= 1
      BY DEF Types
    <3> QED
      BY <2>1, <2>3, <3>1, Indices
  <2> QED
    BY <2>1, <2>2, <2>4, Answers DEF Typed
<1>4. CASE Decide
  <2>1. i' = i /\ keys' = keys /\ policy' = policy /\ modmap' = modmap
    BY <1>4 DEF Decide
  <2>2. answer' = answer \/ answer' = Status["ErrAccessDenied"]
    BY <1>4 DEF Decide
  <2> QED
    BY <2>1, <2>2, Answers DEF Typed
<1>5. CASE StartParse
  <2>1. ops' = <<>> /\ token' = NoToken /\ i' = 1 /\ keys' = NoKeys /\ module' \in {Module, ""}
    BY <1>5 DEF StartParse
  <2>2. modmap' = <<>> \/ modmap' = Defaults
    BY <1>5 DEF StartParse
  <2>3. answer' = answer \/ answer' = Status["ModuleError"]
    BY <1>5 DEF StartParse
  <2>4. <<>> \in Seq(Operations) /\ Len(<<>>) = 0 /\ NoToken \in Tokens /\ NoKeys \in KeyLists
    BY KeyListFacts DEF NoToken, Tokens
  <2>5. Defaults \in [Resolvers -> {"true", "false"}]
    BY DEF Defaults
  <2>6. i' \in 1..(MaxOps + MaxKeys + 1)
    BY <2>1, Indices
  <2>7. ops' \in Seq(Operations) /\ Len(ops') <= MaxOps
    <3>1. 0 <= MaxOps
      BY Indices
    <3>2. ops' \in Seq(Operations) /\ Len(ops') = 0
      BY <2>1, <2>4
    <3> QED
      BY <3>1, <3>2
  <2> QED
    BY <2>1, <2>2, <2>3, <2>4, <2>5, <2>6, <2>7, Answers DEF Typed
<1>6. CASE ParseKey
  <2>1. i' = i /\ keys' = keys /\ policy' = policy
    BY <1>6 DEF ParseKey
  <2>2. answer' = answer \/ answer' = Status["ModuleError"]
    BY <1>6 DEF ParseKey
  <2>3. PICK k \in left : \/ modmap' = modmap
                          \/ Accepted(k) /\ modmap' = [modmap EXCEPT ![k[2]] = query[k]]
    BY <1>6 DEF ParseKey
  <2>4. CASE Accepted(k) /\ modmap' = [modmap EXCEPT ![k[2]] = query[k]]
    <3>1. query[k] \in {"true", "false"}
      BY <2>4, ResolverFacts DEF Accepted
    <3>2. query # <<>>
      BY <2>3, EmptyQuery DEF Counted
    <3>3. modmap \in [Resolvers -> {"true", "false"}]
      BY <1>6, <3>2 DEF Parsing, ParseKey, Argument
    <3>4. modmap' \in [Resolvers -> {"true", "false"}]
      BY <2>4, <3>1, <3>3
    <3> QED
      BY <2>1, <2>2, <3>4, Answers DEF Typed
  <2>5. CASE modmap' = modmap
    BY <2>1, <2>2, <2>5, Answers DEF Typed
  <2> QED
    BY <2>3, <2>4, <2>5
<1>7. CASE EndParse
  <2>1. i' = i /\ keys' = keys /\ policy' = policy /\ answer' = answer
    BY <1>7 DEF EndParse
  <2>2. modmap' = <<>> \/ modmap' = modmap
    BY <1>7 DEF EndParse
  <2> QED
    BY <2>1, <2>2 DEF Typed
<1>8. CASE UNCHANGED vars
  BY <1>8 DEF vars, Typed
<1> QED
  BY <1>1, <1>2, <1>3, <1>4, <1>5, <1>6, <1>7, <1>8 DEF Next

-----------------------------------------------------------------------------
LEMMA Invariance == Spec => []IInv
<1>1. IInv /\ [Next]_vars => IInv'
  BY StepTypes, StepFlag, StepAsked, StepTrying, StepParsing, StepNamed, StepCounted, StepTyped
     DEF IInv
<1> QED
  BY InitIInv, <1>1, PTL DEF Spec

\* The parse counts no more differences than the query has pairs, has an
\* argument for every resolver, and every refusal has one of ToHttp's statuses.
THEOREM TypeCorrect == Spec => []TypeOK
<1>1. IInv => TypeOK
  <2> SUFFICES ASSUME IInv PROVE TypeOK
    OBVIOUS
  <2>1. diff \in 0..MaxPairs /\ left \subseteq QueryKeys
    <3>1. PICK K \in Pairs : query \in [K -> Values]
      BY DEF IInv, Counted, Queries
    <3>2. Cardinality(left) \in Nat /\ diff \in Nat
      BY FS_CardinalityType DEF IInv, Counted, Types
    <3> QED
      BY <3>1, <3>2, BoundsAssumption DEF IInv, Counted, Pairs
  <2>2. valid \in BOOLEAN
    BY DEF IInv, Flag
  <2> QED
    BY <2>1, <2>2 DEF IInv, Types, Counted, Typed, TypeOK
<1> QED
  BY <1>1, Invariance, PTL

\* Whatever keys a bucket's operations have, a handler is reached only by the
\* public operation or with a token that one of the keys has signed for it.
THEOREM AccessIsSound == Spec => []AccessIsEarned
<1>1. IInv => AccessIsEarned
  BY DEF IInv, Asked
<1> QED
  BY <1>1, Invariance, PTL

\* A token signed with any of an operation's keys is never turned away.
THEOREM TokensAreHonoured == Spec => []GoodTokenPasses
<1>1. IInv => GoodTokenPasses
  BY DEF IInv, Trying, Good, GoodTokenPasses
<1> QED
  BY <1>1, Invariance, PTL

\* Two queries that mean the same ask for one copy, by whatever keys and in
\* whatever order the map gives them.
THEOREM NamesAreCanonical == Spec => []NameIsCanonical
<1>1. IInv => NameIsCanonical
  BY DEF IInv, Named
<1> QED
  BY <1>1, Invariance, PTL

\* No query with a key or an argument that is not the module's gets a name.
THEOREM QueriesAreChecked == Spec => []BadQueryIsRefused
<1>1. IInv => BadQueryIsRefused
  BY DEF IInv, Named
<1> QED
  BY <1>1, Invariance, PTL

=============================================================================
