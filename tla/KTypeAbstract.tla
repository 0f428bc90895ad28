---------------------------- MODULE KTypeAbstract ----------------------------
(***************************************************************************)
(* What the typed key/value registry promises (spec sections 3, 4 and 7),  *)
(* with no array, no search and no memory: a partial map from type names  *)
(* to a callback set and a key/value store.  Every call either succeeds    *)
(* or reports an error; `op` and `result` record the last call.            *)
(*                                                                         *)
(*  - registering an existing name fails and changes nothing;              *)
(*  - store creates the type on first use, freezes its callbacks ("first   *)
(*    writer wins"), rejects a mismatching callback set and a duplicate    *)
(*    key; an auto-created type stays even when the insert then fails;     *)
(*  - deregister removes the type and its store, teardown removes all;     *)
(*  - when MayFail, an allocation may fail, which changes nothing but the  *)
(*    type created on the way.                                             *)
(***************************************************************************)
CONSTANTS Names, Keys, Callbacks, Vals, NoType, NoVal, MayFail

VARIABLES types, op, result

absVars == <<types, op, result>>

EmptyStore == [k \in Keys |-> NoVal]

TypeRec == [cb : Callbacks, data : [Keys -> Vals \cup {NoVal}]]

TypeOK ==
  /\ types \in [Names -> TypeRec \cup {NoType}]
  /\ result \in {"ok", "error"}

Init ==
  /\ types = [n \in Names |-> NoType]
  /\ op = "none"
  /\ result = "ok"

Register(n, cb) ==
  /\ op' = "register"
  /\ \/ /\ types[n] # NoType
        /\ result' = "error" /\ UNCHANGED types
     \/ /\ types[n] = NoType /\ MayFail
        /\ result' = "error" /\ UNCHANGED types
     \/ /\ types[n] = NoType
        /\ types' = [types EXCEPT ![n] = [cb |-> cb, data |-> EmptyStore]]
        /\ result' = "ok"

Store(n, k, v, cb) ==
  LET t == IF types[n] = NoType THEN [cb |-> cb, data |-> EmptyStore]
                                ELSE types[n]
  IN /\ op' = "store"
     /\ \/ /\ types[n] = NoType /\ MayFail
           /\ result' = "error" /\ UNCHANGED types
        \/ /\ t.cb # cb
           /\ types' = [types EXCEPT ![n] = t] /\ result' = "error"
        \/ /\ t.cb = cb /\ (MayFail \/ t.data[k] # NoVal)
           /\ types' = [types EXCEPT ![n] = t] /\ result' = "error"
        \/ /\ t.cb = cb /\ t.data[k] = NoVal
           /\ types' = [types EXCEPT ![n] = [t EXCEPT !.data[k] = v]]
           /\ result' = "ok"

Deregister(n) ==
  /\ op' = "deregister"
  /\ \/ /\ types[n] = NoType
        /\ result' = "error" /\ UNCHANGED types
     \/ /\ types[n] # NoType
        /\ types' = [types EXCEPT ![n] = NoType] /\ result' = "ok"

Teardown ==
  /\ op' = "teardown"
  /\ types' = [n \in Names |-> NoType]
  /\ result' = "ok"

Next ==
  \/ \E n \in Names, cb \in Callbacks : Register(n, cb)
  \/ \E n \in Names, k \in Keys, v \in Vals, cb \in Callbacks : Store(n, k, v, cb)
  \/ \E n \in Names : Deregister(n)
  \/ Teardown

Spec == Init /\ [][Next]_absVars

=============================================================================
