-------------------------------- MODULE KType --------------------------------
(***************************************************************************)
(* The katcp type registry of src/katcp/ktype.c.                           *)
(*                                                                         *)
(* The shared state s->s_type / s->s_type_count is an array of pointers   *)
(* to struct katcp_type descriptors, kept sorted by name.  Each descriptor *)
(* owns an avltree from keys to caller values and five callbacks.  Every   *)
(* public function is one action, taken atomically: the code is           *)
(* single-threaded and no call suspends.                                   *)
(*                                                                         *)
(* Memory is modelled where the code's correctness depends on it:          *)
(*  - arr is what the program sees through s->s_type[0..s_type_count-1];   *)
(*  - ptr says whether s->s_type is NULL, a live block, or a block that    *)
(*    realloc has already freed ("dangling");                              *)
(*  - descriptors are addresses in DescIds; dfrees counts how often each   *)
(*    was passed to free();                                                *)
(*  - caller values are 1..MaxVals, handed over fresh by each store call;  *)
(*    freed counts how often the type's free callback ran on each.         *)
(* Allocator behaviour is a build parameter: whether realloc may fail, may *)
(* move a growing block, may fail to shrink, and whether realloc(p, 0)     *)
(* frees p and returns NULL (glibc) or returns a fresh minimal block.      *)
(***************************************************************************)
EXTENDS Integers, Sequences, SequencesExt, FiniteSets, KTypeSearch

CONSTANTS
  Names,            \* type names, as ranks in strcmp order (0 is "")
  Keys,             \* data keys (d_name)
  Callbacks,        \* callback sets <print, free, copy, compare, parse>
  FreeingCallbacks, \* the callback sets whose fn_free is not NULL
  DescIds,          \* addresses a struct katcp_type can be allocated at
  MaxVals,          \* bound: number of values callers hand to store
  NULL, NoVal,
  ReallocMayFail,   \* realloc to a larger size may return NULL
  ReallocMayMove,   \* realloc to a larger size may move the block
  ShrinkMayFail,    \* realloc to a smaller non-zero size may return NULL
  ReallocZeroFrees, \* realloc(p, 0) frees p and returns NULL
  MallocMayFail     \* malloc, strdup and create_avltree may return NULL

ASSUME Names \subseteq Nat /\ MaxVals \in Nat \ {0}
ASSUME FreeingCallbacks \subseteq Callbacks /\ NULL \notin Callbacks \cup DescIds

Vals == 1..MaxVals

\* allocation sites of register_at_id_type_katcp after the realloc
AllocSites == {"type", "name", "tree"}

VARIABLES
  arr,      \* s->s_type[0..s_type_count-1]
  ptr,      \* "null" | "live" | "dangling": the block s->s_type points to
  desc,     \* [DescIds -> descriptor contents]
  dalloc,   \* descriptors ever allocated
  dfrees,   \* [DescIds -> 0..2]: times each descriptor was freed
  nextVal,  \* next fresh value a caller hands to store
  given,    \* [Vals -> callback set the value was handed over with]
  inserted, \* values that were inserted into some tree
  freed,    \* [Vals -> 0..2]: times a free callback ran on each value
  last      \* [op, rc]: the last call and its return value

regVars == <<arr, ptr, desc, dalloc, dfrees>>
valVars == <<nextVal, given, inserted, freed>>
vars == <<regVars, valVars, last>>

EmptyTree == [k \in Keys |-> NoVal]

\* A descriptor with every field NULL, as create_type_katcp makes it and
\* destroy_type_katcp leaves it.
NullDesc == [name |-> NULL, cb |-> NULL, tree |-> NULL]

\* A descriptor: t_name, the callback set, and t_tree (NULL or a key map).
DescRec == [name : Names \cup {NULL}, cb : Callbacks \cup {NULL},
            tree : [Keys -> Vals \cup {NoVal}] \cup {NULL}]

Bump(x) == IF x < 2 THEN x + 1 ELSE 2

TreeVals(t) == IF t = NULL THEN {} ELSE {t[k] : k \in Keys} \ {NoVal}

(***************************************************************************)
(* Registry states as records, so that a call can compose two steps of the *)
(* code (store_data_type_katcp registers, then inserts).                   *)
(***************************************************************************)
Cur == [arr |-> arr, ptr |-> ptr, desc |-> desc, dalloc |-> dalloc,
        dfrees |-> dfrees]

Commit(r) ==
  /\ arr' = r.arr /\ ptr' = r.ptr /\ desc' = r.desc
  /\ dalloc' = r.dalloc /\ dfrees' = r.dfrees

Return(op, rc) == last' = [op |-> op, rc |-> rc]

NameSeq == [i \in 1..Len(arr) |-> desc[arr[i]].name]

\* find_name_id_type_katcp: the binary search over the current list.
FindNameId(n) == BinarySearchTypeList(NameSeq, Len(arr), n)

\* The values a free callback runs on when the trees of descriptors ds are
\* destroyed with their t_free (destroy_avltree(t->t_tree, t->t_free)).
FreeTrees(f, ds) ==
  [v \in Vals |-> IF \E d \in ds : /\ v \in TreeVals(desc[d].tree)
                                   /\ desc[d].cb \in FreeingCallbacks
                  THEN Bump(f[v]) ELSE f[v]]

\* free_node_avltree(an, fn_free) on a node holding value v.
FreeValue(f, v, cb) ==
  IF cb \in FreeingCallbacks THEN [f EXCEPT ![v] = Bump(@)] ELSE f

(***************************************************************************)
(* Outcomes of realloc(ts, sizeof ts[0] * (size + 1)).  From NULL it is a   *)
(* malloc, which always gives a new block.                                 *)
(***************************************************************************)
GrowOutcomes ==
  { o \in {"fail", "inplace", "moved"} :
      /\ o = "fail" => ReallocMayFail
      /\ o = "inplace" => ptr # "null"
      /\ o = "moved" => ReallocMayMove \/ ptr = "null" }

\* Outcomes of realloc(ts, sizeof ts[0] * n) when shrinking to n.
ShrinkOutcomes(n) ==
  IF n = 0 THEN IF ReallocZeroFrees THEN {"freed"} ELSE {"ok"}
  ELSE {"ok"} \cup (IF ShrinkMayFail THEN {"fail"} ELSE {})

FailSites == IF MallocMayFail THEN AllocSites ELSE {}

(***************************************************************************)
(* register_at_id_type_katcp(d, tid, tname, callbacks) is modelled as the  *)
(* set of [rc, r] it can produce, r the registry state afterwards.         *)
(***************************************************************************)
Grown == GrowOutcomes \ {"fail"}

\* What s->s_type points to after a failure that follows a realloc with
\* outcome o: the block realloc freed when it moved the array.
StaleAfter(o) == IF o = "moved" /\ ptr = "live" THEN "dangling" ELSE ptr

\* The shift loop runs i from size down to tid, so a tid past the end appends.
Slot(tid) == IF tid < Len(arr) THEN tid ELSE Len(arr)

\* The result of the shift loop, ts[i] = t, s->s_type = ts, s_type_count++.
Inserted(tid, d, rec) ==
  [rc |-> Slot(tid),
   r |-> [Cur EXCEPT !.arr = InsertAt(arr, Slot(tid) + 1, d),
                     !.ptr = "live", !.desc[d] = rec, !.dalloc = @ \cup {d}]]

\* The realloc fails (-1, nothing changed), or create_type_katcp fails.
ReallocOrTypeFailures ==
  { [rc |-> -1, r |-> Cur] : o \in GrowOutcomes \cap {"fail"} }
  \cup { [rc |-> -1, r |-> [Cur EXCEPT !.ptr = StaleAfter(o)]] :
           o \in Grown, s \in FailSites \cap {"type"} }

\* Mutant: strdup's NULL result is not checked.
RegisterFailuresNoNameCheck(tid, n, cb) ==
  ReallocOrTypeFailures
  \cup { [rc |-> -1, r |-> [Cur EXCEPT !.ptr = StaleAfter(o),
                                      !.dalloc = @ \cup {d}, !.dfrees[d] = 1]] :
           o \in Grown, s \in FailSites \cap {"tree"}, d \in DescIds \ dalloc }
  \cup { Inserted(tid, d, [name |-> NULL, cb |-> cb, tree |-> EmptyTree]) :
           o \in Grown, s \in FailSites \cap {"name"}, d \in DescIds \ dalloc }

\* Mutant: a failed strdup or create_avltree returns without destroy_type_katcp.
RegisterFailuresLeak(tid, n, cb) ==
  ReallocOrTypeFailures
  \cup { [rc |-> -1, r |-> [Cur EXCEPT !.ptr = StaleAfter(o),
                                      !.dalloc = @ \cup {d}]] :
           o \in Grown, s \in FailSites \ {"type"}, d \in DescIds \ dalloc }

(***************************************************************************)
(* The failing outcomes.  realloc of the array to size+1 returns NULL: -1, *)
(* nothing changed.  Else create_type_katcp, strdup(tname) or              *)
(* create_avltree fails: the partly built descriptor is destroyed and -1   *)
(* returned, but the grown array is never stored in s->s_type, so if       *)
(* realloc moved the block, s->s_type still points at the one it freed.    *)
(***************************************************************************)
RegisterFailures(tid, n, cb) ==
  ReallocOrTypeFailures
  \cup { [rc |-> -1, r |-> [Cur EXCEPT !.ptr = StaleAfter(o),
                                      !.dalloc = @ \cup {d}, !.dfrees[d] = 1]] :
           o \in Grown, s \in FailSites \ {"type"}, d \in DescIds \ dalloc }

(* Success: the descriptor gets the name and the five callbacks and an     *)
(* empty tree, is shifted in at index tid, and i is returned.              *)
RegisterSuccess(tid, n, cb) ==
  { Inserted(tid, d, [name |-> n, cb |-> cb, tree |-> EmptyTree]) :
      o \in Grown, d \in DescIds \ dalloc }

RegisterAtId(tid, n, cb) ==
  RegisterFailures(tid, n, cb) \cup RegisterSuccess(tid, n, cb)

\* Mutant: an existing name is reported as registered at its index.
RegisterNameTypeReturnsFound(n, cb) ==
  LET pos == FindNameId(n) IN
  /\ \/ /\ pos >= 0
        /\ Return("register", pos) /\ UNCHANGED regVars
     \/ /\ pos < 0
        /\ \E x \in RegisterAtId(InsertionPoint(pos), n, cb) :
              Commit(x.r) /\ Return("register", x.rc)
  /\ UNCHANGED valVars

(***************************************************************************)
(* register_name_type_katcp: search; an existing name is refused with -1;  *)
(* otherwise decode the insertion point and register there.                *)
(***************************************************************************)
RegisterNameType(n, cb) ==
  LET pos == FindNameId(n) IN
  /\ \/ /\ pos >= 0
        /\ Return("register", -1) /\ UNCHANGED regVars
     \/ /\ pos < 0
        /\ \E x \in RegisterAtId(InsertionPoint(pos), n, cb) :
              Commit(x.r) /\ Return("register", x.rc)
  /\ UNCHANGED valVars

\* Mutant: the callback comparison is left out.
StoreIntoNoCallbackCheck(r, pos, k, v, cb) ==
  LET t == r.arr[pos + 1]
      tree == IF r.desc[t].tree = NULL THEN EmptyTree ELSE r.desc[t].tree
      withTree == [r EXCEPT !.desc[t].tree = tree]
  IN \/ /\ tree[k] # NoVal
        /\ Commit(withTree) /\ Return("store", -1)
        /\ freed' = FreeValue(freed, v, cb) /\ UNCHANGED inserted
     \/ /\ tree[k] = NoVal
        /\ Commit([withTree EXCEPT !.desc[t].tree[k] = v])
        /\ inserted' = inserted \cup {v}
        /\ Return("store", 0) /\ UNCHANGED freed

(***************************************************************************)
(* The part of store_data_type_katcp after the type is at index pos of     *)
(* registry r: compare all five callbacks with the type's; create the      *)
(* tree if the type has none; create_node_avltree; add_node_avltree, which *)
(* refuses a key already present, and then free_node_avltree(an, fn_free)  *)
(* runs the free callback on the caller's value.                           *)
(***************************************************************************)
StoreInto(r, pos, k, v, cb) ==
  LET t == r.arr[pos + 1]
      td == r.desc[t]
      tree == IF td.tree = NULL THEN EmptyTree ELSE td.tree
      withTree == [r EXCEPT !.desc[t].tree = tree]
  IN \/ /\ td.cb # cb
        /\ Commit(r) /\ Return("store", -1) /\ UNCHANGED <<inserted, freed>>
     \/ /\ td.cb = cb /\ td.tree = NULL /\ MallocMayFail
        /\ Commit(r) /\ Return("store", -1) /\ UNCHANGED <<inserted, freed>>
     \/ /\ td.cb = cb /\ MallocMayFail
        /\ Commit(withTree) /\ Return("store", -1)
        /\ UNCHANGED <<inserted, freed>>
     \/ /\ td.cb = cb /\ tree[k] # NoVal
        /\ Commit(withTree) /\ Return("store", -1)
        /\ freed' = FreeValue(freed, v, cb)
        /\ UNCHANGED inserted
     \/ /\ td.cb = cb /\ tree[k] = NoVal
        /\ Commit([withTree EXCEPT !.desc[t].tree[k] = v])
        /\ inserted' = inserted \cup {v}
        /\ Return("store", 0) /\ UNCHANGED freed


(***************************************************************************)
(* store_data_type_katcp(d, t_name, d_name, d_data, callbacks): search;    *)
(* a missing type is registered at the decoded insertion point (and a      *)
(* failure there returns -1); then insert into the type found or created.  *)
(* Each call hands over a fresh value nextVal.                             *)
(***************************************************************************)
StoreDataType(n, k, cb) ==
  LET v == nextVal
      pos == FindNameId(n)
  IN /\ v \in Vals
     /\ nextVal' = v + 1
     /\ given' = [given EXCEPT ![v] = cb]
     /\ \/ /\ pos >= 0
           /\ StoreInto(Cur, pos, k, v, cb)
        \/ /\ pos < 0
           /\ \E x \in RegisterAtId(InsertionPoint(pos), n, cb) :
                 \/ /\ x.rc < 0
                    /\ Commit(x.r) /\ Return("store", -1)
                    /\ UNCHANGED <<inserted, freed>>
                 \/ /\ x.rc >= 0
                    /\ StoreInto(x.r, x.rc, k, v, cb)

(***************************************************************************)
(* The array deregister_type_katcp leaves behind before its realloc:       *)
(* ts[pos] = NULL, then ts[pos..size-2] = ts[pos+1..size-1]; the last slot *)
(* keeps its old pointer, or NULL when pos was the last index.             *)
(***************************************************************************)
Compacted(pos) ==
  LET size == Len(arr) IN
  [i \in 1..size |-> IF i < size THEN RemoveAt(arr, pos + 1)[i]
                     ELSE IF pos + 1 = size THEN NULL ELSE arr[size]]

\* Mutant: ts[pos] is cleared without destroy_type_katcp(ts[pos]).
DeregisterTypeNoDestroy(n) ==
  LET pos == FindNameId(n)
      size == Len(arr)
  IN /\ \/ /\ pos < 0
           /\ Return("deregister", -1) /\ UNCHANGED regVars
        \/ /\ pos >= 0
           /\ arr' = SubSeq(Compacted(pos), 1, size - 1)
           /\ Return("deregister", 0)
           /\ UNCHANGED <<ptr, desc, dalloc, dfrees>>
     /\ UNCHANGED valVars

(***************************************************************************)
(* deregister_type_katcp: search; a missing name returns -1.  Otherwise    *)
(* destroy_type_katcp (destroy the tree with t_free, free the descriptor), *)
(* compact, then realloc the array to size-1.  A NULL result returns -1    *)
(* before s->s_type and s_type_count are updated: with glibc's realloc(p,  *)
(* 0) the array is already freed; on a failed shrink it still holds the    *)
(* last pointer twice.                                                     *)
(***************************************************************************)
DeregisterType(n) ==
  LET pos == FindNameId(n)
      size == Len(arr)
      d == arr[pos + 1]
  IN /\ \/ /\ pos < 0
           /\ Return("deregister", -1) /\ UNCHANGED <<regVars, freed>>
        \/ /\ pos >= 0
           /\ dfrees' = [dfrees EXCEPT ![d] = Bump(@)]
           /\ freed' = FreeTrees(freed, {d})
           /\ \E o \in ShrinkOutcomes(size - 1) :
                 \/ /\ o = "ok"
                    /\ arr' = SubSeq(Compacted(pos), 1, size - 1)
                    /\ UNCHANGED ptr /\ Return("deregister", 0)
                 \/ /\ o = "freed"
                    /\ arr' = Compacted(pos) /\ ptr' = "dangling"
                    /\ Return("deregister", -1)
                 \/ /\ o = "fail"
                    /\ arr' = Compacted(pos)
                    /\ UNCHANGED ptr /\ Return("deregister", -1)
           /\ desc' = [desc EXCEPT ![d] = NullDesc]
           /\ UNCHANGED dalloc
     /\ UNCHANGED <<nextVal, given, inserted>>

\* Mutant: the first loop does not set t->t_tree = NULL, so
\* destroy_type_katcp destroys every tree a second time.
DestroyTypeListNoReset ==
  /\ \/ /\ ptr = "null"
        /\ UNCHANGED <<regVars, freed>>
     \/ /\ ptr # "null"
        /\ freed' = FreeTrees(FreeTrees(freed, ToSet(arr)), ToSet(arr))
        /\ desc' = [d \in DescIds |->
                      IF d \in ToSet(arr) THEN NullDesc ELSE desc[d]]
        /\ dfrees' = [d \in DescIds |->
                        IF d \in ToSet(arr) THEN Bump(dfrees[d]) ELSE dfrees[d]]
        /\ arr' = <<>> /\ ptr' = "null"
        /\ UNCHANGED dalloc
  /\ Return("teardown", 0)
  /\ UNCHANGED <<nextVal, given, inserted>>

(***************************************************************************)
(* destroy_type_list_katcp: nothing to do when s->s_type is NULL.  Else    *)
(* first destroy every type's tree with its t_free and set t_tree = NULL,  *)
(* then destroy_type_katcp every entry (its tree is already gone), free    *)
(* the array, and reset s->s_type = NULL, s_type_count = 0.                *)
(***************************************************************************)
DestroyTypeList ==
  /\ \/ /\ ptr = "null"
        /\ UNCHANGED <<regVars, freed>>
     \/ /\ ptr # "null"
        /\ freed' = FreeTrees(freed, ToSet(arr) \ {NULL})
        /\ desc' = [d \in DescIds |->
                      IF d \in ToSet(arr) THEN NullDesc ELSE desc[d]]
        /\ dfrees' = [d \in DescIds |->
                        IF d \in ToSet(arr) THEN Bump(dfrees[d]) ELSE dfrees[d]]
        /\ arr' = <<>> /\ ptr' = "null"
        /\ UNCHANGED dalloc
  /\ Return("teardown", 0)
  /\ UNCHANGED <<nextVal, given, inserted>>

(***************************************************************************)
(* Read-only calls, used by the refinement mapping.                        *)
(***************************************************************************)
\* find_name_type_katcp: the descriptor at the found index, or NULL.
FindNameType(n) ==
  LET pos == FindNameId(n) IN IF pos < 0 THEN NULL ELSE arr[pos + 1]

\* get_key_data_type_katcp once the type t is found:
\* find_name_node_avltree(t->t_tree, key) and get_node_data_avltree; a
\* missing tree or key gives NULL, written NoVal here.
KeyData(t, k) == IF desc[t].tree = NULL THEN NoVal ELSE desc[t].tree[k]

(***************************************************************************)
(* get_id_type_katcp(d, id), as the set of pointers it can return: only    *)
(* id >= s_type_count is refused.  A negative id reads s->s_type[id],      *)
(* outside the array; its value is undefined, written "undefined".         *)
(***************************************************************************)
GetIdType(id) ==
  IF id >= Len(arr) THEN {NULL}
  ELSE IF id >= 0 THEN {arr[id + 1]}
  ELSE {"undefined"}

(* The elements of a set of ranks in ascending order.                      *)
Ascending(S) ==
  [i \in 1..Cardinality(S) |-> CHOOSE x \in S : Cardinality({y \in S : y < x}) = i - 1]

(***************************************************************************)
(* print_type_katcp(d, t, flags): nothing for t == NULL; else an inform    *)
(* "katcp type: <t_name>", then, when t has a tree, print_inorder_avltree  *)
(* emits one record per entry in key order (with t_print, or the default   *)
(* printer).  Records are <<"type", name>> and <<"key", key>>; where print *)
(* is evaluated keys are ranks in strcmp order.                            *)
(***************************************************************************)
PrintType(t) ==
  IF t = NULL THEN <<>>
  ELSE <<<<"type", desc[t].name>>>> \o
       (IF desc[t].tree = NULL THEN <<>>
        ELSE LET ks == Ascending({k \in Keys : desc[t].tree[k] # NoVal})
             IN [i \in 1..Len(ks) |-> <<"key", ks[i]>>])

\* Mutant: the loop starts at i = 1 and skips the first type.
PrintTypesFromOne ==
  IF ptr = "null" THEN <<>>
  ELSE FoldLeft(LAMBDA acc, t : acc \o PrintType(t), <<>>, Tail(arr))

(* print_types_katcp: nothing when s->s_type is NULL; else print_type_katcp *)
(* of ts[0] .. ts[size-1] in array order.                                  *)
PrintTypes ==
  IF ptr = "null" THEN <<>>
  ELSE FoldLeft(LAMBDA acc, t : acc \o PrintType(t), <<>>, arr)

(***************************************************************************)
(* The registry is created empty by the dispatch startup: s_type = NULL,   *)
(* s_type_count = 0.                                                       *)
(***************************************************************************)
Init ==
  /\ arr = <<>>
  /\ ptr = "null"
  /\ desc = [d \in DescIds |-> NullDesc]
  /\ dalloc = {}
  /\ dfrees = [d \in DescIds |-> 0]
  /\ nextVal = 1
  /\ given = [v \in Vals |-> NULL]
  /\ inserted = {}
  /\ freed = [v \in Vals |-> 0]
  /\ last = [op |-> "none", rc |-> 0]

Next ==
  \/ \E n \in Names, cb \in Callbacks : RegisterNameType(n, cb)
  \/ \E n \in Names, k \in Keys, cb \in Callbacks : StoreDataType(n, k, cb)
  \/ \E n \in Names : DeregisterType(n)
  \/ DestroyTypeList

Spec == Init /\ [][Next]_vars


-----------------------------------------------------------------------------
(***************************************************************************)
(* Invariants                                                              *)
(***************************************************************************)

TypeOK ==
  /\ ptr \in {"null", "live", "dangling"}
  /\ arr \in Seq(DescIds \cup {NULL})
  /\ dalloc \subseteq DescIds
  /\ desc \in [DescIds -> DescRec]
  /\ \A d \in ToSet(arr) \ {NULL} : desc[d].name \in Names
  /\ dfrees \in [DescIds -> 0..2]
  /\ nextVal \in 1..(MaxVals + 1)
  /\ given \in [Vals -> Callbacks \cup {NULL}]
  /\ inserted \subseteq Vals
  /\ freed \in [Vals -> 0..2]

Live(d) == d \in dalloc /\ dfrees[d] = 0

(* Spec section 3: after every registry operation the descriptor array is  *)
(* strictly ascending by name, so no two types share a name.  It rests on  *)
(* the search result, its decoding by both callers, and the shift loops of *)
(* register_at_id_type_katcp and deregister_type_katcp.                    *)
RegistrySorted == IsSorted(NameSeq, <)

(* The registry owns exactly the live descriptors, through a live array:   *)
(* s->s_type is NULL or a block that was not freed, every entry is a       *)
(* distinct descriptor that was not freed, every descriptor that was not   *)
(* freed is in the array, and none was freed twice.  The realloc calls of  *)
(* register_at_id_type_katcp and deregister_type_katcp, and the failure    *)
(* paths after them, are where this can break.                             *)
RegistryOwnsDescriptors ==
  /\ ptr # "dangling"
  /\ ptr = "null" => arr = <<>>
  /\ \A i, j \in 1..Len(arr) : i # j => arr[i] # arr[j]
  /\ \A x \in ToSet(arr) : x \in dalloc /\ Live(x)
  /\ \A d \in dalloc : Live(d) => d \in ToSet(arr)
  /\ \A d \in DescIds : dfrees[d] <= 1

(* Spec sections 3 and 8: a value inserted into a type's tree is never     *)
(* freed while the type holds it, and once the type is deregistered or the *)
(* list torn down, the free callback has run on it exactly once (when the  *)
(* type has one).  No free callback ever runs twice on a value.            *)
ValueLifecycle ==
  /\ \A v \in Vals : freed[v] <= 1
  /\ \A v \in inserted :
       LET held == \E d \in dalloc : Live(d) /\ v \in TreeVals(desc[d].tree)
       IN /\ held => freed[v] = 0
          /\ ~held /\ given[v] \in FreeingCallbacks => freed[v] = 1

(* "First writer wins" (spec section 9): every value a type holds was      *)
(* handed over with exactly the callbacks of that type, so its print and   *)
(* free callbacks are the ones its writer meant.                           *)
StoreRespectsContract ==
  \A d \in dalloc : Live(d) =>
     \A v \in TreeVals(desc[d].tree) : given[v] = desc[d].cb

(* Spec section 3: ownership of a value passes to the store "once          *)
(* inserted"; a store call that fails without inserting leaves the value  *)
(* with its caller, so no free callback may have run on it.                *)
RejectedValueNotFreed ==
  \A v \in 1..(nextVal - 1) : v \notin inserted => freed[v] = 0

(* The names the registry holds.                                          *)
RegisteredNames == {desc[arr[i]].name : i \in 1..Len(arr)}

(* Spec section 7: an allocation failure is fatal to the attempted         *)
(* operation and leaves the registry in its prior consistent state.  A     *)
(* store_data_type_katcp that returns -1 must leave the set of registered  *)
(* names as it was.  The code registers a missing type (line 264) before   *)
(* create_avltree and create_node_avltree (289-302), and does not undo the *)
(* registration when one of them fails.                                    *)
FailedStoreKeepsRegistry ==
  [][ last'.op = "store" /\ last'.rc < 0 => RegisteredNames' = RegisteredNames ]_vars

-----------------------------------------------------------------------------
(***************************************************************************)
(* Refinement: the array, search and memory implement the abstract map of  *)
(* KTypeAbstract.  The abstract map is read through the code's own lookup  *)
(* functions, so it is what a caller of find_name_type_katcp and           *)
(* get_key_data_type_katcp would see.                                      *)
(***************************************************************************)
AbsTypes ==
  [n \in Names |->
     LET t == FindNameType(n)
     IN IF t = NULL THEN NULL
        ELSE [cb |-> desc[t].cb, data |-> [k \in Keys |-> KeyData(t, k)]]]

Abs == INSTANCE KTypeAbstract
         WITH types <- AbsTypes, NoType <- NULL,
              op <- last.op,
              result <- IF last.rc >= 0 THEN "ok" ELSE "error",
              MayFail <- ReallocMayFail \/ MallocMayFail

(* Every behaviour of the registry is a behaviour of the abstract map.     *)
AbstractSpec == Abs!Spec

=============================================================================
