---------------------------- MODULE KTypeUnitTest ----------------------------
(***************************************************************************)
(* The unit test main of src/katcp/ktype.c (UNIT_TEST_KTYPE): a fixed      *)
(* sequence of calls on the registry of KType, run under an allocator that *)
(* may fail.  startup_katcp is the empty registry of KType's Init (its     *)
(* own failure, and shutdown_katcp, are outside src/).  Every call passes  *)
(* NULL for all five callbacks.                                            *)
(*                                                                         *)
(* Type names and keys are ranks in strcmp order:                          *)
(*   "names" < "string" < "test";                                          *)
(*   "adam" < "john" < "perry" < "test1" < "test2" < "thisisalongstring".  *)
(***************************************************************************)
EXTENDS Integers, Sequences, SequencesExt, FiniteSets

CONSTANTS
  DescIds, NULL, NoVal,
  NoCallbacks,      \* the callback set of five NULL pointers
  ReallocMayFail, ReallocMayMove, MallocMayFail

VARIABLES arr, ptr, desc, dalloc, dfrees, nextVal, given, inserted, freed, last,
          pc,       \* the next statement of main
          rtn,      \* main's cumulative rtn
          out       \* the records print_types_katcp emitted

TNames == 1   TString == 2   TTest == 3
Adam == 1  John == 2  Perry == 3  Test1 == 4  Test2 == 5  Long == 6

K == INSTANCE KType
       WITH Names <- {TNames, TString, TTest}, Keys <- 1..6,
            Callbacks <- {NoCallbacks}, FreeingCallbacks <- {},
            MaxVals <- 6, ShrinkMayFail <- FALSE, ReallocZeroFrees <- FALSE

kvars == <<arr, ptr, desc, dalloc, dfrees, nextVal, given, inserted, freed, last>>
vars == <<kvars, pc, rtn, out>>

(* The statements of main after startup_katcp, in order.                  *)
Main == << <<"register", TTest>>, <<"register", TTest>>,
           <<"store", TNames, John>>,
           <<"store", TString, Test1>>, <<"store", TString, Test2>>,
           <<"store", TNames, Adam>>, <<"store", TNames, Perry>>,
           <<"store", TString, Long>>,
           <<"print">>, <<"teardown">> >>

Stmt == Main[pc]

At(kind) == pc \in 1..Len(Main) /\ Stmt[1] = kind

\* rtn += register_name_type_katcp(d, name, NULL, NULL, NULL, NULL, NULL);
Register ==
  /\ At("register")
  /\ K!RegisterNameType(Stmt[2], NoCallbacks)
  /\ rtn' = rtn + last'.rc /\ pc' = pc + 1 /\ UNCHANGED out

\* rtn += store_data_type_katcp(d, type, key, NULL, NULL x 5);
Store ==
  /\ At("store")
  /\ K!StoreDataType(Stmt[2], Stmt[3], NoCallbacks)
  /\ rtn' = rtn + last'.rc /\ pc' = pc + 1 /\ UNCHANGED out

\* print_types_katcp(d);
PrintAll ==
  /\ At("print")
  /\ out' = K!PrintTypes
  /\ pc' = pc + 1 /\ UNCHANGED <<kvars, rtn>>

\* destroy_type_list_katcp(d);  then shutdown_katcp and return 0.
Teardown ==
  /\ At("teardown")
  /\ K!DestroyTypeList
  /\ pc' = pc + 1 /\ UNCHANGED <<rtn, out>>

Init == K!Init /\ pc = 1 /\ rtn = 0 /\ out = <<>>

Next == Register \/ Store \/ PrintAll \/ Teardown

\* main runs to its end and returns: the final state has no successor.
Spec == Init /\ [][Next]_vars

-----------------------------------------------------------------------------
(* What print_types_katcp should emit for the registry as it is: the name  *)
(* of every registered type in strcmp order, each followed by the keys its *)
(* tree holds in strcmp order.  It is computed from the set of descriptors *)
(* the array holds, not from the array's order.                           *)
Listing ==
  LET ds == {arr[i] : i \in 1..Len(arr)}
      Of(n) == CHOOSE d \in ds : desc[d].name = n
      KeysOf(n) == IF desc[Of(n)].tree = NULL THEN {}
                   ELSE {k \in 1..6 : desc[Of(n)].tree[k] # NoVal}
      Entry(n) == <<<<"type", n>>>> \o
                  [i \in 1..Cardinality(KeysOf(n)) |-> <<"key", K!Ascending(KeysOf(n))[i]>>]
  IN FoldLeft(LAMBDA acc, n : acc \o Entry(n), <<>>, K!Ascending({desc[d].name : d \in ds}))

(* Spec section 8: print_all emits every type name in order, each followed *)
(* by its keys in lexicographic order.  Whatever calls of main failed,      *)
(* print_types_katcp lists exactly the registry: this rests on the sorted *)
(* insertion of register_name_type_katcp and store_data_type_katcp, and on *)
(* print_types_katcp walking all s_type_count entries.                    *)
PrintListsRegistry == [][At("print") => out' = Listing]_vars

=============================================================================
