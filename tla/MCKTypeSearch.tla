---------------------------- MODULE MCKTypeSearch ----------------------------
(***************************************************************************)
(* Checks binary_search_type_list_katcp against a reference definition of  *)
(* what it must return, over every strictly sorted name list drawn from    *)
(* NameUniverse and every searched name.  The state is the input; Next     *)
(* leaves it unchanged, so every input is an initial state.                *)
(***************************************************************************)
EXTENDS KTypeSearch, SequencesExt, FiniteSets

CONSTANT NameUniverse   \* ranks of the names that may appear

VARIABLES names, str

vars == <<names, str>>

(* Every sorted, duplicate-free list the registry can hold.                *)
SortedLists == { SetToSortSeq(S, <) : S \in SUBSET NameUniverse }

Init == names \in SortedLists /\ str \in NameUniverse

Next == UNCHANGED vars

Spec == Init /\ [][Next]_vars

TypeOK == names \in Seq(NameUniverse) /\ str \in NameUniverse

(* What the search promises (spec section 4.1): the 0-based index of str   *)
(* when present, otherwise -(p+1) where p is the number of names smaller   *)
(* than str, the position that keeps the list sorted.                      *)
ReferenceSearch(ns, s) ==
  IF \E i \in 1..Len(ns) : ns[i] = s
  THEN (CHOOSE i \in 1..Len(ns) : ns[i] = s) - 1
  ELSE -(Cardinality({ i \in 1..Len(ns) : ns[i] < s }) + 1)

(* binary_search_type_list_katcp returns exactly the reference result, and *)
(* the callers' decoding of a miss is an insertion point inside the list.  *)
SearchMatchesReference ==
  LET r == BinarySearchTypeList(names, Len(names), str)
  IN /\ r = ReferenceSearch(names, str)
     /\ r < 0 => InsertionPoint(r) \in 0..Len(names)

=============================================================================
