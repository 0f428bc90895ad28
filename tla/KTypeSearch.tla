----------------------------- MODULE KTypeSearch -----------------------------
(***************************************************************************)
(* binary_search_type_list_katcp (src/katcp/ktype.c): the search over the  *)
(* sorted array of type descriptors that every registry operation uses.    *)
(*                                                                         *)
(* A type name is represented by its rank in strcmp order, so the name     *)
(* comparison strcmp(str, t->t_name) becomes integer comparison; the empty *)
(* string "" is the smallest name.  `names` is the sequence of names of    *)
(* ts[0..t_size-1] (TLA+ index i+1 holds C index i).  Results are in the   *)
(* code's encoding: a found C index >= 0, or -(low+1) where low is the     *)
(* position at which str would have to be inserted.                        *)
(***************************************************************************)
EXTENDS Integers, Sequences

\* A loop condition `low < high` instead of `low <= high`: it never looks at
\* the last remaining candidate.
RECURSIVE SearchLoopStrict(_, _, _, _)
SearchLoopStrict(names, str, low, high) ==
  IF low >= high THEN -(low + 1)
  ELSE LET mid == low + ((high - low) \div 2)
       IN CASE str = names[mid + 1] -> mid
            [] str < names[mid + 1] -> SearchLoopStrict(names, str, low, mid - 1)
            [] OTHER                -> SearchLoopStrict(names, str, mid + 1, high)

BinarySearchTypeListStrict(names, size, str) ==
  IF size = 0 THEN -1 ELSE SearchLoopStrict(names, str, 0, size - 1)

(***************************************************************************)
(* The while (low <= high) loop: mid = low + (high-low)/2, compare, then   *)
(* return mid, or continue with high = mid-1 or low = mid+1.               *)
(***************************************************************************)
RECURSIVE SearchLoop(_, _, _, _)
SearchLoop(names, str, low, high) ==
  IF low > high THEN -(low + 1)
  ELSE LET mid == low + ((high - low) \div 2)
       IN CASE str = names[mid + 1] -> mid
            [] str < names[mid + 1] -> SearchLoop(names, str, low, mid - 1)
            [] OTHER                -> SearchLoop(names, str, mid + 1, high)

(* The early return -1 for an empty list, then the loop from [0, size-1].  *)
BinarySearchTypeList(names, size, str) ==
  IF size = 0 THEN -1 ELSE SearchLoop(names, str, 0, size - 1)

\* Mutant: the decoding forgets the +1.
InsertionPointNoIncrement(pos) == pos * (-1)

(* The decoding done by every caller: pos = (pos+1) * (-1).                *)
InsertionPoint(pos) == (pos + 1) * (-1)

=============================================================================
