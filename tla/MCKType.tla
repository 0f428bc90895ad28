-------------------------------- MODULE MCKType --------------------------------
(***************************************************************************)
(* Instantiates KType for TLC.  Three names, the smallest being "", so a   *)
(* type can be inserted before, between and after others; two keys, so a   *)
(* store can hit a duplicate; one callback set with a free callback and    *)
(* one without, so callers can disagree; three descriptor addresses, so a  *)
(* name can be deregistered and registered again; three values.            *)
(***************************************************************************)
EXTENDS KType, TLC

CONSTANTS k1, k2, cbFree, cbPlain, d1, d2, d3

MCNames == {0, 1, 2}
MCKeys == {k1, k2}
MCCallbacks == {cbFree, cbPlain}
MCFreeing == {cbFree}
MCDescIds == {d1, d2, d3}

\* Keys and descriptor addresses are interchangeable for every property.
MCSymmetry == Permutations(MCKeys) \cup Permutations(MCDescIds)

=============================================================================
