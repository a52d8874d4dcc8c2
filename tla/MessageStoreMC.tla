--------------------------- MODULE MessageStoreMC ---------------------------
(***************************************************************************)
(* MessageStore with four calls: a message can be stored, and then three   *)
(* edits and deletions of it overlap in every order.                       *)
(***************************************************************************)
EXTENDS MessageStore, TLC

CONSTANTS c1, c2, c3, c4, t1, t2

MCCalls == {c1, c2, c3, c4}
MCTexts == {t1, t2}

\* Neither the calls nor the contents are told apart by anything but their name.
Symmetry == Permutations(MCCalls) \cup Permutations(MCTexts)
=============================================================================
