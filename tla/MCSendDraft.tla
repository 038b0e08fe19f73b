---------------------------- MODULE MCSendDraft -----------------------------
(***************************************************************************)
(* The instance of SendDraft that TLC checks.  Calls of one tool, and the  *)
(* entries of the mutex map, are interchangeable.                          *)
(***************************************************************************)
EXTENDS SendDraft, TLC

Symmetry == Permutations(Updaters) \cup Permutations(Entries)
=============================================================================
