-------------------------- MODULE MCAttachmentCache --------------------------
(***************************************************************************)
(* The instance of AttachmentCache that TLC checks: two large attachments  *)
(* with one file name and a small one, which do not all fit under the      *)
(* ceiling, and two over the size cap, one of which declares less.         *)
(***************************************************************************)
EXTENDS AttachmentCache, TLC

MCAtts == {"a", "b", "small", "huge", "liar"}
MCSize == [a |-> 2, b |-> 3, small |-> 1, huge |-> 5, liar |-> 5]
MCDeclared == [MCSize EXCEPT !.liar = 3]
MCFilename == [x \in MCAtts |-> "f"]
Symmetry == Permutations(Calls)
=============================================================================
