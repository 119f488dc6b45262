---------------------------- MODULE MCMspaceStore ----------------------------
(* An instance of MspaceStore for TLC. Little is mapped at a time, so that  *)
(* a few blocks make the mspace grow: in front of where it starts and, if   *)
(* it is mapped, behind. Chunks of 600 bytes may be mapped for themselves.  *)
(* The second product does not fit in a word.                               *)
EXTENDS MspaceStore

MCGroups == {<<24, 40>>}

MCProducts == {[n |-> 2, size |-> 100], [n |-> 1100, size |-> 1001]}
=============================================================================
