------------------------- MODULE MCLangGraphThread -------------------------
(***************************************************************************)
(* LangGraphThread with two turns in flight, which are interchangeable, and *)
(* so are the session keys of sibling agents.                               *)
(***************************************************************************)
EXTENDS LangGraphThread, TLC

Symmetry == Permutations(Turns) \cup Permutations(DeviceKeys)

=============================================================================
