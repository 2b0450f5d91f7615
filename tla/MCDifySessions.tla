--------------------------- MODULE MCDifySessions ---------------------------
(***************************************************************************)
(* DifySessions with two turns in flight.  Turns are interchangeable, and   *)
(* so are the session keys of sibling agents: no definition tells two of    *)
(* them apart, which makes the symmetry sound for the safety properties.    *)
(***************************************************************************)
EXTENDS DifySessions, TLC

Symmetry == Permutations(Turns) \cup Permutations(DeviceKeys)

=============================================================================
