-------------------------- MODULE MCReplayHistory --------------------------
(* ReplayHistory for TLC: three turns, with tools, at a max_history of one.   *)
EXTENDS ReplayHistory

=============================================================================
