----------------------------- MODULE MCTurnLoop -----------------------------
(* TurnLoop for TLC: MCTurnLoop.cfg takes MAX_TOOL_ITERATIONS as it is in   *)
(* const.py and round-trips of up to four deltas; MCTurnLoopBlank.cfg is    *)
(* smaller, and shows what a reply that is the empty string leads to.       *)
EXTENDS TurnLoop

=============================================================================
