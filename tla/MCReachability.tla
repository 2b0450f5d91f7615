--------------------------- MODULE MCReachability ---------------------------
(* Reachability for TLC: one agent and one AI task entity, the threshold of *)
(* const.py, and a reload that leaves requests in flight on the old adapter. *)
EXTENDS Reachability

=============================================================================
