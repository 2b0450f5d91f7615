-------------------------- MODULE MCEntryLifecycle --------------------------
(* EntryLifecycle for TLC: two flows at the same time, one server with one   *)
(* key, entered or left empty, and an agent that is added, changed, removed. *)
EXTENDS EntryLifecycle, TLC

Symmetry == Permutations(Flows)

=============================================================================
