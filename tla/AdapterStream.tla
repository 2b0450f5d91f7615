--------------------------- MODULE AdapterStream ---------------------------
(***************************************************************************)
(* What a preset promises of one round-trip: the contract that the tool     *)
(* loop and its callers (TurnLoop) rest on.  A stream yields deltas into    *)
(* the chat log, the first one with a role, and either raises or ends.  It  *)
(* ends without any delta or with a block that got something; that may be   *)
(* the empty string, and the log then ends on what preceded the block, be   *)
(* it the result of a tool that the backend ran (TurnLoop shows what that   *)
(* costs).  On such a result itself, or on a block opened for nothing, a    *)
(* stream never ends.                                                       *)
(***************************************************************************)
EXTENDS ChatLog

VARIABLES phase, entry, block

vars == <<phase, entry, block>>

Init ==
    /\ phase = "streaming"
    /\ entry \in {User, HaResult}
    /\ block = NoBlock

Emit(d) ==
    /\ phase = "streaming"
    /\ block # NoBlock \/ CarriesRole(d)
    /\ entry' = EntryAfter(entry, block, d)
    /\ block' = BlockAfter(block, d)
    /\ UNCHANGED phase

End ==
    /\ phase = "streaming"
    /\ block # {}
    /\ phase' = "ended"
    /\ entry' = Flushed(entry, block)
    /\ block' = NoBlock

Raise ==
    /\ phase = "streaming"
    /\ phase' = "raised"
    /\ UNCHANGED <<entry, block>>

Next == (\E d \in Deltas : Emit(d)) \/ End \/ Raise

Spec == Init /\ [][Next]_vars

=============================================================================
