----------------------------- MODULE ServerTurns -----------------------------
(***************************************************************************)
(* What a turn promises the server that does its work, whichever preset it  *)
(* uses: the user's message is accepted once at most, and when a turn ends  *)
(* the work whose name it has learned is over, paused for a human or asked  *)
(* to stop, unless Home Assistant stops first.  Being asked is all that is  *)
(* promised: the request to stop may be lost.  DifySessions (tasks) and     *)
(* LangGraphThread (runs) implement it.                                     *)
(***************************************************************************)
EXTENDS Naturals

CONSTANT Turns  \* turns that may be in flight at the same time

VARIABLES
    active,  \* turns in progress
    sent,    \* each turn's requests that the server accepted
    work     \* the work on the server that each turn, or its stop, has to see to: none,
             \* unseen as long as its name is unknown, seen, parked or stopping

turnVars == <<active, sent, work>>

Init ==
    /\ active = {}
    /\ sent = [t \in Turns |-> 0]
    /\ work = [t \in Turns |-> "none"]

\* A turn begins; the stop of an earlier one is no concern of it.
Begin(t) ==
    /\ t \notin active
    /\ active' = active \cup {t}
    /\ work' = [work EXCEPT ![t] = "none"]
    /\ UNCHANGED sent

Accept(t) ==
    /\ t \in active
    /\ sent[t] = 0
    /\ sent' = [sent EXCEPT ![t] = 1]
    /\ work' = [work EXCEPT ![t] = "unseen"]
    /\ UNCHANGED active

\* The stream names the work, so that it can be stopped from now on.
See(t) ==
    /\ t \in active
    /\ work[t] = "unseen"
    /\ work' = [work EXCEPT ![t] = "seen"]
    /\ UNCHANGED <<active, sent>>

\* The server is done; the turn may have a save left to do.
Finish(t) ==
    /\ t \in active
    /\ work' = [work EXCEPT ![t] = "none"]
    /\ UNCHANGED <<active, sent>>

\* The work waits for a human, who finishes it on the server.
Park(t) ==
    /\ t \in active
    /\ work[t] = "seen"
    /\ work' = [work EXCEPT ![t] = "parked"]
    /\ UNCHANGED <<active, sent>>

\* The turn ends, by whichever exit: its work is over, unknown or a human's, or the
\* turn has asked for it to be stopped.
Leave(t) ==
    /\ t \in active
    /\ active' = active \ {t}
    /\ sent' = [sent EXCEPT ![t] = 0]
    /\ \/ work' = [work EXCEPT ![t] = "none"]
       \/ work[t] \in {"seen", "parked"} /\ work' = [work EXCEPT ![t] = "stopping"]

\* The request to stop is answered, or fails: there is no second one.
StopEnds(t) ==
    /\ work[t] = "stopping"
    /\ work' = [work EXCEPT ![t] = "none"]
    /\ UNCHANGED <<active, sent>>

\* Home Assistant stops, and nobody stops what the server runs.
Crash ==
    /\ active' = {}
    /\ sent' = [t \in Turns |-> 0]
    /\ work' = [t \in Turns |-> "none"]

Next ==
    \/ \E t \in Turns :
        \/ Begin(t) \/ Accept(t) \/ See(t) \/ Park(t) \/ Finish(t) \/ Leave(t)
        \/ StopEnds(t)
    \/ Crash

Spec == Init /\ [][Next]_turnVars

=============================================================================
