---------------------------- MODULE Reachability ----------------------------
(***************************************************************************)
(* One connection's reachability state, shared by all its entities: the    *)
(* count of consecutive unreachable round-trips on the backend adapter,    *)
(* the entities' availability that follows it through a dispatcher signal, *)
(* and the repair issue raised at a threshold (helpers.py).                *)
(*                                                                         *)
(* Round-trips of several conversation turns and AI tasks overlap, and a   *)
(* reload builds a new adapter, with a count of its own, while round-trips *)
(* of the old one are still in flight: their outcome is recorded on the    *)
(* adapter they started with, but the issue and the signal belong to the   *)
(* config entry and are therefore shared by old and new.  The entry may be *)
(* removed while they are in flight, too.                                  *)
(*                                                                         *)
(* What a round-trip counts as depends on the error the preset makes of it *)
(* (Verdicts).                                                             *)
(***************************************************************************)
EXTENDS Naturals, FiniteSets, Verdicts

CONSTANTS
    Agents,     \* conversation entities of the connection
    Tasks,      \* AI task entities of the connection
    Requests,   \* requests that may be in flight at the same time
    Threshold,  \* UNREACHABLE_ISSUE_THRESHOLD
    MaxSetups,  \* bound: successful setups, hence adapters built
    MaxCount    \* bound: unreachable round-trips counted on one adapter

Entities == Agents \cup Tasks

ASSUME DisjointPlatforms == Agents \cap Tasks = {}
ASSUME ThresholdAssumption == Threshold \in Nat \ {0}
ASSUME BoundsAssumption == MaxSetups \in Nat /\ MaxCount \in Nat

VARIABLES
    setup,      \* the config entry's state
    gen,        \* adapters built so far; the newest is entry.runtime_data
    count,      \* adapter.unreachable_turns of each adapter
    connected,  \* entities added to Home Assistant, listening to the signal
    avail,      \* _attr_available of each entity
    issue,      \* is the repair issue raised?
    reauth,     \* was a reauth flow started, and not yet completed?
    req,        \* the request in flight in each slot
    preset,     \* the connection's preset, fixed
    \* History, read by no action:
    issueBy,    \* the adapter whose round-trip last raised or cleared the issue
    late,       \* entities added while the backend was already counted down
    ended,      \* what the last round-trip met, of what kind, on which adapter
    outlived    \* was a request in flight when the entry was removed?

history == <<issueBy, late, ended, outlived>>
vars == <<setup, gen, count, connected, avail, issue, reauth, req, preset, history>>

Adapters == 1..MaxSetups
SetupStates == {"probing", "retrying", "auth_failed", "failed", "forwarding", "loaded",
                "unloading", "removing", "removed"}

\* The entities that the preset's platforms serve.
Served == IF preset \in TaskPresets THEN Entities ELSE Agents

Kinds == {"conversation", "ai_task"}
KindOf(e) == IF e \in Agents THEN "conversation" ELSE "ai_task"

Idle == [kind |-> "none", on |-> 0]
InFlight == [kind : Kinds, on : Adapters]

\* What a round-trip can end on; it is recorded by the error that makes of it.
Outcomes == TurnAnswers \cup {"cancelled"}

NoEnd == [answer |-> "none", kind |-> "none", on |-> 0]

TypeOK ==
    /\ setup \in SetupStates
    /\ gen \in 0..MaxSetups
    /\ count \in [Adapters -> 0..MaxCount]
    /\ connected \in SUBSET Entities
    /\ avail \in [Entities -> BOOLEAN]
    /\ issue \in BOOLEAN
    /\ reauth \in BOOLEAN
    /\ req \in [Requests -> InFlight \cup {Idle}]
    /\ issueBy \in 0..MaxSetups
    /\ late \in SUBSET Entities
    /\ preset \in Presets
    /\ ended \in [answer : Outcomes, kind : Kinds, on : Adapters] \cup {NoEnd}
    /\ outlived \in BOOLEAN

Init ==
    /\ setup = "probing"
    /\ gen = 0
    /\ count = [g \in Adapters |-> 0]
    /\ connected = {}
    /\ avail = [e \in Entities |-> TRUE]
    /\ issue = FALSE
    /\ reauth = FALSE
    /\ req = [r \in Requests |-> Idle]
    /\ issueBy = 0
    /\ late = {}
    /\ preset \in Presets
    /\ ended = NoEnd
    /\ outlived = FALSE

-----------------------------------------------------------------------------
(* Recording a round-trip (helpers.py)                                     *)

\* The reachability signal: every connected entity reads the count of its own
\* adapter, which is the current one, whichever adapter's round-trip sent it.
Signal ==
    /\ avail' = [e \in Entities |-> IF e \in connected THEN count'[gen] = 0 ELSE avail[e]]
    /\ late' = late \ connected

NoSignal == UNCHANGED <<avail, late>>

\* Mutant: the count is decremented instead of reset.
RecordReachedByOne(g) ==
    /\ count' = [count EXCEPT ![g] = @ - 1]
    /\ issue' = FALSE
    /\ issueBy' = g
    /\ IF count[g] > 0 THEN Signal ELSE NoSignal

\* Mutant: the count is reset before it is read, so no recovery is signalled.
RecordReachedResetFirst(g) ==
    /\ count' = [count EXCEPT ![g] = 0]
    /\ issue' = FALSE
    /\ issueBy' = g
    /\ IF count'[g] > 0 THEN Signal ELSE NoSignal

\* Mutant: only an adapter that counted a failure clears the issue.
RecordReachedIfDown(g) ==
    /\ count' = [count EXCEPT ![g] = 0]
    /\ IF count[g] > 0 THEN issue' = FALSE /\ issueBy' = g /\ Signal
                       ELSE NoSignal /\ UNCHANGED <<issue, issueBy>>

\* async_record_backend_reached.
RecordReached(g) ==
    /\ count' = [count EXCEPT ![g] = 0]
    /\ issue' = FALSE
    /\ issueBy' = g
    /\ IF count[g] > 0 THEN Signal ELSE NoSignal

\* Mutant: the entities go unavailable only once the issue is raised.
RecordUnreachableQuietly(g) ==
    /\ count[g] < MaxCount
    /\ count' = [count EXCEPT ![g] = @ + 1]
    /\ IF count'[g] = Threshold THEN Signal ELSE NoSignal
    /\ IF count'[g] >= Threshold THEN issue' = TRUE /\ issueBy' = g
                                 ELSE UNCHANGED <<issue, issueBy>>

\* Mutant: the issue waits for one round-trip too many.
RecordUnreachableLate(g) ==
    /\ count[g] < MaxCount
    /\ count' = [count EXCEPT ![g] = @ + 1]
    /\ IF count'[g] = 1 THEN Signal ELSE NoSignal
    /\ IF count'[g] > Threshold THEN issue' = TRUE /\ issueBy' = g
                                ELSE UNCHANGED <<issue, issueBy>>

\* async_record_backend_failure for an unreachable backend: the first failure
\* is signalled, the Threshold-th and every later one raises the issue.
RecordUnreachable(g) ==
    /\ count[g] < MaxCount
    /\ count' = [count EXCEPT ![g] = @ + 1]
    /\ IF count'[g] = 1 THEN Signal ELSE NoSignal
    /\ IF count'[g] >= Threshold THEN issue' = TRUE /\ issueBy' = g
                                 ELSE UNCHANGED <<issue, issueBy>>

RecordNothing == NoSignal /\ UNCHANGED <<count, issue, issueBy>>

\* A task re-raises the integration's own translated errors, a rate limit among
\* them, before it records anything; a conversation records every error.
Record(kind, g, w) ==
    LET err == TurnRaises(preset, w)
    IN  /\ ended' = [answer |-> w, kind |-> kind, on |-> g]
        /\ \/ kind = "ai_task" /\ IsTranslated(err) /\ RecordNothing /\ UNCHANGED reauth
           \/ /\ ~(kind = "ai_task" /\ IsTranslated(err))
              /\ reauth' = (reauth \/ (StartsReauth(err) /\ setup # "removed"))
              /\ IF IsUnreachable(err) THEN RecordUnreachable(g) ELSE RecordReached(g)

-----------------------------------------------------------------------------
(* Requests                                                                *)

\* A turn or task reaches an entity, available or not, and holds its adapter.
StartRequest(r, e) ==
    /\ req[r] = Idle
    /\ e \in connected
    /\ req' = [req EXCEPT ![r] = [kind |-> KindOf(e), on |-> gen]]
    /\ UNCHANGED <<setup, gen, count, connected, avail, issue, reauth, preset, history>>

\* The request's last round-trip ends with it.
EndRequest(r, w) ==
    /\ req[r] # Idle
    /\ w \in MayMeet(preset, req[r].kind)
    /\ Record(req[r].kind, req[r].on, w)
    /\ req' = [req EXCEPT ![r] = Idle]
    /\ UNCHANGED <<setup, gen, connected, preset, outlived>>

\* A cancellation is no Exception: nothing is recorded.
CancelRequest(r) ==
    /\ req[r] # Idle
    /\ ended' = [answer |-> "cancelled", kind |-> req[r].kind, on |-> req[r].on]
    /\ req' = [req EXCEPT ![r] = Idle]
    /\ RecordNothing
    /\ UNCHANGED <<setup, gen, connected, reauth, preset, outlived>>

\* A conversation's round-trip ends in tool calls: recorded, and the tool loop
\* goes on with the same adapter.
NextRound(r) ==
    /\ req[r] # Idle
    /\ req[r].kind = "conversation"
    /\ Record(req[r].kind, req[r].on, "good")
    /\ UNCHANGED <<setup, gen, connected, req, preset, outlived>>

-----------------------------------------------------------------------------
(* Setup, reload and removal (__init__.py)                                  *)

\* The probe answered: a fresh adapter, recorded as reached, is forwarded to
\* the platforms.
ProbeSucceeds(w) ==
    /\ setup = "probing"
    /\ ProbeRaises(preset, w) = "none"
    /\ gen < MaxSetups
    /\ gen' = gen + 1
    /\ setup' = "forwarding"
    /\ issue' = FALSE
    /\ issueBy' = gen'
    /\ UNCHANGED <<count, connected, avail, reauth, req, preset, late, ended, outlived>>

\* A rejected credential makes Home Assistant open a reauth flow
\* (ConfigEntryAuthFailed), an error of a type that setup expects makes it retry
\* with backoff (ConfigEntryNotReady), and any other ends the setup for good.
ProbeFails(w) ==
    LET raised == ProbeRaises(preset, w)
    IN  /\ setup = "probing"
        /\ raised # "none"
        /\ setup' = CASE IsA(raised, "BackendAuthError") -> "auth_failed"
                     [] IsA(raised, "BackendConnectionError") \/ raised = "TimeoutError" -> "retrying"
                     [] OTHER -> "failed"
        /\ reauth' = (reauth \/ setup' = "auth_failed")
        /\ UNCHANGED <<gen, count, connected, avail, issue, req, preset, history>>

Retry ==
    /\ setup = "retrying"
    /\ setup' = "probing"
    /\ UNCHANGED <<gen, count, connected, avail, issue, reauth, req, preset, history>>

\* A platform adds an entity: available until the first signal it hears.
AddEntity(e) ==
    /\ setup = "forwarding"
    /\ e \in Served \ connected
    /\ connected' = connected \cup {e}
    /\ avail' = [avail EXCEPT ![e] = TRUE]
    /\ late' = IF count[gen] > 0 THEN late \cup {e} ELSE late
    /\ UNCHANGED <<setup, gen, count, issue, reauth, req, preset, issueBy, ended, outlived>>

SetupDone ==
    /\ setup = "forwarding"
    /\ connected = Served
    /\ setup' = "loaded"
    /\ UNCHANGED <<gen, count, connected, avail, issue, reauth, req, preset, history>>

\* The user changes the entry or its agents, or completes the reauth flow: the
\* entry reloads, its entities go one by one, requests in flight stay.
Reload ==
    /\ setup \in {"loaded", "auth_failed", "failed"}
    /\ setup' = "unloading"
    /\ reauth' \in {reauth, FALSE}
    /\ ended' = NoEnd
    /\ UNCHANGED <<gen, count, connected, avail, issue, req, preset, issueBy, late, outlived>>

\* The user removes the entry: it is unloaded first.
Remove ==
    /\ setup \in {"loaded", "auth_failed", "failed", "retrying"}
    /\ setup' = "removing"
    /\ UNCHANGED <<gen, count, connected, avail, issue, reauth, req, preset, history>>

RemoveEntity(e) ==
    /\ setup \in {"unloading", "removing"}
    /\ e \in connected
    /\ connected' = connected \ {e}
    /\ late' = late \ {e}
    /\ UNCHANGED <<setup, gen, count, avail, issue, reauth, req, preset, issueBy, ended, outlived>>

Unloaded ==
    /\ setup = "unloading"
    /\ connected = {}
    /\ setup' = "probing"
    /\ UNCHANGED <<gen, count, connected, avail, issue, reauth, req, preset, history>>

\* Mutant: only the preset's Stores are deleted.
RemovedKeepingIssue ==
    /\ setup = "removing"
    /\ connected = {}
    /\ setup' = "removed"
    /\ issueBy' = 0
    /\ reauth' = FALSE
    /\ ended' = NoEnd
    /\ outlived' = (\E r \in Requests : req[r] # Idle)
    /\ UNCHANGED <<gen, count, connected, avail, issue, req, preset, late>>

\* async_remove_entry; Home Assistant has aborted the entry's flows.
Removed ==
    /\ setup = "removing"
    /\ connected = {}
    /\ setup' = "removed"
    /\ issue' = FALSE
    /\ issueBy' = 0
    /\ reauth' = FALSE
    /\ ended' = NoEnd
    /\ outlived' = (\E r \in Requests : req[r] # Idle)
    /\ UNCHANGED <<gen, count, connected, avail, req, preset, late>>

-----------------------------------------------------------------------------

Next ==
    \/ \E r \in Requests : \/ \E e \in Entities : StartRequest(r, e)
                           \/ \E w \in TurnAnswers : EndRequest(r, w)
                           \/ CancelRequest(r)
                           \/ NextRound(r)
    \/ \E e \in Entities : AddEntity(e) \/ RemoveEntity(e)
    \/ \E w \in ProbeAnswers : ProbeSucceeds(w) \/ ProbeFails(w)
    \/ Retry \/ SetupDone \/ Reload \/ Unloaded \/ Remove \/ Removed

Spec == Init /\ [][Next]_vars

-----------------------------------------------------------------------------
(* Properties                                                              *)

\* "every entity of a connection agrees on one reachability state": whatever
\* overlaps, an entity that was there when the outage began is available
\* exactly while the adapter it uses has no unreachable round-trip behind it.
EntitiesAgree ==
    \A e \in connected \ late : avail[e] <=> count[gen] = 0

\* No entity is left unavailable once the backend it uses was reached, late
\* comers and signals of another adapter's round-trips included.
NoneStuckUnavailable ==
    \A e \in connected : ~avail[e] => count[gen] > 0

\* The issue tells the current adapter's state, unless a round-trip that was
\* still in flight on an older adapter wrote it last.
IssueTracksAdapter ==
    issueBy = gen => (issue <=> gen # 0 /\ count[gen] >= Threshold)

\* A round-trip that the backend answered, with an error or not, clears the
\* count of its adapter and the issue, even one that an older adapter raised in
\* between; a task's rate limit is left out, because the task re-raises the
\* translated error unrecorded.
AnswerIsRecorded ==
    LET unrecorded == ended.kind = "ai_task" /\ ended.answer = "rate_limited" /\ preset = "openai_compat"
    IN  ended.answer \in (ReplyAnswers \cup LookupAnswers) \ {"down"} /\ ~unrecorded
        => count[ended.on] = 0 /\ ~issue

\* A round-trip whose backend could not be reached is counted, whatever error
\* the preset makes of the refused, dropped or silent connection.
OutageIsCounted == ended.answer = "down" => count[ended.on] > 0

\* "A 401/403 raises BackendStreamAuthError so the entity can start reauth for
\* every preset": once a reply was refused for its credentials, a reauth flow
\* was started, unless the entry is gone.
RejectionStartsReauth == ended.answer = "rejected" /\ setup # "removed" => reauth

\* "Delete the entry's repair issue": a removed entry leaves no issue behind,
\* which nothing would ever clear, unless a request was in flight that may have
\* raised it anew.
RemovalClearsIssue == setup = "removed" /\ ~outlived => ~issue

-----------------------------------------------------------------------------
(* Inductive invariant                                                     *)

\* Entities exist only between a setup and the end of the next unload.
ConnectedWhenSetUp ==
    /\ setup \in {"probing", "retrying", "auth_failed", "failed", "removed"} => connected = {}
    /\ connected # {} \/ setup \in {"forwarding", "loaded"} => gen # 0

\* Nothing was counted on an adapter that was not built yet.
UnbuiltUnused ==
    /\ \A g \in Adapters : g > gen => count[g] = 0
    /\ \A r \in Requests : req[r].on <= gen

\* Nothing is in flight once a removed entry was outlived by no request.
NothingOutlives == setup = "removed" /\ ~outlived => \A r \in Requests : req[r] = Idle

ReachInv ==
    /\ TypeOK
    /\ ConnectedWhenSetUp
    /\ UnbuiltUnused
    /\ EntitiesAgree
    /\ NoneStuckUnavailable
    /\ IssueTracksAdapter
    /\ AnswerIsRecorded
    /\ OutageIsCounted
    /\ RejectionStartsReauth
    /\ RemovalClearsIssue
    /\ NothingOutlives

=============================================================================
