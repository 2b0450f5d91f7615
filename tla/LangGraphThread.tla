-------------------------- MODULE LangGraphThread --------------------------
(***************************************************************************)
(* The LangGraph adapter's threads and pending-resume marks.  A turn looks  *)
(* up its session's thread: the one an earlier version kept for the device, *)
(* which the first agent that asks adopts, or one named after the session   *)
(* key.  A run that interrupts asks the user a question, the thread is      *)
(* marked, and the next turn on it takes the mark, confirms with the server *)
(* that an interrupt is still pending and sends the user's words as the     *)
(* answer (backends/langgraph.py: _thread_id, _take_pending_resume,         *)
(* _mark_pending_resume and the exits of stream_turn).  The turns are those *)
(* with a thread; an agent set to stateless runs has no thread, no mark and *)
(* nothing it could cancel.                                                 *)
(*                                                                         *)
(* The legacy map is guarded by an asyncio.Lock.  The marks are a dict in   *)
(* memory that no lock guards, lazily loaded from a Store which keeps those *)
(* of the persisted threads.  Turns interleave at every await; those that   *)
(* wait for the first load resume one right after the other, each with a    *)
(* dict of its own, and the last one's stays.                               *)
(***************************************************************************)
EXTENDS Naturals

CONSTANTS
    Turns,      \* turns that may be in flight at the same time
    DeviceKeys, \* session keys of sibling agents, "<subentry>:<device>" of one device
    ChatKeys,   \* conversation-scope session keys
    Device      \* the bare device id: the legacy map's key, and the thread it maps to

\* uuid5 names a thread after its session key, so the key stands for it.
SessionKeys == DeviceKeys \cup ChatKeys
Threads == SessionKeys \cup {Device}
Persisted == DeviceKeys \cup {Device}  \* threads whose marks are saved

ASSUME KeysAssumption ==
    /\ DeviceKeys \cap ChatKeys = {}
    /\ Device \notin SessionKeys
    \* The words that stand for no key are none.
    /\ Threads \cap {"none", "unloaded", "unsaved"} = {}

VARIABLES
    \* The server
    holds,     \* threads with a pending interrupt
    run,       \* the run each turn, or the POST that cancels it, has to see to:
               \* none, unseen, seen or stopping
    \* Home Assistant
    legacyDisk, \* the key that has the legacy thread in its Store, or none
    legacyMap, \* the same of the adapter's map, or unloaded
    disk,      \* the marks' Store
    toWrite,   \* the data of that Store's last save call
    loaded,    \* is the dict loaded?
    pending,   \* the marked threads in the adapter's dict
    turn,      \* each turn's coroutine
    \* History, read by no action
    owed,      \* threads marked by a finished turn, and not taken since
    owner      \* the first session key that used the legacy thread; unsaved, once
               \* the save of its adoption was cancelled

server == <<holds, run>>
legacy == <<legacyDisk, legacyMap, owner>>
store == <<disk, toWrite>>
vars == <<server, legacy, store, loaded, pending, turn, owed>>

Pcs == {"idle", "lookup", "saving_adopted", "loading", "waking", "saving_take", "checking",
        "posting", "streaming", "saving_mark"}

\* resume: the run is sent as a resume; overtaken: the interrupt it met is taken
\* by another run or client since; interrupted: the run asked a question.
IdleTurn == [pc |-> "idle", key |-> "none", thread |-> "none", resume |-> FALSE, 
             overtaken |-> FALSE, interrupted |-> FALSE]

TurnStates == [pc : Pcs, key : SessionKeys \cup {"none"}, thread : Threads \cup {"none"},
               resume : BOOLEAN, overtaken : BOOLEAN, interrupted : BOOLEAN]

RunStates == {"none", "unseen", "seen", "stopping"}

TypeOK ==
    /\ holds \subseteq Threads
    /\ run \in [Turns -> RunStates]
    /\ legacyDisk \in SessionKeys \cup {Device, "none"}
    /\ legacyMap \in SessionKeys \cup {Device, "none", "unloaded"}
    /\ disk \subseteq Persisted
    /\ toWrite \subseteq Persisted
    /\ loaded \in BOOLEAN
    /\ pending \subseteq Threads
    /\ turn \in [Turns -> TurnStates]
    /\ owed \subseteq Threads
    /\ owner \in SessionKeys \cup {"none", "unsaved"}
    \* The legacy map's lock is held across its save.
    /\ \A t, u \in Turns :
        turn[t].pc = "saving_adopted" /\ turn[u].pc = "saving_adopted" => t = u

\* The Stores may hold the device's thread of an earlier version, and marks of an
\* earlier run of Home Assistant, whose interrupts the server may hold or not.
Init ==
    /\ run = [t \in Turns |-> "none"]
    /\ legacyDisk \in {"none", Device}
    /\ legacyMap = "unloaded"
    /\ owner = "none"
    /\ disk \in SUBSET IF legacyDisk = Device THEN {Device} ELSE DeviceKeys
    /\ holds \in SUBSET disk
    /\ toWrite = disk
    /\ loaded = FALSE
    /\ pending = {}
    /\ turn = [t \in Turns |-> IdleTurn]
    /\ owed = disk

-----------------------------------------------------------------------------

Waking == \E t \in Turns : turn[t].pc = "waking"

\* Turn t is at pc, and no turn is about to resume from the first load.
At(t, pc) == turn[t].pc = pc /\ (pc = "waking" \/ ~Waking)

Thread(t) == turn[t].thread
Goes(t, pc) == turn' = [turn EXCEPT ![t].pc = pc]
Over(t) == turn' = [turn EXCEPT ![t] = IdleTurn]

\* Mutant: chats are saved too.
BeginSaveAll(dict) == toWrite' = dict

\* _save_pending: the Store is given the persisted threads of a dict.
BeginSave(dict) == toWrite' = dict \cap Persisted
EndSave == disk' = toWrite

Start(t, k) ==
    /\ At(t, "idle")
    /\ turn' = [turn EXCEPT ![t] = [IdleTurn EXCEPT !.pc = "lookup", !.key = k]]
    /\ run' = [run EXCEPT ![t] = "none"]
    /\ UNCHANGED <<holds, legacy, store, loaded, pending, owed>>

-----------------------------------------------------------------------------
(* The mark and the session's thread                                       *)

\* _take_pending_resume on thread th with a dict: the mark is popped, and saved if
\* the thread is persisted, before the server is asked.
Take(t, th, dict) ==
    /\ pending' = dict \ {th}
    /\ owed' = owed \ {th}
    /\ \E pc \in Pcs :
        /\ turn' = [turn EXCEPT ![t] = [@ EXCEPT !.pc = pc, !.thread = th]]
        /\ \/ th \notin dict /\ pc = "posting" /\ UNCHANGED toWrite
           \/ th \in dict \cap Persisted /\ pc = "saving_take" /\ BeginSave(pending')
           \/ th \in dict \ Persisted /\ pc = "checking" /\ UNCHANGED toWrite
    /\ UNCHANGED <<server, disk>>

\* The turn has its thread and takes the mark, or has to load the marks first.
Proceed(t, th) ==
    /\ owner' = IF th = Device /\ owner = "none" THEN turn[t].key ELSE owner
    /\ \/ loaded /\ Take(t, th, pending)
       \/ /\ ~loaded
          /\ turn' = [turn EXCEPT ![t] = [@ EXCEPT !.pc = "loading", !.thread = th]]
          /\ UNCHANGED <<server, store, pending, owed>>
    /\ UNCHANGED loaded

\* self._legacy, once loaded.
Legacy == IF legacyMap = "unloaded" THEN legacyDisk ELSE legacyMap

\* _thread_id has the lock, and nobody is saving.
HasLock(t) ==
    /\ At(t, "lookup")
    /\ \A u \in Turns : turn[u].pc # "saving_adopted"

Adopts(t) == turn[t].key \in DeviceKeys /\ Legacy = Device

Lookup(t) ==
    /\ HasLock(t)
    /\ ~Adopts(t)
    /\ legacyMap' = Legacy
    /\ Proceed(t, IF Legacy = turn[t].key THEN Device ELSE turn[t].key)
    /\ UNCHANGED legacyDisk

\* Mutant: the adoption is not saved.
LookupAdoptingUnsaved(t) ==
    /\ HasLock(t)
    /\ Adopts(t)
    /\ legacyMap' = turn[t].key
    /\ Proceed(t, Device)
    /\ UNCHANGED legacyDisk

\* The legacy thread moves to the first agent that asks.
LookupAdopting(t) ==
    /\ HasLock(t)
    /\ Adopts(t)
    /\ legacyMap' = turn[t].key
    /\ Goes(t, "saving_adopted")
    /\ UNCHANGED <<server, legacyDisk, owner, store, loaded, pending, owed>>

SaveAdopted(t) ==
    /\ At(t, "saving_adopted")
    /\ legacyDisk' = legacyMap
    /\ Proceed(t, Device)
    /\ UNCHANGED legacyMap

\* The Store's load ends and wakes every turn that waits for it.
LoadEnds ==
    /\ ~Waking
    /\ \E t \in Turns : turn[t].pc = "loading"
    /\ turn' = [t \in Turns |-> IF turn[t].pc = "loading"
                                THEN [turn[t] EXCEPT !.pc = "waking"] ELSE turn[t]]
    /\ UNCHANGED <<server, legacy, store, loaded, pending, owed>>

\* A woken turn builds a dict of its own from the file, which replaces the one
\* before; nothing was written since the load.
Wake(t) ==
    /\ At(t, "waking")
    /\ loaded' = TRUE
    /\ Take(t, Thread(t), disk)
    /\ UNCHANGED legacy

SaveTaken(t) ==
    /\ At(t, "saving_take")
    /\ EndSave
    /\ Goes(t, "checking")
    /\ UNCHANGED <<server, legacy, toWrite, loaded, pending, owed>>

\* Mutant: the mark alone decides.
CheckTrusting(t) ==
    /\ At(t, "checking")
    /\ turn' = [turn EXCEPT ![t] = [@ EXCEPT !.pc = "posting", !.resume = TRUE]]
    /\ UNCHANGED <<server, legacy, store, loaded, pending, owed>>

\* GET /threads/{id}: a thread that is gone has no interrupts either.
Check(t) ==
    /\ At(t, "checking")
    /\ turn' = [turn EXCEPT ![t] = [@ EXCEPT !.pc = "posting", !.resume = Thread(t) \in holds]]
    /\ UNCHANGED <<server, legacy, store, loaded, pending, owed>>

\* The check or the POST fails: the turn raises, the mark is gone.
FailRequest(t) ==
    /\ At(t, "checking") \/ At(t, "posting")
    /\ Over(t)
    /\ UNCHANGED <<server, legacy, store, loaded, pending, owed>>

-----------------------------------------------------------------------------
(* The run                                                                 *)

\* The turns about to resume thread th no longer find its interrupt.
Overtaken(th) ==
    [u \in Turns |-> IF turn[u].resume /\ Thread(u) = th
                     THEN [turn[u] EXCEPT !.overtaken = TRUE] ELSE turn[u]]

\* The server accepts the run, which answers or supersedes a pending interrupt.
Accept(t) ==
    /\ At(t, "posting")
    /\ holds' = holds \ {Thread(t)}
    /\ run' = [run EXCEPT ![t] = "unseen"]
    /\ turn' = [Overtaken(Thread(t)) EXCEPT ![t] =
                [IdleTurn EXCEPT !.pc = "streaming", !.key = turn[t].key, !.thread = Thread(t)]]
    /\ UNCHANGED <<legacy, store, loaded, pending, owed>>

\* The metadata event names the run.
SeeRun(t) ==
    /\ At(t, "streaming")
    /\ run[t] = "unseen"
    /\ run' = [run EXCEPT ![t] = "seen"]
    /\ UNCHANGED <<holds, legacy, store, loaded, pending, turn, owed>>

\* The run interrupts: the question is spoken.
Interrupt(t) ==
    /\ At(t, "streaming")
    /\ holds' = holds \cup {Thread(t)}
    /\ turn' = [turn EXCEPT ![t].interrupted = TRUE]
    /\ UNCHANGED <<run, legacy, store, loaded, pending, owed>>

RunOver(t) == run' = [run EXCEPT ![t] = "none"]

\* Mutant: the mark of a persisted thread stays in memory.
EndMarkedInMemory(t) ==
    /\ At(t, "streaming")
    /\ turn[t].interrupted
    /\ RunOver(t)
    /\ pending' = pending \cup {Thread(t)}
    /\ owed' = owed \cup {Thread(t)}
    /\ Over(t)
    /\ UNCHANGED <<holds, legacy, store, loaded>>

\* The stream of an interrupted run ends: the thread is marked.
EndMarked(t) ==
    /\ At(t, "streaming")
    /\ turn[t].interrupted
    /\ RunOver(t)
    /\ pending' = pending \cup {Thread(t)}
    /\ \/ /\ Thread(t) \in Persisted
          /\ BeginSave(pending')
          /\ turn' = [turn EXCEPT ![t] = [@ EXCEPT !.pc = "saving_mark", !.interrupted = FALSE]]
          /\ UNCHANGED owed
       \/ /\ Thread(t) \notin Persisted
          /\ Over(t)
          /\ owed' = owed \cup {Thread(t)}
          /\ UNCHANGED toWrite
    /\ UNCHANGED <<holds, legacy, disk, loaded>>

SaveMarked(t) ==
    /\ At(t, "saving_mark")
    /\ EndSave
    /\ owed' = owed \cup ({Thread(t)} \cap pending)
    /\ Over(t)
    /\ UNCHANGED <<server, legacy, toWrite, loaded, pending>>

\* The stream of any other run ends.
End(t) ==
    /\ At(t, "streaming")
    /\ ~turn[t].interrupted
    /\ RunOver(t)
    /\ Over(t)
    /\ UNCHANGED <<holds, legacy, store, loaded, pending, owed>>

\* An error event, or tools without a reply: the run is over on the server.
Error(t) ==
    /\ At(t, "streaming")
    /\ RunOver(t)
    /\ Over(t)
    /\ UNCHANGED <<holds, legacy, store, loaded, pending, owed>>

\* _fire_cancel: if the run is known, a background POST that asks the server to
\* cancel it.
FireCancel(t) == run' = [run EXCEPT ![t] = IF @ = "seen" THEN "stopping" ELSE "none"]

\* _cancel_run: the POST is answered (404, if the disconnect has stopped the run
\* already), or its failure is logged and the run goes on.
CancelEnds(t) ==
    /\ run[t] = "stopping"
    /\ run' = [run EXCEPT ![t] = "none"]
    /\ UNCHANGED <<holds, legacy, store, loaded, pending, turn, owed>>

\* Mutant: a broken stream is not an abandoned one.
BreakWithoutCancel(t) ==
    /\ At(t, "streaming")
    /\ Over(t)
    /\ UNCHANGED <<server, legacy, store, loaded, pending, owed>>

\* The socket drops or stays silent for too long.
Break(t) ==
    /\ At(t, "streaming")
    /\ FireCancel(t)
    /\ Over(t)
    /\ UNCHANGED <<holds, legacy, store, loaded, pending, owed>>

\* The pipeline gives the turn up at one of its awaits.  A save under way may
\* still reach its Store or not.
Cancel(t) ==
    /\ ~Waking
    /\ turn[t].pc # "idle"
    /\ IF turn[t].pc = "streaming" THEN FireCancel(t) ELSE UNCHANGED run
    /\ \/ turn[t].pc = "saving_adopted" /\ legacyDisk' = legacyMap
       \/ UNCHANGED legacyDisk
    /\ \/ turn[t].pc \in {"saving_take", "saving_mark"} /\ EndSave
       \/ UNCHANGED disk
    /\ owner' = IF turn[t].pc = "saving_adopted" /\ legacyDisk' # legacyMap
                THEN "unsaved" ELSE owner
    /\ Over(t)
    /\ UNCHANGED <<holds, legacyMap, toWrite, loaded, pending, owed>>

-----------------------------------------------------------------------------
(* The environment                                                         *)

\* A thread's interrupt is answered elsewhere, or the thread is deleted.
Resolve(th) ==
    /\ th \in holds
    /\ holds' = holds \ {th}
    /\ turn' = Overtaken(th)
    /\ UNCHANGED <<run, legacy, store, loaded, pending, owed>>

\* Home Assistant stops, at any point, and starts again.  (Bound: not once the save
\* of an adoption was lost, when the thread is again anyone's.)
Restart ==
    /\ owner # "unsaved"
    /\ loaded \/ legacyMap # "unloaded" \/ \E t \in Turns : turn[t].pc # "idle"
    /\ turn' = [t \in Turns |-> IdleTurn]
    /\ run' = [t \in Turns |-> "none"]
    /\ legacyMap' = "unloaded"
    /\ loaded' = FALSE
    /\ pending' = {}
    /\ toWrite' = disk
    /\ owed' = owed \cap Persisted
    /\ UNCHANGED <<holds, legacyDisk, owner, disk>>

TurnStep(t) ==
    \/ Lookup(t) \/ LookupAdopting(t) \/ SaveAdopted(t)
    \/ Wake(t) \/ SaveTaken(t) \/ Check(t) \/ FailRequest(t)
    \/ Accept(t) \/ SeeRun(t) \/ EndMarked(t) \/ SaveMarked(t) \/ End(t) \/ Error(t) \/ Break(t)

Next ==
    \/ \E t \in Turns : (\E k \in SessionKeys : Start(t, k)) \/ TurnStep(t) \/ Interrupt(t) \/ Cancel(t)
    \/ \E t \in Turns : CancelEnds(t)
    \/ LoadEnds
    \/ \E th \in Threads : Resolve(th)
    \/ Restart

Spec == Init /\ [][Next]_vars

-----------------------------------------------------------------------------
(* Properties                                                              *)

\* "A command.resume on a thread with no pending interrupt silently does nothing
\* (the user's utterance would be lost)": a resume meets an interrupt, unless
\* another turn or client took it after the check, the one gap the code leaves.
ResumeMeetsInterrupt ==
    \A t \in Turns :
        turn[t].pc = "posting" /\ turn[t].resume => turn[t].overtaken \/ Thread(t) \in holds

\* A question of a finished turn is not forgotten before a turn takes it up: its
\* mark is in memory or, after a restart, in the Store, although the turns of
\* other threads save the same file, and the first ones each load it.
QuestionRemembered ==
    owed \subseteq (IF loaded THEN pending ELSE disk)

\* "One agent keeps that thread and siblings get their own": whichever turns ask
\* first, at the same time, or after a restart, the legacy thread stays with the
\* session key that first used it, and that key stays with the thread.  (Unless a
\* cancelled save left the move in memory only.)
LegacyThreadHasOneOwner ==
    owner # "unsaved" =>
        \A t \in Turns :
            Thread(t) # "none" => (Thread(t) = Device <=> turn[t].key = owner)

\* The turns are those ServerTurns specifies: whichever exit a turn takes, a run it
\* has seen is over, or asked to be cancelled, a request that may fail.
Work == INSTANCE ServerTurns WITH
    active <- {t \in Turns : turn[t].pc # "idle"},
    sent <- [t \in Turns |-> IF turn[t].pc \in {"streaming", "saving_mark"} THEN 1 ELSE 0],
    work <- run

ImplementsServerTurns == Work!Spec

\* What the module's docstring says of an interrupt: "the next turn on that
\* thread is sent as" the answer, if the thread still has the interrupt pending.
AnswerResumes ==
    [][\A t \in Turns :
        turn[t].pc = "posting" /\ turn'[t].pc = "streaming"
            /\ Thread(t) \in holds => turn[t].resume]_vars

=============================================================================
