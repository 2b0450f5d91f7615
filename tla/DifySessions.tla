---------------------------- MODULE DifySessions ----------------------------
(***************************************************************************)
(* The Dify adapter's session map: which server-side conversation continues *)
(* a session key (backends/dify.py: _lookup, _remember, _drop and the       *)
(* stale-id retry of stream_turn).                                          *)
(*                                                                         *)
(* Turns run concurrently on one adapter.  A persisted key's map is read    *)
(* and written under the adapter's asyncio.Lock, in memory first and then   *)
(* as a whole to the Store, an await during which the turn can be cancelled *)
(* or Home Assistant restart.  A reload builds an adapter with a map and a  *)
(* lock of its own on the same Store, while turns of the old one go on.     *)
(***************************************************************************)
EXTENDS Naturals

CONSTANTS
    Turns,       \* turns that may be in flight at the same time
    DeviceKeys,  \* persisted session keys, "<subentry>:<device>" of one device
    ChatKeys,    \* conversation-scope session keys, kept in memory only
    LegacyKey,   \* the bare device id that sibling agents once shared
    None,        \* no conversation, or a map not loaded yet
    MaxConversations,   \* bound: conversations the server ever opens
    MaxAdapters         \* bound: adapters built by reloads

SessionKeys == DeviceKeys \cup ChatKeys
Conversations == 1..MaxConversations
Adapters == 1..MaxAdapters
MapKeys == SessionKeys \cup {LegacyKey}
Maps == [MapKeys -> Conversations \cup {None}]

ASSUME KeysAssumption ==
    /\ DeviceKeys \cap ChatKeys = {}
    /\ LegacyKey \notin SessionKeys
ASSUME BoundsAssumption == MaxConversations \in Nat \ {0} /\ MaxAdapters \in Nat \ {0}
ASSUME NoneAssumption == None \notin Conversations \cup Turns

VARIABLES
    \* The server
    opened,     \* conversations opened so far
    alive,      \* those that can be continued
    task,       \* the task each turn, or the POST that stops it, has to see to: none,
                \* unseen, seen, parked until a human answers it in Dify, or stopping
    \* Home Assistant
    disk,       \* the Store's map
    gen,        \* the current adapter
    map,        \* each adapter's map: device keys lazily loaded, chat keys in memory
    loaded,     \* adapters whose persisted map is loaded
    lock,       \* the turn that holds each adapter's lock, or None
    turn,       \* each turn's coroutine
    \* History, read by no action
    usedBy,     \* the session keys each conversation was continued under
    forgotten,  \* what each adapter's drops removed from its map
    mishaps     \* what the code's promises about the Store do not survive

server == <<opened, alive, task>>
history == <<usedBy, forgotten, mishaps>>
vars == <<server, disk, gen, map, loaded, lock, turn, history>>

Pcs == {"idle", "lookup", "saving_adopted", "posting", "drop", "saving_dropped",
        "waiting", "remember", "saving_remembered", "talking"}

\* key: the session key; on: the adapter; id: the echoed conversation;
\* cid: the conversation the server works in; sent: POSTs the server accepted.
IdleTurn == [pc |-> "idle", key |-> None, on |-> 0, id |-> None, cid |-> None, sent |-> 0]

TurnStates == [pc : Pcs, key : SessionKeys \cup {None}, on : 0..MaxAdapters,
               id : Conversations \cup {None}, cid : Conversations \cup {None}, sent : 0..2]

Saving(t) == turn[t].pc \in {"saving_adopted", "saving_dropped", "saving_remembered"}

EmptyMap == [k \in MapKeys |-> None]

\* A save was cancelled; the entry was reloaded under a turn that was looking its
\* key up.
Mishaps == {"save_cancelled", "reloaded_in_lookup"}

TaskStates == {"none", "unseen", "seen", "parked", "stopping"}

TypeOK ==
    /\ opened \in 0..MaxConversations
    /\ alive \subseteq 1..opened
    /\ task \in [Turns -> TaskStates]
    /\ disk \in Maps
    /\ gen \in Adapters
    /\ map \in [Adapters -> Maps]
    /\ loaded \subseteq Adapters
    /\ lock \in [Adapters -> Turns \cup {None}]
    /\ turn \in [Turns -> TurnStates]
    /\ usedBy \in [Conversations -> SUBSET SessionKeys]
    /\ forgotten \in [Adapters -> SUBSET Conversations]
    /\ mishaps \subseteq Mishaps
    \* The lock is held across a save and by nobody else.
    /\ \A g \in Adapters, t \in Turns : lock[g] = t <=> Saving(t) /\ turn[t].on = g

\* The Store left by an earlier version: nothing, or the device's conversation
\* under the legacy key, which the server may since have deleted.
Init ==
    /\ opened \in {0, 1}
    /\ alive \in SUBSET (1..opened)
    /\ task = [t \in Turns |-> "none"]
    /\ disk = [EmptyMap EXCEPT ![LegacyKey] = IF opened = 1 THEN 1 ELSE None]
    /\ gen = 1
    /\ map = [g \in Adapters |-> EmptyMap]
    /\ loaded = {}
    /\ lock = [g \in Adapters |-> None]
    /\ turn = [t \in Turns |-> IdleTurn]
    /\ usedBy = [c \in Conversations |-> {}]
    /\ forgotten = [g \in Adapters |-> {}]
    /\ mishaps = {}

-----------------------------------------------------------------------------
(* The session map                                                         *)

Goes(t, pc) == turn' = [turn EXCEPT ![t].pc = pc]
Over(t) == turn' = [turn EXCEPT ![t] = IdleTurn]

Persisted(t) == turn[t].key \in DeviceKeys
MapOf(t) == map[turn[t].on]
LockFree(t) == lock[turn[t].on] = None

\* self._persisted_map(), under the lock: what the adapter's map is once loaded.
\* The in-memory map of the chat keys is never in the Store.
Loaded(t) == IF turn[t].on \in loaded
             THEN MapOf(t)
             ELSE [k \in MapKeys |-> IF k \in ChatKeys THEN MapOf(t)[k] ELSE disk[k]]

MarkLoaded(t) == loaded' = loaded \cup {turn[t].on}

\* What a save writes: the whole persisted map of the turn's adapter.
SavedMap(t) == [k \in MapKeys |-> IF k \in ChatKeys THEN None ELSE MapOf(t)[k]]

\* The turn keeps the lock across its save.
BeginSave(t, newMap, pc) ==
    /\ map' = [map EXCEPT ![turn[t].on] = newMap]
    /\ lock' = [lock EXCEPT ![turn[t].on] = t]
    /\ Goes(t, pc)

EndSave(t) ==
    /\ disk' = SavedMap(t)
    /\ lock' = [lock EXCEPT ![turn[t].on] = None]

\* A turn arrives; its inputs are built before the map is consulted.
Start(t, k) ==
    /\ turn[t].pc = "idle"
    /\ turn' = [turn EXCEPT ![t] = [IdleTurn EXCEPT !.pc = "lookup", !.key = k, !.on = gen]]
    /\ task' = [task EXCEPT ![t] = "none"]
    /\ UNCHANGED <<opened, alive, disk, gen, map, loaded, lock, history>>

Adopts(t) ==
    /\ Loaded(t)[turn[t].key] = None
    /\ Loaded(t)[LegacyKey] # None

\* _lookup of a chat key, or of a device key that adopts nothing.
Lookup(t) ==
    /\ turn[t].pc = "lookup"
    /\ IF Persisted(t)
       THEN /\ LockFree(t)
            /\ ~Adopts(t)
            /\ MarkLoaded(t)
            /\ map' = [map EXCEPT ![turn[t].on] = Loaded(t)]
            /\ turn' = [turn EXCEPT ![t] = [@ EXCEPT !.pc = "posting", !.id = Loaded(t)[turn[t].key]]]
       ELSE /\ turn' = [turn EXCEPT ![t] = [@ EXCEPT !.pc = "posting", !.id = MapOf(t)[turn[t].key]]]
            /\ UNCHANGED <<map, loaded>>
    /\ UNCHANGED <<server, disk, gen, lock, history>>

\* Mutant: the legacy entry is copied instead of moved.
LookupCopyingLegacy(t) ==
    /\ turn[t].pc = "lookup"
    /\ Persisted(t)
    /\ LockFree(t)
    /\ Adopts(t)
    /\ MarkLoaded(t)
    /\ BeginSave(t, [Loaded(t) EXCEPT ![turn[t].key] = Loaded(t)[LegacyKey]], "saving_adopted")
    /\ UNCHANGED <<server, disk, gen, history>>

\* Mutant: the move is left to the next save.
LookupAdoptingUnsaved(t) ==
    /\ turn[t].pc = "lookup"
    /\ Persisted(t)
    /\ LockFree(t)
    /\ Adopts(t)
    /\ MarkLoaded(t)
    /\ map' = [map EXCEPT ![turn[t].on] =
                [Loaded(t) EXCEPT ![turn[t].key] = Loaded(t)[LegacyKey], ![LegacyKey] = None]]
    /\ turn' = [turn EXCEPT ![t] = [@ EXCEPT !.pc = "posting", !.id = Loaded(t)[LegacyKey]]]
    /\ UNCHANGED <<server, disk, gen, lock, history>>

\* _lookup of a device key moves the legacy entry to it, and saves.
LookupAdopting(t) ==
    /\ turn[t].pc = "lookup"
    /\ Persisted(t)
    /\ LockFree(t)
    /\ Adopts(t)
    /\ MarkLoaded(t)
    /\ BeginSave(t, [Loaded(t) EXCEPT ![turn[t].key] = Loaded(t)[LegacyKey], ![LegacyKey] = None],
                 "saving_adopted")
    /\ UNCHANGED <<server, disk, gen, history>>

SaveAdopted(t) ==
    /\ turn[t].pc = "saving_adopted"
    /\ EndSave(t)
    /\ turn' = [turn EXCEPT ![t] = [@ EXCEPT !.pc = "posting", !.id = MapOf(t)[turn[t].key]]]
    /\ UNCHANGED <<server, gen, map, loaded, history>>

-----------------------------------------------------------------------------
(* The request                                                             *)

\* The server accepts the POST: it continues the echoed conversation, or opens
\* one that the turn learns of with the first event.
Accept(t) ==
    /\ turn[t].pc = "posting"
    /\ \E c \in Conversations :
        /\ IF turn[t].id = None
           THEN c = opened + 1 /\ opened' = c /\ alive' = alive \cup {c}
           ELSE c = turn[t].id /\ c \in alive /\ UNCHANGED <<opened, alive>>
        /\ turn' = [turn EXCEPT ![t] = [@ EXCEPT !.pc = "waiting", !.cid = c, !.sent = turn[t].sent + 1]]
        /\ usedBy' = [usedBy EXCEPT ![c] = @ \cup {turn[t].key}]
    /\ task' = [task EXCEPT ![t] = "unseen"]
    /\ UNCHANGED <<disk, gen, map, loaded, lock, forgotten, mishaps>>

\* The server refuses to continue a deleted conversation: _ConversationGone.
RejectStale(t) ==
    /\ turn[t].pc = "posting"
    /\ turn[t].id \notin alive \cup {None}
    /\ Goes(t, "drop")
    /\ UNCHANGED <<server, disk, gen, map, loaded, lock, history>>

\* Any other pre-stream failure ends the turn, of the first POST or of the retry.
FailPost(t) ==
    /\ turn[t].pc = "posting"
    /\ Over(t)
    /\ UNCHANGED <<server, disk, gen, map, loaded, lock, history>>

Forget(t, id) == forgotten' = [forgotten EXCEPT ![turn[t].on] = @ \cup ({id} \ {None})]

\* Mutant: the lock is taken by hand, and the path that has nothing to pop forgets it.
DropKeepingLock(t) ==
    /\ turn[t].pc = "drop"
    /\ Persisted(t)
    /\ LockFree(t)
    /\ Loaded(t)[turn[t].key] = None
    /\ MarkLoaded(t)
    /\ map' = [map EXCEPT ![turn[t].on] = Loaded(t)]
    /\ lock' = [lock EXCEPT ![turn[t].on] = t]
    /\ turn' = [turn EXCEPT ![t] = [@ EXCEPT !.pc = "posting", !.id = None]]
    /\ UNCHANGED <<server, disk, gen, history>>

\* _drop finds nothing to pop, another turn dropped it: nothing to save.
DropNothing(t) ==
    /\ turn[t].pc = "drop"
    /\ Persisted(t)
    /\ LockFree(t)
    /\ Loaded(t)[turn[t].key] = None
    /\ MarkLoaded(t)
    /\ map' = [map EXCEPT ![turn[t].on] = Loaded(t)]
    /\ turn' = [turn EXCEPT ![t] = [@ EXCEPT !.pc = "posting", !.id = None]]
    /\ UNCHANGED <<server, disk, gen, lock, history>>

\* _drop pops whatever the key maps to by now, and the turn is sent once more.
Drop(t) ==
    /\ turn[t].pc = "drop"
    /\ IF Persisted(t)
       THEN /\ LockFree(t)
            /\ Loaded(t)[turn[t].key] # None
            /\ MarkLoaded(t)
            /\ BeginSave(t, [Loaded(t) EXCEPT ![turn[t].key] = None], "saving_dropped")
            /\ Forget(t, Loaded(t)[turn[t].key])
       ELSE /\ map' = [map EXCEPT ![turn[t].on][turn[t].key] = None]
            /\ turn' = [turn EXCEPT ![t] = [@ EXCEPT !.pc = "posting", !.id = None]]
            /\ Forget(t, MapOf(t)[turn[t].key])
            /\ UNCHANGED <<loaded, lock>>
    /\ UNCHANGED <<server, disk, gen, usedBy, mishaps>>

SaveDropped(t) ==
    /\ turn[t].pc = "saving_dropped"
    /\ EndSave(t)
    /\ turn' = [turn EXCEPT ![t] = [@ EXCEPT !.pc = "posting", !.id = None]]
    /\ UNCHANGED <<server, gen, map, loaded, history>>

-----------------------------------------------------------------------------
(* The stream                                                              *)

\* Mutant: the conversation is remembered even when it is the one that was echoed.
CaptureAlways(t) ==
    /\ turn[t].pc = "waiting"
    /\ task' = [task EXCEPT ![t] = "seen"]
    /\ IF Persisted(t)
       THEN Goes(t, "remember") /\ UNCHANGED map
       ELSE Goes(t, "talking") /\ map' = [map EXCEPT ![turn[t].on][turn[t].key] = turn[t].cid]
    /\ UNCHANGED <<opened, alive, disk, gen, loaded, lock, history>>

\* The first event names the task and the conversation; a new one is remembered,
\* a chat key at once and a device key once the turn has the lock.
Capture(t) ==
    /\ turn[t].pc = "waiting"
    /\ task' = [task EXCEPT ![t] = "seen"]
    /\ IF turn[t].cid # turn[t].id /\ Persisted(t)
       THEN Goes(t, "remember") /\ UNCHANGED map
       ELSE /\ Goes(t, "talking")
            /\ map' = IF turn[t].cid = turn[t].id THEN map
                      ELSE [map EXCEPT ![turn[t].on][turn[t].key] = turn[t].cid]
    /\ UNCHANGED <<opened, alive, disk, gen, loaded, lock, history>>

\* Mutant: the map is written without the lock.
RememberUnlocked(t) ==
    /\ turn[t].pc = "remember"
    /\ MarkLoaded(t)
    /\ BeginSave(t, [Loaded(t) EXCEPT ![turn[t].key] = turn[t].cid], "saving_remembered")
    /\ UNCHANGED <<server, disk, gen, history>>

Remember(t) ==
    /\ turn[t].pc = "remember"
    /\ LockFree(t)
    /\ MarkLoaded(t)
    /\ BeginSave(t, [Loaded(t) EXCEPT ![turn[t].key] = turn[t].cid], "saving_remembered")
    /\ UNCHANGED <<server, disk, gen, history>>

SaveRemembered(t) ==
    /\ turn[t].pc = "saving_remembered"
    /\ EndSave(t)
    /\ Goes(t, "talking")
    /\ UNCHANGED <<server, gen, map, loaded, history>>

\* workflow_paused: the chatflow waits for a human, and the turn speaks a notice.
PauseTurn(t) ==
    /\ turn[t].pc = "talking"
    /\ task[t] = "seen"
    /\ task' = [task EXCEPT ![t] = "parked"]
    /\ UNCHANGED <<opened, alive, disk, gen, map, loaded, lock, turn, history>>

\* The turn returns: message_end, with or without a reply, says that the task is over,
\* or a paused one is left to the human.
FinishTurn(t) ==
    /\ turn[t].pc = "talking"
    /\ Over(t)
    /\ task' = [task EXCEPT ![t] = "none"]
    /\ UNCHANGED <<opened, alive, disk, gen, map, loaded, lock, history>>

\* _stop_started_task: if the task's id was seen, a background POST that asks the
\* server to stop it.  An unseen task goes on, and nobody can stop it.
StopSeenTask(t) ==
    task' = [task EXCEPT ![t] = IF @ \in {"seen", "parked"} THEN "stopping" ELSE "none"]

\* _stop: the POST is answered, or its error is swallowed and the task goes on.
StopEnds(t) ==
    /\ task[t] = "stopping"
    /\ task' = [task EXCEPT ![t] = "none"]
    /\ UNCHANGED <<opened, alive, disk, gen, map, loaded, lock, turn, history>>

\* Mutant: a stream that breaks is retried like a stale conversation.
FailStreamAndRetry(t) ==
    /\ turn[t].pc \in {"waiting", "talking"}
    /\ StopSeenTask(t)
    /\ Goes(t, "drop")
    /\ UNCHANGED <<opened, alive, disk, gen, map, loaded, lock, history>>

\* An error event, an idle timeout or an end of file without message_end.  (The
\* stream of a paused chatflow is not read on.)
FailStream(t) ==
    /\ turn[t].pc \in {"waiting", "talking"}
    /\ task[t] # "parked"
    /\ StopSeenTask(t)
    /\ Over(t)
    /\ UNCHANGED <<opened, alive, disk, gen, map, loaded, lock, history>>

\* async with: a cancelled turn gives the lock back.
Release(t) == lock' = [g \in Adapters |-> IF lock[g] = t THEN None ELSE lock[g]]

\* The pipeline gives the turn up (barge-in).  A save under way may still reach
\* the Store or not.
Cancel(t) ==
    /\ turn[t].pc # "idle"
    /\ StopSeenTask(t)
    /\ Release(t)
    /\ IF Saving(t)
       THEN \/ disk' = SavedMap(t) /\ UNCHANGED mishaps
            \/ mishaps' = mishaps \cup {"save_cancelled"} /\ UNCHANGED disk
       ELSE UNCHANGED <<disk, mishaps>>
    /\ Over(t)
    /\ UNCHANGED <<opened, alive, gen, map, loaded, usedBy, forgotten>>

-----------------------------------------------------------------------------
(* The environment                                                         *)

\* The server deletes or completes a conversation.
Expire(c) ==
    /\ c \in alive
    /\ alive' = alive \ {c}
    /\ UNCHANGED <<opened, task, disk, gen, map, loaded, lock, turn, history>>

\* Home Assistant stops, at any point, and starts again: turns, map and lock are
\* gone, the Store is not.  What the server still runs nobody stops.
Restart ==
    /\ loaded # {} \/ \E t \in Turns : turn[t].pc # "idle"
    /\ turn' = [t \in Turns |-> IdleTurn]
    /\ task' = [t \in Turns |-> "none"]
    /\ map' = [g \in Adapters |-> EmptyMap]
    /\ loaded' = {}
    /\ lock' = [g \in Adapters |-> None]
    /\ forgotten' = [g \in Adapters |-> {}]
    /\ UNCHANGED <<opened, alive, disk, gen, usedBy, mishaps>>

\* The entry is reloaded: turns of the old adapter go on.
Reload ==
    /\ gen < MaxAdapters
    /\ gen' = gen + 1
    /\ mishaps' = mishaps \cup (IF \E t \in Turns : turn[t].pc \in {"lookup", "saving_adopted"}
                               THEN {"reloaded_in_lookup"} ELSE {})
    /\ UNCHANGED <<server, disk, map, loaded, lock, turn, usedBy, forgotten>>

UnderLock(t) == Lookup(t) \/ LookupAdopting(t) \/ Drop(t) \/ DropNothing(t) \/ Remember(t)

Answered(t) ==
    \/ SaveAdopted(t) \/ SaveDropped(t) \/ SaveRemembered(t)
    \/ Accept(t) \/ RejectStale(t) \/ FailPost(t)
    \/ Capture(t) \/ PauseTurn(t) \/ FinishTurn(t) \/ FailStream(t)

Next ==
    \/ \E t \in Turns :
        \/ \E k \in SessionKeys : Start(t, k)
        \/ UnderLock(t)
        \/ Answered(t)
        \/ Cancel(t)
        \/ StopEnds(t)
    \/ \E c \in Conversations : Expire(c)
    \/ Restart \/ Reload

Spec == Init /\ [][Next]_vars

-----------------------------------------------------------------------------
(* Properties                                                              *)

\* Sibling agents of one device never talk in one conversation: it is continued
\* under one session key only, the legacy conversation included, which _lookup
\* moves to the first agent that asks, and saves before the turn uses it, so that
\* a restart or a reload keeps the promise.  (Unless the reload struck while a turn
\* was looking its key up, as then both adapters may find the legacy entry, or a
\* save was cancelled, which leaves the move in memory only.)
OneAgentPerConversation ==
    mishaps \cap {"save_cancelled", "reloaded_in_lookup"} = {} =>
        \A c \in Conversations : \A j, k \in usedBy[c] : j = k

\* The turns are those ServerTurns specifies: the server accepts the user's message
\* at most once, as the retry of stream_turn only follows a POST it refused, and
\* whichever exit a turn takes, a task it has seen is over, paused in Dify or asked to
\* stop, a request that may fail.
Work == INSTANCE ServerTurns WITH
    active <- {t \in Turns : turn[t].pc # "idle"},
    sent <- [t \in Turns |-> turn[t].sent],
    work <- task

ImplementsServerTurns == Work!Spec

\* What an adapter dropped does not come back into its map, although other turns
\* looked it up before it was dropped and still talk in it.
ForgottenStaysForgotten ==
    \A g \in Adapters, k \in MapKeys : map[g][k] \notin forgotten[g]

\* Nothing is lost by a restart between turns: as long as one adapter only used
\* the Store and no save was cancelled, an unlocked map is the one on disk.
SavedWhenUnlocked ==
    \A g \in Adapters :
        loaded = {g} /\ lock[g] = None /\ "save_cancelled" \notin mishaps =>
            \A k \in MapKeys \ ChatKeys : disk[k] = map[g][k]

\* What the comment of _drop says: a mapping is forgotten after the server
\* rejected the id it maps to, so never that of a conversation it would continue.
OnlyRejectedForgotten == \A g \in Adapters : forgotten[g] \cap alive = {}

=============================================================================
