------------------------ MODULE DifySessions_proofs ------------------------
(***************************************************************************)
(* Proofs about DifySessions, for any number of turns, agents, chats,       *)
(* conversations and adapters: its types, that its turns are those          *)
(* ServerTurns specifies, that an unlocked map is saved, that what was      *)
(* dropped stays forgotten, and that a conversation is one agent's.         *)
(***************************************************************************)
EXTENDS DifySessions, TLAPS

-----------------------------------------------------------------------------
(* Where a turn is                                                         *)

\* Awaits with the lock, and those that follow the server's acceptance.
SavingPcs == {"saving_adopted", "saving_dropped", "saving_remembered"}
Accepted == {"waiting", "remember", "saving_remembered", "talking"}

\* What the fields of a turn s with task w are at each of its awaits, when the maps
\* of the adapters in l are loaded.
Fits(s, w, l) ==
    /\ s.pc # "idle" => s.key \in SessionKeys /\ s.on \in Adapters
    /\ s.pc \in SavingPcs \cup {"remember"} => s.key \in DeviceKeys
    /\ s.pc \notin {"idle", "lookup"} /\ s.key \in DeviceKeys => s.on \in l
    /\ s.sent = IF s.pc \in Accepted THEN 1 ELSE 0
    /\ s.pc = "waiting" => w = "unseen" /\ (s.id = None \/ s.id = s.cid)
    /\ s.pc = "remember" => s.id = None
    /\ s.pc \in {"remember", "saving_remembered"} => w = "seen"
    /\ s.pc = "talking" => w \in {"seen", "parked"}
    /\ s.pc = "idle" => w \in {"none", "stopping"}
    /\ s.pc \notin Accepted \cup {"idle"} => w = "none"

Placed == \A t \in Turns : Fits(turn[t], task[t], loaded)

PlacedInv == TypeOK /\ Placed

LEMMA IdleTyped ==
    /\ IdleTurn \in TurnStates /\ IdleTurn.pc = "idle" /\ IdleTurn.sent = 0
    /\ IdleTurn.key = None /\ IdleTurn.on = 0 /\ IdleTurn.id = None
BY BoundsAssumption DEF IdleTurn, TurnStates, Pcs

LEMMA InitPlaced == Init => PlacedInv
<1> SUFFICES ASSUME Init PROVE PlacedInv
  OBVIOUS
<1>1. IdleTurn \in TurnStates /\ IdleTurn.pc = "idle" /\ IdleTurn.sent = 0
  BY IdleTyped
<1>2. EmptyMap \in Maps
  BY DEF EmptyMap, Maps
<1>3. disk \in Maps
  <2>1. (IF opened = 1 THEN 1 ELSE None) \in Conversations \cup {None}
    BY BoundsAssumption DEF Conversations
  <2>2. QED BY <2>1 DEF Init, EmptyMap, Maps
<1>4. /\ \A t \in Turns : turn[t] = IdleTurn /\ task[t] = "none"
      /\ \A g \in Adapters : lock[g] = None
  BY DEF Init
<1>5. TypeOK
  <2>1. opened \in 0..MaxConversations /\ gen \in Adapters
    BY BoundsAssumption DEF Init, Adapters
  <2>2. \A g \in Adapters, t \in Turns : lock[g] = t <=> Saving(t) /\ turn[t].on = g
    BY <1>1, <1>4, NoneAssumption DEF Saving
  <2>3. QED BY <1>1, <1>2, <1>3, <2>1, <2>2 DEF Init, TypeOK, TaskStates
<1>6. Placed
  BY <1>1, <1>4 DEF Placed, Fits, SavingPcs, Accepted
<1>7. QED BY <1>5, <1>6 DEF PlacedInv

\* One turn moves to a state that fits its place, and takes its adapter's lock when
\* it is free, or gives it back.
LEMMA PlacedMove ==
    ASSUME PlacedInv, NEW t \in Turns, NEW s \in TurnStates, NEW w \in TaskStates,
           turn' = [turn EXCEPT ![t] = s], task' = [task EXCEPT ![t] = w],
           loaded \subseteq loaded', loaded' \subseteq Adapters,
           Fits(s, w, loaded'),
           lock' \in [Adapters -> Turns \cup {None}],
           \A g \in Adapters : lock'[g] = IF s.pc \in SavingPcs /\ s.on = g THEN t
                                          ELSE IF lock[g] = t THEN None ELSE lock[g],
           s.pc \in SavingPcs => lock[s.on] = None \/ lock[s.on] = t,
           opened' \in 0..MaxConversations, alive' \subseteq 1..opened', disk' \in Maps,
           gen' = gen, map' \in [Adapters -> Maps],
           usedBy' \in [Conversations -> SUBSET SessionKeys],
           forgotten' \in [Adapters -> SUBSET Conversations],
           mishaps' \subseteq Mishaps
    PROVE  PlacedInv'
<1>1. \A u \in Turns : /\ turn'[u] = IF u = t THEN s ELSE turn[u]
                       /\ task'[u] = IF u = t THEN w ELSE task[u]
  BY DEF PlacedInv, TypeOK
<1>2. turn' \in [Turns -> TurnStates] /\ task' \in [Turns -> TaskStates]
  BY DEF PlacedInv, TypeOK, TaskStates
<1>3. ASSUME NEW g \in Adapters, NEW u \in Turns
      PROVE  lock'[g] = u <=> Saving(u)' /\ turn'[u].on = g
  <2>1. u # None /\ t # None
    BY NoneAssumption
  <2>2. lock[g] = u <=> Saving(u) /\ turn[u].on = g
    BY DEF PlacedInv, TypeOK
  <2>3. QED BY <1>1, <2>1, <2>2 DEF Saving, SavingPcs
<1>4. TypeOK'
  BY <1>2, <1>3 DEF PlacedInv, TypeOK, TaskStates
<1>5. Placed'
  BY <1>1 DEF PlacedInv, Placed, Fits
<1>6. QED BY <1>4, <1>5 DEF PlacedInv

\* The maps that a turn reads, writes and saves.
LEMMA MapsTyped ==
    ASSUME PlacedInv, NEW t \in Turns, turn[t].pc # "idle"
    PROVE  /\ turn[t] \in TurnStates /\ turn[t].on \in Adapters /\ turn[t].key \in MapKeys
           /\ MapOf(t) \in Maps /\ Loaded(t) \in Maps /\ SavedMap(t) \in Maps
           /\ \A k \in MapKeys, v \in Conversations \cup {None} :
                [Loaded(t) EXCEPT ![k] = v] \in Maps
<1>1. turn[t] \in TurnStates /\ turn[t].on \in Adapters /\ turn[t].key \in MapKeys
  BY DEF PlacedInv, Placed, Fits, TypeOK, MapKeys
<1>2. MapOf(t) \in Maps
  BY <1>1 DEF MapOf, PlacedInv, TypeOK
<1>3. Loaded(t) \in Maps /\ SavedMap(t) \in Maps
  BY <1>2 DEF Loaded, SavedMap, Maps, PlacedInv, TypeOK
<1>4. \A k \in MapKeys, v \in Conversations \cup {None} : [Loaded(t) EXCEPT ![k] = v] \in Maps
  BY <1>3 DEF Maps
<1>5. QED BY <1>1, <1>2, <1>3, <1>4

\* A turn arrives.
LEMMA PlacedStart ==
    ASSUME PlacedInv, NEW t \in Turns, NEW k \in SessionKeys, Start(t, k)
    PROVE  PlacedInv'
<1> DEFINE s == [IdleTurn EXCEPT !.pc = "lookup", !.key = k, !.on = gen]
<1>1. gen \in Adapters /\ gen \in 0..MaxAdapters
  BY BoundsAssumption DEF PlacedInv, TypeOK, Adapters
<1>2. /\ s \in TurnStates /\ s.pc = "lookup" /\ s.key = k /\ s.on = gen /\ s.sent = 0
  BY <1>1, IdleTyped DEF TurnStates, Pcs
<1>3. turn' = [turn EXCEPT ![t] = s] /\ task' = [task EXCEPT ![t] = "none"]
  BY DEF Start
<1>4. UNCHANGED <<opened, alive, disk, gen, map, loaded, lock, usedBy, forgotten, mishaps>>
  BY DEF Start, history
<1>5. \A g \in Adapters : lock[g] # t
  BY DEF Start, PlacedInv, TypeOK, Saving
<1> HIDE DEF s
<1>6. Fits(s, "none", loaded')
  BY <1>1, <1>2 DEF Fits, SavingPcs, Accepted
<1>7. QED BY <1>2, <1>3, <1>4, <1>5, <1>6, PlacedMove, ZenonT(60) DEF PlacedInv, TypeOK, TaskStates, SavingPcs

\* A turn looks its key up, or finds nothing to drop, without a save.
LEMMA PlacedRead ==
    ASSUME PlacedInv, NEW t \in Turns, Lookup(t) \/ DropNothing(t)
    PROVE  PlacedInv'
<1>1. turn[t].pc \in {"lookup", "drop"} /\ turn[t].key \in SessionKeys
  BY DEF Lookup, DropNothing, PlacedInv, Placed, Fits
<1>2. /\ turn[t] \in TurnStates /\ turn[t].on \in Adapters
      /\ MapOf(t) \in Maps /\ Loaded(t) \in Maps /\ turn[t].key \in MapKeys
  BY <1>1, MapsTyped
<1>3. PICK id \in Conversations \cup {None} :
        turn' = [turn EXCEPT ![t] = [@ EXCEPT !.pc = "posting", !.id = id]]
  <2>1. Loaded(t)[turn[t].key] \in Conversations \cup {None} /\ MapOf(t)[turn[t].key] \in Conversations \cup {None}
    BY <1>2 DEF Maps
  <2> HIDE DEF Loaded, MapOf
  <2>2. QED BY <2>1 DEF Lookup, DropNothing
<1> DEFINE s == [turn[t] EXCEPT !.pc = "posting", !.id = id]
<1>4. /\ s \in TurnStates /\ s.pc = "posting" /\ s.key = turn[t].key /\ s.on = turn[t].on
      /\ s.sent = turn[t].sent
  BY <1>2 DEF TurnStates, Pcs
<1>5. turn' = [turn EXCEPT ![t] = s]
  BY <1>3
<1>6. UNCHANGED <<opened, alive, task, disk, gen, lock, usedBy, forgotten, mishaps>>
  BY DEF Lookup, DropNothing, server, history
<1>7. /\ loaded \subseteq loaded' /\ loaded' \subseteq Adapters
      /\ map' \in [Adapters -> Maps]
      /\ turn[t].key \in DeviceKeys => turn[t].on \in loaded'
  BY <1>2 DEF Lookup, DropNothing, MarkLoaded, Persisted, PlacedInv, TypeOK
<1>8. \A g \in Adapters : lock[g] # t
  BY <1>1 DEF PlacedInv, TypeOK, Saving
<1>9. task' = [task EXCEPT ![t] = task[t]] /\ task[t] \in TaskStates
  BY <1>6 DEF PlacedInv, TypeOK, TaskStates
<1> HIDE DEF s
<1>10. Fits(s, task[t], loaded')
  BY <1>1, <1>2, <1>4, <1>7 DEF PlacedInv, Placed, Fits, SavingPcs, Accepted
<1>11. QED BY <1>4, <1>5, <1>6, <1>7, <1>8, <1>9, <1>10, PlacedMove, ZenonT(60) DEF PlacedInv, TypeOK, SavingPcs

\* A turn changes its adapter's map and keeps the lock for the save.
LEMMA PlacedBegin ==
    ASSUME PlacedInv, NEW t \in Turns,
           LookupAdopting(t) \/ (Drop(t) /\ Persisted(t)) \/ Remember(t)
    PROVE  PlacedInv'
<1>1. /\ turn[t].pc \in {"lookup", "drop", "remember"} /\ turn[t].key \in SessionKeys
      /\ turn[t].key \in DeviceKeys /\ LockFree(t)
  BY DEF LookupAdopting, Drop, Remember, Persisted, PlacedInv, Placed, Fits
<1>2. /\ turn[t] \in TurnStates /\ turn[t].on \in Adapters /\ turn[t].key \in MapKeys
      /\ Loaded(t) \in Maps
      /\ \A k \in MapKeys, v \in Conversations \cup {None} : [Loaded(t) EXCEPT ![k] = v] \in Maps
  BY <1>1, MapsTyped
<1>3. PICK m \in Maps, pc \in SavingPcs :
        /\ BeginSave(t, m, pc) /\ MarkLoaded(t)
        /\ pc = "saving_remembered" <=> turn[t].pc = "remember"
  <2>1. CASE LookupAdopting(t)
    <3> DEFINE m == [Loaded(t) EXCEPT ![turn[t].key] = Loaded(t)[LegacyKey], ![LegacyKey] = None]
    <3>1. m \in Maps
      BY <1>2 DEF Maps, MapKeys
    <3>2. BeginSave(t, m, "saving_adopted") /\ MarkLoaded(t) /\ turn[t].pc = "lookup"
      BY <2>1 DEF LookupAdopting
    <3> HIDE DEF m
    <3>3. QED BY <3>1, <3>2 DEF SavingPcs
  <2>2. CASE Drop(t) /\ Persisted(t)
    <3> DEFINE m == [Loaded(t) EXCEPT ![turn[t].key] = None]
    <3>1. m \in Maps
      BY <1>2
    <3>2. BeginSave(t, m, "saving_dropped") /\ MarkLoaded(t) /\ turn[t].pc = "drop"
      BY <2>2 DEF Drop
    <3> HIDE DEF m
    <3>3. QED BY <3>1, <3>2 DEF SavingPcs
  <2>3. CASE Remember(t)
    <3> DEFINE m == [Loaded(t) EXCEPT ![turn[t].key] = turn[t].cid]
    <3>1. m \in Maps
      BY <1>2 DEF TurnStates
    <3>2. BeginSave(t, m, "saving_remembered") /\ MarkLoaded(t) /\ turn[t].pc = "remember"
      BY <2>3 DEF Remember
    <3> HIDE DEF m
    <3>3. QED BY <3>1, <3>2 DEF SavingPcs
  <2>4. QED BY <2>1, <2>2, <2>3
<1> DEFINE s == [turn[t] EXCEPT !.pc = pc]
<1>4. /\ s \in TurnStates /\ s.pc = pc /\ s.key = turn[t].key /\ s.on = turn[t].on
      /\ s.sent = turn[t].sent /\ s.id = turn[t].id
  BY <1>2 DEF TurnStates, Pcs, SavingPcs
<1>5. turn' = [turn EXCEPT ![t] = s]
  BY <1>3 DEF BeginSave, Goes, PlacedInv, TypeOK
<1>6. UNCHANGED <<opened, alive, task, disk, gen, usedBy, mishaps>>
  BY DEF LookupAdopting, Drop, Remember, server, history, Persisted
<1>7. /\ loaded \subseteq loaded' /\ loaded' \subseteq Adapters /\ turn[t].on \in loaded'
      /\ map' \in [Adapters -> Maps]
  BY <1>2, <1>3 DEF BeginSave, MarkLoaded, PlacedInv, TypeOK
<1>8. forgotten' \in [Adapters -> SUBSET Conversations]
  <2>1. Loaded(t)[turn[t].key] \in Conversations \cup {None}
    BY <1>2 DEF Maps
  <2>2. CASE forgotten' = forgotten
    BY <2>2 DEF PlacedInv, TypeOK
  <2>3. CASE Forget(t, Loaded(t)[turn[t].key])
    <3> HIDE DEF Loaded
    <3>1. QED BY <1>2, <2>1, <2>3 DEF Forget, PlacedInv, TypeOK
  <2>4. QED BY <2>2, <2>3 DEF LookupAdopting, Drop, Remember, history, Persisted
<1>9. /\ \A g \in Adapters : lock[g] # t
      /\ lock' = [lock EXCEPT ![turn[t].on] = t] /\ lock[turn[t].on] = None
  BY <1>1, <1>3 DEF BeginSave, LockFree, PlacedInv, TypeOK, Saving
<1>10. task' = [task EXCEPT ![t] = task[t]] /\ task[t] \in TaskStates
  BY <1>6 DEF PlacedInv, TypeOK, TaskStates
<1> HIDE DEF s
<1>11. Fits(s, task[t], loaded')
  BY <1>1, <1>2, <1>3, <1>4, <1>7 DEF PlacedInv, Placed, Fits, SavingPcs, Accepted
<1>12. /\ lock' \in [Adapters -> Turns \cup {None}]
       /\ \A g \in Adapters : lock'[g] = IF s.pc \in SavingPcs /\ s.on = g THEN t
                                          ELSE IF lock[g] = t THEN None ELSE lock[g]
       /\ lock[s.on] = None
  BY <1>2, <1>4, <1>9 DEF PlacedInv, TypeOK
<1>13. /\ opened' \in 0..MaxConversations /\ alive' \subseteq 1..opened' /\ disk' \in Maps
       /\ gen' = gen /\ usedBy' \in [Conversations -> SUBSET SessionKeys] /\ mishaps' \subseteq Mishaps
  BY <1>6 DEF PlacedInv, TypeOK
<1>14. QED BY <1>4, <1>5, <1>7, <1>8, <1>9, <1>10, <1>11, <1>12, <1>13, PlacedMove, ZenonT(60)

\* The save is done.
LEMMA PlacedEnd ==
    ASSUME PlacedInv, NEW t \in Turns, SaveAdopted(t) \/ SaveDropped(t) \/ SaveRemembered(t)
    PROVE  PlacedInv'
<1>1. turn[t].pc \in SavingPcs /\ turn[t].key \in SessionKeys
  BY DEF SaveAdopted, SaveDropped, SaveRemembered, SavingPcs, PlacedInv, Placed, Fits
<1>2. /\ turn[t] \in TurnStates /\ turn[t].on \in Adapters /\ turn[t].key \in MapKeys
      /\ MapOf(t) \in Maps /\ SavedMap(t) \in Maps
  BY <1>1, MapsTyped DEF SavingPcs
<1>3. PICK id \in Conversations \cup {None}, pc \in {"posting", "talking"} :
        /\ turn' = [turn EXCEPT ![t] = [@ EXCEPT !.pc = pc, !.id = id]]
        /\ pc = "talking" <=> turn[t].pc = "saving_remembered"
  <2>1. MapOf(t)[turn[t].key] \in Conversations \cup {None} /\ turn[t].id \in Conversations \cup {None}
    BY <1>2 DEF Maps, TurnStates
  <2>2. CASE SaveAdopted(t)
    <3> HIDE DEF MapOf
    <3>1. QED BY <2>1, <2>2 DEF SaveAdopted
  <2>3. CASE SaveDropped(t)
    BY <2>3 DEF SaveDropped
  <2>4. CASE SaveRemembered(t)
    <3>1. turn' = [turn EXCEPT ![t] = [@ EXCEPT !.pc = "talking", !.id = turn[t].id]]
      BY <1>2, <2>4, ZenonT(60) DEF SaveRemembered, Goes, PlacedInv, TypeOK, TurnStates
    <3>2. QED BY <2>1, <2>4, <3>1 DEF SaveRemembered
  <2>5. QED BY <2>2, <2>3, <2>4
<1> DEFINE s == [turn[t] EXCEPT !.pc = pc, !.id = id]
<1>4. /\ s \in TurnStates /\ s.pc = pc /\ s.key = turn[t].key /\ s.on = turn[t].on
      /\ s.sent = turn[t].sent
  BY <1>2 DEF TurnStates, Pcs
<1>5. turn' = [turn EXCEPT ![t] = s]
  BY <1>3
<1>6. /\ UNCHANGED <<opened, alive, task, gen, map, loaded, usedBy, forgotten, mishaps>>
      /\ disk' = SavedMap(t) /\ lock' = [lock EXCEPT ![turn[t].on] = None]
  BY DEF SaveAdopted, SaveDropped, SaveRemembered, EndSave, server, history
<1>7. \A g \in Adapters : lock[g] = t <=> g = turn[t].on
  BY <1>1, <1>2 DEF PlacedInv, TypeOK, Saving, SavingPcs
<1>8. task' = [task EXCEPT ![t] = task[t]] /\ task[t] \in TaskStates
  BY <1>6 DEF PlacedInv, TypeOK, TaskStates
<1> HIDE DEF s
<1>9. Fits(s, task[t], loaded')
  BY <1>1, <1>2, <1>3, <1>4, <1>6 DEF PlacedInv, Placed, Fits, SavingPcs, Accepted
<1>10. /\ lock' \in [Adapters -> Turns \cup {None}] /\ s.pc \notin SavingPcs
       /\ \A g \in Adapters : lock'[g] = IF lock[g] = t THEN None ELSE lock[g]
  BY <1>4, <1>6, <1>7 DEF PlacedInv, TypeOK, SavingPcs
<1>11. /\ opened' \in 0..MaxConversations /\ alive' \subseteq 1..opened' /\ disk' \in Maps
       /\ gen' = gen /\ loaded' = loaded /\ loaded \subseteq Adapters /\ map' \in [Adapters -> Maps]
       /\ usedBy' \in [Conversations -> SUBSET SessionKeys]
       /\ forgotten' \in [Adapters -> SUBSET Conversations] /\ mishaps' \subseteq Mishaps
  BY <1>2, <1>6 DEF PlacedInv, TypeOK
<1>12. QED BY <1>4, <1>5, <1>8, <1>9, <1>10, <1>11, PlacedMove

\* A turn without the lock moves on, and does not touch any lock.
LEMMA PlacedUnlocked ==
    ASSUME PlacedInv, NEW t \in Turns, NEW s \in TurnStates, NEW w \in TaskStates,
           turn' = [turn EXCEPT ![t] = s], task' = [task EXCEPT ![t] = w],
           turn[t].pc \notin SavingPcs, s.pc \notin SavingPcs,
           Fits(s, w, loaded),
           UNCHANGED <<disk, gen, loaded, lock, mishaps>>,
           opened' \in 0..MaxConversations, alive' \subseteq 1..opened',
           map' \in [Adapters -> Maps],
           usedBy' \in [Conversations -> SUBSET SessionKeys],
           forgotten' \in [Adapters -> SUBSET Conversations]
    PROVE  PlacedInv'
<1>1. /\ disk' \in Maps /\ gen' = gen /\ loaded' = loaded /\ loaded \subseteq Adapters
      /\ lock' = lock /\ lock \in [Adapters -> Turns \cup {None}] /\ mishaps' \subseteq Mishaps
  BY DEF PlacedInv, TypeOK
<1>2. \A g \in Adapters : lock[g] # t
  BY DEF PlacedInv, TypeOK, Saving, SavingPcs
<1>3. Fits(s, w, loaded')
  BY <1>1
<1>4. \A g \in Adapters : lock'[g] = IF s.pc \in SavingPcs /\ s.on = g THEN t
                                     ELSE IF lock[g] = t THEN None ELSE lock[g]
  BY <1>1, <1>2
<1>5. QED BY <1>1, <1>3, <1>4, PlacedMove

\* The server answers the POST.
LEMMA PlacedPost ==
    ASSUME PlacedInv, NEW t \in Turns, Accept(t) \/ RejectStale(t) \/ FailPost(t)
    PROVE  PlacedInv'
<1>1. /\ turn[t].pc = "posting" /\ turn[t] \in TurnStates /\ turn[t].key \in SessionKeys
      /\ Fits(turn[t], task[t], loaded) /\ task[t] \in TaskStates
      /\ turn[t].pc \notin SavingPcs
  BY DEF Accept, RejectStale, FailPost, PlacedInv, Placed, Fits, TypeOK, TaskStates, SavingPcs
<1>2. UNCHANGED <<disk, gen, map, loaded, lock, forgotten, mishaps>>
  BY DEF Accept, RejectStale, FailPost, history
<1>3. /\ opened \in 0..MaxConversations /\ alive \subseteq 1..opened /\ map' \in [Adapters -> Maps]
      /\ usedBy \in [Conversations -> SUBSET SessionKeys]
      /\ forgotten' \in [Adapters -> SUBSET Conversations] /\ task \in [Turns -> TaskStates]
  BY <1>2 DEF PlacedInv, TypeOK, TaskStates
<1>4. CASE Accept(t)
  <2>1. PICK c \in Conversations :
          /\ turn[t].id = None \/ turn[t].id = c
          /\ turn' = [turn EXCEPT ![t] = [@ EXCEPT !.pc = "waiting", !.cid = c, !.sent = turn[t].sent + 1]]
          /\ usedBy' = [usedBy EXCEPT ![c] = @ \cup {turn[t].key}]
          /\ \/ c = opened + 1 /\ opened' = c /\ alive' = alive \cup {c}
             \/ UNCHANGED <<opened, alive>>
    BY <1>4 DEF Accept
  <2> DEFINE s == [turn[t] EXCEPT !.pc = "waiting", !.cid = c, !.sent = 1]
  <2>2. turn[t].sent = 0 /\ turn[t].sent + 1 = 1
    BY <1>1 DEF Fits, Accepted
  <2>3. /\ s \in TurnStates /\ s.pc = "waiting" /\ s.key = turn[t].key /\ s.on = turn[t].on
        /\ s.id = turn[t].id /\ s.cid = c /\ s.sent = 1
    <3>1. c \in Conversations /\ 1 \in 0..2
      OBVIOUS
    <3>2. s \in TurnStates
      BY <1>1, <3>1 DEF TurnStates, Pcs
    <3>3. s.pc = "waiting" /\ s.cid = c /\ s.sent = 1
      BY <1>1 DEF TurnStates
    <3>4. s.key = turn[t].key /\ s.on = turn[t].on /\ s.id = turn[t].id
      BY <1>1 DEF TurnStates
    <3>5. QED BY <3>2, <3>3, <3>4
  <2>4. turn' = [turn EXCEPT ![t] = s] /\ task' = [task EXCEPT ![t] = "unseen"]
    BY <1>4, <2>1, <2>2 DEF Accept
  <2> HIDE DEF s
  <2>5. Fits(s, "unseen", loaded)
    BY <1>1, <2>1, <2>3 DEF Fits, SavingPcs, Accepted
  <2>6. opened' \in 0..MaxConversations /\ alive' \subseteq 1..opened'
    BY <1>3, <2>1, BoundsAssumption, SMTT(30) DEF Conversations
  <2>7. usedBy' \in [Conversations -> SUBSET SessionKeys]
    BY <1>1, <1>3, <2>1
  <2>8. s.pc \notin SavingPcs /\ "unseen" \in TaskStates
    BY <2>3 DEF SavingPcs, TaskStates
  <2>9. QED BY <1>1, <1>2, <1>3, <2>3, <2>4, <2>5, <2>6, <2>7, <2>8, PlacedUnlocked
<1>5. CASE RejectStale(t)
  <2> DEFINE s == [turn[t] EXCEPT !.pc = "drop"]
  <2>1. /\ s \in TurnStates /\ s.pc = "drop" /\ s.key = turn[t].key /\ s.on = turn[t].on
        /\ s.sent = turn[t].sent
    BY <1>1 DEF TurnStates, Pcs
  <2>2. /\ turn' = [turn EXCEPT ![t] = s] /\ task' = [task EXCEPT ![t] = task[t]]
        /\ UNCHANGED <<opened, alive, usedBy>>
    BY <1>3, <1>5 DEF RejectStale, Goes, server, history, PlacedInv, TypeOK
  <2> HIDE DEF s
  <2>3. Fits(s, task[t], loaded) /\ s.pc \notin SavingPcs
    BY <1>1, <2>1 DEF Fits, SavingPcs, Accepted
  <2>4. QED BY <1>1, <1>2, <1>3, <2>1, <2>2, <2>3, PlacedUnlocked
<1>6. CASE FailPost(t)
  <2>1. /\ turn' = [turn EXCEPT ![t] = IdleTurn] /\ task' = [task EXCEPT ![t] = task[t]]
        /\ UNCHANGED <<opened, alive, usedBy>>
    BY <1>3, <1>6 DEF FailPost, Over, server, history
  <2>2. Fits(IdleTurn, task[t], loaded) /\ IdleTurn.pc \notin SavingPcs
    BY <1>1, IdleTyped DEF Fits, SavingPcs, Accepted
  <2>3. QED BY <1>1, <1>2, <1>3, <2>1, <2>2, IdleTyped, PlacedUnlocked
<1>7. QED BY <1>4, <1>5, <1>6

\* The stream names its conversation, or a chat key's is dropped.
LEMMA PlacedChat ==
    ASSUME PlacedInv, NEW t \in Turns, Capture(t) \/ (Drop(t) /\ ~Persisted(t))
    PROVE  PlacedInv'
<1>1. /\ turn[t].pc \in {"waiting", "drop"} /\ turn[t] \in TurnStates /\ turn[t].key \in SessionKeys
      /\ Fits(turn[t], task[t], loaded) /\ task[t] \in TaskStates
      /\ turn[t].pc \notin SavingPcs
  BY DEF Capture, Drop, PlacedInv, Placed, Fits, TypeOK, TaskStates, SavingPcs
<1>2. turn[t].on \in Adapters /\ turn[t].key \in MapKeys /\ MapOf(t) \in Maps
  BY <1>1, MapsTyped
<1>3. /\ opened \in 0..MaxConversations /\ alive \subseteq 1..opened /\ map \in [Adapters -> Maps]
      /\ usedBy \in [Conversations -> SUBSET SessionKeys]
      /\ forgotten \in [Adapters -> SUBSET Conversations] /\ task \in [Turns -> TaskStates]
  BY DEF PlacedInv, TypeOK, TaskStates
<1>4. \A v \in Conversations \cup {None} : [map EXCEPT ![turn[t].on][turn[t].key] = v] \in [Adapters -> Maps]
  BY <1>2, <1>3 DEF Maps
<1>5. UNCHANGED <<opened, alive, disk, gen, loaded, lock, usedBy, mishaps>>
  BY DEF Capture, Drop, server, history
<1>6. CASE Capture(t)
  <2>1. PICK pc \in {"remember", "talking"} :
          /\ turn' = [turn EXCEPT ![t].pc = pc]
          /\ pc = "remember" => turn[t].cid # turn[t].id /\ Persisted(t)
    BY <1>6 DEF Capture, Goes
  <2> DEFINE s == [turn[t] EXCEPT !.pc = pc]
  <2>2. /\ s \in TurnStates /\ s.pc = pc /\ s.key = turn[t].key /\ s.on = turn[t].on
        /\ s.sent = turn[t].sent /\ s.id = turn[t].id /\ s.cid = turn[t].cid
    BY <1>1 DEF TurnStates, Pcs
  <2>3. turn' = [turn EXCEPT ![t] = s] /\ task' = [task EXCEPT ![t] = "seen"] /\ UNCHANGED forgotten
    BY <1>6, <2>1 DEF Capture, PlacedInv, TypeOK, history
  <2>4. map' \in [Adapters -> Maps]
    <3>1. turn[t].cid \in Conversations \cup {None}
      BY <1>1 DEF TurnStates
    <3>2. QED BY <1>3, <1>4, <1>6, <3>1 DEF Capture
  <2> HIDE DEF s
  <2>5. Fits(s, "seen", loaded) /\ s.pc \notin SavingPcs
    BY <1>1, <1>6, <2>1, <2>2 DEF Capture, Persisted, Fits, SavingPcs, Accepted
  <2>6. "seen" \in TaskStates
    BY DEF TaskStates
  <2>7. QED BY <1>1, <1>3, <1>5, <2>2, <2>3, <2>4, <2>5, <2>6, PlacedUnlocked
<1>7. CASE Drop(t) /\ ~Persisted(t)
  <2> DEFINE s == [turn[t] EXCEPT !.pc = "posting", !.id = None]
  <2>1. /\ s \in TurnStates /\ s.pc = "posting" /\ s.key = turn[t].key /\ s.on = turn[t].on
        /\ s.sent = turn[t].sent
    BY <1>1 DEF TurnStates, Pcs
  <2>2. /\ turn' = [turn EXCEPT ![t] = s] /\ task' = [task EXCEPT ![t] = task[t]]
        /\ Forget(t, MapOf(t)[turn[t].key])
    BY <1>3, <1>7 DEF Drop, server
  <2>3. map' \in [Adapters -> Maps]
    BY <1>4, <1>7 DEF Drop
  <2>4. forgotten' \in [Adapters -> SUBSET Conversations]
    <3>1. MapOf(t)[turn[t].key] \in Conversations \cup {None}
      BY <1>2 DEF Maps
    <3> HIDE DEF MapOf
    <3>2. QED BY <1>2, <1>3, <2>2, <3>1 DEF Forget
  <2> HIDE DEF s
  <2>5. Fits(s, task[t], loaded) /\ s.pc \notin SavingPcs
    BY <1>1, <1>7, <2>1 DEF Drop, Fits, SavingPcs, Accepted
  <2>6. QED BY <1>1, <1>3, <1>5, <2>1, <2>2, <2>3, <2>4, <2>5, PlacedUnlocked
<1>8. QED BY <1>6, <1>7

\* A step that moves a task alone.
TaskMoves == \E t \in Turns : PauseTurn(t) \/ StopEnds(t)

LEMMA TaskMovesAlone ==
    ASSUME TaskMoves
    PROVE  UNCHANGED <<opened, alive, disk, gen, map, loaded, lock, turn, usedBy, forgotten, mishaps>>
BY DEF TaskMoves, PauseTurn, StopEnds, history

\* What becomes of a task whose turn is given up.
LEMMA StoppedTask ==
    ASSUME PlacedInv, NEW t \in Turns, StopSeenTask(t)
    PROVE  \E w \in {"none", "stopping"} :
               /\ task' = [task EXCEPT ![t] = w]
               /\ w = "stopping" => task[t] \in {"seen", "parked"}
<1>1. task \in [Turns -> TaskStates]
  BY DEF PlacedInv, TypeOK
<1>2. CASE task[t] \in {"seen", "parked"}
  <2>1. task' = [task EXCEPT ![t] = "stopping"]
    BY <1>1, <1>2 DEF StopSeenTask
  <2>2. QED BY <1>2, <2>1
<1>3. CASE task[t] \notin {"seen", "parked"}
  <2>1. task' = [task EXCEPT ![t] = "none"]
    BY <1>1, <1>3 DEF StopSeenTask
  <2>2. QED BY <2>1
<1>4. QED BY <1>2, <1>3

\* The stream is over.
LEMMA PlacedOver ==
    ASSUME PlacedInv, NEW t \in Turns, FinishTurn(t) \/ FailStream(t)
    PROVE  PlacedInv'
<1>1. turn[t].pc \in {"waiting", "talking"} /\ turn[t].pc \notin SavingPcs
  BY DEF FinishTurn, FailStream, SavingPcs
<1>2. PICK w \in {"none", "stopping"} : task' = [task EXCEPT ![t] = w]
  BY StoppedTask DEF FinishTurn, FailStream
<1>3. /\ turn' = [turn EXCEPT ![t] = IdleTurn]
      /\ UNCHANGED <<opened, alive, disk, gen, map, loaded, lock, usedBy, forgotten, mishaps>>
  BY DEF FinishTurn, FailStream, Over, history
<1>4. w \in TaskStates /\ Fits(IdleTurn, w, loaded) /\ IdleTurn.pc \notin SavingPcs
  BY IdleTyped DEF Fits, SavingPcs, Accepted, TaskStates
<1>5. /\ opened' \in 0..MaxConversations /\ alive' \subseteq 1..opened' /\ map' \in [Adapters -> Maps]
      /\ usedBy' \in [Conversations -> SUBSET SessionKeys]
      /\ forgotten' \in [Adapters -> SUBSET Conversations]
  BY <1>3 DEF PlacedInv, TypeOK
<1>6. QED BY <1>1, <1>2, <1>3, <1>4, <1>5, IdleTyped, PlacedUnlocked

\* The pipeline gives the turn up: what the save still does, and the lock.
LEMMA PlacedCancel ==
    ASSUME PlacedInv, NEW t \in Turns, Cancel(t)
    PROVE  PlacedInv'
<1>1. turn[t].pc # "idle" /\ SavedMap(t) \in Maps
  BY MapsTyped DEF Cancel
<1>2. PICK w \in {"none", "stopping"} : task' = [task EXCEPT ![t] = w]
  BY StoppedTask DEF Cancel
<1>3. /\ turn' = [turn EXCEPT ![t] = IdleTurn]
      /\ UNCHANGED <<opened, alive, gen, map, loaded, usedBy, forgotten>>
  BY DEF Cancel, Over
<1>4. w \in TaskStates /\ Fits(IdleTurn, w, loaded') /\ IdleTurn.pc \notin SavingPcs
  BY IdleTyped DEF Fits, SavingPcs, Accepted, TaskStates
<1>5. /\ opened' \in 0..MaxConversations /\ alive' \subseteq 1..opened' /\ map' \in [Adapters -> Maps]
      /\ usedBy' \in [Conversations -> SUBSET SessionKeys] /\ loaded' = loaded /\ loaded \subseteq Adapters
      /\ forgotten' \in [Adapters -> SUBSET Conversations] /\ gen' = gen
  BY <1>3 DEF PlacedInv, TypeOK
<1>6. disk' \in Maps /\ mishaps' \subseteq Mishaps
  <2>1. (disk' = SavedMap(t) \/ disk' = disk) /\ (mishaps' = mishaps \cup {"save_cancelled"} \/ mishaps' = mishaps)
    BY DEF Cancel
  <2>2. disk' \in Maps
    BY <1>1, <2>1 DEF PlacedInv, TypeOK
  <2>3. mishaps' \subseteq Mishaps
    <3>1. mishaps \subseteq Mishaps /\ "save_cancelled" \in Mishaps
      BY DEF PlacedInv, TypeOK, Mishaps
    <3>2. QED BY <2>1, <3>1
  <2>4. QED BY <2>2, <2>3
<1>7. /\ lock' \in [Adapters -> Turns \cup {None}]
      /\ \A g \in Adapters : lock'[g] = IF lock[g] = t THEN None ELSE lock[g]
  BY DEF Cancel, Release, PlacedInv, TypeOK
<1>8. QED BY <1>2, <1>3, <1>4, <1>5, <1>6, <1>7, IdleTyped, PlacedMove

\* What the server, the entry and Home Assistant do.
LEMMA PlacedRest ==
    ASSUME PlacedInv, (\E c \in Conversations : Expire(c)) \/ Restart \/ Reload
    PROVE  PlacedInv'
<1>1. EmptyMap \in Maps
  BY DEF EmptyMap, Maps
<1>2. CASE \E c \in Conversations : Expire(c)
  BY <1>2 DEF Expire, PlacedInv, Placed, TypeOK, history, Saving
<1>3. CASE Restart
  <2>1. /\ \A u \in Turns : turn'[u] = IdleTurn /\ task'[u] = "none"
        /\ \A g \in Adapters : lock'[g] = None
    BY <1>3 DEF Restart
  <2>2. /\ turn' \in [Turns -> TurnStates] /\ task' \in [Turns -> TaskStates]
        /\ map' \in [Adapters -> Maps] /\ lock' \in [Adapters -> Turns \cup {None}]
        /\ loaded' \subseteq Adapters /\ forgotten' \in [Adapters -> SUBSET Conversations]
    BY <1>1, <1>3, IdleTyped DEF Restart, TaskStates
  <2>3. UNCHANGED <<opened, alive, disk, gen, usedBy, mishaps>>
    BY <1>3 DEF Restart
  <2>4. \A g \in Adapters, u \in Turns : lock'[g] = u <=> Saving(u)' /\ turn'[u].on = g
    BY <2>1, IdleTyped, NoneAssumption DEF Saving
  <2>5. TypeOK'
    BY <2>2, <2>3, <2>4 DEF PlacedInv, TypeOK, TaskStates
  <2>6. Placed'
    BY <2>1, IdleTyped DEF Placed, Fits, SavingPcs, Accepted
  <2>7. QED BY <2>5, <2>6 DEF PlacedInv
<1>4. CASE Reload
  <2>1. gen' \in Adapters
    BY <1>4, BoundsAssumption DEF Reload, Adapters, PlacedInv, TypeOK
  <2>2. mishaps' \subseteq Mishaps
    BY <1>4 DEF Reload, Mishaps, PlacedInv, TypeOK
  <2>3. UNCHANGED <<opened, alive, task, disk, map, loaded, lock, turn, usedBy, forgotten>>
    BY <1>4 DEF Reload, server
  <2>4. TypeOK'
    BY <2>1, <2>2, <2>3 DEF PlacedInv, TypeOK, Saving
  <2>5. Placed'
    BY <2>3 DEF PlacedInv, Placed
  <2>6. QED BY <2>4, <2>5 DEF PlacedInv
<1>5. QED BY <1>2, <1>3, <1>4

\* The chatflow pauses, or the stop is done.
LEMMA PlacedTask == PlacedInv /\ TaskMoves => PlacedInv'
<1> SUFFICES ASSUME PlacedInv, NEW t \in Turns, PauseTurn(t) \/ StopEnds(t) PROVE PlacedInv'
  BY DEF TaskMoves
<1>1. PICK w \in TaskStates : task' = [task EXCEPT ![t] = w] /\ Fits(turn[t], w, loaded)
  <2>1. CASE PauseTurn(t)
    <3>1. Fits(turn[t], "parked", loaded)
      BY <2>1 DEF PauseTurn, PlacedInv, Placed, Fits, Accepted
    <3>2. QED BY <2>1, <3>1 DEF PauseTurn, TaskStates
  <2>2. CASE StopEnds(t)
    <3>1. turn[t].pc = "idle"
      BY <2>2 DEF StopEnds, PlacedInv, Placed, Fits, Accepted
    <3>2. Fits(turn[t], "none", loaded)
      BY <2>2, <3>1 DEF StopEnds, PlacedInv, Placed, Fits
    <3>3. QED BY <2>2, <3>2 DEF StopEnds, TaskStates
  <2>3. QED BY <2>1, <2>2
<1>2. UNCHANGED <<opened, alive, disk, gen, map, loaded, lock, turn, usedBy, forgotten, mishaps>>
  BY TaskMovesAlone DEF TaskMoves
<1>3. TypeOK'
  <2>1. task' \in [Turns -> TaskStates]
    BY <1>1 DEF PlacedInv, TypeOK
  <2>2. QED BY <1>2, <2>1 DEF PlacedInv, TypeOK, Saving
<1>4. Placed'
  <2>1. \A u \in Turns : task'[u] = IF u = t THEN w ELSE task[u]
    BY <1>1 DEF PlacedInv, TypeOK
  <2>2. QED BY <1>1, <1>2, <2>1 DEF PlacedInv, Placed, Fits
<1>5. QED BY <1>3, <1>4 DEF PlacedInv

LEMMA NextPlaced == PlacedInv /\ [Next]_vars => PlacedInv'
<1> SUFFICES ASSUME PlacedInv, [Next]_vars PROVE PlacedInv'
  OBVIOUS
<1>1. CASE UNCHANGED vars
  BY <1>1 DEF PlacedInv, Placed, TypeOK, Saving, vars, server, history
<1>2. CASE Next
  BY <1>2, PlacedStart, PlacedRead, PlacedBegin, PlacedEnd, PlacedPost, PlacedChat, PlacedOver,
     PlacedCancel, PlacedRest, PlacedTask
     DEF Next, UnderLock, Answered, TaskMoves
<1>3. QED BY <1>1, <1>2

\* Where a turn is, what it holds and which lock it has always fit.
LEMMA AlwaysPlaced == Spec => []PlacedInv
BY InitPlaced, NextPlaced, PTL DEF Spec

\* The maps, the Store, the locks and the turns are well typed, and a lock is held
\* across a save of its own adapter and by nobody else (_lookup, _remember, _drop).
THEOREM TypeCorrect == Spec => []TypeOK
<1>1. PlacedInv => TypeOK
  BY DEF PlacedInv
<1>2. QED BY <1>1, AlwaysPlaced, PTL

-----------------------------------------------------------------------------
(* The turns are those ServerTurns specifies                               *)

\* The turns in progress, and how many of its requests the server accepted.
Active == {t \in Turns : turn[t].pc # "idle"}
Sent == [t \in Turns |-> turn[t].sent]

\* A step that no turn begins, ends or is accepted in is none of ServerTurns.
LEMMA WorkStutters ==
    ASSUME UNCHANGED task,
           \A u \in Turns :
               /\ turn'[u].pc = "idle" <=> turn[u].pc = "idle"
               /\ turn'[u].sent = turn[u].sent
    PROVE  UNCHANGED Work!turnVars
<1>1. Active' = Active
  BY DEF Active
<1>2. Sent' = Sent
  BY DEF Sent
<1>3. QED BY <1>1, <1>2 DEF Active, Sent, Work!turnVars

\* When the turn is over so is its task, unless the turn has asked for its end.
LEMMA WorkLeaves ==
    ASSUME PlacedInv, NEW t \in Turns, turn[t].pc # "idle", Over(t),
           NEW w \in {"none", "stopping"}, task' = [task EXCEPT ![t] = w],
           w = "stopping" => task[t] \in {"seen", "parked"}
    PROVE  Work!Leave(t)
<1>1. /\ turn'[t].pc = "idle" /\ turn'[t].sent = 0
      /\ \A u \in Turns \ {t} : turn'[u] = turn[u]
  BY IdleTyped DEF Over, PlacedInv, TypeOK
<1>2. t \in Active /\ Active' = Active \ {t}
  BY <1>1 DEF Active
<1>3. Sent' = [Sent EXCEPT ![t] = 0]
  BY <1>1 DEF Sent
<1>4. QED BY <1>2, <1>3 DEF Active, Sent, Work!Leave

\* A turn that looks its conversation up, drops it or saves is only waiting for more.
LEMMA WorkQuiet ==
    ASSUME PlacedInv, NEW t \in Turns,
           \/ UnderLock(t) \/ SaveAdopted(t) \/ SaveDropped(t) \/ SaveRemembered(t) \/ RejectStale(t)
    PROVE  UNCHANGED Work!turnVars
<1>1. turn[t] \in TurnStates /\ turn[t].pc # "idle" /\ UNCHANGED task
  BY DEF UnderLock, Lookup, LookupAdopting, Drop, DropNothing, Remember, SaveAdopted, SaveDropped,
         SaveRemembered, RejectStale, server, PlacedInv, TypeOK
<1>2. PICK pc \in Pcs \ {"idle"} :
        \/ turn' = [turn EXCEPT ![t].pc = pc]
        \/ \E id : turn' = [turn EXCEPT ![t] = [@ EXCEPT !.pc = pc, !.id = id]]
  <2>1. CASE Lookup(t) \/ DropNothing(t) \/ SaveAdopted(t) \/ SaveDropped(t) \/ (Drop(t) /\ ~Persisted(t))
    <3>1. \E id : turn' = [turn EXCEPT ![t] = [@ EXCEPT !.pc = "posting", !.id = id]]
      BY <2>1 DEF Lookup, DropNothing, SaveAdopted, SaveDropped, Drop
    <3>2. QED BY <3>1 DEF Pcs
  <2>2. CASE LookupAdopting(t) \/ Remember(t) \/ (Drop(t) /\ Persisted(t))
    BY <2>2 DEF LookupAdopting, Remember, Drop, BeginSave, Goes, Pcs
  <2>3. CASE SaveRemembered(t) \/ RejectStale(t)
    BY <2>3 DEF SaveRemembered, RejectStale, Goes, Pcs
  <2>4. QED BY <2>1, <2>2, <2>3 DEF UnderLock
<1>3. /\ turn'[t].pc # "idle" /\ turn'[t].sent = turn[t].sent
      /\ \A u \in Turns \ {t} : turn'[u] = turn[u]
  <2>1. CASE turn' = [turn EXCEPT ![t].pc = pc]
    BY <1>1, <1>2, <2>1 DEF PlacedInv, TypeOK, TurnStates
  <2>2. ASSUME NEW id, turn' = [turn EXCEPT ![t] = [@ EXCEPT !.pc = pc, !.id = id]]
        PROVE  /\ turn'[t].pc # "idle" /\ turn'[t].sent = turn[t].sent
               /\ \A u \in Turns \ {t} : turn'[u] = turn[u]
    <3> DEFINE s == [turn[t] EXCEPT !.pc = pc, !.id = id]
    <3>1. s.pc = pc /\ s.sent = turn[t].sent
      BY <1>1 DEF TurnStates
    <3>2. turn' = [turn EXCEPT ![t] = s]
      BY <2>2
    <3> HIDE DEF s
    <3>3. turn'[t] = s /\ \A u \in Turns \ {t} : turn'[u] = turn[u]
      BY <3>2 DEF PlacedInv, TypeOK
    <3>4. QED BY <1>2, <3>1, <3>3
  <2>3. QED BY <1>2, <2>1, <2>2
<1>4. QED BY <1>1, <1>3, WorkStutters

LEMMA WorkStep == PlacedInv /\ [Next]_vars => [Work!Next]_(Work!turnVars)
<1> SUFFICES ASSUME PlacedInv, [Next]_vars PROVE [Work!Next]_(Work!turnVars)
  OBVIOUS
<1>0. task \in [Turns -> TaskStates]
  BY DEF PlacedInv, TypeOK
<1>1. ASSUME NEW t \in Turns, NEW k \in SessionKeys, Start(t, k) PROVE Work!Begin(t)
  <2>1. /\ turn[t].pc = "idle" /\ turn[t].sent = 0 /\ turn'[t].pc = "lookup" /\ turn'[t].sent = 0
        /\ \A u \in Turns \ {t} : turn'[u] = turn[u]
    BY <1>1, IdleTyped DEF Start, PlacedInv, TypeOK, TurnStates, Placed, Fits, Accepted
  <2>2. t \notin Active /\ Active' = Active \cup {t}
    BY <2>1 DEF Active
  <2>3. Sent' = Sent
    BY <2>1 DEF Sent
  <2>4. task' = [task EXCEPT ![t] = "none"]
    BY <1>1 DEF Start
  <2>5. QED BY <2>2, <2>3, <2>4 DEF Active, Sent, Work!Begin
<1>2. ASSUME NEW t \in Turns, Accept(t) PROVE Work!Accept(t)
  <2>1. /\ turn[t].pc = "posting" /\ turn[t] \in TurnStates /\ turn[t].sent = 0
        /\ turn[t].sent + 1 = 1 /\ task' = [task EXCEPT ![t] = "unseen"]
    BY <1>2 DEF Accept, PlacedInv, Placed, Fits, Accepted, TypeOK
  <2>2. \E c : turn' = [turn EXCEPT ![t] = [@ EXCEPT !.pc = "waiting", !.cid = c, !.sent = 1]]
    BY <1>2, <2>1 DEF Accept
  <2>3. /\ turn'[t].pc = "waiting" /\ turn'[t].sent = 1
        /\ \A u \in Turns \ {t} : turn'[u] = turn[u]
    BY <2>1, <2>2 DEF PlacedInv, TypeOK, TurnStates
  <2>4. t \in Active /\ Active' = Active
    BY <2>1, <2>3 DEF Active
  <2>5. Sent[t] = 0 /\ Sent' = [Sent EXCEPT ![t] = 1]
    BY <2>1, <2>3 DEF Sent
  <2>6. QED BY <2>1, <2>4, <2>5 DEF Active, Sent, Work!Accept
<1>3. ASSUME NEW t \in Turns, Capture(t) PROVE Work!See(t)
  <2>1. turn[t].pc = "waiting" /\ task[t] = "unseen" /\ task' = [task EXCEPT ![t] = "seen"]
    BY <1>3 DEF Capture, PlacedInv, Placed, Fits
  <2>2. \E pc \in {"remember", "talking"} : turn' = [turn EXCEPT ![t].pc = pc]
    BY <1>3 DEF Capture, Goes
  <2>3. /\ turn'[t].pc # "idle" /\ turn'[t].sent = turn[t].sent
        /\ \A u \in Turns \ {t} : turn'[u] = turn[u]
    BY <2>2 DEF PlacedInv, TypeOK, TurnStates
  <2>4. t \in Active /\ Active' = Active /\ Sent' = Sent
    BY <2>1, <2>3 DEF Active, Sent
  <2>5. QED BY <2>1, <2>4 DEF Active, Sent, Work!See
<1>4. ASSUME NEW t \in Turns, FailPost(t) \/ FinishTurn(t) \/ FailStream(t) \/ Cancel(t)
      PROVE  Work!Leave(t)
  <2>1. turn[t].pc # "idle" /\ Over(t)
    BY <1>4 DEF FailPost, FinishTurn, FailStream, Cancel
  <2>2. \E w \in {"none", "stopping"} :
            /\ task' = [task EXCEPT ![t] = w]
            /\ w = "stopping" => task[t] \in {"seen", "parked"}
    <3>1. CASE FailPost(t)
      <4>1. task[t] = "none" /\ task' = task
        BY <3>1 DEF FailPost, server, PlacedInv, Placed, Fits, Accepted
      <4>2. QED BY <1>0, <4>1
    <3>2. CASE FinishTurn(t)
      BY <3>2 DEF FinishTurn
    <3>3. CASE FailStream(t) \/ Cancel(t)
      BY <3>3, StoppedTask DEF FailStream, Cancel
    <3>4. QED BY <1>4, <3>1, <3>2, <3>3
  <2>3. QED BY <2>1, <2>2, WorkLeaves
<1>5. ASSUME NEW t \in Turns, PauseTurn(t) PROVE Work!Park(t)
  <2>1. turn[t].pc # "idle" /\ turn' = turn /\ task[t] = "seen" /\ task' = [task EXCEPT ![t] = "parked"]
    BY <1>5 DEF PauseTurn
  <2>2. t \in Active /\ Active' = Active /\ Sent' = Sent
    BY <2>1 DEF Active, Sent
  <2>3. QED BY <2>1, <2>2 DEF Active, Sent, Work!Park
<1>6. ASSUME NEW t \in Turns, StopEnds(t) PROVE Work!StopEnds(t)
  <2>1. turn' = turn /\ task[t] = "stopping" /\ task' = [task EXCEPT ![t] = "none"]
    BY <1>6 DEF StopEnds
  <2>2. Active' = Active /\ Sent' = Sent
    BY <2>1 DEF Active, Sent
  <2>3. QED BY <2>1, <2>2 DEF Active, Sent, Work!StopEnds
<1>7. ASSUME (\E c \in Conversations : Expire(c)) \/ Reload PROVE UNCHANGED Work!turnVars
  <2>1. UNCHANGED <<task, turn>>
    BY <1>7 DEF Expire, Reload, server
  <2>2. QED BY <2>1, WorkStutters
<1>8. ASSUME Restart PROVE Work!Crash
  <2>1. \A u \in Turns : turn'[u].pc = "idle" /\ turn'[u].sent = 0
    BY <1>8, IdleTyped DEF Restart
  <2>2. Active' = {} /\ Sent' = [t \in Turns |-> 0]
    BY <2>1 DEF Active, Sent
  <2>3. task' = [t \in Turns |-> "none"]
    BY <1>8 DEF Restart
  <2>4. QED BY <2>2, <2>3 DEF Active, Sent, Work!Crash
<1>9. CASE UNCHANGED vars
  BY <1>9, WorkStutters DEF vars, server
<1>10. CASE \E t \in Turns : (\E k \in SessionKeys : Start(t, k)) \/ UnderLock(t) \/ Answered(t) \/ Cancel(t)
                                \/ StopEnds(t)
  BY <1>10, <1>1, <1>2, <1>3, <1>4, <1>5, <1>6, WorkQuiet DEF Answered, Work!Next
<1>11. CASE (\E c \in Conversations : Expire(c)) \/ Restart \/ Reload
  BY <1>11, <1>7, <1>8 DEF Work!Next
<1>12. QED BY <1>9, <1>10, <1>11 DEF Next

\* DifySessions implements ServerTurns: a turn is sent again only after the server
\* refused it (stream_turn), and when a turn is over, so is the task it has seen, unless
\* Dify paused it for a human or the turn has asked for its stop (_stop_started_task).
THEOREM Implements == Spec => ImplementsServerTurns
<1>1. Init => Work!Init
  <2> SUFFICES ASSUME Init PROVE Work!Init
    OBVIOUS
  <2>1. \A u \in Turns : turn[u].pc = "idle" /\ turn[u].sent = 0
    BY IdleTyped DEF Init
  <2>2. Active = {} /\ Sent = [t \in Turns |-> 0]
    BY <2>1 DEF Active, Sent
  <2>3. QED BY <2>2 DEF Init, Active, Sent, Work!Init
<1>2. QED BY <1>1, WorkStep, AlwaysPlaced, PTL DEF Spec, ImplementsServerTurns, Work!Spec

-----------------------------------------------------------------------------
(* What is in memory is saved                                              *)

StoreKeys == MapKeys \ ChatKeys

\* A step that no map of persisted keys notices, nor the Store.
LEMMA SavedQuiet ==
    ASSUME SavedWhenUnlocked, mishaps \subseteq mishaps', loaded' = loaded, disk' = disk,
           \A g \in Adapters : /\ lock'[g] = None => lock[g] = None
                               /\ \A k \in StoreKeys : map'[g][k] = map[g][k]
    PROVE  SavedWhenUnlocked'
BY DEF SavedWhenUnlocked, StoreKeys

LEMMA SavedStep == PlacedInv /\ SavedWhenUnlocked /\ [Next]_vars => SavedWhenUnlocked'
<1> SUFFICES ASSUME PlacedInv, SavedWhenUnlocked, [Next]_vars PROVE SavedWhenUnlocked'
  OBVIOUS
<1>1. ASSUME NEW t \in Turns, Lookup(t) \/ DropNothing(t) PROVE SavedWhenUnlocked'
  <2>1. /\ turn[t].pc \in {"lookup", "drop"} /\ turn[t].on \in Adapters /\ turn[t].key \in SessionKeys
        /\ map \in [Adapters -> Maps] /\ UNCHANGED <<disk, gen, lock, mishaps>>
    BY <1>1, MapsTyped DEF Lookup, DropNothing, PlacedInv, Placed, Fits, TypeOK, history
  <2>2. CASE ~Persisted(t)
    <3>1. UNCHANGED <<map, loaded>>
      BY <1>1, <2>2 DEF Lookup, DropNothing
    <3>2. QED BY <2>1, <3>1, SavedQuiet
  <2>3. CASE Persisted(t)
    <3>1. map' = [map EXCEPT ![turn[t].on] = Loaded(t)] /\ loaded' = loaded \cup {turn[t].on}
      BY <1>1, <2>3 DEF Lookup, DropNothing, MarkLoaded
    <3>2. CASE turn[t].on \in loaded
      BY <2>1, <3>1, <3>2, SavedQuiet DEF Loaded, MapOf
    <3>3. CASE turn[t].on \notin loaded
      <4>1. \A k \in StoreKeys : Loaded(t)[k] = disk[k]
        BY <3>3 DEF Loaded, StoreKeys
      <4>2. QED BY <2>1, <3>1, <4>1 DEF SavedWhenUnlocked, StoreKeys
    <3>4. QED BY <3>2, <3>3
  <2>4. QED BY <2>2, <2>3
<1>2. ASSUME NEW t \in Turns, LookupAdopting(t) \/ (Drop(t) /\ Persisted(t)) \/ Remember(t)
      PROVE  SavedWhenUnlocked'
  <2>1. turn[t].on \in Adapters /\ lock \in [Adapters -> Turns \cup {None}] /\ t # None
    BY <1>2, MapsTyped, NoneAssumption DEF LookupAdopting, Drop, Remember, PlacedInv, TypeOK
  <2>2. lock' = [lock EXCEPT ![turn[t].on] = t] /\ loaded' = loaded \cup {turn[t].on}
    BY <1>2 DEF LookupAdopting, Drop, Remember, BeginSave, MarkLoaded
  <2>3. QED BY <2>1, <2>2 DEF SavedWhenUnlocked
<1>3. ASSUME NEW t \in Turns, Saving(t), disk' = SavedMap(t), map' = map, loaded' = loaded
      PROVE  SavedWhenUnlocked'
  <2>1. turn[t].on \in loaded
    BY <1>3 DEF Saving, SavingPcs, PlacedInv, Placed, Fits
  <2>2. \A k \in StoreKeys : disk'[k] = map[turn[t].on][k]
    BY <1>3 DEF SavedMap, MapOf, StoreKeys
  <2>3. QED BY <1>3, <2>1, <2>2 DEF SavedWhenUnlocked, StoreKeys
<1>4. ASSUME NEW t \in Turns, SaveAdopted(t) \/ SaveDropped(t) \/ SaveRemembered(t)
      PROVE  SavedWhenUnlocked'
  BY <1>3, <1>4 DEF SaveAdopted, SaveDropped, SaveRemembered, EndSave, Saving
<1>5. ASSUME NEW t \in Turns, Capture(t) \/ (Drop(t) /\ ~Persisted(t)) PROVE SavedWhenUnlocked'
  <2>1. UNCHANGED <<disk, gen, loaded, lock, mishaps>>
    BY <1>5 DEF Capture, Drop, history
  <2>2. /\ turn[t].on \in Adapters /\ turn[t].key \in SessionKeys /\ map \in [Adapters -> Maps]
        /\ Fits(turn[t], task[t], loaded) /\ turn[t].pc \in {"waiting", "drop"}
    BY <1>5 DEF Capture, Drop, PlacedInv, Placed, Fits, TypeOK
  <2>3. \/ map' = map
        \/ turn[t].key \in ChatKeys /\ \E v : map' = [map EXCEPT ![turn[t].on][turn[t].key] = v]
    BY <1>5, <2>2 DEF Capture, Drop, Persisted, SessionKeys
  <2>4. \A g \in Adapters, k \in StoreKeys : map'[g][k] = map[g][k]
    <3>1. CASE map' = map
      BY <3>1
    <3>2. ASSUME turn[t].key \in ChatKeys, NEW v, map' = [map EXCEPT ![turn[t].on][turn[t].key] = v],
                 NEW g \in Adapters, NEW k \in StoreKeys
          PROVE  map'[g][k] = map[g][k]
      <4>1. k # turn[t].key /\ k \in MapKeys
        BY <3>2 DEF StoreKeys
      <4>2. map'[g] = IF g = turn[t].on THEN [map[g] EXCEPT ![turn[t].key] = v] ELSE map[g]
        BY <2>2, <3>2
      <4>3. map[g] \in Maps
        BY <2>2
      <4>4. QED BY <4>1, <4>2, <4>3 DEF Maps
    <3>3. QED BY <2>3, <3>1, <3>2
  <2>5. QED BY <2>1, <2>4, SavedQuiet
<1>6. ASSUME NEW t \in Turns, Cancel(t) PROVE SavedWhenUnlocked'
  <2>1. UNCHANGED <<gen, map, loaded>>
    BY <1>6 DEF Cancel
  <2>2. CASE Saving(t) /\ disk' = SavedMap(t)
    BY <1>3, <2>1, <2>2
  <2>3. CASE "save_cancelled" \in mishaps'
    BY <2>3 DEF SavedWhenUnlocked
  <2>4. CASE ~Saving(t)
    <3>1. UNCHANGED <<disk, mishaps>>
      BY <1>6, <2>4 DEF Cancel
    <3>2. \A g \in Adapters : lock'[g] = lock[g]
      BY <1>6, <2>4 DEF Cancel, Release, PlacedInv, TypeOK
    <3>3. QED BY <2>1, <3>1, <3>2, SavedQuiet
  <2>5. QED BY <1>6, <2>2, <2>3, <2>4 DEF Cancel
<1>7. ASSUME NEW t \in Turns,
             \/ \E k \in SessionKeys : Start(t, k)
             \/ Accept(t) \/ RejectStale(t) \/ FailPost(t) \/ FinishTurn(t) \/ FailStream(t)
      PROVE  SavedWhenUnlocked'
  <2>1. UNCHANGED <<disk, gen, map, loaded, lock, mishaps>>
    BY <1>7 DEF Start, Accept, RejectStale, FailPost, FinishTurn, FailStream, history
  <2>2. QED BY <2>1, SavedQuiet
<1>8. ASSUME (\E c \in Conversations : Expire(c)) \/ Reload \/ TaskMoves \/ UNCHANGED vars
      PROVE  SavedWhenUnlocked'
  <2>1. UNCHANGED <<disk, map, loaded, lock>> /\ mishaps \subseteq mishaps'
    BY <1>8, TaskMovesAlone DEF Expire, Reload, history, vars
  <2>2. QED BY <2>1, SavedQuiet
<1>9. CASE Restart
  BY <1>9 DEF Restart, SavedWhenUnlocked
<1>10. QED BY <1>1, <1>2, <1>4, <1>5, <1>6, <1>7, <1>8, <1>9 DEF Next, UnderLock, Answered, TaskMoves

\* Nothing is lost by a restart between turns: every path that changes an adapter's
\* map saves it before it gives the lock back (_lookup, _remember, _drop).
THEOREM Saved == Spec => []SavedWhenUnlocked
<1>1. Init => SavedWhenUnlocked
  BY DEF Init, SavedWhenUnlocked
<1>2. QED BY <1>1, SavedStep, AlwaysPlaced, PTL DEF Spec

-----------------------------------------------------------------------------
(* What was dropped stays forgotten                                        *)

\* The conversations that the server has opened, those continued under a chat key,
\* and those that a turn has just opened and no map knows yet.
Opened == 1..opened
ChatTalks == {c \in Conversations : usedBy[c] \cap ChatKeys # {}}

IsFresh(s) == s.pc \in {"waiting", "remember"} /\ s.id = None
FreshIds == {turn[t].cid : t \in {u \in Turns : IsFresh(turn[u])}}

\* A map of opened conversations (known), each under one key, those of the chat keys
\* apart from the others, none of them in a set of conversations it must not have.
Good(m, known, chats, barred) ==
    /\ \A k \in MapKeys : m[k] # None => m[k] \in known \ barred /\ (m[k] \in chats <=> k \in ChatKeys)
    /\ \A j, k \in MapKeys : m[j] = m[k] /\ m[j] # None => j = k

\* A turn echoes and continues conversations of its key's kind.
Talks(s, known, chats) ==
    /\ s.id # None => s.id \in known /\ (s.id \in chats <=> s.key \in ChatKeys)
    /\ s.pc \in Accepted => s.cid \in known /\ (s.cid \in chats <=> s.key \in ChatKeys)

MapsGood == \A g \in Adapters : Good(map[g], Opened, ChatTalks, FreshIds \cup forgotten[g])
DiskGood == Good(disk, Opened, ChatTalks, FreshIds) /\ \A k \in ChatKeys : disk[k] = None
Forgotten ==
    \A g \in Adapters : /\ forgotten[g] \subseteq Opened \ FreshIds
                        /\ g \notin loaded => forgotten[g] \subseteq ChatTalks
TurnsTalk == \A t \in Turns : Talks(turn[t], Opened, ChatTalks)
FreshApart ==
    \A t, u \in Turns : IsFresh(turn[t]) /\ IsFresh(turn[u]) /\ turn[t].cid = turn[u].cid => t = u
UsedOpened == \A c \in Conversations : usedBy[c] # {} => c \in Opened

ForgottenInv == MapsGood /\ DiskGood /\ Forgotten /\ TurnsTalk /\ FreshApart /\ UsedOpened

LEMMA OpenedConversations == PlacedInv => Opened \subseteq Conversations /\ None \notin Opened
<1>1. PlacedInv => Opened \subseteq Conversations
  BY BoundsAssumption DEF PlacedInv, TypeOK, Opened, Conversations
<1>2. QED BY <1>1, NoneAssumption

\* A map stays good when more conversations are known and none of its own barred.
LEMMA GoodLater ==
    ASSUME NEW m, NEW known, NEW chats, NEW barred, NEW known2, NEW chats2, NEW barred2,
           Good(m, known, chats, barred), known \subseteq known2,
           chats2 \cap known = chats \cap known, barred2 \cap known \subseteq barred
    PROVE  Good(m, known2, chats2, barred2)
BY DEF Good

\* One key of a map is given up, or gets a conversation that no other has.
LEMMA GoodSet ==
    ASSUME NEW m \in Maps, NEW known, NEW chats, NEW barred, NEW k \in MapKeys, NEW v,
           Good(m, known, chats, barred),
           \/ v = None
           \/ /\ v \in known \ barred /\ (v \in chats <=> k \in ChatKeys)
              /\ \A j \in MapKeys : m[j] # v
    PROVE  Good([m EXCEPT ![k] = v], known, chats, barred)
<1>1. \A j \in MapKeys : [m EXCEPT ![k] = v][j] = IF j = k THEN v ELSE m[j]
  BY DEF Maps
<1>2. QED BY <1>1 DEF Good

\* What a key gives up may be barred.
LEMMA GoodDrop ==
    ASSUME NEW m \in Maps, NEW known, NEW chats, NEW barred, NEW k \in MapKeys,
           Good(m, known, chats, barred)
    PROVE  Good([m EXCEPT ![k] = None], known, chats, barred \cup ({m[k]} \ {None}))
<1>1. \A j \in MapKeys : [m EXCEPT ![k] = None][j] = IF j = k THEN None ELSE m[j]
  BY DEF Maps
<1>2. QED BY <1>1 DEF Good

\* The legacy entry moves to a device's agent.
LEMMA GoodAdopt ==
    ASSUME NEW m \in Maps, NEW known, NEW chats, NEW barred, NEW k \in DeviceKeys,
           Good(m, known, chats, barred)
    PROVE  Good([m EXCEPT ![k] = m[LegacyKey], ![LegacyKey] = None], known, chats, barred)
<1>1. k \in MapKeys /\ LegacyKey \in MapKeys /\ k # LegacyKey /\ k \notin ChatKeys /\ LegacyKey \notin ChatKeys
  BY KeysAssumption DEF MapKeys, SessionKeys
<1>2. \A j \in MapKeys : [m EXCEPT ![k] = m[LegacyKey], ![LegacyKey] = None][j] =
                           IF j = LegacyKey THEN None ELSE IF j = k THEN m[LegacyKey] ELSE m[j]
  BY <1>1 DEF Maps
<1>3. QED BY <1>1, <1>2, ZenonT(60) DEF Good

\* A map that is loaded is good: its adapter has forgotten chats only.
LEMMA GoodLoaded ==
    ASSUME PlacedInv, ForgottenInv, NEW t \in Turns, turn[t].pc # "idle"
    PROVE  /\ Good(MapOf(t), Opened, ChatTalks, FreshIds \cup forgotten[turn[t].on])
           /\ Good(Loaded(t), Opened, ChatTalks, FreshIds \cup forgotten[turn[t].on])
<1>1. turn[t].on \in Adapters
  BY MapsTyped
<1>2. Good(MapOf(t), Opened, ChatTalks, FreshIds \cup forgotten[turn[t].on])
  BY <1>1 DEF MapOf, ForgottenInv, MapsGood
<1>3. CASE turn[t].on \in loaded
  BY <1>2, <1>3 DEF Loaded
<1>4. CASE turn[t].on \notin loaded
  <2>1. \A k \in MapKeys : Loaded(t)[k] = IF k \in ChatKeys THEN MapOf(t)[k] ELSE disk[k]
    BY <1>4 DEF Loaded
  <2>2. forgotten[turn[t].on] \subseteq ChatTalks
    BY <1>1, <1>4 DEF ForgottenInv, Forgotten
  <2>3. Good(disk, Opened, ChatTalks, FreshIds)
    BY DEF ForgottenInv, DiskGood
  <2> HIDE DEF Loaded, MapOf
  <2>4. QED BY <1>2, <2>1, <2>2, <2>3 DEF Good
<1>5. QED BY <1>2, <1>3, <1>4

\* What a save writes is good.
LEMMA GoodSaved ==
    ASSUME NEW m \in Maps, NEW m2 \in Maps, NEW known, NEW chats, NEW barred,
           Good(m, known, chats, barred),
           \A k \in MapKeys : m2[k] = IF k \in ChatKeys THEN None ELSE m[k]
    PROVE  Good(m2, known, chats, barred)
BY DEF Good

\* One turn moves: none becomes fresh, and what it no longer keeps for itself is no
\* other turn's.
LEMMA FreshMove ==
    ASSUME PlacedInv, FreshApart, NEW t \in Turns, NEW s \in TurnStates,
           turn' = [turn EXCEPT ![t] = s],
           IsFresh(s) => IsFresh(turn[t]) /\ s.cid = turn[t].cid
    PROVE  /\ FreshIds' \subseteq FreshIds /\ FreshApart'
           /\ IsFresh(turn[t]) /\ ~IsFresh(s) => turn[t].cid \notin FreshIds'
<1>1. \A u \in Turns : turn'[u] = IF u = t THEN s ELSE turn[u]
  BY DEF PlacedInv, TypeOK
<1>2. \A u \in Turns : IsFresh(turn'[u]) => IsFresh(turn[u]) /\ turn'[u].cid = turn[u].cid
  BY <1>1
<1> HIDE DEF IsFresh
<1>3. FreshIds' \subseteq FreshIds
  BY <1>2 DEF FreshIds
<1>4. FreshApart'
  BY <1>2 DEF FreshApart
<1>5. ASSUME IsFresh(turn[t]), ~IsFresh(s) PROVE turn[t].cid \notin FreshIds'
  <2>1. SUFFICES ASSUME NEW u \in Turns, IsFresh(turn'[u]), turn'[u].cid = turn[t].cid PROVE FALSE
    BY DEF FreshIds
  <2>2. u # t
    BY <1>1, <1>5, <2>1
  <2>3. QED BY <1>2, <1>5, <2>1, <2>2 DEF FreshApart
<1>6. QED BY <1>3, <1>4, <1>5

\* One turn moves, and its adapter's map with it.
LEMMA ForgottenMove ==
    ASSUME PlacedInv, ForgottenInv, NEW t \in Turns, NEW s \in TurnStates,
           turn' = [turn EXCEPT ![t] = s], UNCHANGED <<opened, usedBy>>,
           Talks(s, Opened, ChatTalks),
           IsFresh(s) => IsFresh(turn[t]) /\ s.cid = turn[t].cid,
           loaded \subseteq loaded',
           (turn[t].pc # "idle" /\ disk' = SavedMap(t)) \/ disk' = disk,
           \A g \in Adapters :
               \/ map'[g] = map[g] /\ forgotten'[g] = forgotten[g]
               \/ /\ Good(map'[g], Opened, ChatTalks, FreshIds' \cup forgotten'[g])
                  /\ forgotten'[g] \subseteq Opened \ FreshIds'
                  /\ (g \in loaded' \/ forgotten'[g] \subseteq ChatTalks)
    PROVE  ForgottenInv'
<1>1. Opened' = Opened /\ ChatTalks' = ChatTalks
  BY DEF Opened, ChatTalks
<1>2. FreshIds' \subseteq FreshIds /\ FreshApart'
  BY FreshMove DEF ForgottenInv
<1>3. MapsGood'
  <2>1. ASSUME NEW g \in Adapters, map'[g] = map[g], forgotten'[g] = forgotten[g]
        PROVE  Good(map'[g], Opened, ChatTalks, FreshIds' \cup forgotten'[g])
    <3>1. Good(map[g], Opened, ChatTalks, FreshIds \cup forgotten[g])
      BY DEF ForgottenInv, MapsGood
    <3>2. QED BY <1>2, <2>1, <3>1, GoodLater
  <2>2. \A g \in Adapters : Good(map'[g], Opened, ChatTalks, FreshIds' \cup forgotten'[g])
    BY <2>1
  <2>3. QED BY <1>1, <2>2 DEF MapsGood
<1>4. DiskGood'
  <2>1. CASE disk' = disk
    <3>1. Good(disk, Opened, ChatTalks, FreshIds)
      BY DEF ForgottenInv, DiskGood
    <3>2. Good(disk, Opened, ChatTalks, FreshIds')
      BY <1>2, <3>1, GoodLater
    <3>3. QED BY <1>1, <2>1, <3>2 DEF ForgottenInv, DiskGood
  <2>2. CASE turn[t].pc # "idle" /\ disk' = SavedMap(t)
    <3>1. Good(MapOf(t), Opened, ChatTalks, FreshIds \cup forgotten[turn[t].on])
      BY <2>2, GoodLoaded
    <3>2. MapOf(t) \in Maps /\ SavedMap(t) \in Maps
      BY <2>2, MapsTyped
    <3>3. \A k \in MapKeys : SavedMap(t)[k] = IF k \in ChatKeys THEN None ELSE MapOf(t)[k]
      BY DEF SavedMap
    <3>4. Good(SavedMap(t), Opened, ChatTalks, FreshIds \cup forgotten[turn[t].on])
      BY <3>1, <3>2, <3>3, GoodSaved
    <3>5. Good(SavedMap(t), Opened, ChatTalks, FreshIds')
      BY <1>2, <3>4, GoodLater
    <3>6. \A k \in ChatKeys : SavedMap(t)[k] = None
      BY <3>3 DEF MapKeys, SessionKeys
    <3>7. QED BY <1>1, <2>2, <3>5, <3>6 DEF DiskGood
  <2>3. QED BY <2>1, <2>2
<1>5. Forgotten'
  <2>1. ASSUME NEW g \in Adapters, map'[g] = map[g], forgotten'[g] = forgotten[g]
        PROVE  forgotten'[g] \subseteq Opened \ FreshIds' /\ (g \in loaded' \/ forgotten'[g] \subseteq ChatTalks)
    BY <1>2, <2>1 DEF ForgottenInv, Forgotten
  <2>2. QED BY <1>1, <2>1 DEF Forgotten
<1>6. TurnsTalk'
  <2>1. \A u \in Turns : turn'[u] = IF u = t THEN s ELSE turn[u]
    BY DEF PlacedInv, TypeOK
  <2>2. \A u \in Turns : Talks(turn'[u], Opened, ChatTalks)
    BY <2>1 DEF ForgottenInv, TurnsTalk
  <2>3. QED BY <1>1, <2>2 DEF TurnsTalk
<1>7. UsedOpened'
  BY DEF ForgottenInv, UsedOpened, Opened
<1>8. QED BY <1>2, <1>3, <1>4, <1>5, <1>6, <1>7 DEF ForgottenInv

\* One turn moves and writes its adapter's map, without a drop.
LEMMA ForgottenWrite ==
    ASSUME PlacedInv, ForgottenInv, NEW t \in Turns, NEW s \in TurnStates, NEW m,
           turn' = [turn EXCEPT ![t] = s], UNCHANGED <<opened, usedBy, disk, forgotten>>,
           Talks(s, Opened, ChatTalks),
           IsFresh(s) => IsFresh(turn[t]) /\ s.cid = turn[t].cid,
           loaded \subseteq loaded', map' = [map EXCEPT ![turn[t].on] = m],
           Good(m, Opened, ChatTalks, FreshIds' \cup forgotten[turn[t].on])
    PROVE  ForgottenInv'
<1>1. FreshIds' \subseteq FreshIds
  BY FreshMove DEF ForgottenInv
<1>2. \A g \in Adapters : map'[g] = IF g = turn[t].on THEN m ELSE map[g]
  BY DEF PlacedInv, TypeOK
<1>3. ASSUME NEW g \in Adapters
      PROVE  \/ map'[g] = map[g] /\ forgotten'[g] = forgotten[g]
             \/ /\ Good(map'[g], Opened, ChatTalks, FreshIds' \cup forgotten'[g])
                /\ forgotten'[g] \subseteq Opened \ FreshIds'
                /\ (g \in loaded' \/ forgotten'[g] \subseteq ChatTalks)
  <2>1. /\ forgotten'[g] = forgotten[g] /\ forgotten[g] \subseteq Opened \ FreshIds'
        /\ (g \in loaded' \/ forgotten'[g] \subseteq ChatTalks)
    BY <1>1 DEF ForgottenInv, Forgotten
  <2>2. CASE g = turn[t].on
    BY <1>2, <2>1, <2>2
  <2>3. CASE g # turn[t].on
    BY <1>2, <2>1, <2>3
  <2>4. QED BY <2>2, <2>3
<1>4. QED BY <1>3, ForgottenMove

\* A turn that remembers its new conversation takes it from no other key.
LEMMA FreshRemembered ==
    ASSUME PlacedInv, ForgottenInv, NEW t \in Turns, NEW s \in TurnStates, NEW m \in Maps,
           turn' = [turn EXCEPT ![t] = s], IsFresh(turn[t]), ~IsFresh(s),
           Good(m, Opened, ChatTalks, FreshIds \cup forgotten[turn[t].on])
    PROVE  Good([m EXCEPT ![turn[t].key] = turn[t].cid], Opened, ChatTalks,
                FreshIds' \cup forgotten[turn[t].on])
<1>1. turn[t].on \in Adapters /\ turn[t].key \in MapKeys
  BY MapsTyped DEF IsFresh
<1>2. FreshIds' \subseteq FreshIds /\ turn[t].cid \in FreshIds \ FreshIds'
  BY FreshMove DEF ForgottenInv, FreshIds
<1>3. turn[t].cid \in Opened /\ (turn[t].cid \in ChatTalks <=> turn[t].key \in ChatKeys)
  BY DEF ForgottenInv, TurnsTalk, Talks, IsFresh, Accepted
<1>4. turn[t].cid # None
  BY <1>3, OpenedConversations
<1>5. turn[t].cid \notin forgotten[turn[t].on]
  BY <1>1, <1>2 DEF ForgottenInv, Forgotten
<1>6. \A j \in MapKeys : m[j] # turn[t].cid
  BY <1>2, <1>4 DEF Good
<1>7. Good(m, Opened, ChatTalks, FreshIds' \cup forgotten[turn[t].on])
  BY <1>2, GoodLater
<1>8. turn[t].cid \in Opened \ (FreshIds' \cup forgotten[turn[t].on])
  BY <1>2, <1>3, <1>5
<1>9. QED BY <1>1, <1>3, <1>6, <1>7, <1>8, GoodSet

\* A turn looks its key up or finds nothing to drop: it echoes what the map has.
LEMMA ForgottenRead ==
    ASSUME PlacedInv, ForgottenInv, NEW t \in Turns,
           Lookup(t) \/ DropNothing(t) \/ LookupAdopting(t)
    PROVE  ForgottenInv'
<1>1. /\ turn[t].pc \in {"lookup", "drop"} /\ turn[t].key \in SessionKeys
      /\ UNCHANGED <<opened, usedBy, disk, forgotten>>
  BY DEF Lookup, DropNothing, LookupAdopting, PlacedInv, Placed, Fits, server, history
<1>2. /\ turn[t] \in TurnStates /\ turn[t].on \in Adapters
      /\ MapOf(t) \in Maps /\ Loaded(t) \in Maps /\ turn[t].key \in MapKeys
      /\ map[turn[t].on] = MapOf(t) /\ map \in [Adapters -> Maps]
  BY <1>1, MapsTyped DEF MapOf, PlacedInv, TypeOK
<1>3. /\ Good(MapOf(t), Opened, ChatTalks, FreshIds \cup forgotten[turn[t].on])
      /\ Good(Loaded(t), Opened, ChatTalks, FreshIds \cup forgotten[turn[t].on])
  BY <1>1, GoodLoaded
<1>4. Talks(turn[t], Opened, ChatTalks) /\ turn[t].pc \notin Accepted
  BY <1>1 DEF ForgottenInv, TurnsTalk, Accepted
<1>5. CASE Lookup(t) \/ DropNothing(t)
  <2>1. PICK m \in {MapOf(t), Loaded(t)}, id \in {None, MapOf(t)[turn[t].key], Loaded(t)[turn[t].key]} :
          /\ id \in {None, m[turn[t].key]}
          /\ turn' = [turn EXCEPT ![t] = [@ EXCEPT !.pc = "posting", !.id = id]]
          /\ map' = [map EXCEPT ![turn[t].on] = m] /\ loaded \subseteq loaded'
    <3>1. map = [map EXCEPT ![turn[t].on] = MapOf(t)]
      BY <1>2
    <3>2. CASE turn[t].key \in DeviceKeys
      <4>1. \E id \in {None, Loaded(t)[turn[t].key]} :
              /\ turn' = [turn EXCEPT ![t] = [@ EXCEPT !.pc = "posting", !.id = id]]
              /\ map' = [map EXCEPT ![turn[t].on] = Loaded(t)] /\ loaded \subseteq loaded'
        BY <1>5, <3>2 DEF Lookup, DropNothing, Persisted, MarkLoaded
      <4> HIDE DEF Loaded, MapOf
      <4>2. QED BY <4>1
    <3>3. CASE turn[t].key \notin DeviceKeys
      <4>1. \E id \in {None, MapOf(t)[turn[t].key]} :
              /\ turn' = [turn EXCEPT ![t] = [@ EXCEPT !.pc = "posting", !.id = id]]
              /\ map' = map /\ loaded \subseteq loaded'
        BY <1>5, <3>3 DEF Lookup, DropNothing, Persisted
      <4> HIDE DEF Loaded, MapOf
      <4>2. QED BY <3>1, <4>1
    <3>4. QED BY <3>2, <3>3
  <2>2. m \in Maps /\ Good(m, Opened, ChatTalks, FreshIds \cup forgotten[turn[t].on])
    BY <1>2, <1>3
  <2>3. /\ id \in Conversations \cup {None}
        /\ id # None => id \in Opened /\ (id \in ChatTalks <=> turn[t].key \in ChatKeys)
    <3>1. id = None \/ id = m[turn[t].key]
      BY <2>1
    <3>2. m[turn[t].key] \in Conversations \cup {None}
      BY <1>2, <2>2 DEF Maps
    <3>3. m[turn[t].key] # None =>
             m[turn[t].key] \in Opened /\ (m[turn[t].key] \in ChatTalks <=> turn[t].key \in ChatKeys)
      BY <1>2, <2>2 DEF Good
    <3>4. QED BY <3>1, <3>2, <3>3
  <2> DEFINE s == [turn[t] EXCEPT !.pc = "posting", !.id = id]
  <2>4. s \in TurnStates /\ s.pc = "posting" /\ s.id = id /\ s.key = turn[t].key
    BY <1>2, <2>3 DEF TurnStates, Pcs
  <2>5. turn' = [turn EXCEPT ![t] = s]
    BY <2>1
  <2> HIDE DEF s
  <2>6. Talks(s, Opened, ChatTalks) /\ ~IsFresh(s)
    BY <2>3, <2>4 DEF Talks, Accepted, IsFresh
  <2>7. FreshIds' \subseteq FreshIds
    BY <2>4, <2>5, <2>6, FreshMove DEF ForgottenInv
  <2>8. Good(m, Opened, ChatTalks, FreshIds' \cup forgotten[turn[t].on])
    BY <2>2, <2>7, GoodLater
  <2>9. QED BY <1>1, <2>1, <2>4, <2>5, <2>6, <2>8, ForgottenWrite
<1>6. CASE LookupAdopting(t)
  <2> DEFINE s == [turn[t] EXCEPT !.pc = "saving_adopted"]
             m == [Loaded(t) EXCEPT ![turn[t].key] = Loaded(t)[LegacyKey], ![LegacyKey] = None]
  <2>1. /\ turn' = [turn EXCEPT ![t] = s] /\ map' = [map EXCEPT ![turn[t].on] = m]
        /\ loaded \subseteq loaded' /\ turn[t].key \in DeviceKeys
    BY <1>6 DEF LookupAdopting, BeginSave, Goes, MarkLoaded, Persisted, PlacedInv, TypeOK
  <2>2. s \in TurnStates /\ s.pc = "saving_adopted" /\ s.id = turn[t].id /\ s.key = turn[t].key
    BY <1>2 DEF TurnStates, Pcs
  <2>3. Good(m, Opened, ChatTalks, FreshIds \cup forgotten[turn[t].on])
    BY <1>2, <1>3, <2>1, GoodAdopt
  <2> HIDE DEF s, m
  <2>4. Talks(s, Opened, ChatTalks) /\ ~IsFresh(s)
    BY <1>4, <2>2 DEF Talks, Accepted, IsFresh
  <2>5. FreshIds' \subseteq FreshIds
    BY <2>1, <2>2, <2>4, FreshMove DEF ForgottenInv
  <2>6. Good(m, Opened, ChatTalks, FreshIds' \cup forgotten[turn[t].on])
    BY <2>3, <2>5, GoodLater
  <2>7. QED BY <1>1, <2>1, <2>2, <2>4, <2>6, ForgottenWrite
<1>7. QED BY <1>5, <1>6

\* What a smaller and a grown set share with a third.
LEMMA MeetGrown ==
    ASSUME NEW A, NEW B, NEW C, NEW D, NEW E, NEW F, A \subseteq B, C = D \cup E
    PROVE  (A \cup C) \cap F \subseteq (B \cup D) \cup E
OBVIOUS

\* A turn drops what its key maps to by now, and its adapter never has it again.
LEMMA ForgottenDrop ==
    ASSUME PlacedInv, ForgottenInv, NEW t \in Turns, Drop(t)
    PROVE  ForgottenInv'
<1>1. turn[t].pc = "drop" /\ turn[t].key \in SessionKeys /\ UNCHANGED <<opened, usedBy, disk>>
  BY DEF Drop, PlacedInv, Placed, Fits, server
<1>2. /\ turn[t] \in TurnStates /\ turn[t].on \in Adapters /\ turn[t].key \in MapKeys
      /\ MapOf(t) \in Maps /\ Loaded(t) \in Maps
  BY <1>1, MapsTyped
<1>3. PICK m \in {MapOf(t), Loaded(t)}, s \in TurnStates :
        /\ turn' = [turn EXCEPT ![t] = s] /\ ~IsFresh(s) /\ Talks(s, Opened, ChatTalks)
        /\ map'[turn[t].on] = [m EXCEPT ![turn[t].key] = None]
        /\ \A g \in Adapters \ {turn[t].on} : map'[g] = map[g]
        /\ Forget(t, m[turn[t].key])
        /\ loaded \subseteq loaded'
        /\ turn[t].key \in ChatKeys \/ turn[t].on \in loaded'
  <2>1. Talks(turn[t], Opened, ChatTalks)
    BY DEF ForgottenInv, TurnsTalk
  <2>2. CASE Persisted(t)
    <3> DEFINE s == [turn[t] EXCEPT !.pc = "saving_dropped"]
    <3>1. /\ turn' = [turn EXCEPT ![t] = s]
          /\ map' = [map EXCEPT ![turn[t].on] = [Loaded(t) EXCEPT ![turn[t].key] = None]]
          /\ loaded \subseteq loaded' /\ turn[t].on \in loaded' /\ Forget(t, Loaded(t)[turn[t].key])
      BY <2>2 DEF Drop, BeginSave, Goes, MarkLoaded, PlacedInv, TypeOK
    <3>2. s \in TurnStates /\ s.pc = "saving_dropped" /\ s.id = turn[t].id /\ s.key = turn[t].key
      BY <1>2 DEF TurnStates, Pcs
    <3> HIDE DEF s, Loaded, MapOf
    <3>3. ~IsFresh(s) /\ Talks(s, Opened, ChatTalks)
      BY <2>1, <3>2 DEF IsFresh, Talks, Accepted
    <3>4. /\ map'[turn[t].on] = [Loaded(t) EXCEPT ![turn[t].key] = None]
          /\ \A g \in Adapters \ {turn[t].on} : map'[g] = map[g]
      BY <1>2, <3>1 DEF PlacedInv, TypeOK
    <3>5. QED BY <3>1, <3>2, <3>3, <3>4
  <2>3. CASE ~Persisted(t)
    <3> DEFINE s == [turn[t] EXCEPT !.pc = "posting", !.id = None]
    <3>1. /\ turn' = [turn EXCEPT ![t] = s]
          /\ map' = [map EXCEPT ![turn[t].on][turn[t].key] = None]
          /\ loaded = loaded' /\ turn[t].key \in ChatKeys /\ Forget(t, MapOf(t)[turn[t].key])
      BY <1>1, <2>3 DEF Drop, Persisted, SessionKeys
    <3>2. s \in TurnStates /\ s.pc = "posting" /\ s.id = None /\ s.key = turn[t].key
      BY <1>2 DEF TurnStates, Pcs
    <3>4. /\ map'[turn[t].on] = [MapOf(t) EXCEPT ![turn[t].key] = None]
          /\ \A g \in Adapters \ {turn[t].on} : map'[g] = map[g]
      BY <1>2, <3>1 DEF PlacedInv, TypeOK, MapOf
    <3> HIDE DEF s, Loaded, MapOf
    <3>3. ~IsFresh(s) /\ Talks(s, Opened, ChatTalks)
      BY <3>2 DEF IsFresh, Talks, Accepted
    <3>5. QED BY <3>1, <3>2, <3>3, <3>4
  <2>4. QED BY <2>2, <2>3
<1> DEFINE v == m[turn[t].key]
<1>4. m \in Maps /\ Good(m, Opened, ChatTalks, FreshIds \cup forgotten[turn[t].on])
  BY <1>1, <1>2, <1>3, GoodLoaded
<1>5. FreshIds' \subseteq FreshIds
  BY <1>3, FreshMove DEF ForgottenInv
<1>6. /\ forgotten'[turn[t].on] = forgotten[turn[t].on] \cup ({v} \ {None})
      /\ \A g \in Adapters \ {turn[t].on} : forgotten'[g] = forgotten[g]
  BY <1>2, <1>3 DEF Forget, PlacedInv, TypeOK
<1>7. v # None => v \in Opened \ FreshIds /\ (v \in ChatTalks <=> turn[t].key \in ChatKeys)
  BY <1>2, <1>4 DEF Good
<1>8. Good(map'[turn[t].on], Opened, ChatTalks, FreshIds' \cup forgotten'[turn[t].on])
  <2>1. Good(map'[turn[t].on], Opened, ChatTalks,
             (FreshIds \cup forgotten[turn[t].on]) \cup ({v} \ {None}))
    BY <1>2, <1>3, <1>4, GoodDrop, SMTT(30)
  <2>2. Opened \subseteq Opened /\ ChatTalks \cap Opened = ChatTalks \cap Opened
    OBVIOUS
  <2>3. (FreshIds' \cup forgotten'[turn[t].on]) \cap Opened
           \subseteq (FreshIds \cup forgotten[turn[t].on]) \cup ({v} \ {None})
    BY <1>5, <1>6, MeetGrown
  <2>4. QED BY <2>1, <2>2, <2>3, GoodLater
<1> HIDE DEF v
<1>9. forgotten'[turn[t].on] \subseteq Opened \ FreshIds'
  BY <1>2, <1>5, <1>6, <1>7 DEF ForgottenInv, Forgotten
<1>10. turn[t].on \in loaded' \/ forgotten'[turn[t].on] \subseteq ChatTalks
  BY <1>2, <1>3, <1>6, <1>7 DEF ForgottenInv, Forgotten
<1>11. \A g \in Adapters :
         \/ map'[g] = map[g] /\ forgotten'[g] = forgotten[g]
         \/ /\ Good(map'[g], Opened, ChatTalks, FreshIds' \cup forgotten'[g])
            /\ forgotten'[g] \subseteq Opened \ FreshIds'
            /\ (g \in loaded' \/ forgotten'[g] \subseteq ChatTalks)
  BY <1>3, <1>6, <1>8, <1>9, <1>10
<1>12. QED BY <1>1, <1>3, <1>11, ForgottenMove

\* The stream names the conversation, and a new one is remembered.
LEMMA ForgottenCapture ==
    ASSUME PlacedInv, ForgottenInv, NEW t \in Turns, Capture(t) \/ Remember(t)
    PROVE  ForgottenInv'
<1>1. /\ turn[t].pc \in {"waiting", "remember"} /\ Fits(turn[t], task[t], loaded)
      /\ UNCHANGED <<opened, usedBy, disk, forgotten>>
  BY DEF Capture, Remember, PlacedInv, Placed, server, history
<1>2. /\ turn[t] \in TurnStates /\ turn[t].on \in Adapters /\ turn[t].key \in MapKeys
      /\ MapOf(t) \in Maps /\ Loaded(t) \in Maps
      /\ map[turn[t].on] = MapOf(t) /\ map \in [Adapters -> Maps]
  BY <1>1, MapsTyped DEF MapOf, PlacedInv, TypeOK
<1>3. /\ Good(MapOf(t), Opened, ChatTalks, FreshIds \cup forgotten[turn[t].on])
      /\ Good(Loaded(t), Opened, ChatTalks, FreshIds \cup forgotten[turn[t].on])
  BY <1>1, GoodLoaded
<1>4. PICK pc \in Pcs : /\ turn' = [turn EXCEPT ![t].pc = pc] /\ pc \in Accepted \ {"waiting"}
                        /\ pc = "remember" => Capture(t)
  BY DEF Capture, Remember, BeginSave, Goes, Pcs, Accepted
<1> DEFINE s == [turn[t] EXCEPT !.pc = pc]
<1>5. /\ s \in TurnStates /\ s.pc = pc /\ s.key = turn[t].key /\ s.id = turn[t].id
      /\ s.cid = turn[t].cid /\ turn' = [turn EXCEPT ![t] = s]
  BY <1>2, <1>4 DEF TurnStates, PlacedInv, TypeOK
<1> HIDE DEF s
<1>6. Talks(s, Opened, ChatTalks)
  BY <1>1, <1>4, <1>5 DEF ForgottenInv, TurnsTalk, Talks, Accepted
<1>7. IsFresh(s) => IsFresh(turn[t])
  BY <1>1, <1>5 DEF IsFresh
<1>8. CASE Capture(t) /\ map' = map
  <2>1. \A g \in Adapters : map'[g] = map[g] /\ forgotten'[g] = forgotten[g]
    BY <1>1, <1>8
  <2>2. loaded' = loaded
    BY <1>8 DEF Capture
  <2>3. QED BY <1>1, <1>5, <1>6, <1>7, <2>1, <2>2, ForgottenMove
<1>9. CASE Remember(t) \/ (Capture(t) /\ map' # map)
  <2>1. PICK m \in {MapOf(t), Loaded(t)} :
          map' = [map EXCEPT ![turn[t].on] = [m EXCEPT ![turn[t].key] = turn[t].cid]]
    <3>1. CASE Remember(t)
      BY <3>1 DEF Remember, BeginSave
    <3>2. CASE Capture(t) /\ map' # map
      <4>1. map' = [map EXCEPT ![turn[t].on][turn[t].key] = turn[t].cid]
        BY <3>2 DEF Capture
      <4>2. QED BY <1>2, <4>1
    <3>3. QED BY <1>9, <3>1, <3>2
  <2>2. IsFresh(turn[t]) /\ ~IsFresh(s)
    <3>1. CASE Remember(t)
      <4>1. pc = "saving_remembered"
        BY <1>1, <1>2, <1>4, <3>1 DEF Remember, BeginSave, Goes, PlacedInv, TypeOK, TurnStates
      <4>2. QED BY <1>1, <1>5, <3>1, <4>1 DEF Remember, IsFresh, Fits
    <3>2. CASE Capture(t) /\ map' # map
      <4>1. pc = "talking" /\ turn[t].pc = "waiting" /\ turn[t].id # turn[t].cid
        BY <1>1, <1>2, <1>4, <3>2 DEF Capture, Goes, PlacedInv, TypeOK, TurnStates
      <4>2. QED BY <1>1, <1>5, <4>1 DEF IsFresh, Fits
    <3>3. QED BY <1>9, <3>1, <3>2
  <2>3. m \in Maps /\ Good(m, Opened, ChatTalks, FreshIds \cup forgotten[turn[t].on])
    BY <1>2, <1>3
  <2>4. Good([m EXCEPT ![turn[t].key] = turn[t].cid], Opened, ChatTalks,
             FreshIds' \cup forgotten[turn[t].on])
    BY <1>5, <2>2, <2>3, FreshRemembered
  <2>5. loaded \subseteq loaded'
    BY DEF Capture, Remember, MarkLoaded
  <2>6. QED BY <1>1, <1>5, <1>6, <2>1, <2>2, <2>4, <2>5, ForgottenWrite
<1>10. QED BY <1>8, <1>9

\* A turn arrives, saves, fails or ends: no map changes.
LEMMA ForgottenQuiet ==
    ASSUME PlacedInv, ForgottenInv, NEW t \in Turns,
           \/ \E k \in SessionKeys : Start(t, k)
           \/ SaveAdopted(t) \/ SaveDropped(t) \/ SaveRemembered(t)
           \/ RejectStale(t) \/ FailPost(t) \/ FinishTurn(t) \/ FailStream(t) \/ Cancel(t)
    PROVE  ForgottenInv'
<1>1. /\ UNCHANGED <<opened, usedBy, map, loaded, forgotten>>
      /\ (turn[t].pc # "idle" /\ disk' = SavedMap(t)) \/ disk' = disk
  BY DEF Start, SaveAdopted, SaveDropped, SaveRemembered, EndSave, RejectStale, FailPost, FinishTurn,
         FailStream, Cancel, server, history
<1>2. PICK s \in TurnStates : /\ turn' = [turn EXCEPT ![t] = s] /\ ~IsFresh(s)
                              /\ Talks(s, Opened, ChatTalks)
  <2>1. IdleTurn \in TurnStates /\ ~IsFresh(IdleTurn) /\ Talks(IdleTurn, Opened, ChatTalks)
    BY IdleTyped DEF IsFresh, Talks, Accepted
  <2>2. turn[t] \in TurnStates /\ Talks(turn[t], Opened, ChatTalks)
    BY DEF PlacedInv, TypeOK, ForgottenInv, TurnsTalk
  <2>3. ASSUME NEW k \in SessionKeys, Start(t, k)
        PROVE  \E s \in TurnStates : /\ turn' = [turn EXCEPT ![t] = s] /\ ~IsFresh(s)
                                     /\ Talks(s, Opened, ChatTalks)
    <3> DEFINE s == [IdleTurn EXCEPT !.pc = "lookup", !.key = k, !.on = gen]
    <3>1. gen \in 0..MaxAdapters
      BY BoundsAssumption DEF Adapters, PlacedInv, TypeOK
    <3>2. s \in TurnStates /\ s.pc = "lookup" /\ s.id = None
      BY <3>1, IdleTyped DEF TurnStates, Pcs
    <3>3. turn' = [turn EXCEPT ![t] = s]
      BY <2>3 DEF Start
    <3> HIDE DEF s
    <3>4. QED BY <3>2, <3>3 DEF IsFresh, Talks, Accepted
  <2>4. CASE FailPost(t) \/ FinishTurn(t) \/ FailStream(t) \/ Cancel(t)
    BY <2>1, <2>4 DEF FailPost, FinishTurn, FailStream, Cancel, Over
  <2>5. ASSUME NEW pc \in {"drop", "talking"}, turn' = [turn EXCEPT ![t].pc = pc],
               pc = "talking" => turn[t].pc = "saving_remembered"
        PROVE  \E s \in TurnStates : /\ turn' = [turn EXCEPT ![t] = s] /\ ~IsFresh(s)
                                     /\ Talks(s, Opened, ChatTalks)
    <3> DEFINE s == [turn[t] EXCEPT !.pc = pc]
    <3>1. /\ s \in TurnStates /\ s.pc = pc /\ s.key = turn[t].key /\ s.id = turn[t].id
          /\ s.cid = turn[t].cid
      BY <2>2 DEF TurnStates, Pcs
    <3>2. turn' = [turn EXCEPT ![t] = s]
      BY <2>5 DEF PlacedInv, TypeOK
    <3> HIDE DEF s
    <3>3. QED BY <2>2, <2>5, <3>1, <3>2 DEF IsFresh, Talks, Accepted
  <2>6. CASE SaveRemembered(t) \/ RejectStale(t)
    BY <2>5, <2>6 DEF SaveRemembered, RejectStale, Goes
  <2>7. ASSUME NEW id \in {None, MapOf(t)[turn[t].key]}, turn[t].pc # "idle",
               turn' = [turn EXCEPT ![t] = [@ EXCEPT !.pc = "posting", !.id = id]]
        PROVE  \E s \in TurnStates : /\ turn' = [turn EXCEPT ![t] = s] /\ ~IsFresh(s)
                                     /\ Talks(s, Opened, ChatTalks)
    <3> DEFINE s == [turn[t] EXCEPT !.pc = "posting", !.id = id]
    <3>1. turn[t].key \in MapKeys /\ MapOf(t) \in Maps
      BY <2>7, MapsTyped
    <3>2. Good(MapOf(t), Opened, ChatTalks, FreshIds \cup forgotten[turn[t].on])
      BY <2>7, GoodLoaded
    <3>3. /\ id \in Conversations \cup {None}
          /\ id # None => id \in Opened /\ (id \in ChatTalks <=> turn[t].key \in ChatKeys)
      BY <2>7, <3>1, <3>2 DEF Good, Maps
    <3>4. s \in TurnStates /\ s.pc = "posting" /\ s.key = turn[t].key /\ s.id = id
      BY <2>2, <3>3 DEF TurnStates, Pcs
    <3>5. turn' = [turn EXCEPT ![t] = s]
      BY <2>7
    <3> HIDE DEF s
    <3>6. QED BY <3>3, <3>4, <3>5 DEF IsFresh, Talks, Accepted
  <2>8. CASE SaveAdopted(t) \/ SaveDropped(t)
    <3> HIDE DEF MapOf
    <3>1. \E id \in {None, MapOf(t)[turn[t].key]} :
            turn' = [turn EXCEPT ![t] = [@ EXCEPT !.pc = "posting", !.id = id]]
      BY <2>8 DEF SaveAdopted, SaveDropped
    <3>2. turn[t].pc # "idle"
      BY <2>8 DEF SaveAdopted, SaveDropped
    <3>3. QED BY <2>7, <3>1, <3>2
  <2>9. QED BY <2>3, <2>4, <2>6, <2>8
<1>3. QED BY <1>1, <1>2, ForgottenMove

\* The server accepts the POST: a conversation it opens is of the turn's key only, and
\* one it continues already was of the key's kind.
LEMMA ForgottenAccept ==
    ASSUME PlacedInv, ForgottenInv, NEW t \in Turns, Accept(t)
    PROVE  ForgottenInv'
<1>1. /\ turn[t].pc = "posting" /\ turn[t] \in TurnStates /\ turn[t].key \in SessionKeys
      /\ Talks(turn[t], Opened, ChatTalks)
      /\ UNCHANGED <<disk, map, loaded, forgotten>>
  BY DEF Accept, PlacedInv, TypeOK, Placed, Fits, ForgottenInv, TurnsTalk
<1>2. PICK c \in Conversations :
        /\ \/ turn[t].id = None /\ c = opened + 1 /\ opened' = c
           \/ turn[t].id = c /\ turn[t].id # None /\ opened' = opened
        /\ turn' = [turn EXCEPT ![t] = [@ EXCEPT !.pc = "waiting", !.cid = c, !.sent = turn[t].sent + 1]]
        /\ usedBy' = [usedBy EXCEPT ![c] = @ \cup {turn[t].key}]
  BY <1>1 DEF Accept
<1> DEFINE s == [turn[t] EXCEPT !.pc = "waiting", !.cid = c, !.sent = turn[t].sent + 1]
<1>3. s.pc = "waiting" /\ s.cid = c /\ s.id = turn[t].id /\ s.key = turn[t].key
  BY <1>1 DEF TurnStates
<1>4. \A u \in Turns : turn'[u] = IF u = t THEN s ELSE turn[u]
  BY <1>2 DEF PlacedInv, TypeOK
<1> HIDE DEF s
<1>5. /\ usedBy'[c] = usedBy[c] \cup {turn[t].key}
      /\ \A d \in Conversations \ {c} : usedBy'[d] = usedBy[d]
  BY <1>2 DEF PlacedInv, TypeOK
<1>6. /\ Opened' = Opened \cup {c}
      /\ turn[t].id = None => c \notin Opened
      /\ turn[t].id # None => turn[t].id = c /\ c \in Opened
  <2>1. opened \in Nat
    BY DEF PlacedInv, TypeOK
  <2>2. CASE turn[t].id = None /\ c = opened + 1 /\ opened' = c
    BY <2>1, <2>2 DEF Opened
  <2>3. CASE turn[t].id = c /\ turn[t].id # None /\ opened' = opened
    BY <1>1, <2>3 DEF Opened, Talks
  <2>4. QED BY <1>2, <2>2, <2>3
<1>7. c \in ChatTalks' <=> turn[t].key \in ChatKeys
  <2>1. CASE turn[t].id = None
    <3>1. usedBy[c] = {}
      BY <1>6, <2>1 DEF ForgottenInv, UsedOpened
    <3>2. QED BY <1>5, <3>1 DEF ChatTalks
  <2>2. CASE turn[t].id # None
    <3>1. c \in ChatTalks <=> turn[t].key \in ChatKeys
      BY <1>1, <1>6, <2>2 DEF Talks
    <3>2. QED BY <1>5, <3>1 DEF ChatTalks
  <2>3. QED BY <2>1, <2>2
<1>8. ChatTalks' \cap Opened = ChatTalks \cap Opened
  <2>1. \A d \in Conversations \ {c} : d \in ChatTalks' <=> d \in ChatTalks
    BY <1>5 DEF ChatTalks
  <2>2. c \in Opened => (c \in ChatTalks' <=> c \in ChatTalks)
    BY <1>1, <1>6, <1>7 DEF Talks
  <2>3. Opened \subseteq Conversations
    BY OpenedConversations
  <2>4. QED BY <2>1, <2>2, <2>3
<1>9. \A u \in Turns : IsFresh(turn'[u]) =>
         \/ u = t /\ turn[t].id = None /\ turn'[u].cid = c
         \/ u # t /\ IsFresh(turn[u]) /\ turn'[u].cid = turn[u].cid
  BY <1>3, <1>4 DEF IsFresh
<1>10. \A u \in Turns : IsFresh(turn[u]) => turn[u].cid \in Opened
  BY DEF ForgottenInv, TurnsTalk, Talks, IsFresh, Accepted
<1>11. FreshIds' \cap Opened \subseteq FreshIds
  <2>1. SUFFICES ASSUME NEW u \in Turns, IsFresh(turn'[u]), turn'[u].cid \in Opened
                 PROVE  turn'[u].cid \in FreshIds
    BY DEF FreshIds
  <2>2. IsFresh(turn[u]) /\ turn'[u].cid = turn[u].cid
    BY <1>6, <1>9, <2>1
  <2>3. QED BY <2>2 DEF FreshIds
<1>12. \A m, X : Good(m, Opened, ChatTalks, FreshIds \cup X) =>
                   Good(m, Opened', ChatTalks', FreshIds' \cup X)
  <2>1. SUFFICES ASSUME NEW m, NEW X, Good(m, Opened, ChatTalks, FreshIds \cup X)
                 PROVE  Good(m, Opened', ChatTalks', FreshIds' \cup X)
    OBVIOUS
  <2>2. Opened \subseteq Opened' /\ (FreshIds' \cup X) \cap Opened \subseteq FreshIds \cup X
    BY <1>6, <1>11
  <2>3. QED BY <1>8, <2>1, <2>2, GoodLater
<1>13. MapsGood'
  <2>1. \A g \in Adapters : Good(map[g], Opened', ChatTalks', FreshIds' \cup forgotten[g])
    BY <1>12 DEF ForgottenInv, MapsGood
  <2>2. QED BY <1>1, <2>1 DEF MapsGood
<1>14. DiskGood'
  <2>1. Good(disk, Opened', ChatTalks', FreshIds' \cup {})
    BY <1>12 DEF ForgottenInv, DiskGood
  <2>2. QED BY <1>1, <2>1 DEF ForgottenInv, DiskGood
<1>15. Forgotten'
  <2>1. ASSUME NEW g \in Adapters
        PROVE  /\ forgotten[g] \subseteq Opened' \ FreshIds'
               /\ g \notin loaded => forgotten[g] \subseteq ChatTalks'
    BY <1>6, <1>8, <1>11 DEF ForgottenInv, Forgotten
  <2>2. QED BY <1>1, <2>1 DEF Forgotten
<1>16. TurnsTalk'
  <2>1. \A u \in Turns : Talks(turn[u], Opened', ChatTalks')
    <3>1. \A u \in Turns : Talks(turn[u], Opened, ChatTalks)
      BY DEF ForgottenInv, TurnsTalk
    <3>2. QED BY <1>6, <1>8, <3>1 DEF Talks
  <2>2. Talks(s, Opened', ChatTalks')
    BY <1>3, <1>6, <1>7, <2>1 DEF Talks
  <2>3. QED BY <1>4, <2>1, <2>2 DEF TurnsTalk
<1>17. FreshApart'
  BY <1>6, <1>9, <1>10 DEF ForgottenInv, FreshApart
<1>18. UsedOpened'
  BY <1>5, <1>6 DEF ForgottenInv, UsedOpened
<1>19. QED BY <1>13, <1>14, <1>15, <1>16, <1>17, <1>18 DEF ForgottenInv

LEMMA ForgottenStep == PlacedInv /\ ForgottenInv /\ [Next]_vars => ForgottenInv'
<1> SUFFICES ASSUME PlacedInv, ForgottenInv, [Next]_vars PROVE ForgottenInv'
  OBVIOUS
<1>1. ASSUME UNCHANGED <<opened, disk, map, loaded, turn, usedBy, forgotten>>
      PROVE  ForgottenInv'
  <2>1. /\ Opened' = Opened /\ ChatTalks' = ChatTalks /\ FreshIds' = FreshIds
        /\ FreshApart' /\ TurnsTalk' /\ UsedOpened' /\ Forgotten'
    BY <1>1 DEF ForgottenInv, FreshApart, TurnsTalk, UsedOpened, Forgotten, Opened, ChatTalks, FreshIds
  <2>2. MapsGood' /\ DiskGood'
    BY <1>1, <2>1 DEF ForgottenInv, MapsGood, DiskGood
  <2>3. QED BY <2>1, <2>2 DEF ForgottenInv
<1>2. CASE (\E c \in Conversations : Expire(c)) \/ Reload \/ TaskMoves \/ UNCHANGED vars
  BY <1>1, <1>2, TaskMovesAlone DEF Expire, Reload, vars, server, history
<1>3. CASE Restart
  <2>1. /\ UNCHANGED <<opened, disk, usedBy>>
        /\ \A u \in Turns : turn'[u] = IdleTurn
        /\ \A g \in Adapters : map'[g] = EmptyMap /\ forgotten'[g] = {}
    BY <1>3 DEF Restart
  <2>2. Opened' = Opened /\ ChatTalks' = ChatTalks /\ FreshIds' = {}
    BY <2>1, IdleTyped DEF Opened, ChatTalks, FreshIds, IsFresh
  <2>3. MapsGood'
    BY <2>1 DEF MapsGood, Good, EmptyMap
  <2>4. DiskGood'
    <3>1. Good(disk, Opened, ChatTalks, {})
      BY GoodLater DEF ForgottenInv, DiskGood
    <3>2. QED BY <2>1, <2>2, <3>1 DEF ForgottenInv, DiskGood
  <2>5. TurnsTalk' /\ FreshApart' /\ Forgotten'
    BY <2>1, IdleTyped DEF TurnsTalk, Talks, Accepted, FreshApart, IsFresh, Forgotten
  <2>6. UsedOpened'
    BY <2>1 DEF ForgottenInv, UsedOpened, Opened
  <2>7. QED BY <2>3, <2>4, <2>5, <2>6 DEF ForgottenInv
<1>4. QED BY <1>2, <1>3, ForgottenRead, ForgottenDrop, ForgottenCapture, ForgottenQuiet, ForgottenAccept
          DEF Next, UnderLock, Answered, TaskMoves

LEMMA ForgottenInit == Init => ForgottenInv
<1> SUFFICES ASSUME Init PROVE ForgottenInv
  OBVIOUS
<1>1. \A t \in Turns : turn[t] = IdleTurn
  BY DEF Init
<1>2. /\ \A g \in Adapters : map[g] = EmptyMap /\ forgotten[g] = {}
      /\ \A c \in Conversations : usedBy[c] = {}
  BY DEF Init
<1>3. FreshIds = {} /\ ChatTalks = {}
  BY <1>1, <1>2, IdleTyped DEF FreshIds, IsFresh, ChatTalks
<1>4. MapsGood /\ Forgotten /\ UsedOpened
  BY <1>2, <1>3 DEF MapsGood, Good, EmptyMap, Forgotten, UsedOpened
<1>5. DiskGood
  <2>1. opened = 0 \/ opened = 1
    BY DEF Init
  <2>2. \A k \in MapKeys : disk[k] = IF k = LegacyKey /\ opened = 1 THEN 1 ELSE None
    BY <2>1 DEF Init, EmptyMap
  <2>3. opened = 1 => 1 \in Opened
    BY DEF Opened
  <2>4. \A k \in ChatKeys : k \in MapKeys /\ k # LegacyKey
    BY KeysAssumption DEF MapKeys, SessionKeys
  <2>5. QED BY <1>3, <2>2, <2>3, <2>4 DEF DiskGood, Good
<1>6. TurnsTalk /\ FreshApart
  BY <1>1, IdleTyped DEF TurnsTalk, Talks, Accepted, FreshApart, IsFresh
<1>7. QED BY <1>4, <1>5, <1>6 DEF ForgottenInv

\* Every map knows opened conversations only, each under one key, and none that its
\* adapter dropped or that a turn has yet to remember.
LEMMA AlwaysForgotten == Spec => [](PlacedInv /\ ForgottenInv)
<1>1. Init => PlacedInv /\ ForgottenInv
  BY InitPlaced, ForgottenInit
<1>2. (PlacedInv /\ ForgottenInv) /\ [Next]_vars => (PlacedInv /\ ForgottenInv)'
  BY NextPlaced, ForgottenStep
<1>3. QED BY <1>1, <1>2, PTL DEF Spec

\* What an adapter dropped never comes back into its map (_drop): a turn that looked
\* the conversation up before still talks in it, but only remembers one that is new.
THEOREM ForgottenStays == Spec => []ForgottenStaysForgotten
<1>1. PlacedInv /\ ForgottenInv => ForgottenStaysForgotten
  <2> SUFFICES ASSUME PlacedInv, ForgottenInv, NEW g \in Adapters, NEW k \in MapKeys
               PROVE  map[g][k] \notin forgotten[g]
    BY DEF ForgottenStaysForgotten
  <2>1. Good(map[g], Opened, ChatTalks, FreshIds \cup forgotten[g]) /\ forgotten[g] \subseteq Opened
    BY DEF ForgottenInv, MapsGood, Forgotten
  <2>2. None \notin Opened
    BY OpenedConversations
  <2>3. QED BY <2>1, <2>2 DEF Good
<1>2. QED BY <1>1, AlwaysForgotten, PTL

-----------------------------------------------------------------------------
(* A conversation is one agent's                                           *)

\* No save was cancelled, and no reload struck while a turn was looking its key up.
Smooth == mishaps \cap {"save_cancelled", "reloaded_in_lookup"} = {}

LooksUp(s) == s.pc \in {"lookup", "saving_adopted"}
Adopting(g) == \E t \in Turns : turn[t].pc = "saving_adopted" /\ turn[t].on = g

\* The session key k holds a conversation: a map or the Store has it, a turn of the
\* key echoes it, or it was continued under the key.
Holds(k, c) ==
    \/ \E g \in Adapters : map[g][k] = c
    \/ disk[k] = c
    \/ \E t \in Turns : turn[t].key = k /\ turn[t].id = c
    \/ k \in usedBy[c]

\* Keys are looked up in one adapter at a time, the current one as long as there is one.
OneLooksUp == \A t, u \in Turns : LooksUp(turn[t]) /\ LooksUp(turn[u]) => turn[t].on = turn[u].on
CurrentLooksUp == \A t \in Turns : LooksUp(turn[t]) => turn[t].on = gen

\* A map that was read moved the legacy entry; the Store still has it while the first
\* adapter to read it saves the move, and until then nobody else has heard of it.
LegacyMoved == \A g \in loaded : map[g][LegacyKey] = None
LegacyFirst ==
    disk[LegacyKey] # None =>
        /\ \A k \in DeviceKeys : disk[k] = None
        /\ usedBy[disk[LegacyKey]] = {}
        /\ \A t \in Turns : turn[t].id # disk[LegacyKey]
        /\ \A g \in loaded : Adopting(g)

OneHolder ==
    \A c \in Conversations, j, k \in SessionKeys : Holds(j, c) /\ Holds(k, c) => j = k

OneAgent == OneLooksUp /\ CurrentLooksUp /\ LegacyMoved /\ LegacyFirst /\ OneHolder

\* Before the Store is read, a map has chat keys only; an accepted turn is on record.
UnreadEmpty == \A g \in Adapters \ loaded, k \in DeviceKeys : map[g][k] = None
TalkedUnder == \A t \in Turns : turn[t].pc \in Accepted => turn[t].key \in usedBy[turn[t].cid]

AgentInv == UnreadEmpty /\ TalkedUnder /\ (Smooth => OneAgent)

LEMMA HoldersKept ==
    ASSUME OneHolder, \A c \in Conversations, k \in SessionKeys : Holds(k, c)' => Holds(k, c)
    PROVE  OneHolder'
<1> HIDE DEF Holds
<1>1. QED BY DEF OneHolder

\* One turn moves and looks nothing up that it did not before.
LEMMA AgentMove ==
    ASSUME PlacedInv, AgentInv, NEW t \in Turns, NEW s \in TurnStates,
           turn' = [turn EXCEPT ![t] = s], gen' = gen, mishaps \subseteq mishaps',
           LooksUp(s) => LooksUp(turn[t]) /\ s.on = turn[t].on,
           loaded \subseteq loaded',
           \A g \in Adapters, k \in DeviceKeys : g \in loaded' \/ map'[g][k] = map[g][k],
           \A c : c \in Conversations => usedBy[c] \subseteq usedBy'[c],
           s.pc \in Accepted => s.key \in usedBy'[s.cid],
           \A u \in Turns : turn[u].pc \in Accepted => turn[u].cid \in Conversations,
           Smooth /\ Smooth' =>
               /\ OneAgent => \A g \in loaded' : map'[g][LegacyKey] = None
               /\ OneAgent => LegacyFirst' /\ OneHolder'
    PROVE  AgentInv'
<1>1. \A u \in Turns : turn'[u] = IF u = t THEN s ELSE turn[u]
  BY DEF PlacedInv, TypeOK
<1>2. UnreadEmpty'
  BY DEF AgentInv, UnreadEmpty
<1>3. TalkedUnder'
  BY <1>1 DEF AgentInv, TalkedUnder
<1>4. Smooth' => Smooth
  BY DEF Smooth
<1>5. ASSUME Smooth' PROVE OneAgent'
  <2>1. OneAgent /\ LegacyFirst' /\ OneHolder' /\ \A g \in loaded' : map'[g][LegacyKey] = None
    BY <1>4, <1>5 DEF AgentInv
  <2>2. \A u \in Turns : LooksUp(turn'[u]) => LooksUp(turn[u]) /\ turn'[u].on = turn[u].on
    BY <1>1
  <2> HIDE DEF LooksUp
  <2>3. OneLooksUp' /\ CurrentLooksUp'
    BY <2>1, <2>2 DEF OneAgent, OneLooksUp, CurrentLooksUp
  <2>4. LegacyMoved'
    BY <2>1 DEF LegacyMoved
  <2>5. QED BY <2>1, <2>3, <2>4 DEF OneAgent
<1>6. QED BY <1>2, <1>3, <1>5 DEF AgentInv

\* A turn that is not adopting moves, and hears nothing of the legacy conversation.
LEMMA LegacyKept ==
    ASSUME PlacedInv, LegacyFirst, NEW t \in Turns, NEW s \in TurnStates,
           turn' = [turn EXCEPT ![t] = s], turn[t].pc # "saving_adopted",
           UNCHANGED <<disk, loaded>>,
           disk[LegacyKey] # None =>
               s.id # disk[LegacyKey] /\ usedBy'[disk[LegacyKey]] = usedBy[disk[LegacyKey]]
    PROVE  LegacyFirst'
<1>1. \A u \in Turns : turn'[u] = IF u = t THEN s ELSE turn[u]
  BY DEF PlacedInv, TypeOK
<1>2. \A g : Adopting(g) => Adopting(g)'
  BY <1>1 DEF Adopting
<1> HIDE DEF Adopting
<1>3. QED BY <1>1, <1>2 DEF LegacyFirst

\* While a turn adopts, its adapter's lock is taken.
LEMMA LockFreeAdopts ==
    ASSUME PlacedInv, NEW t \in Turns, LockFree(t), turn[t].on \in Adapters
    PROVE  ~Adopting(turn[t].on)
BY NoneAssumption DEF Adopting, LockFree, Saving, PlacedInv, TypeOK

\* One turn moves to where it echoes at most what it did, or what its map has: its map
\* gives a conversation up or gets one continued under its key, or is saved.
LEMMA AgentLess ==
    ASSUME PlacedInv, ForgottenInv, AgentInv, NEW t \in Turns, NEW s \in TurnStates,
           NEW v \in Conversations \cup {None},
           turn' = [turn EXCEPT ![t] = s], UNCHANGED <<gen, loaded, usedBy>>,
           mishaps \subseteq mishaps', turn[t].pc # "idle", ~LooksUp(s),
           s.pc \in Accepted =>
               turn[t].pc \in Accepted /\ s.cid = turn[t].cid /\ s.key = turn[t].key,
           s.id # None =>
               s.key = turn[t].key /\ (s.id = turn[t].id \/ s.id = map[turn[t].on][s.key]),
           \/ disk' = disk /\ turn[t].pc # "saving_adopted" /\ s.id \in {None, turn[t].id}
           \/ turn[t].on \in loaded /\ (Smooth' => disk' = SavedMap(t)),
           \/ map' = map
           \/ /\ disk' = disk /\ map' = [map EXCEPT ![turn[t].on][turn[t].key] = v]
              /\ (turn[t].key \in ChatKeys \/ turn[t].on \in loaded),
           v # None => turn[t].key \in usedBy[v]
    PROVE  AgentInv'
<1>1. turn[t].on \in Adapters /\ turn[t].key \in SessionKeys /\ turn[t].key \in MapKeys
  BY MapsTyped DEF PlacedInv, Placed, Fits
<1>2. \A u \in Turns : turn[u].pc \in Accepted => turn[u].cid \in Conversations
  BY OpenedConversations DEF ForgottenInv, TurnsTalk, Talks
<1>3. \A g \in Adapters, k \in MapKeys :
        \/ map'[g][k] = map[g][k]
        \/ g = turn[t].on /\ k = turn[t].key /\ map'[g][k] = v
  <2>1. map \in [Adapters -> Maps]
    BY DEF PlacedInv, TypeOK
  <2>2. QED BY <1>1, <2>1 DEF Maps
<1>4. \A g \in Adapters, k \in DeviceKeys : g \in loaded' \/ map'[g][k] = map[g][k]
  BY <1>1, <1>3, KeysAssumption DEF MapKeys, SessionKeys
<1>5. s.pc \in Accepted => s.key \in usedBy'[s.cid]
  BY DEF AgentInv, TalkedUnder
<1>6. ASSUME OneAgent, Smooth' PROVE \A g \in loaded' : map'[g][LegacyKey] = None
  <2>1. loaded \subseteq Adapters /\ LegacyKey \in MapKeys /\ LegacyKey # turn[t].key
    BY <1>1, KeysAssumption DEF PlacedInv, TypeOK, MapKeys
  <2>2. QED BY <1>3, <1>6, <2>1 DEF OneAgent, LegacyMoved
<1>7. ASSUME OneAgent, Smooth' PROVE LegacyFirst'
  <2>1. CASE disk' = disk /\ turn[t].pc # "saving_adopted" /\ s.id \in {None, turn[t].id}
    <3>1. disk[LegacyKey] # None => s.id # disk[LegacyKey]
      BY <1>7, <2>1 DEF OneAgent, LegacyFirst
    <3>2. QED BY <1>7, <2>1, <3>1, LegacyKept DEF OneAgent
  <2>2. CASE turn[t].on \in loaded /\ disk' = SavedMap(t)
    <3>1. disk'[LegacyKey] = map[turn[t].on][LegacyKey]
      BY <2>2, KeysAssumption DEF SavedMap, MapOf, MapKeys, SessionKeys
    <3>2. QED BY <1>7, <2>2, <3>1 DEF OneAgent, LegacyMoved, LegacyFirst
  <2>3. QED BY <1>7, <2>1, <2>2
<1>8. ASSUME OneAgent, Smooth' PROVE OneHolder'
  <2>1. ASSUME NEW c \in Conversations, NEW k \in SessionKeys, Holds(k, c)' PROVE Holds(k, c)
    <3>1. c # None /\ k \in MapKeys
      BY NoneAssumption DEF MapKeys
    <3>2. ASSUME NEW g \in Adapters, map'[g][k] = c PROVE Holds(k, c)
      BY <1>3, <3>1, <3>2 DEF Holds
    <3>3. ASSUME disk'[k] = c PROVE Holds(k, c)
      <4>1. CASE disk' = disk
        BY <3>3, <4>1 DEF Holds
      <4>2. CASE disk' = SavedMap(t)
        BY <1>1, <3>1, <3>3, <4>2 DEF Holds, SavedMap, MapOf
      <4>3. QED BY <1>8, <4>1, <4>2
    <3>4. ASSUME NEW u \in Turns, turn'[u].key = k, turn'[u].id = c PROVE Holds(k, c)
      <4>1. turn'[u] = IF u = t THEN s ELSE turn[u]
        BY DEF PlacedInv, TypeOK
      <4>2. CASE u # t
        BY <3>4, <4>1, <4>2 DEF Holds
      <4>3. CASE u = t
        BY <1>1, <3>1, <3>4, <4>1, <4>3 DEF Holds
      <4>4. QED BY <4>2, <4>3
    <3>5. ASSUME k \in usedBy'[c] PROVE Holds(k, c)
      BY <3>5 DEF Holds
    <3>6. QED BY <2>1, <3>2, <3>3, <3>4, <3>5 DEF Holds
  <2>2. QED BY <1>8, <2>1, HoldersKept DEF OneAgent
<1>9. gen' = gen /\ loaded \subseteq loaded' /\ usedBy' = usedBy
  OBVIOUS
<1>10. QED BY <1>2, <1>4, <1>5, <1>6, <1>7, <1>8, <1>9, AgentMove

\* A turn that has looked its key up saves, is refused, drops, remembers or ends.
LEMMA AgentQuiet ==
    ASSUME PlacedInv, ForgottenInv, AgentInv, NEW t \in Turns,
           \/ SaveAdopted(t) \/ SaveDropped(t) \/ SaveRemembered(t) \/ RejectStale(t) \/ FailPost(t)
           \/ Drop(t) \/ DropNothing(t) \/ Capture(t) \/ Remember(t)
           \/ FinishTurn(t) \/ FailStream(t) \/ Cancel(t)
    PROVE  AgentInv'
<1>1. /\ turn[t].pc # "idle" /\ turn[t] \in TurnStates /\ turn \in [Turns -> TurnStates]
      /\ turn[t].on \in Adapters /\ turn[t].key \in SessionKeys /\ turn[t].key \in MapKeys
      /\ map \in [Adapters -> Maps] /\ map[turn[t].on] = MapOf(t)
      /\ Fits(turn[t], task[t], loaded)
  <2>1. turn[t].pc # "idle"
    BY DEF SaveAdopted, SaveDropped, SaveRemembered, RejectStale, FailPost, Drop, DropNothing, Capture,
           Remember, FinishTurn, FailStream, Cancel
  <2>2. QED BY <2>1, MapsTyped DEF MapOf, PlacedInv, Placed, Fits, TypeOK
<1>2. /\ UNCHANGED <<gen, usedBy>> /\ mishaps \subseteq mishaps'
  BY DEF SaveAdopted, SaveDropped, SaveRemembered, RejectStale, FailPost, Drop, DropNothing, Capture,
         Remember, FinishTurn, FailStream, Cancel, history
<1>3. None \in Conversations \cup {None}
  OBVIOUS
<1>4. ASSUME NEW pc \in Pcs \ {"lookup", "saving_adopted"}, NEW id \in {None, turn[t].id, MapOf(t)[turn[t].key]}
      PROVE  /\ [turn[t] EXCEPT !.pc = pc, !.id = id] \in TurnStates
             /\ [turn[t] EXCEPT !.pc = pc, !.id = id].pc = pc
             /\ [turn[t] EXCEPT !.pc = pc, !.id = id].id = id
             /\ [turn[t] EXCEPT !.pc = pc, !.id = id].key = turn[t].key
             /\ [turn[t] EXCEPT !.pc = pc, !.id = id].cid = turn[t].cid
             /\ [turn[t] EXCEPT !.pc = pc] = [turn[t] EXCEPT !.pc = pc, !.id = turn[t].id]
  <2>1. MapOf(t)[turn[t].key] \in Conversations \cup {None} /\ turn[t].id \in Conversations \cup {None}
    BY <1>1 DEF Maps, TurnStates
  <2> HIDE DEF MapOf
  <2>2. QED BY <1>1, <1>4, <2>1 DEF TurnStates
<1>5. ASSUME turn[t].pc \in SavingPcs \cup {"drop", "remember"}, turn[t].key \in DeviceKeys
      PROVE  turn[t].on \in loaded /\ Loaded(t) = map[turn[t].on]
  BY <1>1, <1>5 DEF Fits, SavingPcs, Loaded
<1>6. CASE RejectStale(t)
  <2> DEFINE s == [turn[t] EXCEPT !.pc = "drop", !.id = turn[t].id]
  <2>1. /\ s \in TurnStates /\ s.pc = "drop" /\ s.id = turn[t].id /\ s.key = turn[t].key
        /\ s = [turn[t] EXCEPT !.pc = "drop"]
    BY <1>4 DEF Pcs
  <2>2. turn' = [turn EXCEPT ![t] = s]
    BY <1>1, <1>6, <2>1 DEF RejectStale, Goes
  <2> HIDE DEF s
  <2>3. UNCHANGED <<disk, map, loaded>> /\ turn[t].pc = "posting"
    BY <1>6 DEF RejectStale
  <2>4. turn[t].key \in ChatKeys \/ turn[t].on \in loaded
    BY <1>1, <2>3 DEF Fits, SessionKeys
  <2>5. s.pc \notin Accepted /\ ~LooksUp(s)
    BY <2>1 DEF Accepted, LooksUp
  <2>6. QED BY <1>1, <1>2, <1>3, <2>1, <2>2, <2>3, <2>4, <2>5, AgentLess
<1>7. ASSUME Over(t), UNCHANGED <<map, loaded>>,
             \/ disk' = disk /\ turn[t].pc # "saving_adopted"
             \/ turn[t].on \in loaded /\ (Smooth' => disk' = SavedMap(t))
      PROVE  AgentInv'
  <2>1. IdleTurn.pc \notin Accepted /\ ~LooksUp(IdleTurn) /\ IdleTurn.id = None /\ IdleTurn \in TurnStates
    BY IdleTyped DEF Accepted, LooksUp
  <2>2. turn' = [turn EXCEPT ![t] = IdleTurn]
    BY <1>7 DEF Over
  <2>3. QED BY <1>1, <1>2, <1>3, <1>7, <2>1, <2>2, AgentLess
<1>8. CASE FailPost(t) \/ FinishTurn(t) \/ FailStream(t)
  BY <1>7, <1>8 DEF FailPost, FinishTurn, FailStream
<1>9. CASE Cancel(t)
  <2>1. Over(t) /\ UNCHANGED <<map, loaded>>
    BY <1>9 DEF Cancel
  <2>2. CASE Saving(t)
    <3>1. turn[t].on \in loaded
      BY <1>1, <2>2 DEF Saving, SavingPcs, Fits
    <3>2. Smooth' => disk' = SavedMap(t)
      BY <1>9, <2>2 DEF Cancel, Smooth
    <3>3. QED BY <1>7, <2>1, <3>1, <3>2
  <2>3. CASE ~Saving(t)
    <3>1. disk' = disk /\ turn[t].pc # "saving_adopted"
      BY <1>9, <2>3 DEF Cancel, Saving
    <3>2. QED BY <1>7, <2>1, <3>1
  <2>4. QED BY <2>2, <2>3
<1>10. CASE SaveAdopted(t) \/ SaveDropped(t) \/ SaveRemembered(t)
  <2>1. /\ UNCHANGED <<map, loaded>> /\ disk' = SavedMap(t) /\ turn[t].pc \in SavingPcs
    BY <1>10 DEF SaveAdopted, SaveDropped, SaveRemembered, EndSave, SavingPcs
  <2>2. turn[t].on \in loaded
    BY <1>1, <2>1 DEF SavingPcs, Fits
  <2>3. PICK s \in TurnStates : /\ turn' = [turn EXCEPT ![t] = s] /\ ~LooksUp(s)
                                /\ s.key = turn[t].key /\ s.cid = turn[t].cid
                                /\ s.id \in {None, turn[t].id, MapOf(t)[turn[t].key]}
                                /\ s.pc \in Accepted => turn[t].pc \in Accepted
    <3>1. CASE SaveAdopted(t) \/ SaveDropped(t)
      <4>1. PICK id \in {None, MapOf(t)[turn[t].key]} :
              turn' = [turn EXCEPT ![t] = [@ EXCEPT !.pc = "posting", !.id = id]]
        BY <3>1 DEF SaveAdopted, SaveDropped
      <4> DEFINE s == [turn[t] EXCEPT !.pc = "posting", !.id = id]
      <4>0. "posting" \in Pcs \ {"lookup", "saving_adopted"} /\ id \in {None, turn[t].id, MapOf(t)[turn[t].key]}
        BY DEF Pcs
      <4>2. s \in TurnStates /\ s.pc = "posting" /\ s.id = id /\ s.key = turn[t].key /\ s.cid = turn[t].cid
        BY <1>4, <4>0, ZenonT(60)
      <4>3. turn' = [turn EXCEPT ![t] = s]
        BY <4>1
      <4> HIDE DEF s
      <4>4. QED BY <4>2, <4>3 DEF LooksUp, Accepted
    <3>2. CASE SaveRemembered(t)
      <4> DEFINE s == [turn[t] EXCEPT !.pc = "talking", !.id = turn[t].id]
      <4>0. "talking" \in Pcs \ {"lookup", "saving_adopted"}
        BY DEF Pcs
      <4>1. /\ s \in TurnStates /\ s.pc = "talking" /\ s.id = turn[t].id /\ s.key = turn[t].key
            /\ s.cid = turn[t].cid /\ s = [turn[t] EXCEPT !.pc = "talking"]
        BY <1>4, <4>0, Zenon
      <4>2. turn' = [turn EXCEPT ![t] = s] /\ turn[t].pc \in Accepted
        BY <1>1, <3>2, <4>1 DEF SaveRemembered, Goes, Accepted
      <4> HIDE DEF s
      <4>3. QED BY <4>1, <4>2 DEF LooksUp, Accepted
    <3>3. QED BY <1>10, <3>1, <3>2
  <2>4. QED BY <1>1, <1>2, <1>3, <2>1, <2>2, <2>3, AgentLess
<1>11. CASE DropNothing(t) \/ Drop(t)
  <2>1. turn[t].pc = "drop"
    BY <1>11 DEF DropNothing, Drop
  <2>2. /\ disk' = disk /\ loaded' = loaded
        /\ map' = map \/ map' = [map EXCEPT ![turn[t].on][turn[t].key] = None]
        /\ turn[t].key \in ChatKeys \/ turn[t].on \in loaded
    <3>1. CASE turn[t].key \in DeviceKeys
      <4>1. turn[t].on \in loaded /\ Loaded(t) = map[turn[t].on]
        BY <1>5, <2>1, <3>1
      <4>2. loaded \cup {turn[t].on} = loaded
        BY <4>1
      <4> HIDE DEF Loaded
      <4>3. QED BY <1>1, <1>11, <3>1, <4>1, <4>2, SMTT(30) DEF DropNothing, Drop, Persisted, MarkLoaded, BeginSave
    <3>2. CASE turn[t].key \notin DeviceKeys
      BY <1>1, <1>11, <3>2 DEF DropNothing, Drop, Persisted, SessionKeys
    <3>3. QED BY <3>1, <3>2
  <2>3. PICK pc \in {"posting", "saving_dropped"}, id \in {None, turn[t].id} :
          turn' = [turn EXCEPT ![t] = [turn[t] EXCEPT !.pc = pc, !.id = id]]
    <3>1. CASE turn' = [turn EXCEPT ![t] = [@ EXCEPT !.pc = "posting", !.id = None]]
      BY <3>1
    <3>2. CASE Goes(t, "saving_dropped")
      <4>1. [turn[t] EXCEPT !.pc = "saving_dropped"] = [turn[t] EXCEPT !.pc = "saving_dropped", !.id = turn[t].id]
        BY <1>4 DEF Pcs
      <4>2. turn' = [turn EXCEPT ![t] = [turn[t] EXCEPT !.pc = "saving_dropped"]]
        BY <1>1, <3>2 DEF Goes
      <4>3. QED BY <4>1, <4>2
    <3>3. QED BY <1>11, <3>1, <3>2 DEF DropNothing, Drop, BeginSave
  <2> DEFINE s == [turn[t] EXCEPT !.pc = pc, !.id = id]
  <2>4. s \in TurnStates /\ s.pc = pc /\ s.id = id /\ s.key = turn[t].key /\ s.cid = turn[t].cid
    <3>1. /\ pc \in Pcs \ {"lookup", "saving_adopted"}
          /\ id \in {None, turn[t].id, MapOf(t)[turn[t].key]}
      BY DEF Pcs
    <3>2. QED BY <1>4, <3>1, Zenon
  <2>5. turn' = [turn EXCEPT ![t] = s]
    BY <2>3
  <2> HIDE DEF s
  <2>6. s.pc \notin Accepted /\ ~LooksUp(s) /\ s.id \in {None, turn[t].id}
    BY <2>4 DEF Accepted, LooksUp
  <2>7. QED BY <1>1, <1>2, <1>3, <2>1, <2>2, <2>4, <2>5, <2>6, AgentLess
<1>12. CASE Capture(t) \/ Remember(t)
  <2>1. turn[t].pc \in {"waiting", "remember"} /\ turn[t].pc \in Accepted
    BY <1>12 DEF Capture, Remember, Accepted
  <2>2. /\ disk' = disk /\ loaded' = loaded
        /\ map' = map \/ map' = [map EXCEPT ![turn[t].on][turn[t].key] = turn[t].cid]
        /\ turn[t].key \in ChatKeys \/ turn[t].on \in loaded
    <3>1. turn[t].key \in ChatKeys \/ turn[t].on \in loaded
      BY <1>1, <2>1 DEF Fits, SessionKeys
    <3>2. CASE Capture(t)
      BY <3>1, <3>2 DEF Capture
    <3>3. CASE Remember(t)
      <4>1. turn[t].pc = "remember" /\ turn[t].key \in DeviceKeys
        BY <1>1, <3>3 DEF Remember, Fits
      <4>2. turn[t].on \in loaded /\ Loaded(t) = map[turn[t].on]
        BY <1>5, <4>1
      <4>3. loaded \cup {turn[t].on} = loaded
        BY <4>2
      <4> HIDE DEF Loaded
      <4>4. QED BY <1>1, <3>1, <3>3, <4>2, <4>3 DEF Remember, MarkLoaded, BeginSave
    <3>4. QED BY <1>12, <3>2, <3>3
  <2>3. turn[t].cid \in Conversations /\ turn[t].key \in usedBy[turn[t].cid]
    BY <2>1, OpenedConversations DEF AgentInv, TalkedUnder, ForgottenInv, TurnsTalk, Talks
  <2>4. PICK pc \in {"remember", "talking", "saving_remembered"} :
          turn' = [turn EXCEPT ![t] = [turn[t] EXCEPT !.pc = pc]]
    BY <1>1, <1>12 DEF Capture, Remember, BeginSave, Goes
  <2> DEFINE s == [turn[t] EXCEPT !.pc = pc, !.id = turn[t].id]
  <2>5. /\ s \in TurnStates /\ s.pc = pc /\ s.id = turn[t].id /\ s.key = turn[t].key
        /\ s.cid = turn[t].cid /\ s = [turn[t] EXCEPT !.pc = pc]
    <3>1. pc \in Pcs \ {"lookup", "saving_adopted"}
      BY DEF Pcs
    <3>2. QED BY <1>4, <3>1, Zenon
  <2>6. turn' = [turn EXCEPT ![t] = s]
    BY <2>4, <2>5
  <2> HIDE DEF s
  <2>7. ~LooksUp(s) /\ turn[t].pc # "saving_adopted"
    BY <2>1, <2>5 DEF LooksUp
  <2>8. QED BY <1>1, <1>2, <2>1, <2>2, <2>3, <2>5, <2>6, <2>7, AgentLess
<1>13. QED BY <1>6, <1>8, <1>9, <1>10, <1>11, <1>12

\* A turn looks its key up, and there is nothing to adopt.
LEMMA AgentLookup ==
    ASSUME PlacedInv, ForgottenInv, AgentInv, NEW t \in Turns, Lookup(t)
    PROVE  AgentInv'
<1>1. /\ turn[t].pc = "lookup" /\ turn[t] \in TurnStates /\ turn[t].on \in Adapters
      /\ turn[t].key \in SessionKeys /\ turn[t].key \in MapKeys /\ map \in [Adapters -> Maps]
      /\ MapOf(t) \in Maps /\ Loaded(t) \in Maps /\ map[turn[t].on] = MapOf(t)
      /\ UNCHANGED <<gen, disk, usedBy, mishaps>>
  BY MapsTyped DEF Lookup, MapOf, history, PlacedInv, Placed, Fits, TypeOK
<1>2. CASE turn[t].key \in DeviceKeys
  <2>1. /\ map' = [map EXCEPT ![turn[t].on] = Loaded(t)] /\ loaded' = loaded \cup {turn[t].on}
        /\ turn' = [turn EXCEPT ![t] = [@ EXCEPT !.pc = "posting", !.id = Loaded(t)[turn[t].key]]]
        /\ LockFree(t) /\ ~Adopts(t)
    BY <1>2 DEF Lookup, Persisted, MarkLoaded
  <2>2. Loaded(t)[turn[t].key] \in Conversations \cup {None}
    BY <1>1 DEF Maps
  <2>3. \A k \in MapKeys : Loaded(t)[k] \in {map[turn[t].on][k], disk[k]}
    BY <1>1 DEF Loaded
  <2>4. turn[t].on \in loaded => Loaded(t) = map[turn[t].on]
    BY <1>1 DEF Loaded
  <2>5. turn[t].on \notin loaded => \A k \in MapKeys \ ChatKeys : Loaded(t)[k] = disk[k]
    BY DEF Loaded
  <2> HIDE DEF Loaded, MapOf
  <2> DEFINE s == [turn[t] EXCEPT !.pc = "posting", !.id = Loaded(t)[turn[t].key]]
  <2>6. s \in TurnStates /\ s.pc = "posting" /\ s.id = Loaded(t)[turn[t].key] /\ s.key = turn[t].key
    BY <1>1, <2>2 DEF TurnStates, Pcs
  <2>7. turn' = [turn EXCEPT ![t] = s]
    BY <2>1
  <2> HIDE DEF s
  <2>8. \A g \in Adapters : map'[g] = IF g = turn[t].on THEN Loaded(t) ELSE map[g]
    BY <1>1, <2>1
  <2>9. LegacyKey \in MapKeys \ ChatKeys /\ turn[t].key \in MapKeys \ ChatKeys
    BY <1>1, <1>2, KeysAssumption DEF MapKeys, SessionKeys
  <2>10. ASSUME OneAgent PROVE disk[LegacyKey] = None
    <3>1. CASE turn[t].on \in loaded
      BY <1>1, <2>1, <2>10, <3>1, LockFreeAdopts DEF OneAgent, LegacyFirst
    <3>2. CASE turn[t].on \notin loaded
      <4>1. Loaded(t)[LegacyKey] = disk[LegacyKey] /\ Loaded(t)[turn[t].key] = disk[turn[t].key]
        BY <2>5, <2>9, <3>2
      <4>2. QED BY <1>2, <2>1, <2>10, <4>1 DEF Adopts, OneAgent, LegacyFirst
    <3>3. QED BY <3>1, <3>2
  <2>11. ASSUME OneAgent PROVE \A g \in loaded' : map'[g][LegacyKey] = None
    <3>1. turn[t].on \notin loaded => Loaded(t)[LegacyKey] = None
      BY <2>5, <2>9, <2>10, <2>11
    <3>2. loaded \subseteq Adapters
      BY DEF PlacedInv, TypeOK
    <3>3. QED BY <1>1, <2>1, <2>4, <2>8, <2>11, <3>1, <3>2 DEF OneAgent, LegacyMoved
  <2>12. ASSUME OneAgent PROVE LegacyFirst' /\ OneHolder'
    <3>1. ASSUME NEW c \in Conversations, NEW k \in SessionKeys, Holds(k, c)' PROVE Holds(k, c)
      <4>1. c # None /\ k \in MapKeys
        BY NoneAssumption DEF MapKeys
      <4>2. \A u \in Turns : turn'[u] = IF u = t THEN s ELSE turn[u]
        BY <2>7 DEF PlacedInv, TypeOK
      <4>3. Loaded(t)[k] = c => Holds(k, c)
        BY <1>1, <2>3, <4>1 DEF Holds
      <4>4. QED BY <1>1, <2>6, <2>8, <3>1, <4>2, <4>3 DEF Holds
    <3>2. disk'[LegacyKey] = None
      BY <1>1, <2>10, <2>12
    <3>3. QED BY <2>12, <3>1, <3>2, HoldersKept DEF OneAgent, LegacyFirst
  <2>13. s.pc \notin Accepted /\ ~LooksUp(s) /\ loaded \subseteq loaded'
    BY <2>1, <2>6 DEF Accepted, LooksUp
  <2>14. \A g \in Adapters, k \in DeviceKeys : g \in loaded' \/ map'[g][k] = map[g][k]
    BY <2>1, <2>8
  <2>15. \A u \in Turns : turn[u].pc \in Accepted => turn[u].cid \in Conversations
    BY OpenedConversations DEF ForgottenInv, TurnsTalk, Talks
  <2>16. /\ \A c : c \in Conversations => usedBy[c] \subseteq usedBy'[c]
         /\ gen' = gen /\ mishaps \subseteq mishaps'
    BY <1>1
  <2>17. QED BY <2>6, <2>7, <2>11, <2>12, <2>13, <2>14, <2>15, <2>16, AgentMove
<1>3. CASE turn[t].key \notin DeviceKeys
  <2>1. turn[t].key \in ChatKeys /\ UNCHANGED <<map, loaded>>
        /\ turn' = [turn EXCEPT ![t] = [@ EXCEPT !.pc = "posting", !.id = MapOf(t)[turn[t].key]]]
    BY <1>1, <1>3 DEF Lookup, Persisted, SessionKeys
  <2>2. MapOf(t)[turn[t].key] \in Conversations \cup {None}
    BY <1>1 DEF Maps
  <2>3. Good(MapOf(t), Opened, ChatTalks, FreshIds \cup forgotten[turn[t].on])
    BY <1>1, GoodLoaded
  <2> HIDE DEF MapOf
  <2> DEFINE s == [turn[t] EXCEPT !.pc = "posting", !.id = MapOf(t)[turn[t].key]]
  <2>4. s \in TurnStates /\ s.pc = "posting" /\ s.id = MapOf(t)[turn[t].key] /\ s.key = turn[t].key
    BY <1>1, <2>2 DEF TurnStates, Pcs
  <2>5. turn' = [turn EXCEPT ![t] = s]
    BY <2>1
  <2> HIDE DEF s
  <2>6. disk[LegacyKey] # None => s.id # disk[LegacyKey]
    <3>1. disk[LegacyKey] # None => disk[LegacyKey] \notin ChatTalks
      BY KeysAssumption DEF ForgottenInv, DiskGood, Good, MapKeys, SessionKeys
    <3>2. s.id # None => s.id \in ChatTalks
      BY <1>1, <2>1, <2>3, <2>4 DEF Good
    <3>3. QED BY <3>1, <3>2
  <2>7. ASSUME OneAgent PROVE LegacyFirst' /\ OneHolder'
    <3>1. LegacyFirst'
      BY <1>1, <2>1, <2>4, <2>5, <2>6, <2>7, LegacyKept DEF OneAgent
    <3>2. ASSUME NEW c \in Conversations, NEW k \in SessionKeys, Holds(k, c)' PROVE Holds(k, c)
      <4>1. \A u \in Turns : turn'[u] = IF u = t THEN s ELSE turn[u]
        BY <2>5 DEF PlacedInv, TypeOK
      <4>2. QED BY <1>1, <2>1, <2>4, <3>2, <4>1 DEF Holds
    <3>3. QED BY <2>7, <3>1, <3>2, HoldersKept DEF OneAgent
  <2>8. s.pc \notin Accepted /\ ~LooksUp(s)
    BY <2>4 DEF Accepted, LooksUp
  <2>9. \A u \in Turns : turn[u].pc \in Accepted => turn[u].cid \in Conversations
    BY OpenedConversations DEF ForgottenInv, TurnsTalk, Talks
  <2>10. OneAgent => \A g \in loaded' : map'[g][LegacyKey] = None
    BY <2>1 DEF OneAgent, LegacyMoved
  <2>11. QED BY <1>1, <2>1, <2>4, <2>5, <2>7, <2>8, <2>9, <2>10, AgentMove
<1>4. QED BY <1>2, <1>3

\* The first agent that asks adopts the legacy conversation, which nobody heard of.
LEMMA AgentAdopt ==
    ASSUME PlacedInv, ForgottenInv, AgentInv, NEW t \in Turns, LookupAdopting(t)
    PROVE  AgentInv'
<1> DEFINE L == disk[LegacyKey]
           m == [Loaded(t) EXCEPT ![turn[t].key] = Loaded(t)[LegacyKey], ![LegacyKey] = None]
           s == [turn[t] EXCEPT !.pc = "saving_adopted"]
<1>1. /\ turn[t].pc = "lookup" /\ turn[t] \in TurnStates /\ turn[t].on \in Adapters
      /\ turn[t].key \in DeviceKeys /\ map \in [Adapters -> Maps] /\ Loaded(t) \in Maps
      /\ UNCHANGED <<gen, disk, usedBy, mishaps>> /\ Adopts(t)
      /\ loaded' = loaded \cup {turn[t].on}
  BY MapsTyped DEF LookupAdopting, Persisted, MarkLoaded, history, PlacedInv, TypeOK
<1>2. turn' = [turn EXCEPT ![t] = s] /\ map' = [map EXCEPT ![turn[t].on] = m]
  BY DEF LookupAdopting, BeginSave, Goes, PlacedInv, TypeOK
<1>3. /\ s \in TurnStates /\ s.pc = "saving_adopted" /\ s.id = turn[t].id /\ s.key = turn[t].key
      /\ s.on = turn[t].on
  BY <1>1 DEF TurnStates, Pcs
<1>4. LegacyKey \in MapKeys \ ChatKeys /\ turn[t].key \in MapKeys \ ChatKeys /\ turn[t].key # LegacyKey
  BY <1>1, KeysAssumption DEF MapKeys, SessionKeys
<1>5. \A k \in MapKeys : m[k] = IF k = LegacyKey THEN None
                                ELSE IF k = turn[t].key THEN Loaded(t)[LegacyKey] ELSE Loaded(t)[k]
  BY <1>1, <1>4 DEF Maps
<1>6. /\ \A g \in Adapters : map'[g] = IF g = turn[t].on THEN m ELSE map[g]
      /\ \A u \in Turns : turn'[u] = IF u = t THEN s ELSE turn[u]
  BY <1>1, <1>2 DEF PlacedInv, TypeOK
<1>7. ASSUME OneAgent
      PROVE  /\ turn[t].on \notin loaded /\ L # None /\ Loaded(t)[LegacyKey] = L
             /\ \A k \in MapKeys : Loaded(t)[k] = IF k \in ChatKeys THEN map[turn[t].on][k] ELSE disk[k]
  <2>1. turn[t].on \notin loaded
    BY <1>1, <1>7 DEF OneAgent, LegacyMoved, Adopts, Loaded, MapOf
  <2>2. \A k \in MapKeys : Loaded(t)[k] = IF k \in ChatKeys THEN map[turn[t].on][k] ELSE disk[k]
    BY <2>1 DEF Loaded, MapOf
  <2>3. Loaded(t)[LegacyKey] = L
    BY <1>4, <2>2
  <2> HIDE DEF Loaded
  <2>4. QED BY <1>1, <2>1, <2>2, <2>3 DEF Adopts
<1> HIDE DEF s, m
<1>8. ASSUME OneAgent PROVE loaded = {}
  <2>1. SUFFICES ASSUME NEW g \in loaded PROVE FALSE
    OBVIOUS
  <2>2. PICK u \in Turns : turn[u].pc = "saving_adopted" /\ turn[u].on = g
    BY <1>7, <1>8 DEF OneAgent, LegacyFirst, Adopting
  <2>3. turn[u].on = turn[t].on
    BY <1>1, <1>8, <2>2 DEF OneAgent, OneLooksUp, LooksUp
  <2>4. QED BY <1>7, <1>8, <2>2, <2>3
<1>9. ASSUME OneAgent PROVE \A g \in loaded' : map'[g][LegacyKey] = None
  BY <1>1, <1>4, <1>5, <1>6, <1>8, <1>9
<1>10. ASSUME OneAgent PROVE LegacyFirst'
  <2>1. turn'[t].pc = "saving_adopted" /\ turn'[t].on = turn[t].on
    BY <1>3, <1>6
  <2>2. \A g \in loaded' : Adopting(g)'
    BY <1>1, <1>8, <1>10, <2>1 DEF Adopting
  <2> HIDE DEF Adopting
  <2>3. \A u \in Turns : turn'[u].id = turn[u].id
    BY <1>3, <1>6
  <2>4. QED BY <1>1, <1>10, <2>2, <2>3 DEF OneAgent, LegacyFirst
<1>11. ASSUME OneAgent PROVE OneHolder'
  <2>1. ASSUME NEW c \in Conversations, NEW k \in SessionKeys, Holds(k, c)'
        PROVE  Holds(k, c) \/ (k = turn[t].key /\ c = L)
    <3>1. c # None /\ k \in MapKeys /\ k # LegacyKey
      BY NoneAssumption, KeysAssumption DEF MapKeys
    <3>2. m[k] = c => Holds(k, c) \/ (k = turn[t].key /\ c = L)
      BY <1>1, <1>5, <1>7, <1>11, <3>1 DEF Holds
    <3>3. QED BY <1>1, <1>3, <1>6, <2>1, <3>2 DEF Holds
  <2>2. ASSUME NEW k \in SessionKeys, Holds(k, L) PROVE FALSE
    <3>1. k \in MapKeys /\ L # None
      BY <1>7, <1>11 DEF MapKeys
    <3>2. L \notin ChatTalks
      BY <1>4, <3>1 DEF ForgottenInv, DiskGood, Good
    <3>3. ASSUME NEW g \in Adapters, map[g][k] = L PROVE FALSE
      <4>1. k \in DeviceKeys
        BY <3>1, <3>2, <3>3 DEF ForgottenInv, MapsGood, Good, SessionKeys
      <4>2. QED BY <1>8, <1>11, <3>1, <3>3, <4>1 DEF AgentInv, UnreadEmpty
    <3>4. ASSUME disk[k] = L PROVE FALSE
      BY <1>11, <3>1, <3>4 DEF OneAgent, LegacyFirst, ForgottenInv, DiskGood, SessionKeys
    <3>5. QED BY <1>11, <2>2, <3>1, <3>3, <3>4 DEF Holds, OneAgent, LegacyFirst
  <2> HIDE DEF Holds, L
  <2>3. QED BY <1>11, <2>1, <2>2 DEF OneAgent, OneHolder
<1>12. /\ \A g \in Adapters, k \in DeviceKeys : g \in loaded' \/ map'[g][k] = map[g][k]
       /\ LooksUp(s) => LooksUp(turn[t]) /\ s.on = turn[t].on
       /\ s.pc \notin Accepted /\ loaded \subseteq loaded'
  BY <1>1, <1>3, <1>6 DEF LooksUp, Accepted
<1>13. \A u \in Turns : turn[u].pc \in Accepted => turn[u].cid \in Conversations
  BY OpenedConversations DEF ForgottenInv, TurnsTalk, Talks
<1>14. QED BY <1>1, <1>2, <1>3, <1>9, <1>10, <1>11, <1>12, <1>13, AgentMove

\* The server accepts the POST: a conversation it opens is new to everybody, and one it
\* continues is the one the turn echoed.
LEMMA AgentAccept ==
    ASSUME PlacedInv, ForgottenInv, AgentInv, NEW t \in Turns, Accept(t)
    PROVE  AgentInv'
<1>1. /\ turn[t].pc = "posting" /\ turn[t] \in TurnStates /\ turn[t].key \in SessionKeys
      /\ turn[t].sent = 0 /\ turn[t].sent + 1 = 1
      /\ UNCHANGED <<gen, disk, map, loaded, mishaps>>
  BY DEF Accept, PlacedInv, TypeOK, Placed, Fits, Accepted
<1>2. PICK c \in Conversations :
        /\ \/ turn[t].id = None /\ c = opened + 1
           \/ turn[t].id = c
        /\ turn' = [turn EXCEPT ![t] = [@ EXCEPT !.pc = "waiting", !.cid = c, !.sent = turn[t].sent + 1]]
        /\ usedBy' = [usedBy EXCEPT ![c] = @ \cup {turn[t].key}]
  BY DEF Accept
<1> DEFINE s == [turn[t] EXCEPT !.pc = "waiting", !.cid = c, !.sent = 1]
<1>3. s \in TurnStates /\ s.pc = "waiting" /\ s.cid = c /\ s.id = turn[t].id /\ s.key = turn[t].key
  <2>1. c \in Conversations /\ 1 \in 0..2
    OBVIOUS
  <2>2. s \in TurnStates
    BY <1>1, <2>1 DEF TurnStates, Pcs
  <2>3. QED BY <1>1, <2>2 DEF TurnStates
<1>4. turn' = [turn EXCEPT ![t] = s]
  BY <1>1, <1>2
<1> HIDE DEF s
<1>5. \A u \in Turns : turn'[u] = IF u = t THEN s ELSE turn[u]
  BY <1>4 DEF PlacedInv, TypeOK
<1>6. /\ usedBy'[c] = usedBy[c] \cup {turn[t].key}
      /\ \A d \in Conversations \ {c} : usedBy'[d] = usedBy[d]
  BY <1>2 DEF PlacedInv, TypeOK
<1>7. turn[t].id = None => c \notin Opened
  BY <1>2, NoneAssumption DEF Opened, PlacedInv, TypeOK
<1>8. ASSUME NEW k \in SessionKeys, Holds(k, c), turn[t].id = None PROVE FALSE
  <2>1. c \notin Opened /\ c # None /\ k \in MapKeys
    BY <1>7, <1>8, NoneAssumption DEF MapKeys
  <2>2. ASSUME NEW g \in Adapters, map[g][k] = c PROVE FALSE
    BY <2>1, <2>2 DEF ForgottenInv, MapsGood, Good
  <2>3. disk[k] # c
    BY <2>1 DEF ForgottenInv, DiskGood, Good
  <2>4. \A u \in Turns : turn[u].id # c
    BY <2>1 DEF ForgottenInv, TurnsTalk, Talks
  <2>5. usedBy[c] = {}
    BY <2>1 DEF ForgottenInv, UsedOpened
  <2>6. QED BY <1>8, <2>2, <2>3, <2>4, <2>5 DEF Holds
<1>9. ASSUME OneAgent PROVE LegacyFirst'
  <2>1. disk[LegacyKey] # None => disk[LegacyKey] \in Opened /\ turn[t].id # disk[LegacyKey]
    BY <1>9 DEF ForgottenInv, DiskGood, Good, MapKeys, OneAgent, LegacyFirst
  <2>2. disk[LegacyKey] # None => disk[LegacyKey] # c /\ disk[LegacyKey] \in Conversations
    BY <1>2, <1>7, <2>1, OpenedConversations
  <2>3. QED BY <1>1, <1>3, <1>4, <1>6, <1>9, <2>1, <2>2, LegacyKept DEF OneAgent
<1>10. ASSUME OneAgent PROVE OneHolder'
  <2>1. ASSUME NEW d \in Conversations, NEW k \in SessionKeys, Holds(k, d)'
        PROVE  Holds(k, d) \/ (k = turn[t].key /\ d = c)
    BY <1>1, <1>3, <1>5, <1>6, <2>1 DEF Holds
  <2>2. turn[t].id # None => Holds(turn[t].key, c)
    BY <1>2 DEF Holds
  <2> HIDE DEF Holds
  <2>3. QED BY <1>1, <1>8, <1>10, <2>1, <2>2 DEF OneAgent, OneHolder
<1>11. /\ ~LooksUp(s) /\ s.key \in usedBy'[s.cid] /\ loaded \subseteq loaded'
       /\ \A d : d \in Conversations => usedBy[d] \subseteq usedBy'[d]
  BY <1>1, <1>3, <1>6 DEF LooksUp
<1>12. \A u \in Turns : turn[u].pc \in Accepted => turn[u].cid \in Conversations
  BY OpenedConversations DEF ForgottenInv, TurnsTalk, Talks
<1>13. OneAgent => \A g \in loaded' : map'[g][LegacyKey] = None
  BY <1>1 DEF OneAgent, LegacyMoved
<1>14. QED BY <1>1, <1>3, <1>4, <1>9, <1>10, <1>11, <1>12, <1>13, AgentMove

\* A turn arrives at the current adapter, where every other that looks its key up is.
LEMMA AgentStart ==
    ASSUME PlacedInv, AgentInv, NEW t \in Turns, NEW k \in SessionKeys, Start(t, k)
    PROVE  AgentInv'
<1> DEFINE s == [IdleTurn EXCEPT !.pc = "lookup", !.key = k, !.on = gen]
<1>1. s.pc = "lookup" /\ s.id = None /\ s.on = gen
  BY IdleTyped DEF TurnStates
<1>2. \A u \in Turns : turn'[u] = IF u = t THEN s ELSE turn[u]
  BY DEF Start, PlacedInv, TypeOK
<1>3. /\ turn[t].pc = "idle"
      /\ UNCHANGED <<disk, gen, map, loaded, usedBy, mishaps>>
  BY DEF Start, history
<1> HIDE DEF s
<1>4. UnreadEmpty' /\ TalkedUnder'
  BY <1>1, <1>2, <1>3 DEF AgentInv, UnreadEmpty, TalkedUnder, Accepted
<1>5. ASSUME Smooth' PROVE OneAgent'
  <2>1. OneAgent
    BY <1>3, <1>5 DEF AgentInv, Smooth
  <2>2. CurrentLooksUp' /\ OneLooksUp'
    BY <1>1, <1>2, <1>3, <2>1 DEF OneAgent, CurrentLooksUp, OneLooksUp, LooksUp
  <2>3. LegacyMoved'
    BY <1>3, <2>1 DEF OneAgent, LegacyMoved
  <2>4. LegacyFirst'
    <3>1. \A g : Adopting(g) => Adopting(g)'
      BY <1>2, <1>3 DEF Adopting
    <3> HIDE DEF Adopting
    <3>2. QED BY <1>1, <1>2, <1>3, <2>1, <3>1 DEF OneAgent, LegacyFirst
  <2>5. OneHolder'
    <3>1. ASSUME NEW c \in Conversations, NEW j \in SessionKeys, Holds(j, c)' PROVE Holds(j, c)
      <4>1. c # None
        BY NoneAssumption
      <4>2. QED BY <1>1, <1>2, <1>3, <3>1, <4>1 DEF Holds
    <3>2. QED BY <2>1, <3>1, HoldersKept DEF OneAgent
  <2>6. QED BY <2>2, <2>3, <2>4, <2>5 DEF OneAgent
<1>6. QED BY <1>4, <1>5 DEF AgentInv

\* The server, the entry and Home Assistant: what is left of the maps holds no more.
LEMMA AgentRest ==
    ASSUME PlacedInv, AgentInv,
           (\E c \in Conversations : Expire(c)) \/ Restart \/ Reload \/ TaskMoves \/ UNCHANGED vars
    PROVE  AgentInv'
<1>1. ASSUME UNCHANGED <<disk, map, loaded, turn, usedBy>>, mishaps \subseteq mishaps',
             gen' = gen \/ "reloaded_in_lookup" \in mishaps' \/ \A t \in Turns : ~LooksUp(turn[t])
      PROVE  AgentInv'
  <2>1. UnreadEmpty' /\ TalkedUnder'
    BY <1>1 DEF AgentInv, UnreadEmpty, TalkedUnder
  <2>2. ASSUME Smooth' PROVE OneAgent'
    <3>1. OneAgent
      BY <1>1, <2>2 DEF AgentInv, Smooth
    <3>2. OneLooksUp' /\ LegacyMoved'
      BY <1>1, <3>1 DEF OneAgent, OneLooksUp, LegacyMoved
    <3>3. CurrentLooksUp'
      BY <1>1, <2>2, <3>1 DEF OneAgent, CurrentLooksUp, Smooth
    <3>4. LegacyFirst'
      <4>1. \A g : Adopting(g)' = Adopting(g)
        BY <1>1 DEF Adopting
      <4> HIDE DEF Adopting
      <4>2. QED BY <1>1, <3>1, <4>1 DEF OneAgent, LegacyFirst
    <3>5. OneHolder'
      <4>1. ASSUME NEW c \in Conversations, NEW j \in SessionKeys, Holds(j, c)' PROVE Holds(j, c)
        BY <1>1, <4>1 DEF Holds
      <4>2. QED BY <3>1, <4>1, HoldersKept DEF OneAgent
    <3>6. QED BY <3>1, <3>2, <3>3, <3>4, <3>5 DEF OneAgent
  <2>3. QED BY <2>1, <2>2 DEF AgentInv
<1>2. CASE (\E c \in Conversations : Expire(c)) \/ TaskMoves \/ UNCHANGED vars
  BY <1>1, <1>2, TaskMovesAlone DEF Expire, vars, history
<1>3. CASE Reload
  <2>1. "reloaded_in_lookup" \in mishaps' \/ \A t \in Turns : ~LooksUp(turn[t])
    BY <1>3 DEF Reload, LooksUp
  <2>2. UNCHANGED <<disk, map, loaded, turn, usedBy>> /\ mishaps \subseteq mishaps'
    BY <1>3 DEF Reload
  <2>3. QED BY <1>1, <2>1, <2>2
<1>4. CASE Restart
  <2>1. /\ \A u \in Turns : turn'[u] = IdleTurn
        /\ \A g \in Adapters : map'[g] = EmptyMap
        /\ loaded' = {} /\ UNCHANGED <<disk, gen, usedBy, mishaps>>
    BY <1>4 DEF Restart
  <2>2. \A k \in MapKeys : EmptyMap[k] = None
    BY DEF EmptyMap
  <2>3. UnreadEmpty' /\ TalkedUnder'
    BY <2>1, <2>2, IdleTyped DEF UnreadEmpty, TalkedUnder, Accepted, MapKeys, SessionKeys
  <2>4. ASSUME Smooth' PROVE OneAgent'
    <3>1. OneAgent
      BY <2>1, <2>4 DEF AgentInv, Smooth
    <3>2. OneLooksUp' /\ CurrentLooksUp' /\ LegacyMoved'
      BY <2>1, IdleTyped DEF OneLooksUp, CurrentLooksUp, LooksUp, LegacyMoved
    <3>3. LegacyFirst'
      BY <2>1, <3>1, IdleTyped DEF OneAgent, LegacyFirst
    <3>4. OneHolder'
      <4>1. ASSUME NEW c \in Conversations, NEW j \in SessionKeys, Holds(j, c)' PROVE Holds(j, c)
        <5>1. c # None /\ j \in MapKeys
          BY NoneAssumption DEF MapKeys
        <5>2. QED BY <2>1, <2>2, <4>1, <5>1, IdleTyped DEF Holds
      <4>2. QED BY <3>1, <4>1, HoldersKept DEF OneAgent
    <3>5. QED BY <3>2, <3>3, <3>4 DEF OneAgent
  <2>5. QED BY <2>3, <2>4 DEF AgentInv
<1>5. QED BY <1>2, <1>3, <1>4

LEMMA AgentStep == PlacedInv /\ ForgottenInv /\ AgentInv /\ [Next]_vars => AgentInv'
BY AgentStart, AgentLookup, AgentAdopt, AgentQuiet, AgentAccept, AgentRest
   DEF Next, UnderLock, Answered, TaskMoves

LEMMA AgentInit == Init => AgentInv
<1> SUFFICES ASSUME Init PROVE AgentInv
  OBVIOUS
<1>1. /\ \A t \in Turns : turn[t] = IdleTurn
      /\ \A g \in Adapters : map[g] = EmptyMap
      /\ \A c \in Conversations : usedBy[c] = {}
      /\ loaded = {} /\ opened \in {0, 1}
  BY DEF Init
<1>2. \A k \in MapKeys : /\ EmptyMap[k] = None
                         /\ disk[k] = IF k = LegacyKey /\ opened = 1 THEN 1 ELSE None
  BY <1>1 DEF EmptyMap, Init
<1>3. UnreadEmpty /\ TalkedUnder
  BY <1>1, <1>2, IdleTyped DEF UnreadEmpty, TalkedUnder, Accepted, MapKeys, SessionKeys
<1>4. OneLooksUp /\ CurrentLooksUp /\ LegacyMoved
  BY <1>1, IdleTyped DEF OneLooksUp, CurrentLooksUp, LooksUp, LegacyMoved
<1>5. LegacyFirst
  <2>1. \A k \in DeviceKeys : k \in MapKeys /\ k # LegacyKey
    BY KeysAssumption DEF MapKeys, SessionKeys
  <2>2. disk[LegacyKey] # None => disk[LegacyKey] \in Conversations
    BY <1>1, <1>2, BoundsAssumption DEF MapKeys, Conversations
  <2>3. QED BY <1>1, <1>2, <2>1, <2>2, IdleTyped DEF LegacyFirst
<1>6. OneHolder
  <2>1. ASSUME NEW c \in Conversations, NEW k \in SessionKeys PROVE ~Holds(k, c)
    <3>1. c # None /\ k \in MapKeys /\ k # LegacyKey
      BY NoneAssumption, KeysAssumption DEF MapKeys
    <3>2. QED BY <1>1, <1>2, <3>1, IdleTyped DEF Holds
  <2> HIDE DEF Holds
  <2>2. QED BY <2>1 DEF OneHolder
<1>7. QED BY <1>3, <1>4, <1>5, <1>6 DEF AgentInv, OneAgent

\* A conversation is continued under one session key only, the legacy one included,
\* which _lookup moves to the first agent that asks and saves before the turn uses it
\* (unless a save was cancelled or a reload struck a turn that was looking up).
THEOREM OneAgentEach == Spec => []OneAgentPerConversation
<1>1. Init => PlacedInv /\ ForgottenInv /\ AgentInv
  BY InitPlaced, ForgottenInit, AgentInit
<1>2. (PlacedInv /\ ForgottenInv /\ AgentInv) /\ [Next]_vars => (PlacedInv /\ ForgottenInv /\ AgentInv)'
  BY NextPlaced, ForgottenStep, AgentStep
<1>3. PlacedInv /\ AgentInv => OneAgentPerConversation
  <2> SUFFICES ASSUME PlacedInv, AgentInv, Smooth,
                      NEW c \in Conversations, NEW j \in usedBy[c], NEW k \in usedBy[c]
               PROVE  j = k
    BY DEF OneAgentPerConversation, Smooth
  <2>1. j \in SessionKeys /\ k \in SessionKeys
    BY DEF PlacedInv, TypeOK
  <2>2. Holds(j, c) /\ Holds(k, c)
    BY DEF Holds
  <2> HIDE DEF Holds
  <2>3. QED BY <2>1, <2>2 DEF AgentInv, OneAgent, OneHolder
<1>4. QED BY <1>1, <1>2, <1>3, PTL DEF Spec

=============================================================================
