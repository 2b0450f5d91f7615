----------------------- MODULE LangGraphThread_proofs -----------------------
(***************************************************************************)
(* Proofs about LangGraphThread, for any number of turns, agents and chats: *)
(* its types, that a resume meets an interrupt, that the legacy thread has  *)
(* one owner, that no question is forgotten, and that its turns are those   *)
(* ServerTurns specifies.                                                   *)
(***************************************************************************)
EXTENDS LangGraphThread, TLAPS

-----------------------------------------------------------------------------
(* Where a turn is                                                         *)

\* A turn that has no thread yet, one that waits for the marks, and the others.
Threadless == {"idle", "lookup", "saving_adopted"}
Early == Threadless \cup {"loading", "waking"}

\* A turn streams while it has a run, and only one that is over has it stopped.
RunFits(w, pc) ==
    /\ w \in {"unseen", "seen"} => pc = "streaming"
    /\ w = "stopping" => pc = "idle"

\* What the fields of a turn are at each of its awaits.
Placed ==
    \A t \in Turns :
        /\ turn[t].pc = "idle" \/ turn[t].key \in SessionKeys
        /\ turn[t].thread = "none" <=> turn[t].pc \in Threadless
        /\ turn[t].resume => turn[t].pc = "posting"
        /\ RunFits(run[t], turn[t].pc)
        /\ turn[t].pc = "saving_adopted" => turn[t].key \in DeviceKeys /\ legacyMap = turn[t].key

PlacedInv == TypeOK /\ Placed

\* A turn whose thread is th takes its mark from a dict.
LEMMA TakeTyped ==
    ASSUME PlacedInv, NEW t \in Turns, NEW th \in Threads, NEW dict \in SUBSET Threads,
           Take(t, th, dict)
    PROVE  /\ pending' \subseteq Threads /\ owed' \subseteq Threads
           /\ toWrite' \subseteq Persisted
           /\ \E pc \in {"posting", "saving_take", "checking"} :
                turn' = [turn EXCEPT ![t] = [@ EXCEPT !.pc = pc, !.thread = th]]
           /\ UNCHANGED <<server, disk>>
BY DEF Take, PlacedInv, TypeOK, BeginSave

\* A turn that goes on with thread th.
LEMMA ProceedTyped ==
    ASSUME PlacedInv, NEW t \in Turns, NEW th \in Threads, turn[t].key \in SessionKeys,
           Proceed(t, th)
    PROVE  /\ pending' \subseteq Threads /\ owed' \subseteq Threads
           /\ toWrite' \subseteq Persisted
           /\ \E pc \in {"loading", "posting", "saving_take", "checking"} :
                turn' = [turn EXCEPT ![t] = [@ EXCEPT !.pc = pc, !.thread = th]]
           /\ owner' \in SessionKeys \cup {"none", "unsaved"}
           /\ UNCHANGED <<server, disk, loaded>>
<1>1. owner' \in SessionKeys \cup {"none", "unsaved"} /\ UNCHANGED loaded
  BY DEF Proceed, PlacedInv, TypeOK
<1>2. CASE loaded /\ Take(t, th, pending)
  <2>1. pending \in SUBSET Threads
    BY DEF PlacedInv, TypeOK
  <2>2. /\ pending' \subseteq Threads /\ owed' \subseteq Threads
        /\ toWrite' \subseteq Persisted
        /\ UNCHANGED <<server, disk>>
    BY <1>2, <2>1, TakeTyped
  <2>3. PICK pc \in {"posting", "saving_take", "checking"} :
          turn' = [turn EXCEPT ![t] = [@ EXCEPT !.pc = pc, !.thread = th]]
    BY <1>2, <2>1, TakeTyped
  <2>4. QED BY <1>1, <2>2, <2>3
<1>3. CASE ~loaded
  BY <1>1, <1>3 DEF Proceed, PlacedInv, TypeOK, store
<1>4. QED BY <1>2, <1>3 DEF Proceed

LEMMA InitPlaced == Init => PlacedInv
<1> SUFFICES ASSUME Init PROVE PlacedInv
  OBVIOUS
<1>1. TypeOK
  <2>1. disk \subseteq Persisted
    BY DEF Init, Persisted
  <2>2. holds \subseteq Threads /\ owed \subseteq Threads /\ toWrite \subseteq Persisted
    BY <2>1 DEF Init, Persisted, Threads, SessionKeys
  <2>3. turn \in [Turns -> TurnStates]
    BY DEF Init, IdleTurn, Pcs, TurnStates
  <2>4. \A t \in Turns : turn[t].pc = "idle"
    BY DEF Init, IdleTurn
  <2>5. QED BY <2>1, <2>2, <2>3, <2>4 DEF Init, RunStates, TypeOK
<1>2. Placed
  BY DEF Init, Placed, RunFits, IdleTurn, Threadless
<1>3. QED BY <1>1, <1>2 DEF PlacedInv

\* The turns move on to a thread.
LEMMA PlacedLookup ==
    ASSUME PlacedInv, NEW t \in Turns, Lookup(t) \/ SaveAdopted(t)
    PROVE  PlacedInv'
<1>1. turn[t].key \in SessionKeys /\ turn[t].pc \in {"lookup", "saving_adopted"}
  BY DEF Lookup, HasLock, SaveAdopted, At, PlacedInv, Placed
<1>2. PICK th \in Threads : Proceed(t, th)
  BY <1>1 DEF Lookup, SaveAdopted, Threads
<1>3. /\ pending' \subseteq Threads /\ owed' \subseteq Threads
      /\ toWrite' \subseteq Persisted
      /\ owner' \in SessionKeys \cup {"none", "unsaved"}
      /\ UNCHANGED <<server, disk, loaded>>
  BY <1>1, <1>2, ProceedTyped
<1>4. PICK pc \in {"loading", "posting", "saving_take", "checking"} :
        turn' = [turn EXCEPT ![t] = [@ EXCEPT !.pc = pc, !.thread = th]]
  BY <1>1, <1>2, ProceedTyped
<1>5. legacyDisk' \in SessionKeys \cup {Device, "none"}
      /\ legacyMap' \in SessionKeys \cup {Device, "none", "unloaded"}
  <2>1. CASE Lookup(t)
    BY <2>1 DEF Lookup, Legacy, PlacedInv, TypeOK
  <2>2. CASE SaveAdopted(t)
    <3>1. legacyMap \in SessionKeys
      BY <2>2, <1>1 DEF SaveAdopted, At, PlacedInv, Placed
    <3>2. QED BY <2>2, <3>1 DEF SaveAdopted, PlacedInv, TypeOK
  <2>3. QED BY <2>1, <2>2
<1>6. TypeOK'
  <2>1. turn' \in [Turns -> TurnStates]
    BY <1>4, ZenonT(60) DEF PlacedInv, TypeOK, TurnStates, Pcs
  <2>2. \A u, v \in Turns :
          turn'[u].pc = "saving_adopted" /\ turn'[v].pc = "saving_adopted" => u = v
    BY <1>4 DEF PlacedInv, TypeOK, TurnStates
  <2>3. QED BY <1>3, <1>5, <2>1, <2>2 DEF PlacedInv, TypeOK, server
<1>7. Placed'
  <2>1. th # "none"
    BY KeysAssumption
  <2>2. \A u \in Turns \ {t} : turn[u].pc # "saving_adopted"
    BY DEF Lookup, HasLock, SaveAdopted, At, PlacedInv, TypeOK
  <2>3. QED BY <1>1, <1>3, <1>4, <2>1, <2>2 DEF PlacedInv, Placed, RunFits, RunStates, TypeOK, TurnStates, Threadless, server
<1>8. QED BY <1>6, <1>7 DEF PlacedInv

\* The first load wakes its turns, and each takes its mark.
LEMMA PlacedWake ==
    ASSUME PlacedInv, NEW t \in Turns, Wake(t)
    PROVE  PlacedInv'
<1>1. turn[t].pc = "waking" /\ turn[t].key \in SessionKeys
  BY DEF Wake, At, PlacedInv, Placed
<1>2. Thread(t) \in Threads /\ disk \in SUBSET Threads
  BY <1>1 DEF Thread, PlacedInv, Placed, TypeOK, TurnStates, Threadless, Persisted, Threads, SessionKeys
<1>3. Take(t, Thread(t), disk) /\ loaded' \in BOOLEAN /\ UNCHANGED legacy
  BY DEF Wake
<1>4. /\ pending' \subseteq Threads /\ owed' \subseteq Threads
      /\ toWrite' \subseteq Persisted
      /\ UNCHANGED <<server, disk>>
  BY <1>2, <1>3, TakeTyped
<1>5. PICK pc \in {"posting", "saving_take", "checking"} :
        turn' = [turn EXCEPT ![t] = [@ EXCEPT !.pc = pc, !.thread = Thread(t)]]
  BY <1>2, <1>3, TakeTyped
<1>6. TypeOK'
  <2>1. turn' \in [Turns -> TurnStates]
    BY <1>2, <1>5, ZenonT(60) DEF PlacedInv, TypeOK, TurnStates, Pcs
  <2>2. \A u, v \in Turns :
          turn'[u].pc = "saving_adopted" /\ turn'[v].pc = "saving_adopted" => u = v
    BY <1>5 DEF PlacedInv, TypeOK, TurnStates
  <2>3. QED BY <1>3, <1>4, <2>1, <2>2 DEF PlacedInv, TypeOK, server, legacy
<1>7. Placed'
  <2>1. Thread(t) # "none"
    BY <1>2, KeysAssumption
  <2>2. QED BY <1>1, <1>3, <1>4, <1>5, <2>1
            DEF PlacedInv, Placed, RunFits, RunStates, TypeOK, TurnStates, Threadless, server, legacy
<1>8. QED BY <1>6, <1>7 DEF PlacedInv

\* A turn that moves to a state fit for its place, and leaves the legacy map alone.
LEMMA PlacedMove ==
    ASSUME PlacedInv, NEW t \in Turns, NEW s \in TurnStates,
           turn' = [turn EXCEPT ![t] = s],
           s.pc # "saving_adopted",
           s.pc = "idle" \/ s.key \in SessionKeys,
           s.thread = "none" <=> s.pc \in Threadless,
           s.resume => s.pc = "posting",
           run' \in [Turns -> RunStates],
           \A u \in Turns \ {t} : run'[u] = run[u],
           RunFits(run'[t], s.pc),
           holds' \subseteq Threads, disk' \subseteq Persisted, toWrite' \subseteq Persisted,
           pending' \subseteq Threads, owed' \subseteq Threads,
           legacyDisk' \in SessionKeys \cup {Device, "none"},
           owner' \in SessionKeys \cup {"none", "unsaved"},
           UNCHANGED <<legacyMap, loaded>>
    PROVE  PlacedInv'
<1>1. \A u \in Turns : turn'[u] = IF u = t THEN s ELSE turn[u]
  BY DEF PlacedInv, TypeOK
<1>2. turn' \in [Turns -> TurnStates]
  BY DEF PlacedInv, TypeOK
<1>3. TypeOK'
  BY <1>1, <1>2 DEF PlacedInv, TypeOK
<1>4. Placed'
  BY <1>1 DEF PlacedInv, Placed
<1>5. QED BY <1>3, <1>4 DEF PlacedInv

\* A turn arrives.
LEMMA PlacedStart ==
    ASSUME PlacedInv, NEW t \in Turns, NEW k \in SessionKeys, Start(t, k)
    PROVE  PlacedInv'
<1> DEFINE s == [IdleTurn EXCEPT !.pc = "lookup", !.key = k]
<1>1. /\ s \in TurnStates /\ s.pc = "lookup" /\ s.key = k /\ s.thread = "none"
      /\ s.resume = FALSE
  BY DEF IdleTurn, TurnStates, Pcs
<1>2. turn' = [turn EXCEPT ![t] = s] /\ run' = [run EXCEPT ![t] = "none"]
  BY DEF Start
<1>3. UNCHANGED <<holds, legacyDisk, legacyMap, owner, disk, toWrite, loaded, pending, owed>>
  BY DEF Start, legacy, store
<1> HIDE DEF s
<1>4. QED BY <1>1, <1>2, <1>3, PlacedMove DEF PlacedInv, RunFits, RunStates, TypeOK, Threadless

\* The check: the interrupt is still there, or not.
LEMMA PlacedCheck ==
    ASSUME PlacedInv, NEW t \in Turns, Check(t)
    PROVE  PlacedInv'
<1>1. PICK b \in BOOLEAN : turn' = [turn EXCEPT ![t] = [@ EXCEPT !.pc = "posting", !.resume = b]]
  <2>1. (Thread(t) \in holds) \in BOOLEAN
    OBVIOUS
  <2>2. turn' = [turn EXCEPT ![t] = [@ EXCEPT !.pc = "posting", !.resume = Thread(t) \in holds]]
    BY DEF Check
  <2> HIDE DEF Thread
  <2>3. QED BY Zenon, <2>1, <2>2
<1> DEFINE s == [turn[t] EXCEPT !.pc = "posting", !.resume = b]
<1>2. turn[t] \in TurnStates /\ turn[t].pc = "checking" /\ run[t] = "none"
      /\ turn[t].key \in SessionKeys /\ turn[t].thread # "none"
  BY DEF Check, At, PlacedInv, Placed, RunFits, RunStates, TypeOK, Threadless
<1>3. s \in TurnStates /\ s.pc = "posting" /\ s.key = turn[t].key /\ s.thread = turn[t].thread
  BY <1>2 DEF TurnStates, Pcs
<1>4. turn' = [turn EXCEPT ![t] = s]
  BY <1>1
<1>5. UNCHANGED <<holds, run, legacyDisk, legacyMap, owner, disk, toWrite, loaded, pending, owed>>
  BY DEF Check, server, legacy, store
<1> HIDE DEF s
<1>6. QED BY <1>2, <1>3, <1>4, <1>5, PlacedMove DEF PlacedInv, RunFits, RunStates, TypeOK, Threadless

\* The run asks, and its stream ends with the thread marked.
LEMMA PlacedMarked ==
    ASSUME PlacedInv, NEW t \in Turns, Interrupt(t) \/ EndMarked(t)
    PROVE  PlacedInv'
<1>1. turn[t] \in TurnStates /\ turn[t].pc = "streaming" /\ turn[t].key \in SessionKeys
      /\ turn[t].thread \in Threads /\ turn[t].thread # "none" /\ ~turn[t].resume
  <2>1. turn[t] \in TurnStates /\ turn[t].pc = "streaming"
    BY DEF Interrupt, EndMarked, At, PlacedInv, TypeOK
  <2>2. QED BY <2>1 DEF PlacedInv, Placed, Threadless, TurnStates
<1>2. CASE Interrupt(t)
  <2> DEFINE s == [turn[t] EXCEPT !.interrupted = TRUE]
  <2>1. s \in TurnStates /\ s.pc = "streaming" /\ s.key = turn[t].key /\ s.thread = turn[t].thread
        /\ s.resume = turn[t].resume
    BY <1>1 DEF TurnStates
  <2>2. turn' = [turn EXCEPT ![t] = s]
    BY <1>2 DEF Interrupt
  <2>3. holds' \subseteq Threads
    BY <1>1, <1>2 DEF Interrupt, Thread, PlacedInv, TypeOK
  <2>4. UNCHANGED <<run, legacyDisk, legacyMap, owner, disk, toWrite, loaded, pending, owed>>
    BY <1>2 DEF Interrupt, legacy, store
  <2>5. RunFits(run'[t], s.pc)
    BY <1>1, <2>1, <2>4 DEF PlacedInv, Placed
  <2>6. /\ run' \in [Turns -> RunStates] /\ \A u \in Turns \ {t} : run'[u] = run[u]
        /\ disk' \subseteq Persisted /\ toWrite' \subseteq Persisted
        /\ pending' \subseteq Threads /\ owed' \subseteq Threads
        /\ legacyDisk' \in SessionKeys \cup {Device, "none"}
        /\ owner' \in SessionKeys \cup {"none", "unsaved"}
    BY <2>4 DEF PlacedInv, TypeOK
  <2> HIDE DEF s
  <2>7. QED BY <1>1, <2>1, <2>2, <2>3, <2>4, <2>5, <2>6, PlacedMove DEF Threadless
<1>3. CASE EndMarked(t)
  <2>1. /\ pending' \subseteq Threads /\ owed' \subseteq Threads /\ toWrite' \subseteq Persisted
        /\ UNCHANGED <<holds, legacyDisk, legacyMap, owner, disk, loaded>>
        /\ run' = [run EXCEPT ![t] = "none"]
    BY <1>1, <1>3 DEF EndMarked, RunOver, RunStates, BeginSave, Thread, PlacedInv, TypeOK, legacy
  <2> DEFINE s == [turn[t] EXCEPT !.pc = "saving_mark", !.interrupted = FALSE]
  <2>2. s \in TurnStates /\ s.pc = "saving_mark" /\ s.key = turn[t].key /\ s.thread = turn[t].thread
        /\ s.resume = turn[t].resume
    BY <1>1 DEF TurnStates, Pcs
  <2>3. IdleTurn \in TurnStates /\ IdleTurn.pc = "idle" /\ IdleTurn.thread = "none" /\ ~IdleTurn.resume
    BY DEF IdleTurn, TurnStates, Pcs
  <2>4. turn' = [turn EXCEPT ![t] = s] \/ turn' = [turn EXCEPT ![t] = IdleTurn]
    BY <1>3 DEF EndMarked, Over
  <2> HIDE DEF s
  <2>5. QED BY <1>1, <2>1, <2>2, <2>3, <2>4, PlacedMove DEF PlacedInv, RunFits, RunStates, TypeOK, Threadless
<1>4. QED BY <1>2, <1>3

\* The other steps of a turn.
LEMMA PlacedStep ==
    ASSUME PlacedInv, NEW t \in Turns,
           \/ LookupAdopting(t) \/ SaveTaken(t) \/ FailRequest(t) \/ SeeRun(t) \/ SaveMarked(t)
           \/ End(t) \/ Error(t) \/ Break(t) \/ Cancel(t)
    PROVE  PlacedInv'
<1> USE DEF PlacedInv, Placed, RunFits, RunStates, TypeOK, TurnStates, Pcs, Threadless, IdleTurn, At, Goes, Over,
            Thread, server, legacy, store
<1>1. CASE LookupAdopting(t)
  BY <1>1, KeysAssumption DEF LookupAdopting, HasLock, Adopts, SessionKeys
<1>2. CASE SaveTaken(t)
  BY <1>2 DEF SaveTaken, EndSave
<1>3. CASE FailRequest(t)
  BY <1>3 DEF FailRequest
<1>4. CASE SeeRun(t)
  BY <1>4 DEF SeeRun
<1>5. CASE SaveMarked(t)
  BY <1>5 DEF SaveMarked, EndSave
<1>6. CASE End(t)
  BY <1>6 DEF End, RunOver
<1>7. CASE Error(t)
  BY <1>7 DEF Error, RunOver
<1>8. CASE Break(t)
  BY <1>8 DEF Break, FireCancel
<1>9. CASE Cancel(t)
  BY <1>9 DEF Cancel, FireCancel, EndSave
<1>10. QED BY <1>1, <1>2, <1>3, <1>4, <1>5, <1>6, <1>7, <1>8, <1>9

\* Turns that are overtaken are where they were.
LEMMA OvertakenTyped ==
    ASSUME PlacedInv, NEW th
    PROVE  /\ Overtaken(th) \in [Turns -> TurnStates]
           /\ \A u \in Turns :
                /\ Overtaken(th)[u].pc = turn[u].pc /\ Overtaken(th)[u].key = turn[u].key
                /\ Overtaken(th)[u].thread = turn[u].thread
                /\ Overtaken(th)[u].resume = turn[u].resume
                /\ turn[u].resume /\ turn[u].thread = th => Overtaken(th)[u].overtaken
                /\ turn[u].overtaken => Overtaken(th)[u].overtaken
BY ZenonT(60) DEF PlacedInv, TypeOK, TurnStates, Overtaken, Thread

\* The server accepts a run.
LEMMA PlacedAccept ==
    ASSUME PlacedInv, NEW t \in Turns, Accept(t)
    PROVE  PlacedInv'
<1> DEFINE o == Overtaken(Thread(t))
           s == [IdleTurn EXCEPT !.pc = "streaming", !.key = turn[t].key, !.thread = Thread(t)]
<1>1. turn[t].key \in SessionKeys /\ turn[t].thread \in Threads /\ turn[t].thread # "none"
  BY DEF Accept, At, PlacedInv, Placed, TypeOK, TurnStates, Threadless
<1>2. /\ s \in TurnStates /\ s.pc = "streaming" /\ s.key = turn[t].key
      /\ s.thread = turn[t].thread /\ s.resume = FALSE
  BY <1>1 DEF IdleTurn, TurnStates, Pcs, Thread
<1>3. turn' = [o EXCEPT ![t] = s]
  BY DEF Accept
<1>4. /\ holds' \subseteq Threads /\ run' = [run EXCEPT ![t] = "unseen"]
      /\ UNCHANGED <<legacyDisk, legacyMap, owner, disk, toWrite, loaded, pending, owed>>
  BY DEF Accept, legacy, store, PlacedInv, TypeOK
<1>5. /\ o \in [Turns -> TurnStates]
      /\ \A u \in Turns :
           /\ o[u].pc = turn[u].pc /\ o[u].key = turn[u].key
           /\ o[u].thread = turn[u].thread /\ o[u].resume = turn[u].resume
  BY OvertakenTyped
<1> HIDE DEF o, s
<1>6. turn' \in [Turns -> TurnStates] /\ \A u \in Turns : turn'[u] = IF u = t THEN s ELSE o[u]
  BY <1>2, <1>3, <1>5
<1>7. TypeOK'
  <2>1. \A u, v \in Turns :
          turn'[u].pc = "saving_adopted" /\ turn'[v].pc = "saving_adopted" => u = v
    BY <1>2, <1>5, <1>6 DEF PlacedInv, TypeOK
  <2>2. QED BY <1>4, <1>6, <2>1 DEF PlacedInv, RunStates, TypeOK
<1>8. Placed'
  BY <1>1, <1>2, <1>4, <1>5, <1>6 DEF PlacedInv, Placed, RunFits, RunStates, TypeOK, Threadless
<1>9. QED BY <1>7, <1>8 DEF PlacedInv

\* What the load, the server and a restart do.
LEMMA PlacedRest ==
    ASSUME PlacedInv, LoadEnds \/ (\E th \in Threads : Resolve(th)) \/ (\E t \in Turns : CancelEnds(t)) \/ Restart
    PROVE  PlacedInv'
<1>1. CASE LoadEnds
  BY <1>1 DEF LoadEnds, PlacedInv, Placed, RunFits, TypeOK, TurnStates, Pcs, Threadless, server, legacy, store
<1>2. CASE \E th \in Threads : Resolve(th)
  <2>1. PICK th \in Threads : Resolve(th)
    BY <1>2
  <2>2. /\ turn' \in [Turns -> TurnStates]
        /\ \A u \in Turns :
             /\ turn'[u].pc = turn[u].pc /\ turn'[u].key = turn[u].key
             /\ turn'[u].thread = turn[u].thread /\ turn'[u].resume = turn[u].resume
    BY <2>1, OvertakenTyped DEF Resolve
  <2>3. holds' \subseteq Threads
        /\ UNCHANGED <<run, legacyDisk, legacyMap, owner, disk, toWrite, loaded, pending, owed>>
    BY <2>1 DEF Resolve, PlacedInv, TypeOK, legacy, store
  <2>4. TypeOK'
    BY <2>2, <2>3 DEF PlacedInv, TypeOK
  <2>5. Placed'
    BY <2>2, <2>3 DEF PlacedInv, Placed
  <2>6. QED BY <2>4, <2>5 DEF PlacedInv
<1>3. CASE \E t \in Turns : CancelEnds(t)
  <2>1. PICK t \in Turns : CancelEnds(t)
    BY <1>3
  <2>2. run[t] = "stopping" /\ run' = [run EXCEPT ![t] = "none"]
        /\ UNCHANGED <<holds, turn, legacyDisk, legacyMap, owner, disk, toWrite, loaded, pending, owed>>
    BY <2>1 DEF CancelEnds, legacy, store
  <2>3. TypeOK' /\ Placed'
    BY <2>2 DEF PlacedInv, Placed, RunFits, RunStates, TypeOK
  <2>4. QED BY <2>3 DEF PlacedInv
<1>4. CASE Restart
  BY <1>4 DEF Restart, PlacedInv, Placed, RunFits, RunStates, TypeOK, TurnStates, Pcs, Threadless, IdleTurn
<1>5. QED BY <1>1, <1>2, <1>3, <1>4

LEMMA NextPlaced == PlacedInv /\ [Next]_vars => PlacedInv'
<1> SUFFICES ASSUME PlacedInv, [Next]_vars PROVE PlacedInv'
  OBVIOUS
<1>1. CASE UNCHANGED vars
  BY <1>1 DEF PlacedInv, Placed, RunFits, RunStates, TypeOK, vars, server, legacy, store
<1>2. CASE Next
  BY <1>2, PlacedLookup, PlacedWake, PlacedStart, PlacedCheck, PlacedMarked, PlacedStep, PlacedAccept, PlacedRest
     DEF Next, TurnStep
<1>3. QED BY <1>1, <1>2

\* Where a turn is and what it holds always fit.
LEMMA AlwaysPlaced == Spec => []PlacedInv
BY InitPlaced, NextPlaced, PTL DEF Spec

\* The marks, the Stores and the turns are well typed, and the lock of the legacy
\* map has one holder.
THEOREM TypeCorrect == Spec => []TypeOK
<1>1. PlacedInv => TypeOK
  BY DEF PlacedInv
<1>2. QED BY <1>1, AlwaysPlaced, PTL

-----------------------------------------------------------------------------
(* A resume meets an interrupt                                             *)

\* Steps that move one turn, which is no resume then, and leave the server alone.
LEMMA ResumeQuiet ==
    ASSUME ResumeMeetsInterrupt, holds \subseteq holds',
           \A u \in Turns :
               \/ turn'[u].pc # "posting"
               \/ ~turn'[u].resume
               \/ turn'[u] = turn[u]
    PROVE  ResumeMeetsInterrupt'
BY DEF ResumeMeetsInterrupt, Thread

LEMMA ResumeStep == PlacedInv /\ ResumeMeetsInterrupt /\ [Next]_vars => ResumeMeetsInterrupt'
<1> SUFFICES ASSUME PlacedInv, ResumeMeetsInterrupt, [Next]_vars PROVE ResumeMeetsInterrupt'
  OBVIOUS
<1>1. ASSUME NEW t \in Turns, Lookup(t) \/ SaveAdopted(t) \/ Wake(t) PROVE ResumeMeetsInterrupt'
  <2>1. turn[t] \in TurnStates /\ ~turn[t].resume
    BY <1>1 DEF Lookup, HasLock, SaveAdopted, Wake, At, PlacedInv, Placed, TypeOK
  <2>2. \E pc, th : turn' = [turn EXCEPT ![t] = [@ EXCEPT !.pc = pc, !.thread = th]]
    BY <1>1 DEF Lookup, SaveAdopted, Wake, Proceed, Take
  <2>3. UNCHANGED holds
    BY <1>1 DEF Lookup, SaveAdopted, Wake, Proceed, Take, server
  <2>4. ~turn'[t].resume
    BY <2>1, <2>2 DEF PlacedInv, TypeOK, TurnStates
  <2>5. \A u \in Turns \ {t} : turn'[u] = turn[u]
    BY <2>2 DEF PlacedInv, TypeOK
  <2>6. QED BY <2>3, <2>4, <2>5, ResumeQuiet
<1>2. ASSUME NEW t \in Turns, Check(t) PROVE ResumeMeetsInterrupt'
  <2>1. turn'[t].resume <=> turn[t].thread \in holds
    BY <1>2 DEF Check, Thread, PlacedInv, TypeOK, TurnStates
  <2>2. turn'[t].thread = turn[t].thread /\ UNCHANGED holds
    BY <1>2 DEF Check, PlacedInv, TypeOK, TurnStates, server
  <2>3. \A u \in Turns \ {t} : turn'[u] = turn[u]
    BY <1>2 DEF Check, PlacedInv, TypeOK
  <2>4. QED BY <2>1, <2>2, <2>3 DEF ResumeMeetsInterrupt, Thread
<1>3. ASSUME NEW t \in Turns, Accept(t) PROVE ResumeMeetsInterrupt'
  <2>1. \A u \in Turns \ {t} : turn'[u] = Overtaken(turn[t].thread)[u]
    BY <1>3, OvertakenTyped DEF Accept, Thread
  <2>2. turn'[t].pc = "streaming"
    BY <1>3, OvertakenTyped DEF Accept, Thread, IdleTurn
  <2>3. holds' = holds \ {turn[t].thread}
    BY <1>3 DEF Accept, Thread
  <2>4. QED BY <2>1, <2>2, <2>3, OvertakenTyped DEF ResumeMeetsInterrupt, Thread
<1>4. ASSUME NEW th \in Threads, Resolve(th) PROVE ResumeMeetsInterrupt'
  BY <1>4, OvertakenTyped DEF Resolve, ResumeMeetsInterrupt, Thread
<1>5. ASSUME NEW t \in Turns,
             \/ \E k \in SessionKeys : Start(t, k)
             \/ LookupAdopting(t) \/ SaveTaken(t) \/ FailRequest(t) \/ SeeRun(t) \/ Interrupt(t)
             \/ EndMarked(t) \/ SaveMarked(t) \/ End(t) \/ Error(t) \/ Break(t) \/ Cancel(t)
      PROVE  ResumeMeetsInterrupt'
  <2>1. \A u \in Turns \ {t} : turn'[u] = turn[u]
    BY <1>5 DEF Start, LookupAdopting, SaveTaken, FailRequest, SeeRun, Interrupt, EndMarked, SaveMarked,
                End, Error, Break, Cancel, Goes, Over, PlacedInv, TypeOK
  <2>2. holds \subseteq holds'
    BY <1>5 DEF Start, LookupAdopting, SaveTaken, FailRequest, SeeRun, Interrupt, EndMarked, SaveMarked,
                End, Error, Break, Cancel, server
  <2>3. turn'[t].pc # "posting"
    <3> USE DEF PlacedInv, TypeOK, TurnStates, Goes, Over, IdleTurn, At
    <3>1. CASE \E k \in SessionKeys : Start(t, k)
      BY <3>1 DEF Start
    <3>2. CASE LookupAdopting(t) \/ SaveTaken(t)
      BY <3>2 DEF LookupAdopting, SaveTaken
    <3>3. CASE FailRequest(t) \/ SaveMarked(t) \/ End(t) \/ Error(t) \/ Break(t) \/ Cancel(t)
      BY <3>3 DEF FailRequest, SaveMarked, End, Error, Break, Cancel
    <3>4. CASE SeeRun(t) \/ Interrupt(t)
      BY <3>4 DEF SeeRun, Interrupt
    <3>5. CASE EndMarked(t)
      <4>1. CASE turn' = [turn EXCEPT ![t] = [@ EXCEPT !.pc = "saving_mark", !.interrupted = FALSE]]
        BY <3>5, <4>1 DEF EndMarked
      <4>2. CASE turn' = [turn EXCEPT ![t] = IdleTurn]
        BY <3>5, <4>2 DEF EndMarked
      <4>3. QED BY <3>5, <4>1, <4>2 DEF EndMarked
    <3>6. QED BY <1>5, <3>1, <3>2, <3>3, <3>4, <3>5
  <2>4. QED BY <2>1, <2>2, <2>3, ResumeQuiet
<1>6. ASSUME LoadEnds PROVE ResumeMeetsInterrupt'
  <2>1. \A u \in Turns : turn'[u].pc # "posting" \/ turn'[u] = turn[u]
    BY <1>6 DEF LoadEnds, PlacedInv, TypeOK, TurnStates
  <2>2. QED BY <1>6, <2>1, ResumeQuiet DEF LoadEnds, server
<1>7. ASSUME Restart PROVE ResumeMeetsInterrupt'
  BY <1>7 DEF Restart, IdleTurn, ResumeMeetsInterrupt
<1>8. CASE (\E t \in Turns : CancelEnds(t)) \/ UNCHANGED vars
  BY <1>8 DEF CancelEnds, vars, server, ResumeMeetsInterrupt, Thread
<1>9. QED BY <1>1, <1>2, <1>3, <1>4, <1>5, <1>6, <1>7, <1>8 DEF Next, TurnStep

\* A resume meets an interrupt, unless another turn or client took it after the
\* check.
THEOREM ResumeMeets == Spec => []ResumeMeetsInterrupt
<1>1. Init => ResumeMeetsInterrupt
  BY DEF Init, ResumeMeetsInterrupt, IdleTurn
<1>2. QED BY <1>1, ResumeStep, AlwaysPlaced, PTL DEF Spec

-----------------------------------------------------------------------------
(* The legacy thread has one owner                                         *)

\* A turn has the legacy thread exactly if the legacy map says its key.
ThreadsFollowLegacy ==
    \A t \in Turns : turn[t].thread # "none" =>
        /\ legacyMap # "unloaded"
        /\ turn[t].key \in DeviceKeys => legacyMap # Device
        /\ turn[t].thread = Device <=> turn[t].key = legacyMap

OwnerKept == owner \in SessionKeys => legacyDisk = owner /\ legacyMap \in {"unloaded", owner}

Unowned == owner = "none" => \A t \in Turns : turn[t].thread # Device

SavingUnowned == \A t \in Turns : turn[t].pc = "saving_adopted" => owner = "none"

UnsavedStays == owner = "unsaved" => legacyMap \in SessionKeys

MapSaved ==
    owner # "unsaved" =>
        \/ legacyMap \in {"unloaded", legacyDisk}
        \/ \E t \in Turns : turn[t].pc = "saving_adopted"

LegacyInv == ThreadsFollowLegacy /\ OwnerKept /\ Unowned /\ SavingUnowned /\ UnsavedStays /\ MapSaved

\* Steps after the thread is known, and those before it, which leave the map.
LEMMA LegacyQuiet ==
    ASSUME LegacyInv, UNCHANGED legacy,
           \A u \in Turns :
               /\ \/ turn'[u].thread = "none"
                  \/ turn'[u].thread = turn[u].thread /\ turn'[u].key = turn[u].key
               /\ turn'[u].pc = "saving_adopted" <=> turn[u].pc = "saving_adopted"
    PROVE  LegacyInv'
<1>0. UNCHANGED <<legacyDisk, legacyMap, owner>>
  BY DEF legacy
<1>1. ThreadsFollowLegacy'
  <2> SUFFICES ASSUME NEW u \in Turns, turn'[u].thread # "none"
               PROVE  /\ legacyMap # "unloaded"
                      /\ turn'[u].key \in DeviceKeys => legacyMap # Device
                      /\ turn'[u].thread = Device <=> turn'[u].key = legacyMap
    BY <1>0 DEF ThreadsFollowLegacy
  <2>1. turn'[u].thread = turn[u].thread /\ turn'[u].key = turn[u].key
    OBVIOUS
  <2>2. QED BY <2>1 DEF LegacyInv, ThreadsFollowLegacy
<1>2. OwnerKept' /\ UnsavedStays'
  BY <1>0 DEF LegacyInv, OwnerKept, UnsavedStays
<1>3. Unowned'
  <2>1. Device # "none"
    BY KeysAssumption DEF Threads
  <2> SUFFICES ASSUME owner = "none", NEW u \in Turns PROVE turn'[u].thread # Device
    BY <1>0 DEF Unowned
  <2>2. turn'[u].thread \in {"none", turn[u].thread}
    OBVIOUS
  <2>3. QED BY <2>1, <2>2 DEF LegacyInv, Unowned
<1>4. SavingUnowned'
  <2> SUFFICES ASSUME NEW u \in Turns, turn'[u].pc = "saving_adopted" PROVE owner = "none"
    BY <1>0 DEF SavingUnowned
  <2>1. turn[u].pc = "saving_adopted"
    OBVIOUS
  <2>2. QED BY <2>1 DEF LegacyInv, SavingUnowned
<1>5. MapSaved'
  BY <1>0 DEF LegacyInv, MapSaved
<1>6. QED BY <1>1, <1>2, <1>3, <1>4, <1>5 DEF LegacyInv

LEMMA LegacyLookup ==
    ASSUME PlacedInv, LegacyInv, NEW t \in Turns, Lookup(t)
    PROVE  LegacyInv'
<1> DEFINE th == IF Legacy = turn[t].key THEN Device ELSE turn[t].key
<1>1. /\ turn[t].key \in SessionKeys /\ Device \notin SessionKeys /\ "none" \notin SessionKeys
      /\ "unloaded" \notin SessionKeys /\ "unsaved" \notin SessionKeys
      /\ \A u \in Turns : turn[u].pc # "saving_adopted"
      /\ DeviceKeys \subseteq SessionKeys
  BY KeysAssumption DEF Lookup, HasLock, At, PlacedInv, Placed, Threads, SessionKeys
<1>2. /\ owner' = IF th = Device /\ owner = "none" THEN turn[t].key ELSE owner
      /\ legacyMap' = Legacy /\ legacyDisk' = legacyDisk
      /\ turn[t].key \in DeviceKeys => Legacy # Device
  BY DEF Lookup, Proceed, Adopts
<1>3. PICK pc \in Pcs \ Threadless : turn' = [turn EXCEPT ![t] = [@ EXCEPT !.pc = pc, !.thread = th]]
  <2>1. Proceed(t, th) /\ th \in Threads
    BY <1>1 DEF Lookup, Threads
  <2>2. PICK pc \in {"loading", "posting", "saving_take", "checking"} :
          turn' = [turn EXCEPT ![t] = [@ EXCEPT !.pc = pc, !.thread = th]]
    BY <1>1, <2>1, ProceedTyped, ZenonT(60)
  <2>3. pc \in Pcs \ Threadless
    BY DEF Pcs, Threadless
  <2>4. QED BY <2>2, <2>3
<1>4. /\ turn'[t].thread = th /\ turn'[t].key = turn[t].key
      /\ turn'[t].pc \notin Threadless
      /\ \A u \in Turns \ {t} : turn'[u] = turn[u]
  BY <1>3 DEF PlacedInv, TypeOK, TurnStates
<1>5. (legacyMap # "unloaded" => Legacy = legacyMap) /\ (legacyMap = "unloaded" => Legacy = legacyDisk)
      /\ Legacy # "unloaded"
  BY <1>1, KeysAssumption DEF Legacy, PlacedInv, TypeOK, Threads
<1>6. (th = Device <=> turn[t].key = Legacy) /\ th # "none"
  BY <1>1, KeysAssumption DEF Threads
<1> HIDE DEF th
<1>7. ThreadsFollowLegacy'
  BY <1>2, <1>4, <1>5, <1>6 DEF LegacyInv, ThreadsFollowLegacy
<1>8. owner # "unsaved" => legacyMap \in {"unloaded", legacyDisk}
  BY <1>1 DEF LegacyInv, MapSaved
<1>9. OwnerKept'
  BY <1>1, <1>2, <1>5, <1>6, <1>8 DEF LegacyInv, OwnerKept
<1>10. Unowned'
  BY <1>1, <1>2, <1>4 DEF LegacyInv, Unowned
<1>11. SavingUnowned'
  BY <1>1, <1>4 DEF SavingUnowned, Threadless
<1>12. UnsavedStays'
  BY <1>1, <1>2, <1>5 DEF LegacyInv, UnsavedStays
<1>13. MapSaved'
  BY <1>1, <1>2, <1>5, <1>8 DEF MapSaved
<1>14. QED BY <1>7, <1>9, <1>10, <1>11, <1>12, <1>13 DEF LegacyInv

\* The first agent that asks adopts the legacy thread, which nobody has by now.
LEMMA LegacyAdopting ==
    ASSUME PlacedInv, LegacyInv, NEW t \in Turns, LookupAdopting(t)
    PROVE  LegacyInv'
<1>1. /\ turn[t].key \in DeviceKeys /\ Device \notin SessionKeys /\ Device # "unloaded"
      /\ "unloaded" \notin SessionKeys /\ "unsaved" \notin SessionKeys /\ "none" \notin SessionKeys
      /\ DeviceKeys \subseteq SessionKeys /\ Legacy = Device
      /\ DeviceKeys \cap ChatKeys = {}
  BY KeysAssumption DEF LookupAdopting, Adopts, Threads, SessionKeys
<1>2. legacyMap' = turn[t].key /\ UNCHANGED <<legacyDisk, owner>>
      /\ turn' = [turn EXCEPT ![t].pc = "saving_adopted"]
  BY DEF LookupAdopting, Goes
<1>3. /\ turn'[t].pc = "saving_adopted" /\ turn'[t].thread = turn[t].thread
      /\ turn[t].thread = "none"
      /\ \A u \in Turns \ {t} : turn'[u] = turn[u]
  BY <1>2 DEF LookupAdopting, HasLock, At, PlacedInv, Placed, TypeOK, TurnStates, Threadless
<1>4. owner = "none"
  <2>1. owner \in SessionKeys \cup {"none", "unsaved"}
    BY DEF PlacedInv, TypeOK
  <2>2. owner \notin SessionKeys
    BY <1>1 DEF LegacyInv, OwnerKept, Legacy
  <2>3. owner # "unsaved"
    BY <1>1 DEF LegacyInv, UnsavedStays, Legacy
  <2>4. QED BY <2>1, <2>2, <2>3
<1>5. \A u \in Turns : turn[u].thread # "none" =>
        turn[u].thread # Device /\ turn[u].key \notin DeviceKeys
  BY <1>1, <1>4 DEF LegacyInv, ThreadsFollowLegacy, Unowned, Legacy
<1>6. ThreadsFollowLegacy'
  BY <1>1, <1>2, <1>3, <1>5 DEF ThreadsFollowLegacy
<1>7. OwnerKept' /\ UnsavedStays' /\ SavingUnowned'
  BY <1>1, <1>2, <1>4 DEF OwnerKept, UnsavedStays, SavingUnowned
<1>8. Unowned'
  BY <1>2, <1>3 DEF LegacyInv, Unowned
<1>9. MapSaved'
  BY <1>3 DEF MapSaved
<1>10. QED BY <1>6, <1>7, <1>8, <1>9 DEF LegacyInv

\* The adoption is saved before the turn uses the thread.
LEMMA LegacySaveAdopted ==
    ASSUME PlacedInv, LegacyInv, NEW t \in Turns, SaveAdopted(t)
    PROVE  LegacyInv'
<1>1. /\ turn[t].key \in SessionKeys /\ legacyMap = turn[t].key /\ owner = "none"
      /\ Device \notin SessionKeys /\ "unloaded" \notin SessionKeys /\ "unsaved" \notin SessionKeys
      /\ \A u \in Turns \ {t} : turn[u].pc # "saving_adopted"
  BY KeysAssumption
     DEF SaveAdopted, At, PlacedInv, Placed, TypeOK, LegacyInv, SavingUnowned, Threads, SessionKeys
<1>2. owner' = turn[t].key /\ legacyDisk' = legacyMap /\ legacyMap' = legacyMap
  BY <1>1 DEF SaveAdopted, Proceed
<1>3. PICK pc \in {"loading", "posting", "saving_take", "checking"} :
        turn' = [turn EXCEPT ![t] = [@ EXCEPT !.pc = pc, !.thread = Device]]
  <2>1. Proceed(t, Device) /\ Device \in Threads
    BY DEF SaveAdopted, Threads
  <2>2. QED BY <1>1, <2>1, ProceedTyped
<1>4. /\ turn'[t].thread = Device /\ turn'[t].key = turn[t].key
      /\ turn'[t].pc # "saving_adopted"
      /\ \A u \in Turns \ {t} : turn'[u] = turn[u]
  BY <1>3 DEF PlacedInv, TypeOK, TurnStates
<1>5. ThreadsFollowLegacy'
  BY <1>1, <1>2, <1>4 DEF LegacyInv, ThreadsFollowLegacy
<1>6. OwnerKept' /\ UnsavedStays' /\ SavingUnowned'
  BY <1>1, <1>2, <1>4 DEF OwnerKept, UnsavedStays, SavingUnowned
<1>7. Unowned' /\ MapSaved'
  BY <1>1, <1>2, KeysAssumption DEF Unowned, MapSaved, Threads
<1>8. QED BY <1>5, <1>6, <1>7 DEF LegacyInv

\* A turn given up while its adoption is saved: the save counts, or not.
LEMMA LegacyCancel ==
    ASSUME PlacedInv, LegacyInv, NEW t \in Turns, Cancel(t)
    PROVE  LegacyInv'
<1>1. /\ turn'[t] = IdleTurn /\ turn'[t].thread = "none" /\ turn'[t].pc = "idle"
      /\ \A u \in Turns \ {t} : turn'[u] = turn[u]
  BY DEF Cancel, Over, IdleTurn, PlacedInv, TypeOK
<1>2. CASE turn[t].pc # "saving_adopted"
  <2>1. UNCHANGED legacy
    BY <1>2 DEF Cancel, legacy
  <2>2. QED BY <1>1, <1>2, <2>1, LegacyQuiet
<1>3. CASE turn[t].pc = "saving_adopted"
  <2>1. /\ turn[t].key \in SessionKeys /\ legacyMap = turn[t].key /\ owner = "none"
        /\ Device \notin SessionKeys /\ "unsaved" \notin SessionKeys /\ "none" \notin SessionKeys
        /\ Device # "none"
        /\ \A u \in Turns \ {t} : turn[u].pc # "saving_adopted"
    BY <1>3, KeysAssumption
       DEF PlacedInv, Placed, TypeOK, LegacyInv, SavingUnowned, Threads, SessionKeys
  <2>2. legacyMap' = legacyMap
        /\ ((owner' = "none" /\ legacyDisk' = legacyMap) \/ owner' = "unsaved")
    BY <1>3, <2>1 DEF Cancel
  <2>3. ThreadsFollowLegacy'
    BY <1>1, <2>2 DEF LegacyInv, ThreadsFollowLegacy
  <2>4. OwnerKept' /\ UnsavedStays' /\ MapSaved'
    BY <2>1, <2>2 DEF OwnerKept, UnsavedStays, MapSaved
  <2>5. Unowned' /\ SavingUnowned'
    BY <1>1, <2>1 DEF LegacyInv, Unowned, SavingUnowned
  <2>6. QED BY <2>3, <2>4, <2>5 DEF LegacyInv
<1>4. QED BY <1>2, <1>3

LEMMA LegacyStep == PlacedInv /\ LegacyInv /\ [Next]_vars => LegacyInv'
<1> SUFFICES ASSUME PlacedInv, LegacyInv, [Next]_vars PROVE LegacyInv'
  OBVIOUS
<1>1. ASSUME NEW t \in Turns, Wake(t) PROVE LegacyInv'
  <2>1. turn[t] \in TurnStates /\ turn[t].pc = "waking"
    BY <1>1 DEF Wake, At, PlacedInv, TypeOK
  <2>2. PICK pc \in {"posting", "saving_take", "checking"} :
          turn' = [turn EXCEPT ![t] = [@ EXCEPT !.pc = pc, !.thread = turn[t].thread]]
    BY <1>1 DEF Wake, Take, Thread
  <2>3. QED BY <1>1, <2>1, <2>2, LegacyQuiet DEF Wake, PlacedInv, TypeOK, TurnStates
<1>2. ASSUME NEW t \in Turns, Accept(t) PROVE LegacyInv'
  <2>1. turn'[t].thread = turn[t].thread /\ turn'[t].key = turn[t].key /\ turn'[t].pc = "streaming"
        /\ turn[t].pc = "posting"
    BY <1>2, OvertakenTyped DEF Accept, At, Thread, IdleTurn
  <2>2. \A u \in Turns \ {t} : turn'[u] = Overtaken(turn[t].thread)[u]
    BY <1>2, OvertakenTyped DEF Accept, Thread
  <2>3. UNCHANGED legacy
    BY <1>2 DEF Accept
  <2>4. QED BY <2>1, <2>2, <2>3, OvertakenTyped, LegacyQuiet
<1>3. ASSUME NEW th \in Threads, Resolve(th) PROVE LegacyInv'
  BY <1>3, OvertakenTyped, LegacyQuiet DEF Resolve
<1>4. ASSUME NEW t \in Turns,
             \/ \E k \in SessionKeys : Start(t, k)
             \/ FailRequest(t) \/ SaveMarked(t) \/ End(t) \/ Error(t) \/ Break(t)
             \/ SaveTaken(t) \/ Check(t) \/ SeeRun(t) \/ Interrupt(t) \/ EndMarked(t)
      PROVE  LegacyInv'
  <2>1. \A u \in Turns \ {t} : turn'[u] = turn[u]
    BY <1>4 DEF Start, FailRequest, SaveMarked, End, Error, Break, SaveTaken, Check, SeeRun, Interrupt,
                EndMarked, Goes, Over, PlacedInv, TypeOK
  <2>2. UNCHANGED legacy
    BY <1>4 DEF Start, FailRequest, SaveMarked, End, Error, Break, SaveTaken, Check, SeeRun, Interrupt, EndMarked
  <2>3. /\ turn'[t].thread = "none"
           \/ (turn'[t].thread = turn[t].thread /\ turn'[t].key = turn[t].key)
        /\ turn'[t].pc # "saving_adopted" /\ turn[t].pc # "saving_adopted"
    <3> USE DEF PlacedInv, TypeOK, TurnStates, Goes, Over, IdleTurn, At
    <3>1. CASE \E k \in SessionKeys : Start(t, k)
      BY <3>1 DEF Start
    <3>2. CASE FailRequest(t) \/ SaveMarked(t) \/ End(t) \/ Error(t) \/ Break(t)
      BY <3>2 DEF FailRequest, SaveMarked, End, Error, Break
    <3>3. CASE SaveTaken(t) \/ SeeRun(t) \/ Interrupt(t)
      BY <3>3 DEF SaveTaken, SeeRun, Interrupt
    <3>4. CASE Check(t)
      BY <3>4 DEF Check
    <3>5. CASE EndMarked(t)
      <4>1. CASE turn' = [turn EXCEPT ![t] = [@ EXCEPT !.pc = "saving_mark", !.interrupted = FALSE]]
        BY <3>5, <4>1 DEF EndMarked
      <4>2. CASE turn' = [turn EXCEPT ![t] = IdleTurn]
        BY <3>5, <4>2 DEF EndMarked
      <4>3. QED BY <3>5, <4>1, <4>2 DEF EndMarked
    <3>6. QED BY <1>4, <3>1, <3>2, <3>3, <3>4, <3>5
  <2>4. QED BY <2>1, <2>2, <2>3, LegacyQuiet
<1>5. ASSUME LoadEnds PROVE LegacyInv'
  BY <1>5, LegacyQuiet DEF LoadEnds, PlacedInv, TypeOK, TurnStates
<1>6. ASSUME Restart PROVE LegacyInv'
  <2>1. /\ \A u \in Turns : turn'[u].thread = "none" /\ turn'[u].pc = "idle"
        /\ legacyMap' = "unloaded" /\ UNCHANGED <<legacyDisk, owner>>
        /\ owner # "unsaved" /\ Device # "none"
    BY <1>6, KeysAssumption DEF Restart, IdleTurn, Threads
  <2>2. QED BY <2>1 DEF LegacyInv, ThreadsFollowLegacy, OwnerKept, Unowned, SavingUnowned, UnsavedStays, MapSaved
<1>7. CASE (\E t \in Turns : CancelEnds(t)) \/ UNCHANGED vars
  BY <1>7, LegacyQuiet DEF CancelEnds, vars
<1>8. QED BY <1>1, <1>2, <1>3, <1>4, <1>5, <1>6, <1>7, LegacyLookup, LegacyAdopting, LegacySaveAdopted,
          LegacyCancel DEF Next, TurnStep

\* The legacy thread stays with the session key that first used it, and that key
\* with the thread, unless the save of its adoption was cancelled.
THEOREM OneOwner == Spec => []LegacyThreadHasOneOwner
<1>1. Init => LegacyInv
  <2> SUFFICES ASSUME Init PROVE LegacyInv
    OBVIOUS
  <2>1. /\ \A u \in Turns : turn[u].thread = "none" /\ turn[u].pc = "idle"
        /\ legacyMap = "unloaded" /\ owner = "none"
        /\ owner \notin SessionKeys /\ Device # "none"
    BY KeysAssumption DEF Init, IdleTurn, Threads
  <2>2. QED BY <2>1 DEF LegacyInv, ThreadsFollowLegacy, OwnerKept, Unowned, SavingUnowned, UnsavedStays, MapSaved
<1>2. PlacedInv /\ LegacyInv => LegacyThreadHasOneOwner
  <2> SUFFICES ASSUME PlacedInv, LegacyInv, owner # "unsaved", NEW t \in Turns, turn[t].thread # "none"
               PROVE  turn[t].thread = Device <=> turn[t].key = owner
    BY DEF LegacyThreadHasOneOwner, Thread
  <2>1. turn[t].key \in SessionKeys /\ "none" \notin SessionKeys
    BY KeysAssumption DEF PlacedInv, Placed, Threadless, Threads
  <2>2. CASE owner = "none"
    BY <2>1, <2>2 DEF LegacyInv, Unowned
  <2>3. CASE owner \in SessionKeys
    BY <2>3 DEF LegacyInv, OwnerKept, ThreadsFollowLegacy
  <2>4. QED BY <2>2, <2>3 DEF PlacedInv, TypeOK
<1>3. QED BY <1>1, <1>2, LegacyStep, AlwaysPlaced, PTL DEF Spec

-----------------------------------------------------------------------------
(* No question is forgotten                                                *)

\* The marks are loaded once the first turn has its mark, and not before.
LoadedOnce ==
    \A t \in Turns :
        /\ turn[t].pc = "loading" => ~loaded
        /\ turn[t].pc \notin Early => loaded

\* While the first turns wake, the file is as they read it.
WakingFirst ==
    Waking =>
        /\ \A t \in Turns : turn[t].pc \notin {"loading", "streaming", "saving_mark"}
        /\ owed \subseteq disk

\* The Store keeps what is owed of the persisted threads, after a save that is
\* under way, too.
OwedSaved == owed \cap Persisted \subseteq disk \cap toWrite

\* The save of a mark holds it for as long as it is there.
MarkSaved ==
    \A t \in Turns :
        turn[t].pc = "saving_mark" => {turn[t].thread} \cap pending \cap Persisted \subseteq toWrite

MarksInv == LoadedOnce /\ WakingFirst /\ OwedSaved /\ MarkSaved /\ QuestionRemembered

\* A turn takes its mark from the dict.
LEMMA MarksProceed ==
    ASSUME PlacedInv, MarksInv, NEW t \in Turns, Lookup(t) \/ SaveAdopted(t)
    PROVE  MarksInv'
<1>1. turn[t].key \in SessionKeys /\ turn[t].pc \in {"lookup", "saving_adopted"} /\ ~Waking
  BY DEF Lookup, HasLock, SaveAdopted, At, PlacedInv, Placed
<1>2. PICK th \in Threads : Proceed(t, th)
  BY <1>1 DEF Lookup, SaveAdopted, Threads
<1>3. UNCHANGED <<disk, loaded>>
  BY <1>1, <1>2, ProceedTyped
<1>4. CASE loaded
  <2>1. Take(t, th, pending)
    BY <1>2, <1>4 DEF Proceed
  <2>2. /\ pending' = pending \ {th} /\ owed' = owed \ {th}
        /\ toWrite' = toWrite \/ toWrite' = pending' \cap Persisted
        /\ th \in pending \cap Persisted => toWrite' = pending' \cap Persisted
    BY <2>1 DEF Take, BeginSave
  <2>3. PICK pc \in {"posting", "saving_take", "checking"} :
          turn' = [turn EXCEPT ![t] = [@ EXCEPT !.pc = pc, !.thread = th]]
    BY <2>1 DEF Take
  <2>4. /\ turn'[t].pc \in {"posting", "saving_take", "checking"}
        /\ \A u \in Turns \ {t} : turn'[u] = turn[u]
    BY <2>3 DEF PlacedInv, TypeOK, TurnStates
  <2>5. LoadedOnce' /\ WakingFirst'
    BY <1>1, <1>3, <1>4, <2>4 DEF MarksInv, LoadedOnce, WakingFirst, Waking
  <2>6. OwedSaved' /\ QuestionRemembered'
    BY <1>3, <1>4, <2>2 DEF MarksInv, OwedSaved, QuestionRemembered
  <2>7. MarkSaved'
    BY <2>2, <2>4 DEF MarksInv, MarkSaved
  <2>8. QED BY <2>5, <2>6, <2>7 DEF MarksInv
<1>5. CASE ~loaded
  <2>1. /\ turn' = [turn EXCEPT ![t] = [@ EXCEPT !.pc = "loading", !.thread = th]]
        /\ UNCHANGED <<toWrite, pending, owed>>
    BY <1>2, <1>5 DEF Proceed, store
  <2>2. turn'[t].pc = "loading" /\ \A u \in Turns \ {t} : turn'[u] = turn[u]
    BY <2>1 DEF PlacedInv, TypeOK, TurnStates
  <2>3. QED BY <1>1, <1>3, <1>5, <2>1, <2>2
            DEF MarksInv, LoadedOnce, WakingFirst, Waking, OwedSaved, MarkSaved, QuestionRemembered, Early, Threadless
<1>6. QED BY <1>4, <1>5 DEF PlacedInv, TypeOK

\* A woken turn takes its mark from a dict of its own.
LEMMA MarksWake ==
    ASSUME PlacedInv, MarksInv, NEW t \in Turns, Wake(t)
    PROVE  MarksInv'
<1> DEFINE th == turn[t].thread
<1>1. Waking /\ loaded' = TRUE /\ Take(t, th, disk) /\ UNCHANGED disk
  BY DEF Wake, Waking, At, Take, Thread
<1>2. /\ pending' = disk \ {th} /\ owed' = owed \ {th}
      /\ toWrite' = toWrite \/ toWrite' = pending' \cap Persisted
  BY <1>1 DEF Take, BeginSave
<1>3. PICK pc \in {"posting", "saving_take", "checking"} :
        turn' = [turn EXCEPT ![t] = [@ EXCEPT !.pc = pc, !.thread = th]]
  BY <1>1 DEF Take
<1>4. /\ turn'[t].pc \in {"posting", "saving_take", "checking"}
      /\ \A u \in Turns \ {t} : turn'[u] = turn[u]
  BY <1>3 DEF PlacedInv, TypeOK, TurnStates
<1>5. owed \subseteq disk /\ \A u \in Turns : turn[u].pc \notin {"loading", "streaming", "saving_mark"}
  BY <1>1 DEF MarksInv, WakingFirst
<1> HIDE DEF th
<1>6. LoadedOnce' /\ WakingFirst' /\ MarkSaved'
  BY <1>1, <1>2, <1>4, <1>5 DEF LoadedOnce, WakingFirst, MarkSaved
<1>7. OwedSaved' /\ QuestionRemembered'
  BY <1>1, <1>2, <1>5 DEF MarksInv, OwedSaved, QuestionRemembered
<1>8. QED BY <1>6, <1>7 DEF MarksInv

\* The load ends: nobody has changed the file.
LEMMA MarksLoadEnds ==
    ASSUME PlacedInv, MarksInv, LoadEnds
    PROVE  MarksInv'
<1>1. ~loaded /\ \A t \in Turns : turn[t].pc \in Early
  BY DEF LoadEnds, MarksInv, LoadedOnce
<1>2. /\ UNCHANGED <<disk, toWrite, loaded, pending, owed>>
      /\ \A t \in Turns : turn'[t].pc \in Early \ {"loading"}
  BY <1>1 DEF LoadEnds, store, PlacedInv, TypeOK, TurnStates, Early
<1>3. QED BY <1>1, <1>2
          DEF MarksInv, LoadedOnce, WakingFirst, OwedSaved, MarkSaved, QuestionRemembered, Early, Threadless

\* An interrupted run marks its thread.
LEMMA MarksEndMarked ==
    ASSUME PlacedInv, MarksInv, NEW t \in Turns, EndMarked(t)
    PROVE  MarksInv'
<1> DEFINE th == turn[t].thread
<1>1. turn[t].pc = "streaming" /\ ~Waking /\ loaded /\ UNCHANGED <<disk, loaded>>
      /\ pending' = pending \cup {th}
  BY DEF EndMarked, At, MarksInv, LoadedOnce, Early, Threadless, Thread
<1>2. CASE th \in Persisted
  <2>1. /\ toWrite' = pending' \cap Persisted /\ owed' = owed
        /\ turn' = [turn EXCEPT ![t] = [@ EXCEPT !.pc = "saving_mark", !.interrupted = FALSE]]
    BY <1>2 DEF EndMarked, BeginSave, Thread
  <2>2. turn'[t].pc = "saving_mark" /\ \A u \in Turns \ {t} : turn'[u] = turn[u]
    BY <2>1 DEF PlacedInv, TypeOK, TurnStates
  <2> HIDE DEF th
  <2>3. LoadedOnce' /\ WakingFirst'
    BY <1>1, <2>2 DEF MarksInv, LoadedOnce, WakingFirst, Waking
  <2>4. OwedSaved' /\ QuestionRemembered' /\ MarkSaved'
    BY <1>1, <2>1 DEF MarksInv, OwedSaved, QuestionRemembered, MarkSaved
  <2>5. QED BY <2>3, <2>4 DEF MarksInv
<1>3. CASE th \notin Persisted
  <2>1. /\ toWrite' = toWrite /\ owed' = owed \cup {th}
        /\ turn' = [turn EXCEPT ![t] = IdleTurn]
    BY <1>3 DEF EndMarked, Thread, Over
  <2>2. turn'[t].pc = "idle" /\ \A u \in Turns \ {t} : turn'[u] = turn[u]
    BY <2>1 DEF PlacedInv, TypeOK, IdleTurn
  <2> HIDE DEF th
  <2>3. LoadedOnce' /\ WakingFirst'
    BY <1>1, <2>2 DEF MarksInv, LoadedOnce, WakingFirst, Waking
  <2>4. OwedSaved' /\ QuestionRemembered' /\ MarkSaved'
    BY <1>1, <1>3, <2>1, <2>2 DEF MarksInv, OwedSaved, QuestionRemembered, MarkSaved
  <2>5. QED BY <2>3, <2>4 DEF MarksInv
<1>4. QED BY <1>2, <1>3

\* A save ends.
LEMMA MarksSaved ==
    ASSUME PlacedInv, MarksInv, NEW t \in Turns, SaveTaken(t) \/ SaveMarked(t)
    PROVE  MarksInv'
<1>1. /\ turn[t].pc \in {"saving_take", "saving_mark"} /\ ~Waking /\ loaded
      /\ disk' = toWrite /\ UNCHANGED <<toWrite, loaded, pending>>
  BY DEF SaveTaken, SaveMarked, EndSave, At, MarksInv, LoadedOnce, Early, Threadless
<1>2. turn'[t].pc \in {"checking", "idle"} /\ \A u \in Turns \ {t} : turn'[u] = turn[u]
  BY DEF SaveTaken, SaveMarked, Goes, Over, IdleTurn, PlacedInv, TypeOK, TurnStates
<1>3. owed' = owed \/ (owed' = owed \cup ({turn[t].thread} \cap pending) /\ turn[t].pc = "saving_mark")
  BY DEF SaveTaken, SaveMarked, At, Thread
<1>4. LoadedOnce' /\ WakingFirst'
  BY <1>1, <1>2 DEF MarksInv, LoadedOnce, WakingFirst, Waking
<1>5. OwedSaved' /\ QuestionRemembered' /\ MarkSaved'
  BY <1>1, <1>2, <1>3 DEF MarksInv, OwedSaved, QuestionRemembered, MarkSaved
<1>6. QED BY <1>4, <1>5 DEF MarksInv

\* A turn given up while it saves: the save counts, or not.
LEMMA MarksCancel ==
    ASSUME PlacedInv, MarksInv, NEW t \in Turns, Cancel(t)
    PROVE  MarksInv'
<1>1. /\ ~Waking /\ UNCHANGED <<toWrite, loaded, pending, owed>>
      /\ disk' = disk \/ (disk' = toWrite /\ turn[t].pc \in {"saving_take", "saving_mark"})
  BY DEF Cancel, EndSave
<1>2. turn'[t].pc = "idle" /\ \A u \in Turns \ {t} : turn'[u] = turn[u]
  BY DEF Cancel, Over, IdleTurn, PlacedInv, TypeOK
<1>3. turn[t].pc \in {"saving_take", "saving_mark"} => loaded
  BY DEF MarksInv, LoadedOnce, Early, Threadless
<1>4. LoadedOnce' /\ WakingFirst'
  BY <1>1, <1>2 DEF MarksInv, LoadedOnce, WakingFirst, Waking, Early, Threadless
<1>5. OwedSaved' /\ QuestionRemembered' /\ MarkSaved'
  BY <1>1, <1>2, <1>3 DEF MarksInv, OwedSaved, QuestionRemembered, MarkSaved
<1>6. QED BY <1>4, <1>5 DEF MarksInv

\* Steps that leave the marks and their Store, and that no load is waiting for.
LEMMA MarksQuiet ==
    ASSUME MarksInv, UNCHANGED <<disk, toWrite, loaded, pending, owed>>,
           \A u \in Turns :
               /\ turn'[u].pc \in {"waking", "loading"} => turn'[u].pc = turn[u].pc
               /\ turn'[u].pc \notin Early => turn[u].pc \notin Early
               /\ turn'[u].pc = "streaming" => turn[u].pc = "streaming" \/ ~Waking
               /\ turn'[u].pc = "saving_mark" =>
                      turn[u].pc = "saving_mark" /\ turn'[u].thread = turn[u].thread
    PROVE  MarksInv'
<1>1. LoadedOnce'
  BY DEF MarksInv, LoadedOnce
<1>2. WakingFirst'
  BY DEF MarksInv, WakingFirst, Waking
<1>3. OwedSaved' /\ QuestionRemembered' /\ MarkSaved'
  BY DEF MarksInv, OwedSaved, QuestionRemembered, MarkSaved
<1>4. QED BY <1>1, <1>2, <1>3 DEF MarksInv

LEMMA MarksStep == PlacedInv /\ MarksInv /\ [Next]_vars => MarksInv'
<1> SUFFICES ASSUME PlacedInv, MarksInv, [Next]_vars PROVE MarksInv'
  OBVIOUS
<1>1. ASSUME NEW t \in Turns,
             \/ \E k \in SessionKeys : Start(t, k)
             \/ LookupAdopting(t) \/ FailRequest(t) \/ End(t) \/ Error(t) \/ Break(t)
             \/ Check(t) \/ SeeRun(t) \/ Interrupt(t)
      PROVE  MarksInv'
  <2>1. \A u \in Turns \ {t} : turn'[u] = turn[u]
    BY <1>1 DEF Start, LookupAdopting, FailRequest, End, Error, Break, Check, SeeRun, Interrupt,
                Goes, Over, PlacedInv, TypeOK
  <2>2. UNCHANGED <<disk, toWrite, loaded, pending, owed>>
    BY <1>1 DEF Start, LookupAdopting, FailRequest, End, Error, Break, Check, SeeRun, Interrupt, store
  <2>3. \/ turn'[t].pc \in Threadless
        \/ turn'[t].pc = "posting" /\ turn[t].pc = "checking"
        \/ turn'[t].pc = "streaming" /\ turn[t].pc = "streaming"
    <3> USE DEF PlacedInv, TypeOK, TurnStates, Goes, Over, IdleTurn, At, Threadless
    <3>1. CASE \E k \in SessionKeys : Start(t, k)
      BY <3>1 DEF Start
    <3>2. CASE LookupAdopting(t) \/ FailRequest(t) \/ End(t) \/ Error(t) \/ Break(t)
      BY <3>2 DEF LookupAdopting, FailRequest, End, Error, Break
    <3>3. CASE Check(t)
      BY <3>3 DEF Check
    <3>4. CASE SeeRun(t) \/ Interrupt(t)
      BY <3>4 DEF SeeRun, Interrupt
    <3>5. QED BY <1>1, <3>1, <3>2, <3>3, <3>4
  <2>4. QED BY <2>1, <2>2, <2>3, MarksQuiet DEF Early, Threadless
<1>2. ASSUME NEW t \in Turns, Accept(t) PROVE MarksInv'
  <2>1. /\ turn[t].pc = "posting" /\ ~Waking /\ turn'[t].pc = "streaming"
        /\ UNCHANGED <<disk, toWrite, loaded, pending, owed>>
    BY <1>2, OvertakenTyped DEF Accept, At, IdleTurn, store
  <2>2. \A u \in Turns \ {t} : turn'[u] = Overtaken(turn[t].thread)[u]
    BY <1>2, OvertakenTyped DEF Accept, Thread
  <2>3. QED BY <2>1, <2>2, OvertakenTyped, MarksQuiet DEF Early, Threadless
<1>3. ASSUME NEW th \in Threads, Resolve(th) PROVE MarksInv'
  BY <1>3, OvertakenTyped, MarksQuiet DEF Resolve, store
<1>4. ASSUME Restart PROVE MarksInv'
  <2>1. /\ \A u \in Turns : turn'[u].pc = "idle"
        /\ loaded' = FALSE /\ toWrite' = disk /\ owed' = owed \cap Persisted /\ disk' = disk
    BY <1>4 DEF Restart, IdleTurn
  <2>2. QED BY <2>1 DEF MarksInv, LoadedOnce, WakingFirst, Waking, OwedSaved, MarkSaved, QuestionRemembered,
                        Early, Threadless
<1>5. CASE (\E t \in Turns : CancelEnds(t)) \/ UNCHANGED vars
  BY <1>5, MarksQuiet DEF CancelEnds, vars, store
<1>6. QED BY <1>1, <1>2, <1>3, <1>4, <1>5, MarksProceed, MarksWake, MarksLoadEnds, MarksEndMarked, MarksSaved,
          MarksCancel DEF Next, TurnStep

\* A question of a finished turn is not forgotten before a turn takes it up,
\* across the race of the first loads, cancelled saves and restarts.
THEOREM Remembered == Spec => []QuestionRemembered
<1>1. Init => MarksInv
  BY DEF Init, IdleTurn, MarksInv, LoadedOnce, WakingFirst, Waking, OwedSaved, MarkSaved, QuestionRemembered,
         Early, Threadless
<1>2. MarksInv => QuestionRemembered
  BY DEF MarksInv
<1>3. QED BY <1>1, <1>2, MarksStep, AlwaysPlaced, PTL DEF Spec

-----------------------------------------------------------------------------
(* The turns are those ServerTurns specifies                               *)

\* The turns in progress, and how many of its requests the server accepted.
Active == {t \in Turns : turn[t].pc # "idle"}
Sent == [t \in Turns |-> IF turn[t].pc \in {"streaming", "saving_mark"} THEN 1 ELSE 0]

\* A step that no turn begins, ends or is accepted in is none of ServerTurns.
LEMMA WorkStutters ==
    ASSUME UNCHANGED run,
           \A u \in Turns :
               /\ turn'[u].pc = "idle" <=> turn[u].pc = "idle"
               /\ turn'[u].pc \in {"streaming", "saving_mark"} <=> turn[u].pc \in {"streaming", "saving_mark"}
    PROVE  UNCHANGED Work!turnVars
<1>1. Active' = Active
  BY DEF Active
<1>2. Sent' = Sent
  BY DEF Sent
<1>3. QED BY <1>1, <1>2 DEF Active, Sent, Work!turnVars

\* When the turn is over so is its run, unless the turn has asked for its end.
LEMMA WorkLeaves ==
    ASSUME PlacedInv, NEW t \in Turns, turn[t].pc # "idle", Over(t),
           NEW w \in {"none", "stopping"}, run' = [run EXCEPT ![t] = w],
           w = "stopping" => run[t] = "seen"
    PROVE  Work!Leave(t)
<1>1. turn'[t].pc = "idle" /\ \A u \in Turns \ {t} : turn'[u] = turn[u]
  BY DEF Over, IdleTurn, PlacedInv, TypeOK
<1>2. t \in Active
  BY DEF Active
<1>3. Active' = Active \ {t}
  BY <1>1 DEF Active
<1>4. Sent' = [Sent EXCEPT ![t] = 0]
  BY <1>1 DEF Sent
<1>5. QED BY <1>2, <1>3, <1>4 DEF Active, Sent, Work!Leave

LEMMA WorkStep == PlacedInv /\ [Next]_vars => [Work!Next]_(Work!turnVars)
<1> SUFFICES ASSUME PlacedInv, [Next]_vars PROVE [Work!Next]_(Work!turnVars)
  OBVIOUS
<1>0. run \in [Turns -> RunStates]
  BY DEF PlacedInv, TypeOK
<1>1. ASSUME NEW t \in Turns, NEW k \in SessionKeys, Start(t, k) PROVE Work!Begin(t)
  <2>1. turn[t].pc = "idle" /\ turn'[t].pc = "lookup" /\ \A u \in Turns \ {t} : turn'[u] = turn[u]
    BY <1>1 DEF Start, At, IdleTurn, PlacedInv, TypeOK
  <2>2. t \notin Active /\ Active' = Active \cup {t}
    BY <2>1 DEF Active
  <2>3. Sent' = Sent
    BY <2>1 DEF Sent
  <2>4. run' = [run EXCEPT ![t] = "none"]
    BY <1>1 DEF Start
  <2>5. QED BY <2>2, <2>3, <2>4 DEF Active, Sent, Work!Begin
<1>2. ASSUME NEW t \in Turns, Lookup(t) \/ SaveAdopted(t) \/ Wake(t) PROVE UNCHANGED Work!turnVars
  <2>1. turn[t].pc \in {"lookup", "saving_adopted", "waking"} /\ UNCHANGED run
    BY <1>2 DEF Lookup, HasLock, SaveAdopted, Wake, At, Proceed, Take, server
  <2>2. \E pc \in {"loading", "posting", "saving_take", "checking"}, th \in Threads \cup {"none"} :
          turn' = [turn EXCEPT ![t] = [@ EXCEPT !.pc = pc, !.thread = th]]
    <3>1. CASE Lookup(t) \/ SaveAdopted(t)
      <4>1. turn[t].key \in SessionKeys
        BY <2>1 DEF PlacedInv, Placed
      <4>2. PICK th \in Threads : Proceed(t, th)
        BY <3>1, <4>1 DEF Lookup, SaveAdopted, Threads
      <4>3. PICK pc \in {"loading", "posting", "saving_take", "checking"} :
              turn' = [turn EXCEPT ![t] = [@ EXCEPT !.pc = pc, !.thread = th]]
        BY <4>1, <4>2, ProceedTyped
      <4>4. QED BY <4>3
    <3>2. CASE Wake(t)
      <4>1. turn[t].thread \in Threads \cup {"none"}
        BY DEF PlacedInv, TypeOK, TurnStates
      <4>2. QED BY <3>2, <4>1 DEF Wake, Take, Thread
    <3>3. QED BY <1>2, <3>1, <3>2
  <2>3. turn'[t].pc \in {"loading", "posting", "saving_take", "checking"}
        /\ \A u \in Turns \ {t} : turn'[u] = turn[u]
    BY <2>2 DEF PlacedInv, TypeOK, TurnStates
  <2>4. QED BY <2>1, <2>3, WorkStutters
<1>3. ASSUME NEW t \in Turns, LookupAdopting(t) \/ SaveTaken(t) \/ Check(t) \/ Interrupt(t)
      PROVE  UNCHANGED Work!turnVars
  <2>1. UNCHANGED run /\ \A u \in Turns \ {t} : turn'[u] = turn[u]
    BY <1>3 DEF LookupAdopting, SaveTaken, Check, Interrupt, Goes, server, PlacedInv, TypeOK
  <2>2. \/ /\ turn[t].pc \in {"lookup", "saving_take", "checking"}
           /\ turn'[t].pc \in {"saving_adopted", "checking", "posting"}
        \/ turn[t].pc = "streaming" /\ turn'[t].pc = "streaming"
    <3> USE DEF PlacedInv, TypeOK, TurnStates, Goes, At
    <3>1. CASE LookupAdopting(t) \/ SaveTaken(t)
      BY <3>1 DEF LookupAdopting, HasLock, SaveTaken
    <3>2. CASE Check(t)
      BY <3>2 DEF Check
    <3>3. CASE Interrupt(t)
      BY <3>3 DEF Interrupt
    <3>4. QED BY <1>3, <3>1, <3>2, <3>3
  <2>3. QED BY <2>1, <2>2, WorkStutters
<1>4. ASSUME NEW t \in Turns, FailRequest(t) \/ End(t) \/ Error(t) \/ Break(t) \/ SaveMarked(t) \/ Cancel(t)
      PROVE  Work!Leave(t)
  <2>1. turn[t].pc # "idle" /\ Over(t)
    BY <1>4 DEF FailRequest, End, Error, Break, SaveMarked, Cancel, At
  <2>2. \E w \in {"none", "stopping"} :
            run' = [run EXCEPT ![t] = w] /\ (w = "stopping" => run[t] = "seen")
    <3>1. CASE UNCHANGED run /\ turn[t].pc # "streaming"
      <4>1. run[t] = "none"
        BY <1>0, <2>1, <3>1 DEF PlacedInv, Placed, RunFits, RunStates
      <4>2. QED BY <1>0, <3>1, <4>1
    <3>2. CASE RunOver(t)
      BY <3>2 DEF RunOver
    <3>3. CASE FireCancel(t)
      <4>1. CASE run[t] = "seen"
        BY <3>3, <4>1 DEF FireCancel
      <4>2. CASE run[t] # "seen"
        BY <3>3, <4>2 DEF FireCancel
      <4>3. QED BY <4>1, <4>2
    <3>4. QED BY <1>4, <3>1, <3>2, <3>3 DEF FailRequest, End, Error, Break, SaveMarked, Cancel, At, server
  <2>3. QED BY <2>1, <2>2, WorkLeaves
<1>5. ASSUME NEW t \in Turns, EndMarked(t) PROVE Work!Finish(t) \/ Work!Leave(t)
  <2>1. turn[t].pc = "streaming" /\ run' = [run EXCEPT ![t] = "none"]
    BY <1>5 DEF EndMarked, At, RunOver
  <2>2. CASE turn' = [turn EXCEPT ![t] = [@ EXCEPT !.pc = "saving_mark", !.interrupted = FALSE]]
    <3>1. turn'[t].pc = "saving_mark" /\ \A u \in Turns \ {t} : turn'[u] = turn[u]
      BY <2>2 DEF PlacedInv, TypeOK, TurnStates
    <3>2. t \in Active /\ Active' = Active
      BY <2>1, <3>1 DEF Active
    <3>3. Sent' = Sent
      BY <2>1, <3>1 DEF Sent
    <3>4. QED BY <2>1, <3>2, <3>3 DEF Active, Sent, Work!Finish
  <2>3. CASE Over(t)
    BY <2>1, <2>3, WorkLeaves
  <2>4. QED BY <1>5, <2>2, <2>3 DEF EndMarked
<1>6. ASSUME NEW t \in Turns, Accept(t) PROVE Work!Accept(t)
  <2>1. turn[t].pc = "posting" /\ turn'[t].pc = "streaming" /\ run' = [run EXCEPT ![t] = "unseen"]
    BY <1>6, OvertakenTyped DEF Accept, At, IdleTurn
  <2>2. \A u \in Turns \ {t} : turn'[u].pc = turn[u].pc
    BY <1>6, OvertakenTyped DEF Accept
  <2>3. t \in Active /\ Active' = Active
    BY <2>1, <2>2 DEF Active
  <2>4. Sent[t] = 0 /\ Sent' = [Sent EXCEPT ![t] = 1]
    BY <2>1, <2>2 DEF Sent
  <2>5. QED BY <2>1, <2>3, <2>4 DEF Active, Sent, Work!Accept
<1>7. ASSUME NEW t \in Turns, SeeRun(t) PROVE Work!See(t)
  <2>1. turn[t].pc = "streaming" /\ turn' = turn /\ run[t] = "unseen" /\ run' = [run EXCEPT ![t] = "seen"]
    BY <1>7 DEF SeeRun, At
  <2>2. t \in Active /\ Active' = Active /\ Sent' = Sent
    BY <2>1 DEF Active, Sent
  <2>3. QED BY <2>1, <2>2 DEF Active, Sent, Work!See
<1>8. ASSUME LoadEnds \/ \E th \in Threads : Resolve(th) PROVE UNCHANGED Work!turnVars
  <2>1. UNCHANGED run
    BY <1>8 DEF LoadEnds, Resolve, server
  <2>2. \A u \in Turns : turn'[u].pc = turn[u].pc
                         \/ (turn[u].pc = "loading" /\ turn'[u].pc = "waking")
    BY <1>8, OvertakenTyped DEF LoadEnds, Resolve, PlacedInv, TypeOK, TurnStates
  <2>3. QED BY <2>1, <2>2, WorkStutters
<1>9. ASSUME Restart PROVE Work!Crash
  <2>1. \A u \in Turns : turn'[u].pc = "idle"
    BY <1>9 DEF Restart, IdleTurn
  <2>2. Active' = {} /\ Sent' = [t \in Turns |-> 0]
    BY <2>1 DEF Active, Sent
  <2>3. run' = [t \in Turns |-> "none"]
    BY <1>9 DEF Restart
  <2>4. QED BY <2>2, <2>3 DEF Active, Sent, Work!Crash
<1>10. ASSUME NEW t \in Turns, CancelEnds(t) PROVE Work!StopEnds(t)
  <2>1. turn' = turn /\ run[t] = "stopping" /\ run' = [run EXCEPT ![t] = "none"]
    BY <1>10 DEF CancelEnds
  <2>2. Active' = Active /\ Sent' = Sent
    BY <2>1 DEF Active, Sent
  <2>3. QED BY <2>1, <2>2 DEF Active, Sent, Work!StopEnds
<1>11. CASE UNCHANGED vars
  BY <1>11, WorkStutters DEF vars, server
<1>12. CASE \E t \in Turns : (\E k \in SessionKeys : Start(t, k)) \/ TurnStep(t) \/ Interrupt(t) \/ Cancel(t)
  BY <1>12, <1>1, <1>2, <1>3, <1>4, <1>5, <1>6, <1>7 DEF TurnStep, Work!Next
<1>13. CASE (\E t \in Turns : CancelEnds(t)) \/ LoadEnds \/ (\E th \in Threads : Resolve(th)) \/ Restart
  BY <1>13, <1>8, <1>9, <1>10 DEF Work!Next
<1>14. QED BY <1>11, <1>12, <1>13 DEF Next

\* LangGraphThread implements ServerTurns: the user's message is accepted once at
\* most, and when a turn is over, so is the run it has seen, unless the turn has asked
\* the server to cancel it (_fire_cancel).
THEOREM Implements == Spec => ImplementsServerTurns
<1>1. Init => Work!Init
  <2> SUFFICES ASSUME Init PROVE Work!Init
    OBVIOUS
  <2>1. \A u \in Turns : turn[u].pc = "idle"
    BY DEF Init, IdleTurn
  <2>2. Active = {} /\ Sent = [t \in Turns |-> 0]
    BY <2>1 DEF Active, Sent
  <2>3. QED BY <2>2 DEF Init, Active, Sent, Work!Init
<1>2. QED BY <1>1, WorkStep, AlwaysPlaced, PTL DEF Spec, ImplementsServerTurns, Work!Spec

=============================================================================
