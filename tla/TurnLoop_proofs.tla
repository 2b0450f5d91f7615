-------------------------- MODULE TurnLoop_proofs --------------------------
(***************************************************************************)
(* Proofs about TurnLoop, for every cap on the tool loop and every length  *)
(* of a round-trip: its types, that every agent turn is answered unless    *)
(* the reply was the empty string, that the spoken fallback and the error  *)
(* mark agree, and what alone sends a turn again.                          *)
(***************************************************************************)
EXTENDS TurnLoop, TLAPS

-----------------------------------------------------------------------------
(* The chat log's operators                                                *)

\* A block that is closed leaves a well-formed last entry.
LEMMA FlushedType ==
    ASSUME NEW e \in Entries, NEW b \in Blocks
    PROVE  Flushed(e, b) \in Entries
<1>1. CASE b = NoBlock \/ Visible(b) = {}
  <2>1. "ha_calls" \in b => "ha_calls" \in Visible(b)
    BY DEF Visible
  <2>2. "ha_calls" \notin NoBlock
    BY DEF NoBlock
  <2>3. "ha_calls" \notin b
    BY <1>1, <2>1, <2>2
  <2>4. QED BY <1>1, <2>3 DEF Flushed
<1>2. CASE ~(b = NoBlock \/ Visible(b) = {})
  <2>1. Visible(b) \in (SUBSET Visible(Parts)) \ {{}}
    BY <1>2 DEF Blocks, Visible
  <2>2. HaResult \in Entries /\ Assistant(Visible(b)) \in Entries
    BY <2>1 DEF Entries
  <2>3. QED BY <1>2, <2>2 DEF Flushed
<1>3. QED BY <1>1, <1>2

\* Consuming a delta keeps the last entry and the open block well formed,
\* provided a role was seen.
LEMMA ConsumeType ==
    ASSUME NEW e \in Entries, NEW b \in Blocks, NEW d \in Deltas,
           b # NoBlock \/ CarriesRole(d)
    PROVE  /\ EntryAfter(e, b, d) \in Entries
           /\ BlockAfter(b, d) \in SUBSET Parts
<1>1. EntryAfter(e, b, d) \in Entries
  BY FlushedType DEF EntryAfter, Entries
<1>2. BlockAfter(b, d) \in SUBSET Parts
  BY DEF BlockAfter, Blocks, Deltas, Parts, CarriesRole, NoBlock
<1>3. QED BY <1>1, <1>2

\* A part of a block is never the marker of a stream without a role.
LEMMA NoBlockIsNoSubset ==
    ASSUME NEW b \in SUBSET Parts
    PROVE  b # NoBlock
BY DEF NoBlock, Parts

-----------------------------------------------------------------------------
(* Where the fallback text can be                                          *)

\* Before the turn nothing was spoken and nothing is marked.
LEMMA FallbackInit == Init => FallbackInv
<1> SUFFICES ASSUME Init PROVE FallbackInv
  OBVIOUS
<1>1. entry \in Entries /\ "fallback" \notin entry.has
  BY DEF Init, Entries, User
<1>2. block \in Blocks /\ "fallback" \notin block
  BY DEF Init, Blocks, NoBlock
<1>3. TypeOK
  <2>1. iteration \in 0..MaxIterations /\ sent \in 0..MaxDeltas
    BY MaxIterationsAssumption, MaxDeltasAssumption DEF Init
  <2>2. QED BY <1>1, <1>2, <2>1 DEF Init, TypeOK, Callers, Pcs, Outcomes
<1>4. QED
  BY <1>1, <1>2, <1>3, MaxIterationsAssumption
     DEF Init, FallbackInv, GuardTracksBlock, SpokenFallbackIsMarked

\* The actions that leave the chat log and the guard alone.
LEMMA FallbackQuietStep ==
    ASSUME FallbackInv,
           Begin \/ ConverseError \/ TaskRaises \/ RejectCalls \/ LoopAgain \/ LoopEnds \/ Cancel
    PROVE  FallbackInv'
<1> USE DEF FallbackInv, TypeOK, Callers, Pcs, Outcomes, GuardTracksBlock,
            SpokenFallbackIsMarked, Finish, stream
<1>1. CASE Begin BY <1>1 DEF Begin
<1>2. CASE ConverseError BY <1>2 DEF ConverseError
<1>3. CASE TaskRaises BY <1>3 DEF TaskRaises
<1>4. CASE LoopAgain
  BY <1>4 DEF LoopAgain, UnrespondedToolResults, Entries, User, HaResult, ExtResult, Assistant
<1>5. CASE LoopEnds BY <1>5 DEF LoopEnds
<1>6. CASE Cancel BY <1>6 DEF Cancel
<1>7. CASE RejectCalls BY <1>7 DEF RejectCalls
<1>8. QED BY <1>1, <1>2, <1>3, <1>4, <1>5, <1>6, <1>7

\* A delta of the backend never carries the fallback text, nor hides one.
LEMMA FallbackDeliver ==
    ASSUME FallbackInv, NEW d \in Deltas, Deliver(d)
    PROVE  FallbackInv'
<1> USE DEF FallbackInv
<1>1. BlockSeen(d) \in Blocks
  BY DEF BlockSeen, BlockAfter, Blocks, TypeOK
<1>2. BlockSeen(d) # NoBlock \/ CarriesRole(d)
  BY DEF Deliver
<1>3. /\ entry' \in Entries
      /\ block' \in SUBSET Parts
  BY <1>1, <1>2, ConsumeType DEF Deliver, TypeOK
<1>4. block' # NoBlock /\ block' \in Blocks
  BY <1>3, NoBlockIsNoSubset DEF Blocks
<1>5. TypeOK'
  BY <1>3, <1>4, MaxDeltasAssumption DEF Deliver, TypeOK
<1>6. "fallback" \notin BlockSeen(d)
  BY DEF BlockSeen, BlockAfter
<1>7. "fallback" \notin block'
  BY <1>6 DEF Deliver, BlockAfter, Deltas, NoBlock
<1>8. "fallback" \notin entry'.has
  BY <1>6 DEF Deliver, EntryAfter, Flushed, Visible, NoBlock, ExtResult, HaResult, Assistant
<1>9. GuardTracksBlock'
  <2> SUFFICES ASSUME caller = "conversation" PROVE started' /\ (hasText' <=> "text" \in block')
    BY <1>4 DEF GuardTracksBlock, Deliver
  <2>1. hasText <=> "text" \in block
    BY DEF GuardTracksBlock, Deliver
  <2>2. "text" \in BlockSeen(d) <=> ("text" \in block /\ ~Injected(d))
    BY DEF BlockSeen, BlockAfter
  <2>3. Injected(d) => "text" \notin block
    <3>1. Injected(d) => block = NoBlock
      BY Zenon DEF Injected, GuardTracksBlock, Deliver
    <3>2. "text" \notin NoBlock
      BY DEF NoBlock
    <3>3. QED BY <3>1, <3>2
  <2>4. CASE CarriesRole(d)
    BY <2>4, <2>1 DEF CarriesRole, Deliver, BlockAfter
  <2>5. CASE ~CarriesRole(d)
    BY <2>5, <2>1, <2>2, <2>3 DEF CarriesRole, Deliver, BlockAfter, Deltas
  <2>6. QED BY <2>4, <2>5
<1>10. QED BY <1>4, <1>5, <1>7, <1>8, <1>9 DEF Deliver, SpokenFallbackIsMarked

\* Closing a block that does not hold the fallback text.
LEMMA FallbackStreamEnds ==
    ASSUME FallbackInv, StreamEnds
    PROVE  FallbackInv'
<1> USE DEF FallbackInv, StreamEnds, CloseRound
<1>1. entry' \in Entries
  BY FlushedType DEF TypeOK
<1>2. NoBlock \in Blocks /\ "fallback" \notin NoBlock
  BY DEF Blocks, NoBlock
<1>3. "fallback" \notin entry'.has
  BY DEF Flushed, Visible, NoBlock, HaResult, Assistant
<1>4. QED BY <1>1, <1>2, <1>3 DEF TypeOK, Pcs, GuardTracksBlock, SpokenFallbackIsMarked

\* The guard speaks the fallback and marks the turn in one step.
LEMMA FallbackApologise ==
    ASSUME FallbackInv, Apologise
    PROVE  FallbackInv'
<1> USE DEF FallbackInv, Apologise
<1>1. block \in SUBSET Parts
  BY DEF TypeOK, Blocks
<1> DEFINE whole == block \cup {"fallback"}
<1>2. whole \in SUBSET Parts /\ whole # {} /\ whole # NoBlock /\ whole \in Blocks
  BY <1>1 DEF Parts, NoBlock, Blocks
<1>3. entry' = IF "ha_calls" \in whole THEN HaResult ELSE Assistant(Visible(whole))
  <2>1. ~(whole = NoBlock \/ Visible(whole) = {})
    BY <1>2 DEF Visible
  <2>2. entry' = Flushed(entry, whole)
    OBVIOUS
  <2> HIDE DEF whole
  <2>3. QED BY <2>1, <2>2 DEF Flushed
<1>4. entry' \in Entries
  BY <1>2, FlushedType DEF TypeOK
<1>5. ~UnrespondedToolResults(entry') => "fallback" \in entry'.has
  BY <1>3 DEF UnrespondedToolResults, HaResult, Assistant, Visible
<1>6. NoBlock \in Blocks /\ "fallback" \notin NoBlock
  BY DEF Blocks, NoBlock
<1>7. closed' \in Blocks
  BY <1>2
<1>8. QED
  BY <1>4, <1>5, <1>6, <1>7 DEF TypeOK, Pcs, GuardTracksBlock, SpokenFallbackIsMarked, UnrespondedToolResults

\* The actions that open a round-trip, give up on it, or answer.
LEMMA FallbackOtherStep ==
    ASSUME FallbackInv,
           StartRound \/ SilentEnd \/ StreamRaises \/ Exhausted \/ AnswerTurn \/ AnswerTask
    PROVE  FallbackInv'
<1> USE MaxIterationsAssumption, MaxDeltasAssumption
    DEF FallbackInv, TypeOK, Callers, Pcs, Outcomes, GuardTracksBlock, SpokenFallbackIsMarked
<1>1. CASE StartRound
  <2>1. iteration + 1 \in 0..MaxIterations
    BY <1>1 DEF StartRound
  <2>2. block' \in Blocks /\ "fallback" \notin block' /\ "text" \notin block'
    BY <1>1 DEF StartRound, Blocks, NoBlock
  <2>3. fallback' = FALSE \/ (caller = "ai_task" /\ fallback' = fallback)
    BY <1>1 DEF StartRound
  <2>4. fallback' = FALSE
    BY <2>3
  <2>5. TypeOK'
    <3>1. sent' \in 0..MaxDeltas
      BY <1>1 DEF StartRound
    <3>2. started' \in BOOLEAN /\ hasText' \in BOOLEAN /\ fallback' \in BOOLEAN
      BY <1>1, <2>4 DEF StartRound
    <3>3. QED BY <1>1, <2>1, <2>2, <3>1, <3>2 DEF StartRound
  <2>6. GuardTracksBlock'
    <3>1. ~started' /\ ~hasText' /\ block' = NoBlock
      BY <1>1 DEF StartRound
    <3>2. QED BY <3>1, <2>2 DEF GuardTracksBlock
  <2>7. QED BY <1>1, <2>2, <2>4, <2>5, <2>6 DEF StartRound
<1>2. CASE SilentEnd BY <1>2 DEF SilentEnd, Blocks, NoBlock
<1>3. CASE StreamRaises BY <1>3 DEF StreamRaises, Blocks, NoBlock
<1>4. CASE Exhausted
  <2>1. Assistant({"fallback"}) \in Entries
    BY DEF Entries, Parts, Visible
  <2>2. /\ "fallback" \in Assistant({"fallback"}).has
        /\ ~UnrespondedToolResults(Assistant({"fallback"}))
    BY DEF Assistant, UnrespondedToolResults
  <2>3. CASE caller = "conversation"
    BY <1>4, <2>1, <2>2, <2>3 DEF Exhausted
  <2>4. CASE caller = "ai_task"
    BY <1>4, <2>4 DEF Exhausted, Finish
  <2>5. QED BY <2>3, <2>4
<1>5. CASE AnswerTurn BY <1>5 DEF AnswerTurn, Finish, stream
<1>6. CASE AnswerTask BY <1>6 DEF AnswerTask, Finish, stream
<1>7. QED BY <1>1, <1>2, <1>3, <1>4, <1>5, <1>6

\* Stuttering steps keep the invariant.
LEMMA FallbackUnchanged ==
    ASSUME FallbackInv, UNCHANGED vars
    PROVE  FallbackInv'
BY DEF vars, stream, FallbackInv, TypeOK, GuardTracksBlock, SpokenFallbackIsMarked

\* Every step keeps the fallback and its mark together.
LEMMA FallbackStep == FallbackInv /\ [Next]_vars => FallbackInv'
<1> SUFFICES ASSUME FallbackInv, [Next]_vars PROVE FallbackInv'
  OBVIOUS
<1>1. CASE Next
  BY <1>1, FallbackQuietStep, FallbackDeliver, FallbackStreamEnds, FallbackApologise,
     FallbackOtherStep, FallbackUnchanged DEF Next, Progress, Finished
<1>2. CASE UNCHANGED vars
  BY <1>2, FallbackUnchanged
<1>3. QED BY <1>1, <1>2

\* The types of every state of a request, for every cap and every stream.
THEOREM TypeCorrect == Spec => []TypeOK
<1>1. FallbackInv => TypeOK
  BY DEF FallbackInv
<1>2. QED BY <1>1, FallbackInit, FallbackStep, PTL DEF Spec

\* The error mark of a turn and its spoken fallback agree, however many
\* round-trips the turn took and in whichever of them the backend failed.
THEOREM FallbackMarked == Spec => []SpokenFallbackIsMarked
<1>1. FallbackInv => SpokenFallbackIsMarked
  BY DEF FallbackInv
<1>2. QED BY <1>1, FallbackInit, FallbackStep, PTL DEF Spec

\* The guard knows the open block of a chat log it never reads.
THEOREM GuardTracks == Spec => []GuardTracksBlock
<1>1. FallbackInv => GuardTracksBlock
  BY DEF FallbackInv
<1>2. QED BY <1>1, FallbackInit, FallbackStep, PTL DEF Spec

-----------------------------------------------------------------------------
(* Every turn is answered, unless the reply was the empty string           *)

\* A block that got something and is not merely blank becomes an entry.
LEMMA FlushedVisible ==
    ASSUME NEW e, NEW b \in SUBSET Parts, b # {}, b # {"blank"}
    PROVE  Flushed(e, b).kind \in {"assistant", "ha_result"}
<1>1. Visible(b) # {} /\ b # NoBlock
  BY NoBlockIsNoSubset DEF Visible
<1>2. QED BY <1>1 DEF Flushed, HaResult, Assistant

\* Only calls for Home Assistant's tools leave the log on a tool result.
LEMMA FlushedUnresponded ==
    ASSUME NEW e, NEW b \in SUBSET Parts, b # {}, b # {"blank"},
           UnrespondedToolResults(Flushed(e, b))
    PROVE  "ha_calls" \in b
<1>1. Visible(b) # {} /\ b # NoBlock
  BY NoBlockIsNoSubset DEF Visible
<1>2. QED BY <1>1 DEF Flushed, Assistant, UnrespondedToolResults

\* Every step keeps the invariant behind "every agent turn is answered".
LEMMA AnswerStep ==
    ASSUME AnswerInv, [Next]_vars
    PROVE  AnswerInv'
<1> USE DEF AnswerInv, TurnIsAnswered
<1>1. FallbackInv'
  BY FallbackStep
<1> USE DEF FallbackInv
<1>2. CASE Begin \/ ConverseError \/ TaskRaises \/ RejectCalls \/ LoopAgain \/ LoopEnds \/ Cancel
  BY <1>1, <1>2 DEF Begin, ConverseError, TaskRaises, RejectCalls, LoopAgain, LoopEnds, Cancel,
                    Finish, stream
<1>3. CASE StartRound \/ SilentEnd \/ StreamRaises
  BY <1>1, <1>3 DEF StartRound, SilentEnd, StreamRaises
<1>4. CASE \E d \in Deltas : Deliver(d)
  BY <1>1, <1>4 DEF Deliver
<1>5. CASE StreamEnds
  <2>1. caller = "conversation" => block \in SUBSET Parts /\ block # {}
    BY <1>5 DEF StreamEnds, MayEnd, GuardTracksBlock, TypeOK, Blocks
  <2>2. caller = "conversation" /\ block # {"blank"} => entry'.kind # "user"
    BY <1>5, <2>1, FlushedVisible DEF StreamEnds, CloseRound
  <2>3. QED BY <1>1, <1>5, <2>2 DEF StreamEnds, CloseRound
<1>6. CASE Apologise
  <2> DEFINE whole == block \cup {"fallback"}
  <2>1. whole \in SUBSET Parts /\ whole # {} /\ whole # {"blank"}
    BY <1>6 DEF Apologise, TypeOK, Blocks, Parts
  <2>2. entry' = Flushed(entry, whole)
    BY <1>6 DEF Apologise
  <2> HIDE DEF whole
  <2>3. entry'.kind # "user"
    BY <2>1, <2>2, FlushedVisible
  <2>4. QED BY <1>1, <1>6, <2>3 DEF Apologise
<1>7. CASE Exhausted
  BY <1>1, <1>7 DEF Exhausted, Finish, Assistant
<1>8. CASE AnswerTurn
  <2>1. entry.kind # "assistant" => entry.kind = "user"
    BY <1>8 DEF AnswerTurn, TypeOK, Entries, User, HaResult, ExtResult, Assistant,
                UnrespondedToolResults
  <2>2. QED BY <1>1, <1>8, <2>1 DEF AnswerTurn, Finish, stream
<1>9. CASE AnswerTask
  BY <1>1, <1>9 DEF AnswerTask, Finish, stream
<1>10. CASE Finished \/ UNCHANGED vars
  BY <1>1, <1>10 DEF Finished, vars, stream
<1>11. QED BY <1>2, <1>3, <1>4, <1>5, <1>6, <1>7, <1>8, <1>9, <1>10 DEF Next, Progress

\* The never-hang guarantee: async_get_result_from_chat_log raises only for a
\* reply that was the empty string, whatever else the backend sends, for every
\* tool-loop cap.
THEOREM EveryTurnAnswered == Spec => []TurnIsAnswered
<1>1. Init => AnswerInv
  BY FallbackInit DEF Init, AnswerInv, TurnIsAnswered
<1>2. AnswerInv => TurnIsAnswered
  BY DEF AnswerInv
<1>3. AnswerInv /\ [Next]_vars => AnswerInv'
  BY AnswerStep
<1>4. QED BY <1>1, <1>2, <1>3, PTL DEF Spec

-----------------------------------------------------------------------------
(* What alone sends a turn again                                           *)

\* Every step keeps the invariant behind "no turn is sent again needlessly".
LEMMA ResendStep ==
    ASSUME ResendInv, [Next]_vars
    PROVE  ResendInv'
<1> USE DEF ResendInv
<1>1. FallbackInv'
  BY FallbackStep
<1> USE DEF FallbackInv
<1>2. CASE Begin \/ ConverseError \/ TaskRaises \/ RejectCalls \/ LoopAgain \/ LoopEnds
  BY <1>1, <1>2 DEF Begin, ConverseError, TaskRaises, RejectCalls, LoopAgain, LoopEnds, Finish,
                    Unfinished
<1>3. CASE StartRound \/ SilentEnd \/ StreamRaises \/ Cancel \/ AnswerTurn \/ AnswerTask
  BY <1>1, <1>3 DEF StartRound, SilentEnd, StreamRaises, Cancel, AnswerTurn, AnswerTask, Finish
<1>4. CASE \E d \in Deltas : Deliver(d)
  BY <1>1, <1>4 DEF Deliver
<1>5. CASE StreamEnds
  <2>1. entry' = Flushed(entry, block) /\ closed' = block /\ caller' = caller
    BY <1>5 DEF StreamEnds, CloseRound
  <2>2. block = NoBlock => caller = "ai_task"
    BY <1>5, Zenon DEF StreamEnds, GuardTracksBlock, TypeOK, Callers
  <2>3. block = NoBlock \/ (block \in SUBSET Parts /\ block # {})
    BY <1>5 DEF StreamEnds, MayEnd, TypeOK, Blocks
  <2>4. UnrespondedToolResults(entry') => Unfinished'
    BY <2>1, <2>2, <2>3, FlushedUnresponded DEF Unfinished
  <2>5. QED BY <1>1, <1>5, <2>4 DEF StreamEnds, CloseRound
<1>6. CASE Apologise
  <2> DEFINE whole == block \cup {"fallback"}
  <2>1. whole \in SUBSET Parts /\ whole # {} /\ whole # {"blank"}
    BY <1>6 DEF Apologise, TypeOK, Blocks, Parts
  <2>2. entry' = Flushed(entry, whole) /\ closed' = whole
    BY <1>6 DEF Apologise
  <2> HIDE DEF whole
  <2>3. UnrespondedToolResults(entry') => Unfinished'
    BY <2>1, <2>2, FlushedUnresponded DEF Unfinished
  <2>4. QED BY <1>1, <1>6, <2>3 DEF Apologise
<1>7. CASE Exhausted
  BY <1>1, <1>7 DEF Exhausted, Finish
<1>8. CASE Finished \/ UNCHANGED vars
  BY <1>1, <1>8 DEF Finished, vars, stream, Unfinished
<1>9. QED BY <1>2, <1>3, <1>4, <1>5, <1>6, <1>7, <1>8 DEF Next, Progress

\* The loop re-enters only to hand the backend the results of Home Assistant's
\* own tools, but for a blank reply and an AI task's round without a reply, for
\* every cap and for every preset that keeps the contract.
THEOREM NoResend == Spec => ResendOnlyForHaTools
<1>1. Init => ResendInv
  BY FallbackInit DEF Init, ResendInv
<1>2. ResendInv /\ [Next]_vars => ResendInv'
  BY ResendStep
<1>3. ResendInv /\ [Next]_vars => [iteration' > iteration /\ iteration > 0 => Unfinished]_vars
  <2> SUFFICES ASSUME ResendInv, Next, iteration' > iteration, iteration > 0
               PROVE  Unfinished
    OBVIOUS
  <2>1. iteration \in Nat
    BY MaxIterationsAssumption DEF ResendInv, FallbackInv, TypeOK
  <2>2. ~(iteration > iteration)
    BY <2>1
  <2>3. StartRound
    BY <2>2 DEF Next, Progress, Begin, ConverseError, Deliver, StreamEnds, SilentEnd, StreamRaises,
                Apologise, TaskRaises, RejectCalls, LoopAgain, Exhausted, LoopEnds, AnswerTurn,
                AnswerTask, Cancel, Finished, vars
  <2>4. QED BY <2>3 DEF StartRound, ResendInv
<1>4. QED BY <1>1, <1>2, <1>3, PTL DEF Spec, ResendOnlyForHaTools
=============================================================================
