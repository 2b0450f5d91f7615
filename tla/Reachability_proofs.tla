------------------------ MODULE Reachability_proofs ------------------------
(***************************************************************************)
(* Proofs about Reachability, for every set of entities and requests,      *)
(* every threshold and every number of reloads: the entities of a          *)
(* connection agree on one reachability state, none is stuck unavailable,  *)
(* the repair issue tells the state of the current adapter and goes with   *)
(* the entry, and every preset's errors are read as what they stand for.   *)
(***************************************************************************)
EXTENDS Reachability, TLAPS

(* What the presets' errors are read as                                    *)

\* Whatever preset raises it, an error counts as an outage exactly if the
\* backend could not be reached.
LEMMA OutageVerdict ==
    ASSUME NEW p \in Presets, NEW w \in TurnAnswers
    PROVE  IsUnreachable(TurnRaises(p, w)) <=> w = "down"
<1> USE DEF IsUnreachable, NoError, Err, Wrapped, TurnAnswers, ReplyAnswers, LookupAnswers, LocalErrors
<1>1. CASE p \in {"converse", "langgraph"}
  BY <1>1 DEF TurnRaises, PostCheckedRaises
<1>2. CASE p = "dify"
  BY <1>2 DEF TurnRaises, DifyTurnRaises, PostCheckedRaises
<1>3. CASE p = "n8n"
  BY <1>3 DEF TurnRaises, N8nTurnRaises, PostCheckedRaises
<1>4. CASE p = "ollama"
  BY <1>4 DEF TurnRaises, OllamaTurnRaises, PostCheckedRaises
<1>5. CASE p = "openai_compat"
  BY <1>5 DEF TurnRaises, OpenAITurnRaises, PostCheckedRaises
<1>6. QED BY <1>1, <1>2, <1>3, <1>4, <1>5 DEF Presets

\* A refused credential is told from every other error, and the errors that a
\* task re-raises unrecorded are a rate limit and a wrong attachment.
LEMMA TypedVerdict ==
    ASSUME NEW p \in Presets, NEW w \in TurnAnswers
    PROVE  /\ StartsReauth(TurnRaises(p, w)) <=> w = "rejected"
           /\ IsTranslated(TurnRaises(p, w))
              <=> w = "unsupported_attachment" \/ (w = "rate_limited" /\ p = "openai_compat")
<1> USE DEF StartsReauth, IsA, IsTranslated, NoError, Err, Wrapped,
            TurnAnswers, ReplyAnswers, LookupAnswers, LocalErrors
<1>1. CASE p \in {"converse", "langgraph"}
  BY <1>1 DEF TurnRaises, PostCheckedRaises
<1>2. CASE p = "dify"
  BY <1>2 DEF TurnRaises, DifyTurnRaises, PostCheckedRaises
<1>3. CASE p = "n8n"
  BY <1>3 DEF TurnRaises, N8nTurnRaises, PostCheckedRaises
<1>4. CASE p = "ollama"
  BY <1>4 DEF TurnRaises, OllamaTurnRaises, PostCheckedRaises
<1>5. CASE p = "openai_compat"
  BY <1>5 DEF TurnRaises, OpenAITurnRaises, PostCheckedRaises
<1>6. QED BY <1>1, <1>2, <1>3, <1>4, <1>5 DEF Presets

-----------------------------------------------------------------------------
(* The initial state                                                       *)

\* The invariant holds when the entry is set up for the first time.
LEMMA InitReach == Init => ReachInv
<1> SUFFICES ASSUME Init PROVE ReachInv
  OBVIOUS
<1>1. TypeOK
  <2>1. gen \in 0..MaxSetups /\ issueBy \in 0..MaxSetups /\ count \in [Adapters -> 0..MaxCount]
    BY BoundsAssumption DEF Init
  <2>2. avail \in [Entities -> BOOLEAN] /\ req \in [Requests -> InFlight \cup {Idle}]
    BY DEF Init
  <2>3. QED BY <2>1, <2>2 DEF Init, TypeOK, SetupStates
<1>2. ConnectedWhenSetUp /\ UnbuiltUnused
  BY BoundsAssumption DEF Init, ConnectedWhenSetUp, UnbuiltUnused, Idle, Adapters
<1>3. EntitiesAgree /\ NoneStuckUnavailable /\ IssueTracksAdapter
  BY DEF Init, EntitiesAgree, NoneStuckUnavailable, IssueTracksAdapter
<1>4. AnswerIsRecorded /\ OutageIsCounted /\ RejectionStartsReauth
  BY DEF Init, AnswerIsRecorded, OutageIsCounted, RejectionStartsReauth, NoEnd, ReplyAnswers, LookupAnswers
<1>5. RemovalClearsIssue /\ NothingOutlives
  BY DEF Init, RemovalClearsIssue, NothingOutlives
<1>6. QED BY <1>1, <1>2, <1>3, <1>4, <1>5 DEF ReachInv

-----------------------------------------------------------------------------
(* Recording the outcome of a round-trip                                   *)

\* What recording leaves alone, and what every recording keeps: the part of the
\* invariant that speaks of counts, entities and the issue.
LEMMA RecordKeeps ==
    ASSUME ReachInv, NEW g \in Adapters, g <= gen,
           NEW kind \in Kinds, NEW w \in TurnAnswers,
           Record(kind, g, w),
           UNCHANGED <<setup, gen, connected, preset, outlived>>,
           setup # "removed" \/ outlived,
           req' \in [Requests -> InFlight \cup {Idle}],
           \A r \in Requests : req'[r].on <= gen
    PROVE  ReachInv'
<1> USE DEF ReachInv
<1>0. count \in [Adapters -> 0..MaxCount] /\ gen \in Nat /\ MaxCount \in Nat /\ MaxSetups \in Nat
      /\ Threshold \in Nat \ {0} /\ g \in Nat \ {0}
  BY BoundsAssumption, ThresholdAssumption DEF TypeOK, Adapters
<1> DEFINE unrecorded == kind = "ai_task" /\ IsTranslated(TurnRaises(preset, w))
<1>1. /\ ended' \in [answer : Outcomes, kind : Kinds, on : Adapters]
      /\ ended'.answer = w /\ ended'.kind = kind /\ ended'.on = g
      /\ preset \in Presets /\ outlived' \in BOOLEAN
  BY DEF Record, TypeOK, Outcomes
<1>a. /\ IsUnreachable(TurnRaises(preset, w)) <=> w = "down"
      /\ StartsReauth(TurnRaises(preset, w)) <=> w = "rejected"
      /\ IsTranslated(TurnRaises(preset, w))
         <=> w = "unsupported_attachment" \/ (w = "rate_limited" /\ preset = "openai_compat")
  BY <1>1, OutageVerdict, TypedVerdict
<1>b. reauth' \in BOOLEAN
  BY DEF Record, TypeOK
<1>c. RejectionStartsReauth' /\ RemovalClearsIssue' /\ NothingOutlives'
  <2>1. w = "rejected" /\ setup # "removed" => reauth'
    BY <1>a DEF Record
  <2>2. QED BY <1>1, <2>1 DEF RejectionStartsReauth, RemovalClearsIssue, NothingOutlives
<1>2. CASE unrecorded
  <2>1. UNCHANGED <<count, issue, issueBy, avail, late>>
    BY <1>2 DEF Record, RecordNothing, NoSignal
  <2>2. TypeOK'
    BY <1>1, <1>b, <2>1 DEF TypeOK
  <2>3. AnswerIsRecorded' /\ OutageIsCounted'
    BY <1>1, <1>2, <1>a DEF AnswerIsRecorded, OutageIsCounted, ReplyAnswers, LookupAnswers
  <2>4. QED
    BY <1>c, <2>1, <2>2, <2>3
       DEF ConnectedWhenSetUp, UnbuiltUnused, EntitiesAgree, NoneStuckUnavailable, IssueTracksAdapter
<1>3. CASE ~unrecorded /\ w = "down"
  <2>1. RecordUnreachable(g)
    BY <1>3, <1>a DEF Record
  <2>2. /\ count' = [count EXCEPT ![g] = count[g] + 1]
        /\ count[g] + 1 \in 0..MaxCount
        /\ count'[g] = count[g] + 1
        /\ \A h \in Adapters : h # g => count'[h] = count[h]
    BY <1>0, <2>1 DEF RecordUnreachable
  <2>3. count' \in [Adapters -> 0..MaxCount]
    BY <1>0, <2>2
  <2>4. \/ /\ count'[g] = 1
           /\ avail' = [e \in Entities |-> IF e \in connected THEN count'[gen] = 0 ELSE avail[e]]
           /\ late' = late \ connected
        \/ count'[g] > 1 /\ UNCHANGED <<avail, late>>
    BY <1>0, <2>1, <2>2 DEF RecordUnreachable, Signal, NoSignal
  <2>5. \/ count'[g] >= Threshold /\ issue' = TRUE /\ issueBy' = g
        \/ count'[g] < Threshold /\ UNCHANGED <<issue, issueBy>>
    BY <1>0, <2>1, <2>2 DEF RecordUnreachable
  <2>6. TypeOK'
    <3>1. avail' \in [Entities -> BOOLEAN] /\ late' \in SUBSET Entities
      BY <2>4 DEF TypeOK
    <3>2. issue' \in BOOLEAN /\ issueBy' \in 0..MaxSetups
      <4>1. g \in 0..MaxSetups
        BY <1>0 DEF Adapters
      <4>2. issue \in BOOLEAN /\ issueBy \in 0..MaxSetups
        BY DEF TypeOK
      <4>3. QED BY <2>5, <4>1, <4>2
    <3>3. QED BY <1>1, <1>b, <2>3, <3>1, <3>2 DEF TypeOK
  <2>7. ConnectedWhenSetUp' /\ UnbuiltUnused'
    BY <1>0, <2>2 DEF ConnectedWhenSetUp, UnbuiltUnused
  <2>8. EntitiesAgree' /\ NoneStuckUnavailable'
    <3>1. connected # {} => gen \in Adapters
      BY <1>0 DEF ConnectedWhenSetUp, TypeOK, Adapters
    <3>2. CASE avail' = [e \in Entities |-> IF e \in connected THEN count'[gen] = 0 ELSE avail[e]]
      <4>1. \A e \in connected : e \in Entities /\ (avail'[e] <=> count'[gen] = 0)
        BY <3>2 DEF TypeOK
      <4>2. connected # {} => count'[gen] \in 0..MaxCount
        BY <2>3, <3>1
      <4>3. QED BY <1>0, <4>1, <4>2 DEF EntitiesAgree, NoneStuckUnavailable
    <3>3. CASE count'[g] > 1 /\ UNCHANGED <<avail, late>>
      BY <1>0, <2>2, <3>1, <3>3 DEF EntitiesAgree, NoneStuckUnavailable, TypeOK
    <3>4. QED BY <2>4, <3>2, <3>3
  <2>9. IssueTracksAdapter'
    BY <1>0, <2>2, <2>5 DEF IssueTracksAdapter, Adapters, TypeOK
  <2>10. AnswerIsRecorded' /\ OutageIsCounted'
    BY <1>0, <1>1, <1>3, <2>2 DEF AnswerIsRecorded, OutageIsCounted
  <2>11. QED BY <1>c, <2>6, <2>7, <2>8, <2>9, <2>10
<1>4. CASE ~unrecorded /\ w # "down"
  <2>1. RecordReached(g)
    BY <1>4, <1>a DEF Record
  <2>2. /\ count' = [count EXCEPT ![g] = 0]
        /\ count'[g] = 0
        /\ \A h \in Adapters : h # g => count'[h] = count[h]
        /\ issue' = FALSE
        /\ issueBy' = g
    BY <1>0, <2>1 DEF RecordReached
  <2>3. count' \in [Adapters -> 0..MaxCount]
    BY <1>0, <2>2
  <2>4. \/ /\ avail' = [e \in Entities |-> IF e \in connected THEN count'[gen] = 0 ELSE avail[e]]
           /\ late' = late \ connected
        \/ count[g] = 0 /\ UNCHANGED <<avail, late>>
    BY <1>0, <2>1 DEF RecordReached, Signal, NoSignal
  <2>5. TypeOK'
    <3>1. avail' \in [Entities -> BOOLEAN] /\ late' \in SUBSET Entities
      BY <2>4 DEF TypeOK
    <3>2. issueBy' \in 0..MaxSetups
      BY <2>2 DEF Adapters
    <3>3. QED BY <1>1, <1>b, <2>2, <2>3, <3>1, <3>2 DEF TypeOK
  <2>6. ConnectedWhenSetUp' /\ UnbuiltUnused'
    BY <1>0, <2>2 DEF ConnectedWhenSetUp, UnbuiltUnused
  <2>7. EntitiesAgree' /\ NoneStuckUnavailable'
    <3>1. connected # {} => gen \in Adapters
      BY <1>0 DEF ConnectedWhenSetUp, TypeOK, Adapters
    <3>2. CASE avail' = [e \in Entities |-> IF e \in connected THEN count'[gen] = 0 ELSE avail[e]]
      <4>1. \A e \in connected : e \in Entities /\ (avail'[e] <=> count'[gen] = 0)
        BY <3>2 DEF TypeOK
      <4>2. connected # {} => count'[gen] \in 0..MaxCount
        BY <2>3, <3>1
      <4>3. QED BY <1>0, <4>1, <4>2 DEF EntitiesAgree, NoneStuckUnavailable
    <3>3. CASE count[g] = 0 /\ UNCHANGED <<avail, late>>
      BY <1>0, <2>2, <3>1, <3>3 DEF EntitiesAgree, NoneStuckUnavailable, TypeOK
    <3>4. QED BY <2>4, <3>2, <3>3
  <2>8. IssueTracksAdapter'
    BY <1>0, <2>2 DEF IssueTracksAdapter, Adapters, TypeOK
  <2>9. AnswerIsRecorded' /\ OutageIsCounted'
    BY <1>1, <1>4, <2>2 DEF AnswerIsRecorded, OutageIsCounted
  <2>10. QED BY <1>c, <2>5, <2>6, <2>7, <2>8, <2>9
<1>5. QED BY <1>2, <1>3, <1>4

-----------------------------------------------------------------------------
(* The steps                                                               *)

\* The steps of a request: it starts, records its outcome or nothing, and ends.
LEMMA RequestStep ==
    ASSUME ReachInv, NEW r \in Requests,
           \/ \E e \in Entities : StartRequest(r, e)
           \/ \E w \in TurnAnswers : EndRequest(r, w)
           \/ CancelRequest(r)
           \/ NextRound(r)
    PROVE  ReachInv'
<1>1. ASSUME NEW e \in Entities, StartRequest(r, e) PROVE ReachInv'
  <2>1. gen \in Adapters /\ KindOf(e) \in Kinds
    BY <1>1, BoundsAssumption
       DEF StartRequest, ReachInv, ConnectedWhenSetUp, TypeOK, Adapters, KindOf, Kinds
  <2>2. req' = [req EXCEPT ![r] = [kind |-> KindOf(e), on |-> gen]]
    BY <1>1 DEF StartRequest
  <2>3. req' \in [Requests -> InFlight \cup {Idle}]
    BY <2>1, <2>2 DEF ReachInv, TypeOK, InFlight
  <2>4. \A q \in Requests : req'[q].on <= gen
    BY <2>1, <2>2 DEF ReachInv, UnbuiltUnused, TypeOK, Adapters
  <2>5. setup # "removed"
    BY <1>1 DEF StartRequest, ReachInv, ConnectedWhenSetUp
  <2>6. QED
    BY <1>1, <2>3, <2>4, <2>5
       DEF StartRequest, history, ReachInv, TypeOK, ConnectedWhenSetUp, UnbuiltUnused,
           EntitiesAgree, NoneStuckUnavailable, IssueTracksAdapter, AnswerIsRecorded, OutageIsCounted,
           RejectionStartsReauth, RemovalClearsIssue, NothingOutlives
<1>2. ASSUME NEW w \in TurnAnswers, EndRequest(r, w) PROVE ReachInv'
  <2>1. req[r] \in InFlight
    BY <1>2 DEF EndRequest, ReachInv, TypeOK
  <2>2. req[r].kind \in Kinds /\ req[r].on \in Adapters /\ req[r].on <= gen
    BY <2>1 DEF InFlight, ReachInv, UnbuiltUnused
  <2>3. req' = [req EXCEPT ![r] = Idle]
    BY <1>2 DEF EndRequest
  <2>4. req' \in [Requests -> InFlight \cup {Idle}]
    BY <2>3 DEF ReachInv, TypeOK
  <2>5. 0 <= gen
    BY BoundsAssumption DEF ReachInv, TypeOK
  <2>6. \A q \in Requests : req'[q].on <= gen
    BY <2>3, <2>5 DEF ReachInv, UnbuiltUnused, TypeOK, Idle
  <2>7. /\ Record(req[r].kind, req[r].on, w)
        /\ UNCHANGED <<setup, gen, connected, preset, outlived>>
    BY <1>2 DEF EndRequest
  <2>8. setup # "removed" \/ outlived
    BY <1>2 DEF EndRequest, ReachInv, NothingOutlives
  <2>9. QED BY <2>2, <2>4, <2>6, <2>7, <2>8, RecordKeeps
<1>3. ASSUME NextRound(r) PROVE ReachInv'
  <2>1. req[r] \in InFlight
    BY <1>3 DEF NextRound, ReachInv, TypeOK
  <2>2. req[r].kind \in Kinds /\ req[r].on \in Adapters /\ req[r].on <= gen
    BY <2>1 DEF InFlight, ReachInv, UnbuiltUnused
  <2>3. req' \in [Requests -> InFlight \cup {Idle}] /\ \A q \in Requests : req'[q].on <= gen
    BY <1>3 DEF NextRound, ReachInv, UnbuiltUnused, TypeOK
  <2>4. /\ Record(req[r].kind, req[r].on, "good")
        /\ UNCHANGED <<setup, gen, connected, preset, outlived>>
        /\ "good" \in TurnAnswers
    BY <1>3 DEF NextRound, TurnAnswers, ReplyAnswers
  <2>5. setup # "removed" \/ outlived
    BY <1>3 DEF NextRound, ReachInv, NothingOutlives
  <2>6. QED BY <2>2, <2>3, <2>4, <2>5, RecordKeeps
<1>4. ASSUME CancelRequest(r) PROVE ReachInv'
  <2>1. req[r] \in InFlight
    BY <1>4 DEF CancelRequest, ReachInv, TypeOK
  <2>2. req' = [req EXCEPT ![r] = Idle] /\ 0 <= gen
    BY <1>4, BoundsAssumption DEF CancelRequest, ReachInv, TypeOK
  <2>3. req' \in [Requests -> InFlight \cup {Idle}] /\ \A q \in Requests : req'[q].on <= gen
    BY <2>2 DEF ReachInv, UnbuiltUnused, TypeOK, Idle
  <2>4. /\ UNCHANGED <<setup, gen, connected, reauth, preset, outlived, avail, late, count, issue, issueBy>>
        /\ ended' = [answer |-> "cancelled", kind |-> req[r].kind, on |-> req[r].on]
    BY <1>4 DEF CancelRequest, RecordNothing, NoSignal
  <2>5. ended' \in [answer : Outcomes, kind : Kinds, on : Adapters] /\ ended'.answer = "cancelled"
    BY <2>1, <2>4 DEF InFlight, Outcomes
  <2>6. TypeOK'
    BY <2>3, <2>4, <2>5 DEF ReachInv, TypeOK
  <2>7. AnswerIsRecorded' /\ OutageIsCounted' /\ RejectionStartsReauth'
    BY <2>5 DEF AnswerIsRecorded, OutageIsCounted, RejectionStartsReauth, ReplyAnswers, LookupAnswers
  <2>8. setup # "removed" \/ outlived
    BY <1>4 DEF CancelRequest, ReachInv, NothingOutlives
  <2>9. QED
    BY <2>3, <2>4, <2>6, <2>7, <2>8
       DEF ReachInv, ConnectedWhenSetUp, UnbuiltUnused, EntitiesAgree, NoneStuckUnavailable,
           IssueTracksAdapter, RemovalClearsIssue, NothingOutlives
<1>5. QED BY <1>1, <1>2, <1>3, <1>4

\* Adding and removing an entity disturb only what the invariant says of it.
LEMMA EntityStep ==
    ASSUME ReachInv, NEW e \in Entities, AddEntity(e) \/ RemoveEntity(e)
    PROVE  ReachInv'
<1> USE DEF ReachInv
<1>1. CASE AddEntity(e)
  <2>1. TypeOK'
    BY <1>1 DEF AddEntity, TypeOK
  <2>2. gen \in Adapters /\ count[gen] \in Nat
    BY <1>1, BoundsAssumption DEF AddEntity, ConnectedWhenSetUp, TypeOK, Adapters
  <2>3. avail'[e] = TRUE /\ \A f \in Entities : f # e => avail'[f] = avail[f]
    BY <1>1 DEF AddEntity, TypeOK
  <2>4. e \notin late' => count[gen] = 0
    BY <1>1, <2>2 DEF AddEntity
  <2>5. \A f \in Entities : f # e => (f \in late' <=> f \in late)
    BY <1>1 DEF AddEntity
  <2>6. connected' = connected \cup {e} /\ connected \subseteq Entities /\ UNCHANGED <<count, gen>>
    BY <1>1 DEF AddEntity, TypeOK
  <2>7. NoneStuckUnavailable'
    BY <2>3, <2>6 DEF NoneStuckUnavailable
  <2>8. EntitiesAgree'
    BY <2>3, <2>4, <2>5, <2>6 DEF EntitiesAgree
  <2>9. QED
    BY <1>1, <2>1, <2>2, <2>7, <2>8
       DEF AddEntity, ConnectedWhenSetUp, UnbuiltUnused, IssueTracksAdapter, AnswerIsRecorded, OutageIsCounted,
           RejectionStartsReauth, RemovalClearsIssue, NothingOutlives, Adapters
<1>2. CASE RemoveEntity(e)
  BY <1>2 DEF RemoveEntity, TypeOK, ConnectedWhenSetUp, UnbuiltUnused, EntitiesAgree,
              NoneStuckUnavailable, IssueTracksAdapter, AnswerIsRecorded, OutageIsCounted,
              RejectionStartsReauth, RemovalClearsIssue, NothingOutlives
<1>3. QED BY <1>1, <1>2

\* A setup whose probe succeeds installs a fresh adapter and records the success.
LEMMA ProbeSucceedsStep ==
    ASSUME ReachInv, NEW w, ProbeSucceeds(w)
    PROVE  ReachInv'
<1> USE DEF ReachInv, ProbeSucceeds
<1>1. gen' \in Adapters /\ gen' = gen + 1 /\ gen \in Nat
  BY BoundsAssumption DEF TypeOK, Adapters
<1>2. connected' = {} /\ count' = count /\ count[gen'] = 0
  BY <1>1 DEF ConnectedWhenSetUp, UnbuiltUnused
<1>3. TypeOK'
  <2>1. gen' \in 0..MaxSetups /\ issueBy' = gen' /\ issue' = FALSE /\ setup' = "forwarding"
    BY <1>1, BoundsAssumption DEF Adapters
  <2>2. UNCHANGED <<count, connected, avail, reauth, req, preset, late, ended, outlived>>
    OBVIOUS
  <2>3. QED BY <2>1, <2>2 DEF TypeOK, SetupStates
<1>4. ConnectedWhenSetUp'
  BY <1>1, <1>2 DEF ConnectedWhenSetUp
<1>5. UnbuiltUnused'
  <2>1. \A r \in Requests : req[r].on \in Nat
    BY BoundsAssumption DEF TypeOK, InFlight, Idle, Adapters
  <2>2. QED BY <1>1, <2>1 DEF UnbuiltUnused, Adapters
<1>6. EntitiesAgree' /\ NoneStuckUnavailable'
  BY <1>2 DEF EntitiesAgree, NoneStuckUnavailable
<1>7. IssueTracksAdapter'
  BY <1>1, <1>2, ThresholdAssumption DEF IssueTracksAdapter
<1>8. /\ AnswerIsRecorded' /\ OutageIsCounted' /\ RejectionStartsReauth'
      /\ RemovalClearsIssue' /\ NothingOutlives'
  BY DEF AnswerIsRecorded, OutageIsCounted, RejectionStartsReauth, RemovalClearsIssue, NothingOutlives
<1>9. QED BY <1>3, <1>4, <1>5, <1>6, <1>7, <1>8

\* The steps that move the config entry's state and little else.
LEMMA EntryStep ==
    ASSUME ReachInv,
           \/ \E w \in ProbeAnswers : ProbeFails(w)
           \/ Retry \/ SetupDone \/ Reload \/ Unloaded \/ Remove
           \/ UNCHANGED vars
    PROVE  ReachInv'
<1> USE DEF ReachInv, TypeOK, SetupStates, ConnectedWhenSetUp, UnbuiltUnused, EntitiesAgree,
            NoneStuckUnavailable, IssueTracksAdapter, AnswerIsRecorded, OutageIsCounted,
            RejectionStartsReauth, RemovalClearsIssue, NothingOutlives, history
<1>1. ASSUME NEW w \in ProbeAnswers, ProbeFails(w) PROVE ReachInv'
  <2>1. setup = "probing" /\ setup' \in {"auth_failed", "retrying", "failed"}
    BY <1>1 DEF ProbeFails
  <2>2. reauth' \in BOOLEAN /\ (reauth => reauth')
    BY <1>1 DEF ProbeFails
  <2>3. UNCHANGED <<gen, count, connected, avail, issue, req, preset, history>>
    BY <1>1 DEF ProbeFails
  <2>4. QED BY <2>1, <2>2, <2>3
<1>2. CASE Retry BY <1>2 DEF Retry
<1>3. CASE SetupDone BY <1>3 DEF SetupDone
<1>4. CASE Reload BY <1>4 DEF Reload, NoEnd, ReplyAnswers, LookupAnswers
<1>5. CASE Unloaded BY <1>5 DEF Unloaded
<1>6. CASE Remove BY <1>6 DEF Remove
<1>7. CASE UNCHANGED vars BY <1>7 DEF vars
<1>8. QED BY <1>1, <1>2, <1>3, <1>4, <1>5, <1>6, <1>7

\* A removal takes the issue with it and notes whether a request is in flight.
LEMMA RemovedStep ==
    ASSUME ReachInv, Removed
    PROVE  ReachInv'
<1> USE DEF ReachInv
<1>0. /\ setup' = "removed" /\ connected = {} /\ issue' = FALSE /\ issueBy' = 0 /\ reauth' = FALSE
      /\ ended' = NoEnd
      /\ UNCHANGED <<gen, count, connected, avail, req, preset, late>>
  BY DEF Removed
<1>1. TypeOK'
  <2>1. setup' \in SetupStates /\ issueBy' \in 0..MaxSetups
    BY <1>0, BoundsAssumption DEF SetupStates
  <2>b. issue' \in BOOLEAN /\ reauth' \in BOOLEAN
    BY <1>0, Zenon
  <2>2. ended' \in [answer : Outcomes, kind : Kinds, on : Adapters] \cup {NoEnd}
    BY <1>0
  <2>3. outlived' \in BOOLEAN
    BY Zenon DEF Removed
  <2>4. UNCHANGED <<gen, count, connected, avail, req, preset, late>>
    BY <1>0
  <2>5. QED BY <2>1, <2>b, <2>2, <2>3, <2>4 DEF TypeOK
<1>2. ConnectedWhenSetUp' /\ UnbuiltUnused' /\ EntitiesAgree' /\ NoneStuckUnavailable'
  BY <1>0 DEF ConnectedWhenSetUp, UnbuiltUnused, EntitiesAgree, NoneStuckUnavailable
<1>3. IssueTracksAdapter'
  BY <1>0 DEF IssueTracksAdapter
<1>4. AnswerIsRecorded' /\ OutageIsCounted' /\ RejectionStartsReauth'
  BY <1>0 DEF AnswerIsRecorded, OutageIsCounted, RejectionStartsReauth, NoEnd, ReplyAnswers, LookupAnswers
<1>5. RemovalClearsIssue' /\ NothingOutlives'
  BY <1>0 DEF Removed, RemovalClearsIssue, NothingOutlives
<1>6. QED BY <1>1, <1>2, <1>3, <1>4, <1>5

\* Every step keeps the invariant.
LEMMA NextReach == ReachInv /\ [Next]_vars => ReachInv'
BY RequestStep, EntityStep, ProbeSucceedsStep, EntryStep, RemovedStep DEF Next

\* So it always holds.
LEMMA Invariance == Spec => []ReachInv
BY InitReach, NextReach, PTL DEF Spec

-----------------------------------------------------------------------------

\* The reachability state is well typed: in particular the count stays in its
\* bound although every request of every adapter writes it.
THEOREM TypeCorrect == Spec => []TypeOK
<1>1. ReachInv => TypeOK
  BY DEF ReachInv
<1>2. QED BY <1>1, Invariance, PTL

\* Every entity that saw the outage begin agrees with the adapter's count.
THEOREM Agreement == Spec => []EntitiesAgree
<1>1. ReachInv => EntitiesAgree
  BY DEF ReachInv
<1>2. QED BY <1>1, Invariance, PTL

\* A backend that was reached leaves no entity unavailable.
THEOREM NoneStuck == Spec => []NoneStuckUnavailable
<1>1. ReachInv => NoneStuckUnavailable
  BY DEF ReachInv
<1>2. QED BY <1>1, Invariance, PTL

\* The repair issue tells the current adapter's state, unless an older
\* adapter's round-trip wrote it last.
THEOREM IssueTracks == Spec => []IssueTracksAdapter
<1>1. ReachInv => IssueTracksAdapter
  BY DEF ReachInv
<1>2. QED BY <1>1, Invariance, PTL

\* An answered round-trip clears the count of its adapter and the issue.
THEOREM AnswerRecorded == Spec => []AnswerIsRecorded
<1>1. ReachInv => AnswerIsRecorded
  BY DEF ReachInv
<1>2. QED BY <1>1, Invariance, PTL

\* An unreachable backend is counted, whichever preset hides the failure in an
\* error of its own.
THEOREM OutageCounted == Spec => []OutageIsCounted
<1>1. ReachInv => OutageIsCounted
  BY DEF ReachInv
<1>2. QED BY <1>1, Invariance, PTL

\* A reply refused for its credentials has started a reauth flow, for every
\* preset.
THEOREM RejectionReauths == Spec => []RejectionStartsReauth
<1>1. ReachInv => RejectionStartsReauth
  BY DEF ReachInv
<1>2. QED BY <1>1, Invariance, PTL

\* No issue of a removed entry is left, unless a request outlived it.
THEOREM RemovalClears == Spec => []RemovalClearsIssue
<1>1. ReachInv => RemovalClearsIssue
  BY DEF ReachInv
<1>2. QED BY <1>1, Invariance, PTL

=============================================================================
