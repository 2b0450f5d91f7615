------------------------------ MODULE TurnLoop ------------------------------
(***************************************************************************)
(* One request to an agent or an AI task entity: the bounded tool loop     *)
(* (helpers.async_run_tool_loop) around adapter round-trips, whose deltas  *)
(* reach the chat log through the conversation entity's never-hang guard   *)
(* (conversation._guarded) or, for an AI task, directly.                   *)
(*                                                                         *)
(* The adapter is an environment that may send any delta in any order, end *)
(* or raise at any point.  What its clean end may leave in the chat log is *)
(* the one promise taken from the presets (MayEnd, the contract of         *)
(* AdapterStream, which PresetStreams implements).                         *)
(***************************************************************************)
EXTENDS Naturals, ChatLog

CONSTANTS
    MaxIterations,  \* MAX_TOOL_ITERATIONS
    MaxDeltas       \* bound: deltas of one round-trip

ASSUME MaxIterationsAssumption == MaxIterations \in Nat \ {0}
ASSUME MaxDeltasAssumption == MaxDeltas \in Nat

VARIABLES
    caller,     \* which platform handles the request
    pc,         \* where its coroutine is
    iteration,  \* round-trips started by the tool loop
    sent,       \* deltas delivered in this round-trip
    entry,      \* last entry of the chat log
    block,      \* the chat log's open block
    started,    \* _guarded: something was yielded
    hasText,    \* _guarded: the current block already carries reply text
    fallback,   \* TurnContext.fallback
    outcome,    \* what the caller of the entity got
    closed      \* observation: the block that the round-trip closed at its end

stream == <<sent, entry, block, started, hasText>>
vars == <<caller, pc, iteration, stream, fallback, outcome, closed>>

Callers == {"conversation", "ai_task"}
Pcs == {"begin", "round", "streaming", "apologise", "after_round", "answer", "done"}
Outcomes ==
    {"none", "converse_error", "reply", "error_reply", "raised", "rejected", "data",
     "task_error", "cancelled"}

TypeOK ==
    /\ caller \in Callers
    /\ pc \in Pcs
    /\ iteration \in 0..MaxIterations
    /\ sent \in 0..MaxDeltas
    /\ entry \in Entries
    /\ block \in Blocks
    /\ started \in BOOLEAN
    /\ hasText \in BOOLEAN
    /\ fallback \in BOOLEAN
    /\ outcome \in Outcomes
    /\ closed \in Blocks

Init ==
    /\ caller \in Callers
    /\ pc = "begin"
    /\ iteration = 0
    /\ sent = 0
    /\ entry = User
    /\ block = NoBlock
    /\ started = FALSE
    /\ hasText = FALSE
    /\ fallback = FALSE
    /\ outcome = "none"
    /\ closed = NoBlock

Finish(result) ==
    /\ pc' = "done"
    /\ outcome' = result

-----------------------------------------------------------------------------
(* Before and between the round-trips                                      *)

\* async_provide_llm_data succeeded (an AI task gets a prepared chat log).
Begin ==
    /\ pc = "begin"
    /\ pc' = "round"
    /\ UNCHANGED <<caller, iteration, stream, fallback, outcome, closed>>

\* async_provide_llm_data raised a ConverseError, which is the result.
ConverseError ==
    /\ pc = "begin"
    /\ caller = "conversation"
    /\ Finish("converse_error")
    /\ UNCHANGED <<caller, iteration, stream, fallback, closed>>

\* Mutant: ctx.fallback is not reset, so an earlier round's failure sticks.
StartRoundKeepingFallback ==
    /\ pc = "round"
    /\ pc' = "streaming"
    /\ iteration' = iteration + 1
    /\ sent' = 0
    /\ block' = NoBlock
    /\ started' = FALSE
    /\ hasText' = FALSE
    /\ closed' = NoBlock
    /\ UNCHANGED <<caller, entry, fallback, outcome>>

\* Mutant: the loop does not count its round-trips.
StartRoundUncounted ==
    /\ pc = "round"
    /\ pc' = "streaming"
    /\ fallback' = IF caller = "conversation" THEN FALSE ELSE fallback
    /\ sent' = 0
    /\ block' = NoBlock
    /\ started' = FALSE
    /\ hasText' = FALSE
    /\ closed' = NoBlock
    /\ UNCHANGED <<caller, iteration, entry, outcome>>

\* The loop's next round-trip: _async_run_turn resets ctx.fallback and opens
\* a fresh guard; an AI task's _run_round never touches ctx.fallback.
StartRound ==
    /\ pc = "round"
    /\ pc' = "streaming"
    /\ iteration' = iteration + 1
    /\ fallback' = IF caller = "conversation" THEN FALSE ELSE fallback
    /\ sent' = 0
    /\ block' = NoBlock
    /\ started' = FALSE
    /\ hasText' = FALSE
    /\ closed' = NoBlock
    /\ UNCHANGED <<caller, entry, outcome>>

-----------------------------------------------------------------------------
(* The adapter's stream                                                    *)

\* _guarded prepends a role to a stream that does not open with one.
Injected(d) == caller = "conversation" /\ ~started /\ ~CarriesRole(d)
BlockSeen(d) == IF Injected(d) THEN BlockAfter(block, "role") ELSE block

\* Mutant: has_text is not reset when a new block opens.
DeliverKeepingHasText(d) ==
    /\ pc = "streaming"
    /\ sent < MaxDeltas
    /\ BlockSeen(d) # NoBlock \/ CarriesRole(d)
    /\ sent' = sent + 1
    /\ entry' = EntryAfter(entry, BlockSeen(d), d)
    /\ block' = BlockAfter(BlockSeen(d), d)
    /\ started' = (caller = "conversation")
    /\ hasText' = (caller = "conversation" /\ (d = "text" \/ hasText))
    /\ UNCHANGED <<caller, pc, iteration, fallback, outcome, closed>>

\* The adapter yields d: the guard's flags follow, the chat log consumes it.
Deliver(d) ==
    /\ pc = "streaming"
    /\ sent < MaxDeltas
    /\ BlockSeen(d) # NoBlock \/ CarriesRole(d)
    /\ sent' = sent + 1
    /\ entry' = EntryAfter(entry, BlockSeen(d), d)
    /\ block' = BlockAfter(BlockSeen(d), d)
    /\ started' = (caller = "conversation")
    /\ hasText' = (caller = "conversation" /\ (d = "text" \/ (hasText /\ ~CarriesRole(d))))
    /\ UNCHANGED <<caller, pc, iteration, fallback, outcome, closed>>

\* Mutant: a preset ends its stream on a backend tool's result.
MayEndAnywhere == TRUE

\* What a preset's clean end may leave in the chat log: no block at all, or one
\* that got something, be it the empty string.
MayEnd == block # {}

\* The chat log closes the last block and the loop looks at its last entry.
CloseRound ==
    /\ pc' = "after_round"
    /\ entry' = Flushed(entry, block)
    /\ closed' = block
    /\ block' = NoBlock

\* The stream ends having yielded something (an AI task: whatever it yielded).
StreamEnds ==
    /\ pc = "streaming"
    /\ MayEnd
    /\ started \/ caller = "ai_task"
    /\ CloseRound
    /\ UNCHANGED <<caller, iteration, sent, started, hasText, fallback, outcome>>

\* A stream that yields nothing: the guard answers with the fallback.
SilentEnd ==
    /\ pc = "streaming"
    /\ caller = "conversation"
    /\ ~started
    /\ fallback' = TRUE
    /\ block' = {}
    /\ pc' = "apologise"
    /\ UNCHANGED <<caller, iteration, sent, entry, started, hasText, outcome, closed>>

\* The stream raises under the guard: a role is opened only if nothing was
\* emitted, then the fallback text is looked up.
StreamRaises ==
    /\ pc = "streaming"
    /\ caller = "conversation"
    /\ fallback' = TRUE
    /\ block' = IF started THEN block ELSE {}
    /\ pc' = "apologise"
    /\ UNCHANGED <<caller, iteration, sent, entry, started, hasText, outcome, closed>>

\* The fallback text joins the open block and the guarded stream ends.
Apologise ==
    /\ pc = "apologise"
    /\ pc' = "after_round"
    /\ entry' = Flushed(entry, block \cup {"fallback"})
    /\ closed' = block \cup {"fallback"}
    /\ block' = NoBlock
    /\ UNCHANGED <<caller, iteration, sent, started, hasText, fallback, outcome>>

\* A stream that raises, or that the chat log rejects because it opens without
\* a role, fails an AI task; the unfinished block is dropped.
TaskRaises ==
    /\ pc = "streaming"
    /\ caller = "ai_task"
    /\ Finish("task_error")
    /\ UNCHANGED <<caller, iteration, stream, fallback, closed>>

\* The chat log itself refuses a delta: calls for Home Assistant's tools when
\* the request has no LLM API (which agents have one is left open).  It raises
\* in the consumer of the guarded stream, where the guard does not see it.
RejectCalls ==
    /\ pc = "streaming"
    /\ sent < MaxDeltas
    /\ BlockSeen("ha_calls") # NoBlock
    /\ Finish(IF caller = "conversation" THEN "rejected" ELSE "task_error")
    /\ UNCHANGED <<caller, iteration, stream, fallback, closed>>

-----------------------------------------------------------------------------
(* After a round-trip                                                      *)

\* Mutant: the tool loop has no cap.
LoopAgainUncapped ==
    /\ pc = "after_round"
    /\ UnrespondedToolResults(entry)
    /\ pc' = "round"
    /\ UNCHANGED <<caller, iteration, stream, fallback, outcome, closed>>

\* The log ends on a tool result and the cap leaves room: go round again.
LoopAgain ==
    /\ pc = "after_round"
    /\ UnrespondedToolResults(entry)
    /\ iteration < MaxIterations
    /\ pc' = "round"
    /\ UNCHANGED <<caller, iteration, stream, fallback, outcome, closed>>

\* Mutant: an exhausted loop goes straight to the result.
ExhaustedWithoutReply ==
    /\ pc = "after_round"
    /\ UnrespondedToolResults(entry)
    /\ iteration = MaxIterations
    /\ pc' = "answer"
    /\ UNCHANGED <<caller, iteration, stream, fallback, outcome, closed>>

\* The cap is hit: an agent speaks the fallback as a new entry, a task fails.
Exhausted ==
    /\ pc = "after_round"
    /\ UnrespondedToolResults(entry)
    /\ iteration = MaxIterations
    /\ \/ /\ caller = "conversation"
          /\ fallback' = TRUE
          /\ entry' = Assistant({"fallback"})
          /\ pc' = "answer"
          /\ UNCHANGED outcome
       \/ /\ caller = "ai_task"
          /\ Finish("task_error")
          /\ UNCHANGED <<fallback, entry>>
    /\ UNCHANGED <<caller, iteration, sent, block, started, hasText, closed>>

LoopEnds ==
    /\ pc = "after_round"
    /\ ~UnrespondedToolResults(entry)
    /\ pc' = "answer"
    /\ UNCHANGED <<caller, iteration, stream, fallback, outcome, closed>>

\* async_get_result_from_chat_log, then the error mark of a fallback turn.
AnswerTurn ==
    /\ pc = "answer"
    /\ caller = "conversation"
    /\ \/ entry.kind # "assistant" /\ Finish("raised")
       \/ entry.kind = "assistant" /\ Finish(IF fallback THEN "error_reply" ELSE "reply")
    /\ UNCHANGED <<caller, iteration, stream, fallback, closed>>

\* No answer, or a structured answer that is not JSON, fails the task.
AnswerTask ==
    /\ pc = "answer"
    /\ caller = "ai_task"
    /\ \/ entry.kind = "assistant" /\ Finish("data")
       \/ Finish("task_error")
    /\ UNCHANGED <<caller, iteration, stream, fallback, closed>>

\* The pipeline cancels the request at an await: CancelledError is no
\* Exception, so neither the guard nor the task's handler sees it.
Cancel ==
    /\ pc \in {"begin", "streaming", "apologise"}
    /\ Finish("cancelled")
    /\ UNCHANGED <<caller, iteration, stream, fallback, closed>>

-----------------------------------------------------------------------------

Progress ==
    \/ Begin \/ ConverseError \/ StartRound
    \/ \E d \in Deltas : Deliver(d)
    \/ StreamEnds \/ SilentEnd \/ StreamRaises \/ Apologise \/ TaskRaises \/ RejectCalls
    \/ LoopAgain \/ Exhausted \/ LoopEnds
    \/ AnswerTurn \/ AnswerTask

\* A finished request stays finished.
Finished == pc = "done" /\ UNCHANGED vars

Next == Progress \/ Cancel \/ Finished

Spec == Init /\ [][Next]_vars

\* The coroutine is resumed whenever what it awaits is ready, and a backend that
\* falls silent is cut off by the client's sock_read timeout.  Nothing cuts off
\* a backend that keeps sending: that a round-trip has at most MaxDeltas deltas
\* is an assumption of this module, not a promise of the code.
FairSpec == Spec /\ WF_vars(Progress)

-----------------------------------------------------------------------------
(* Properties                                                              *)

\* conversation._guarded: "Guarantees at least one AssistantContent on every exit
\* path", so that async_get_result_from_chat_log never raises.
NeverRaises == outcome # "raised"

\* Every agent turn is answered: async_get_result_from_chat_log finds an
\* assistant entry whatever the backend did (the never-hang guard), but for a
\* reply that was the empty string.
TurnIsAnswered == outcome = "raised" => closed = {"blank"}

\* The spoken text and the error mark agree: a turn is marked failed exactly
\* when the entry that is spoken carries the fallback message, although
\* ctx.fallback is reset every round-trip and an earlier round's fallback may
\* sit in an entry that HA's tool results have since superseded.
SpokenFallbackIsMarked ==
    /\ outcome = "reply" => "fallback" \notin entry.has
    /\ outcome = "error_reply" => "fallback" \in entry.has

\* The guard's own flags describe the chat log's open block, which it never
\* sees: text already spoken (it then separates the fallback by a newline) and
\* whether a role was opened at all.
GuardTracksBlock ==
    pc = "streaming" /\ caller = "conversation" =>
        /\ started <=> block # NoBlock
        /\ hasText <=> "text" \in block

\* Why a round-trip may leave the log on a tool result: its last block called
\* tools of Home Assistant; or it was the empty string, so that the log ends on
\* what preceded the block, which may be the result of a tool the backend ran;
\* or an AI task's round-trip yielded nothing and left the results unanswered.
Unfinished ==
    \/ "ha_calls" \in closed
    \/ closed = {"blank"}
    \/ closed = NoBlock /\ caller = "ai_task"

\* The loop asks the backend again only to hand it the results of tools that the
\* round-trip just closed had Home Assistant run - but for a reply that was the
\* empty string and an AI task's round-trip without any reply: a backend-run
\* tool followed by a reply never has the user's turn sent a second time.
ResendOnlyForHaTools ==
    [][iteration' > iteration /\ iteration > 0 => Unfinished]_vars

\* A backend that calls tools for ever still lets the request end: the cap of
\* async_run_tool_loop stops it, whoever called it.
RequestEnds == <>(pc = "done")

-----------------------------------------------------------------------------
(* Inductive invariants                                                    *)

\* Where the fallback text can be: nowhere while a round-trip runs, then in the
\* last entry exactly if ctx.fallback says so, unless Home Assistant's tools
\* have already answered that entry.
FallbackInv ==
    /\ TypeOK
    /\ GuardTracksBlock
    /\ pc \in {"begin", "round"} => iteration < MaxIterations
    /\ "fallback" \notin block
    /\ pc \in {"begin", "round", "streaming", "apologise"} => "fallback" \notin entry.has
    /\ pc = "streaming" \/ caller = "ai_task" => ~fallback
    /\ pc = "apologise" => caller = "conversation" /\ fallback /\ block # NoBlock
    /\ pc \in {"after_round", "answer"} /\ ~UnrespondedToolResults(entry) =>
           (fallback <=> "fallback" \in entry.has)
    /\ pc = "answer" => ~UnrespondedToolResults(entry)
    /\ pc # "done" => outcome = "none"
    /\ SpokenFallbackIsMarked

\* A guarded round-trip leaves an entry of its own in the log.
AnswerInv ==
    /\ FallbackInv
    /\ pc \in {"after_round", "answer"} /\ caller = "conversation" /\ entry.kind = "user" =>
           closed = {"blank"}
    /\ TurnIsAnswered

\* The log ends on a tool result after a round-trip only for one of those reasons.
ResendInv ==
    /\ FallbackInv
    /\ pc = "begin" => iteration = 0
    /\ pc = "round" /\ iteration > 0 => Unfinished
    /\ pc = "after_round" /\ UnrespondedToolResults(entry) => Unfinished

=============================================================================
