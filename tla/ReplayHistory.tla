--------------------------- MODULE ReplayHistory ---------------------------
(***************************************************************************)
(* What a preset without a memory of its own (OpenAI-compatible, Ollama)   *)
(* sends of a conversation: the chat log without the calls that other      *)
(* presets' backends ran (backends/_tools.py), trimmed to the agent's      *)
(* max_history (backends/_history.py), once per round of the tool loop.    *)
(***************************************************************************)
EXTENDS Naturals, Sequences

CONSTANTS
    MaxHistory,  \* the agent's max_history; 0 replays everything
    MaxTurns,    \* bound: turns of the conversation
    MaxRounds,   \* bound: rounds of tool calls in a turn
    MaxResults   \* bound: calls in a round

VARIABLES
    content,  \* chat_log.content: what each entry is and the turn it belongs to
    turn,     \* the turn in progress
    rounds,   \* tool rounds it has had
    phase,    \* idle, about to send, or waiting for the backend
    request   \* the messages last sent

vars == <<content, turn, rounds, phase, request>>

\* "calls" and "result" are of Home Assistant's tools, the external ones of tools
\* that another agent's backend ran.
Roles == {"system", "user", "assistant", "calls", "result", "external_calls", "external_result"}
Message == [role : Roles, turn : 0..MaxTurns]

Of(role) == [role |-> role, turn |-> turn]

TypeOK ==
    /\ content \in Seq(Message)
    /\ turn \in 0..MaxTurns
    /\ rounds \in 0..MaxRounds
    /\ phase \in {"idle", "sending", "sent"}
    /\ request \in Seq(Message)

Init ==
    /\ content = <<[role |-> "system", turn |-> 0]>>
    /\ turn = 0
    /\ rounds = 0
    /\ phase = "idle"
    /\ request = <<>>

-----------------------------------------------------------------------------
\* replayable_content: external calls are dropped with their results.
Replayable(items) ==
    LET local(item) == item.role \notin {"external_calls", "external_result"}
    IN SelectSeq(items, local)

UserMessages(messages) == SelectSeq(messages, LAMBDA m : m.role = "user")

\* messages[drop:] of Python: a negative index counts from the end.
From(messages, kept) ==
    LET length == Len(messages)
        first == IF kept <= length THEN length - kept
                 ELSE IF kept < 2 * length THEN 2 * length - kept ELSE 0
    IN SubSeq(messages, first + 1, length)

\* trim_history: the system message and the last 2 * max_history + 1 messages,
\* once there are max_history user rounds before the one in progress.
Trimmed(messages) ==
    IF MaxHistory < 1 \/ Len(UserMessages(messages)) < MaxHistory + 1
    THEN messages
    ELSE SelectSeq(SubSeq(messages, 1, 1), LAMBDA m : m.role = "system")
         \o From(messages, 2 * MaxHistory + 1)

-----------------------------------------------------------------------------
\* The user speaks to this agent.
Ask ==
    /\ phase = "idle"
    /\ turn < MaxTurns
    /\ turn' = turn + 1
    /\ rounds' = 0
    /\ content' = Append(content, [role |-> "user", turn |-> turn'])
    /\ phase' = "sending"
    /\ UNCHANGED request

\* One round-trip begins (_build_messages).
Send ==
    /\ phase = "sending"
    /\ request' = Trimmed(Replayable(content))
    /\ phase' = "sent"
    /\ UNCHANGED <<content, turn, rounds>>

\* The model asks for tools; Home Assistant runs them and the loop goes on.
CallTools ==
    /\ phase = "sent"
    /\ rounds < MaxRounds
    /\ rounds' = rounds + 1
    /\ \E results \in 1..MaxResults :
        content' = content \o <<Of("calls")>> \o [i \in 1..results |-> Of("result")]
    /\ phase' = "sending"
    /\ UNCHANGED <<turn, request>>

\* The reply, or the fallback in its place, ends the turn.
Answer ==
    /\ phase = "sent"
    /\ content' = Append(content, Of("assistant"))
    /\ phase' = "idle"
    /\ UNCHANGED <<turn, rounds, request>>

\* Another agent takes a turn of the conversation, with tools of its backend's.
OtherAgent ==
    /\ phase = "idle"
    /\ turn < MaxTurns
    /\ turn' = turn + 1
    /\ rounds' = 0
    /\ content' = content \o [i \in 1..4 |->
                        [role |-> <<"user", "external_calls", "external_result", "assistant">>[i], turn |-> turn']]
    /\ UNCHANGED <<phase, request>>

\* The conversation is over; a new one begins.
Forget ==
    /\ phase = "idle"
    /\ turn > 0
    /\ content' = SubSeq(content, 1, 1)
    /\ turn' = 0
    /\ rounds' = 0
    /\ request' = <<>>
    /\ UNCHANGED phase

Next == Ask \/ Send \/ CallTools \/ Answer \/ OtherAgent \/ Forget

Spec == Init /\ [][Next]_vars

-----------------------------------------------------------------------------
(* Properties                                                              *)

\* The user turns that max_history promises: the one in progress and as many
\* past ones as it says, or all.
Promised == {t \in 1..turn : MaxHistory = 0 \/ t + MaxHistory >= turn}

\* "Past user turns replayed with each request": every request of a turn, also the
\* later ones of a tool loop, holds the user's words of each promised turn.
PastTurnsReplayed ==
    phase = "sent" =>
        \A t \in Promised : \E i \in DOMAIN request : request[i] = [role |-> "user", turn |-> t]

=============================================================================
