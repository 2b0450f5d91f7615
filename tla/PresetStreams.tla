--------------------------- MODULE PresetStreams ---------------------------
(***************************************************************************)
(* All presets' streams, and what they promise the entities: they implement *)
(* AdapterStream, and a few things besides that each preset's code takes    *)
(* care of.                                                                 *)
(***************************************************************************)
EXTENDS ServerMemoryStreams, ReplayStreams, FiniteSets

Next == Shared \/ ServerMemoryNext \/ ReplayNext

Spec == Init /\ [][Next]_vars

-----------------------------------------------------------------------------
(* Properties                                                              *)

Contract == INSTANCE AdapterStream WITH phase <- phase, entry <- entry, block <- block

\* Every preset implements the stream that the tool loop, the guard and the AI
\* task rely on: a role comes first, and no stream ends right after a tool result
\* or with a block opened for nothing, for that would send the user's turn to the
\* backend again.
ImplementsContract == Contract!Spec

\* backends/n8n.py, _blocking_deltas: "Tool deltas precede the reply block, so the
\* stream never ends on a tool result (which would re-enter the entity's tool loop
\* and re-send the turn)."
N8nNeverEndsOnToolResult == preset = "n8n" /\ phase = "ended" => entry # ExtResult

\* What a delta about to be yielded may be.
Yields == phase = "streaming" /\ out # <<>>

\* "A result never precedes its call", in every preset that reports both in one
\* turn; and Dify, which repeats a thought as it fills in and may never send the
\* input of its call, shows neither twice.
ToolsInOrder ==
    Yields => \A c \in Calls :
        /\ Head(out) = ResultOf(c) /\ preset # "langgraph" => c \in shown
        /\ preset = "dify" => /\ Head(out) = CallOf(c) => c \notin shown
                              /\ Head(out) = ResultOf(c) => c \notin given

\* Once the moderation replaced an answer nothing of the original is spoken, the
\* tail that the think stripper held back included.
ReplacedAnswerUnspoken ==
    local.replaced => \A i \in DOMAIN out : out[i] # Text("answer")

\* The reply of a preset that speaks in one block is never split by a later
\* block: the spoken result would lose its first part.
ReplyStaysWhole ==
    Yields /\ preset \in {"n8n", "converse", "openai", "ollama"} /\ CarriesRole(Head(out).kind)
        => "text" \notin block

\* "Every retry sends fewer refusable fields": a turn's body is posted once, and
\* once more for each of its fields the server can refuse, however the refusals
\* are combined and whatever other turns learn meanwhile.
RetriesAreBounded == local.posts <= 1 + Cardinality(local.body)

=============================================================================
