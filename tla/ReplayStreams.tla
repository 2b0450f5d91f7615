--------------------------- MODULE ReplayStreams ---------------------------
(***************************************************************************)
(* The streams of the presets that replay the chat log and let Home         *)
(* Assistant run the tools: OpenAI-compatible servers and Ollama.           *)
(***************************************************************************)
EXTENDS PresetStream

IfThen(condition, d) == IF condition THEN <<d>> ELSE <<>>

\* The deltas of one chunk, after the role if the block has none yet.
OpenedAll(ds) == IF local.open \/ ds = <<>> THEN ds ELSE <<Role>> \o ds

Opens(ds) == local.open \/ ds # <<>>

-----------------------------------------------------------------------------
(* OpenAI's request (_open_stream), posted again without what is refused   *)

\* _request: what the connection has learned, applied to the turn's body.
Request ==
    LET renamed == "max_tokens" \in local.body \cap local.refused
    IN (local.body \ local.refused) \cup (IF renamed THEN {"max_completion_tokens"} ELSE {})

InStage(stage) == preset = "openai" /\ phase = "streaming" /\ local.stage = stage

Sending(record) == local' = record /\ UNCHANGED <<preset, phase, events, out, after, log>>

OpenAIPost ==
    /\ InStage("build")
    /\ Sending([local EXCEPT !.stage = "posted", !.request = Request, !.posts = @ + 1])

\* Mutant: a refused max_tokens is not remembered.
LearnedDroppable(fields) == local.refused \cup (fields \cap Droppable)

\* _learn, which keeps the droppable fields and the models that refuse max_tokens.
Learned(fields) == local.refused \cup fields

\* A 400 or 422 that names fields of the request; every other error status raises.
OpenAIRefused(fields) ==
    /\ InStage("posted")
    /\ fields \subseteq local.request \cap Retryable
    /\ Sending([local EXCEPT !.stage = "build", !.refused = Learned(fields)])

\* Another turn of the connection learns while this one waits for its answer.
LearnElsewhere(fields) ==
    /\ InStage("posted")
    /\ Sending([local EXCEPT !.refused = Learned(fields)])

\* The stream is open; what the connection has learned is not read again.
OpenAIAccepted ==
    /\ InStage("posted")
    /\ Sending(FreshLocal)

-----------------------------------------------------------------------------
(* OpenAI's stream                                                         *)

\* A chat/completions chunk: call fragments are accumulated, reasoning and
\* content are yielded, an empty content string too; finish_reason error raises.
OpenAIChunk(fragment, reasoning, content, failed) ==
    /\ Reads("openai")
    /\ LET ds == IfThen(reasoning, Thinking) \o content
       IN /\ local' = [local EXCEPT !.open = Opens(ds), !.pending = @ \/ fragment]
          /\ Makes(OpenedAll(ds), IF failed THEN "raise" ELSE "read")

\* Mutant: the calls are yielded without the role that they may be first to need.
OpenAIEndRoleless(parsed) ==
    /\ Reads("openai")
    /\ parsed => local.pending
    /\ UNCHANGED local
    /\ Makes(IfThen(parsed, HaCalls), "end")

\* [DONE] or the end of the file: the calls whose arguments parse are yielded.
OpenAIEnd(parsed) ==
    /\ Reads("openai")
    /\ parsed => local.pending
    /\ LET ds == IfThen(parsed, HaCalls)
       IN /\ local' = [local EXCEPT !.open = Opens(ds)]
          /\ Makes(OpenedAll(ds), "end")

-----------------------------------------------------------------------------
(* Ollama's stream                                                         *)

\* An /api/chat object: calls, thinking, content, in this order; done ends.
OllamaObject(calls, thinking, content, done) ==
    /\ Reads("ollama")
    /\ LET ds == IfThen(calls, HaCalls) \o IfThen(thinking, Thinking) \o IfThen(content, Text("answer"))
       IN /\ local' = [local EXCEPT !.open = Opens(ds)]
          /\ Makes(OpenedAll(ds), IF done THEN "end" ELSE "read")

\* The end of the file without done ends the stream as well.
OllamaEof ==
    /\ Reads("ollama")
    /\ Makes(<<>>, "end")
    /\ UNCHANGED local

ReplayNext ==
    \/ OpenAIPost
    \/ \E fields \in SUBSET Retryable \ {{}} : OpenAIRefused(fields) \/ LearnElsewhere(fields)
    \/ OpenAIAccepted
    \/ \E fragment, reasoning, failed \in BOOLEAN, content \in {<<>>, <<Blank>>, <<Text("answer")>>} :
           OpenAIChunk(fragment, reasoning, content, failed)
    \/ \E parsed \in BOOLEAN : OpenAIEnd(parsed)
    \/ \E calls, thinking, content, done \in BOOLEAN : OllamaObject(calls, thinking, content, done)
    \/ OllamaEof

=============================================================================
