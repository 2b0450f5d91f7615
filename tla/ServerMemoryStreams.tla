------------------------ MODULE ServerMemoryStreams ------------------------
(***************************************************************************)
(* The streams of the presets whose backend runs its own tools and keeps    *)
(* the history: Dify, LangGraph, n8n and Converse.  The tools appear in the *)
(* chat log as external calls and results.                                  *)
(***************************************************************************)
EXTENDS PresetStream

-----------------------------------------------------------------------------
(* Dify (backends/dify.py, _run_stream)                                    *)

\* The locals after a delta went through opened().
DifyOpened(isText) ==
    [local EXCEPT !.open = TRUE, !.needsReply = @ /\ ~isText]

\* message, agent_message: the think stripper lets some of the answer through
\* and may hold a tail back that looks like the start of a tag.
DifyAnswer(agent) ==
    /\ Reads("dify")
    /\ IF local.replaced \/ (~agent /\ local.agentStreamed)
       THEN /\ local' = [local EXCEPT !.agentStreamed = @ \/ agent]
            /\ Makes(<<>>, "read")
       ELSE \E visible, held \in BOOLEAN :
                /\ local' = [(IF visible THEN DifyOpened(TRUE) ELSE local) EXCEPT
                                !.spoke = @ \/ visible, !.held = held,
                                !.agentStreamed = @ \/ agent]
                /\ Makes(IF visible THEN Opened(Text("answer")) ELSE <<>>, "read")

\* Mutant: a call whose input never arrives is not announced.
DifyToolKnownArgs(c, args, result) ==
    /\ Reads("dify")
    /\ LET calls == IF c \notin local.called /\ args THEN <<CallOf(c)>> ELSE <<>>
           results == IF c \notin local.answered /\ result THEN <<ResultOf(c)>> ELSE <<>>
       IN /\ local' = [local EXCEPT
                        !.called = IF calls = <<>> THEN @ ELSE @ \cup {c},
                        !.answered = IF results = <<>> THEN @ ELSE @ \cup {c},
                        !.open = @ /\ calls \o results = <<>>,
                        !.needsReply = @ \/ calls \o results # <<>>]
          /\ Makes(calls \o results, "read")

\* agent_thought, node_started, node_finished: activities repeat as their input
\* and result become known; each call and each result is yielded once.
DifyTool(c, args, result) ==
    /\ Reads("dify")
    /\ LET calls == IF c \notin local.called /\ (args \/ result) THEN <<CallOf(c)>> ELSE <<>>
           results == IF c \notin local.answered /\ result THEN <<ResultOf(c)>> ELSE <<>>
       IN /\ local' = [local EXCEPT
                        !.called = IF calls = <<>> THEN @ ELSE @ \cup {c},
                        !.answered = IF results = <<>> THEN @ ELSE @ \cup {c},
                        !.open = @ /\ calls \o results = <<>>,
                        !.needsReply = @ \/ calls \o results # <<>>]
          /\ Makes(calls \o results, "read")

\* reasoning_chunk.
DifyReasoning ==
    /\ Reads("dify")
    /\ local' = DifyOpened(FALSE)
    /\ Makes(Opened(Thinking), "read")

\* message_replace: spoken if nothing was, and the original answer is over.
DifyReplace(answer) ==
    /\ Reads("dify")
    /\ IF ~local.spoke /\ answer
       THEN /\ local' = [DifyOpened(TRUE) EXCEPT !.spoke = TRUE, !.replaced = TRUE]
            /\ Makes(Opened(Text("replacement")), "read")
       ELSE /\ local' = [local EXCEPT !.replaced = TRUE]
            /\ Makes(<<>>, "read")

\* workflow_paused: the notice is spoken and the turn is over.
DifyPaused ==
    /\ Reads("dify")
    /\ local' = DifyOpened(TRUE)
    /\ Makes(Opened(Text("notice")), "end")

\* Mutant: the held-back tail is flushed after a moderation replacement, too.
DifyMessageEndFlushing ==
    /\ Reads("dify")
    /\ local' = IF local.held THEN DifyOpened(TRUE) ELSE local
    /\ Makes(IF local.held THEN Opened(Text("answer")) ELSE <<>>,
             IF local'.needsReply THEN "raise" ELSE "end")

\* Mutant: a run that used tools and said nothing ends like any other.
DifyMessageEndSilent ==
    /\ Reads("dify")
    /\ LET tail == local.held /\ ~local.replaced
       IN /\ local' = IF tail THEN DifyOpened(TRUE) ELSE local
          /\ Makes(IF tail THEN Opened(Text("answer")) ELSE <<>>, "end")

\* message_end: the held-back tail was text after all; a run that used tools
\* and then said nothing raises.
DifyMessageEnd ==
    /\ Reads("dify")
    /\ LET tail == local.held /\ ~local.replaced
       IN /\ local' = IF tail THEN DifyOpened(TRUE) ELSE local
          /\ Makes(IF tail THEN Opened(Text("answer")) ELSE <<>>,
                   IF local'.needsReply THEN "raise" ELSE "end")

-----------------------------------------------------------------------------
(* LangGraph (backends/langgraph.py, _run_stream)                          *)

LangGraphText ==
    /\ Reads("langgraph")
    /\ local' = [local EXCEPT !.open = TRUE, !.needsReply = FALSE]
    /\ Makes(Opened(Text("answer")), "read")

\* updates: finished calls, results, then an interrupt's question.  The result
\* of a call may come a turn later, when an interrupt in the tool is answered.
LangGraphUpdate(calls, results, interrupt) ==
    /\ Reads("langgraph")
    /\ LET tools == calls \o results # <<>>
           question == IF local.open /\ ~tools THEN <<Text("notice")>>
                       ELSE <<Role, Text("notice")>>
       IN /\ local' = [local EXCEPT !.open = interrupt \/ (@ /\ ~tools),
                                    !.needsReply = ~interrupt /\ (@ \/ tools)]
          /\ Makes([i \in DOMAIN calls |-> CallOf(calls[i])]
                       \o [i \in DOMAIN results |-> ResultOf(results[i])]
                       \o (IF interrupt THEN question ELSE <<>>),
                   "read")

LangGraphEnd ==
    /\ Reads("langgraph")
    /\ Makes(<<>>, IF local.needsReply THEN "raise" ELSE "end")
    /\ UNCHANGED local

-----------------------------------------------------------------------------
(* n8n (backends/n8n.py, _iter_deltas)                                     *)

\* The first line is sniffed: an HTML document raises (RaiseStream), a text body
\* is one reply.
N8nText ==
    /\ Reads("n8n")
    /\ events = 0
    /\ local' = [local EXCEPT !.open = TRUE]
    /\ Makes(<<Role, Text("answer")>>, "end")

\* What a workflow may reply: its output field may hold the empty string.
N8nReplies == {Text("answer"), Blank}

\* A blocking body: the agent's intermediate steps, then the reply.
N8nBlocking(steps, reply) ==
    /\ Reads("n8n")
    /\ events = 0
    /\ local' = [local EXCEPT !.open = TRUE]
    /\ Makes(Activity(steps) \o <<Role, reply>>, "end")

\* An NDJSON item, which may be a whole JSON reply that is unwrapped; the first
\* of a new segment is separated from the last one, and so is never empty.
N8nItem(reply) ==
    /\ Reads("n8n")
    /\ local' = [local EXCEPT !.open = TRUE, !.separate = FALSE]
    /\ Makes(Opened(IF local.open /\ local.separate THEN Text("separated") ELSE reply), "read")

N8nSegmentEnd ==
    /\ Reads("n8n")
    /\ local' = [local EXCEPT !.separate = local.open]
    /\ Makes(<<>>, "read")

N8nEof ==
    /\ Reads("n8n")
    /\ Makes(<<>>, IF local.open THEN "end" ELSE "raise")
    /\ UNCHANGED local

-----------------------------------------------------------------------------
(* Converse (backends/converse.py, stream_turn)                            *)

ConverseText ==
    /\ Reads("converse")
    /\ local' = [local EXCEPT !.open = TRUE, !.buffered = <<>>]
    /\ Makes((IF local.open THEN <<>> ELSE Activity(local.buffered)) \o Opened(Text("answer")), "read")

\* Mutant: tool activity is shown when it is reported.
ConverseToolAtOnce(c) ==
    /\ Reads("converse")
    /\ local' = [local EXCEPT !.open = FALSE]
    /\ Makes(Activity(<<c>>), "read")

\* tool_activity is kept until the reply starts; afterwards it is only traced.
ConverseTool(c) ==
    /\ Reads("converse")
    /\ local' = [local EXCEPT !.buffered = IF local.open THEN @ ELSE Append(@, c)]
    /\ Makes(<<>>, "read")

\* done: its text is the reply if no delta was.
ConverseDone(text) ==
    /\ Reads("converse")
    /\ IF ~local.open /\ text
       THEN /\ local' = [local EXCEPT !.open = TRUE, !.buffered = <<>>]
            /\ Makes(Activity(local.buffered) \o <<Role, Text("answer")>>, "end")
       ELSE /\ Makes(<<>>, "end")
            /\ UNCHANGED local

ServerMemoryNext ==
    \/ \E agent \in BOOLEAN : DifyAnswer(agent)
    \/ \E c \in Calls, args, result \in BOOLEAN : DifyTool(c, args, result)
    \/ \E answer \in BOOLEAN : DifyReplace(answer)
    \/ DifyReasoning \/ DifyPaused \/ DifyMessageEnd
    \/ \E calls, results \in Lists, interrupt \in BOOLEAN :
           LangGraphUpdate(calls, results, interrupt)
    \/ LangGraphText \/ LangGraphEnd
    \/ \E steps \in Lists, reply \in N8nReplies : N8nBlocking(steps, reply)
    \/ \E reply \in N8nReplies : N8nItem(reply)
    \/ N8nText \/ N8nSegmentEnd \/ N8nEof
    \/ \E c \in Calls : ConverseTool(c)
    \/ \E text \in BOOLEAN : ConverseDone(text)
    \/ ConverseText

=============================================================================
