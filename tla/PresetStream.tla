---------------------------- MODULE PresetStream ----------------------------
(***************************************************************************)
(* What the presets' stream_turn generators have in common: the generator   *)
(* reads one backend event, which leaves a few deltas to yield; it is       *)
(* suspended at each of them, and resumes reading, ends or raises after the *)
(* last one.  The modules that extend this one say what each preset makes   *)
(* of an event.                                                             *)
(***************************************************************************)
EXTENDS Naturals, Sequences, ChatLog

CONSTANTS
    Calls,      \* ids of the tool calls a backend reports
    MaxEvents,  \* bound: events read in one round-trip
    MaxListed   \* bound: tool calls that one event lists

ASSUME MaxEventsAssumption == MaxEvents \in Nat
ASSUME MaxListedAssumption == MaxListed \in Nat

VARIABLES
    preset,  \* which backend
    phase,   \* streaming, ended or raised
    events,  \* events read
    local,   \* the generator's local variables
    out,     \* deltas it has still to yield for the last event
    after,   \* what it does after them
    entry,   \* the chat log's last entry
    block,   \* the chat log's open block
    shown,   \* history: the calls that were yielded
    given    \* history: those whose result was yielded

log == <<entry, block, shown, given>>
vars == <<preset, phase, events, local, out, after, log>>

Presets == {"dify", "langgraph", "n8n", "openai", "ollama", "converse"}

\* A delta, and what it is about: a tool call, or where its text comes from.
Origins == {"answer", "replacement", "notice", "separated"}
Delta == [kind : Deltas, of : Calls \cup Origins]

Role == [kind |-> "role", of |-> "answer"]
Text(origin) == [kind |-> "text", of |-> origin]
Blank == [kind |-> "blank", of |-> "answer"]
Thinking == [kind |-> "thinking", of |-> "answer"]
HaCalls == [kind |-> "ha_calls", of |-> "answer"]
CallOf(c) == [kind |-> "ext_call", of |-> c]
ResultOf(c) == [kind |-> "ext_result", of |-> c]

\* open: a role was sent and no tool delta since (block_open, role_sent, started)
\* spoke: reply text was sent (content_sent)
\* needsReply: tool activity since the last spoken text
\* replaced, agentStreamed, held: Dify's moderation, agent app and held-back tag tail
\* called, answered: Dify's calls_sent and results_sent
\* separate: n8n's next segment needs a separator
\* pending: OpenAI's accumulated calls are unflushed
\* buffered: Converse's pending_tools
\* stage, body, refused, request, posts: OpenAI's request before the stream is open
FreshLocal ==
    [open |-> FALSE, spoke |-> FALSE, needsReply |-> FALSE, replaced |-> FALSE,
     agentStreamed |-> FALSE, held |-> FALSE, called |-> {}, answered |-> {},
     separate |-> FALSE, pending |-> FALSE, buffered |-> <<>>,
     stage |-> "open", body |-> {}, refused |-> {}, request |-> {}, posts |-> 0]

Flags == {"open", "spoke", "needsReply", "replaced", "agentStreamed", "held", "separate", "pending"}

\* Request fields a server may refuse by name: the first two are left out of the
\* next request, max_tokens is renamed in it.
Droppable == {"stream_options", "prompt_cache_key"}
Retryable == Droppable \cup {"max_tokens"}
Fields == Retryable \cup {"max_completion_tokens"}

\* An OpenAI turn has to build and post its request first.  The adapter may have
\* learned from earlier turns; an agent has a cache key, a limit only if set.
UnsentLocal(optional, learned) ==
    [FreshLocal EXCEPT !.stage = "build", !.body = {"stream_options"} \cup optional, !.refused = learned]

UnsentLocals ==
    {UnsentLocal(optional, learned) :
        optional \in SUBSET {"prompt_cache_key", "max_tokens"}, learned \in SUBSET Retryable}

TypeOK ==
    /\ preset \in Presets
    /\ phase \in {"streaming", "ended", "raised"}
    /\ events \in 0..MaxEvents
    /\ DOMAIN local = DOMAIN FreshLocal
    /\ \A f \in Flags : local[f] \in BOOLEAN
    /\ local.stage \in {"build", "posted", "open"}
    /\ local.body \cup local.refused \subseteq Retryable
    /\ local.request \subseteq Fields
    /\ local.posts \in Nat
    /\ local.answered \subseteq local.called
    /\ local.called \subseteq Calls
    /\ local.buffered \in Seq(Calls)
    /\ out \in Seq(Delta)
    /\ after \in {"read", "end", "raise"}
    /\ entry \in Entries
    /\ block \in Blocks
    /\ shown \cup given \subseteq Calls

Init ==
    /\ preset \in Presets
    /\ phase = "streaming"
    /\ events = 0
    /\ local \in IF preset = "openai" THEN UnsentLocals ELSE {FreshLocal}
    /\ out = <<>>
    /\ after = "read"
    /\ entry \in {User, HaResult}
    /\ block = NoBlock
    /\ shown = {}
    /\ given = {}

\* The generator of preset p reads its next event.
Reads(p) ==
    /\ preset = p
    /\ phase = "streaming"
    /\ local.stage = "open"
    /\ out = <<>>
    /\ after = "read"
    /\ events < MaxEvents

\* It makes deltas ds of it, and then goes on as told.
Makes(ds, then) ==
    /\ out' = ds
    /\ after' = then
    /\ events' = events + 1
    /\ UNCHANGED <<preset, phase, log>>

\* The delta with the role that the block still lacks before it.
Opened(d) == IF local.open THEN <<d>> ELSE <<Role, d>>

\* The tool calls that one event may list.
Lists == UNION {[1..n -> Calls] : n \in 0..MaxListed}

\* The call and result deltas of tools the backend ran, each call before its result.
Activity(cs) ==
    [i \in 1..(2 * Len(cs)) |-> IF i % 2 = 1 THEN CallOf(cs[(i + 1) \div 2]) ELSE ResultOf(cs[i \div 2])]

\* The entity consumes one delta.
Yield ==
    /\ phase = "streaming"
    /\ out # <<>>
    /\ out' = Tail(out)
    /\ entry' = EntryAfter(entry, block, Head(out).kind)
    /\ block' = BlockAfter(block, Head(out).kind)
    /\ shown' = shown \cup {c \in Calls : Head(out) = CallOf(c)}
    /\ given' = given \cup {c \in Calls : Head(out) = ResultOf(c)}
    /\ UNCHANGED <<preset, phase, events, local, after>>

EndStream ==
    /\ phase = "streaming"
    /\ out = <<>>
    /\ after = "end"
    /\ phase' = "ended"
    /\ entry' = Flushed(entry, block)
    /\ block' = NoBlock
    /\ UNCHANGED <<preset, events, local, out, after, shown, given>>

\* The handler raises; or the transport fails, a frame is malformed, or the
\* entity abandons the generator at one of its yields.
RaiseStream ==
    /\ phase = "streaming"
    /\ phase' = "raised"
    /\ out' = <<>>
    /\ UNCHANGED <<preset, events, local, after, log>>

Shared == Yield \/ EndStream \/ RaiseStream

=============================================================================
