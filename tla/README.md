# LLM Middleman in TLA+

Models, model-checking runs and machine-checked proofs for the Home Assistant
custom integration `llm_middleman` (`src/custom_components/llm_middleman`). The
integration makes an LLM backend (a custom `/v1/converse` server, Dify,
LangGraph, n8n, Ollama, an OpenAI-compatible server) answer as a conversation
agent or carry out AI tasks. It runs in Home Assistant's single-threaded asyncio
loop: everything between two awaits is atomic, and everything interleaves at an
await. That is the granularity of the modules here.

`PROJECT.json` lists the components, the runs, a seeded bug ("mutant") for each
property, the source lines behind each definition, the hazards of the code and
the proved theorems. `tlc -config X.cfg M` checks a run, `tlapm M_proofs.tla` a
proof module.

## 1. The system

| Component | State | Operations | Talks to |
|---|---|---|---|
| Conversation entity, `conversation.py` | per turn: `TurnContext` (fallback mark, continue flag), the guard's `started`/`has_text`; per entity: availability | `_async_handle_message`, `_async_run_turn`, the never-hang guard `_guarded`, error recording | tool loop, adapter stream, chat log, dispatcher signal |
| AI task entity, `ai_task.py` | availability | `_async_generate_data`, without a guard | tool loop, adapter stream, chat log |
| Helpers, `helpers.py` | `unreachable_turns` on the adapter, the repair issue, entity availability | `async_run_tool_loop`, `async_record_backend_reached`/`_failure` | all entities of a connection |
| Entry, `__init__.py` | config entry state, `runtime_data` (the adapter), update listener | setup with probe, reload, unload, removal, migration | adapter class, entity platforms, Stores |
| Dify adapter, `backends/dify.py` | in-memory and persisted map session key -> conversation, an asyncio lock, inputs form cache, last task | `stream_turn` with one stale-id retry, `_lookup`, `_remember`, `_drop`, task stop | Dify server, Store |
| LangGraph adapter, `backends/langgraph.py` | pending-resume marks (no lock), legacy thread map (lock), last run id | `stream_turn`, `_take_pending_resume`, `_mark_pending_resume`, run cancel | LangGraph server, two Stores |
| n8n, Converse adapters | none between turns | `stream_turn`: sniffing, NDJSON items, buffered tool activity | backend |
| OpenAI, Ollama adapters | refused request fields (OpenAI) | `stream_turn`: replayed history, tool calls for Home Assistant | backend |
| Framing, `backends/_sse.py`; `_ThinkStripper` | line buffer, overflow and CR flags, event under construction; held-back tag fragment | one step per chunk | adapters |
| History, tools, contract helpers, `_history.py`, `_tools.py`, `_compat.py`, `base.py` | none | trim, schema and result rendering, external tool deltas, POST with checked status | adapters |
| Config flows, `config_flow.py` | one form at a time | create, reconfigure, reauth an entry; add and change agents | entry |
| ChatLog (Home Assistant, external) | the conversation's entries, one open block | consumes a delta stream | entities, adapters |

What is hard in it:

* A turn passes through four layers (framer, adapter generator, guard, tool
  loop) that agree only by convention: what an adapter's stream *ends on* decides
  whether the loop sends the user's turn again.
* The failure paths multiply: a backend can fail before the first delta, inside a
  block, after a tool call, in any of ten rounds; the pipeline can abandon a turn
  at any yield.
* Turns of sibling agents interleave on one adapter, whose maps are changed in
  memory first and then saved as a whole; a reload puts a second adapter on the
  same Store while turns of the first go on.
* The server moves too: conversations expire, interrupts are answered elsewhere.
* Entities cache what they were told of the backend's state.
* Chunks of a response are cut anywhere.
* An entry's data and agents change while it is being set up or unloaded, and two
  flows probe and save at the same time.

## 2. Modules

```
            ChatLog (external rules)
           /        |          \
   TurnLoop    AdapterStream    PresetStream
      |             ^          /            \
TurnLoop_proofs     |  ServerMemoryStreams  ReplayStreams
                    |          \            /
                    +--refines-- PresetStreams
                                      |
                             PresetStreams_proofs

        Verdicts            EntryLifecycle           ServerTurns
           |                      |                 refined by  refined by
      Reachability       EntryLifecycle_proofs     /                  \
           |                                 DifySessions      LangGraphThread
   Reachability_proofs                            |                   |
                                    DifySessions_proofs   LangGraphThread_proofs

                        Framing           ReplayHistory
                           |
                    Framing_proofs
```

**ChatLog** gives the rules by which Home Assistant turns deltas into log
entries: a role closes the open block and opens one, an empty block vanishes, a
tool result is an entry. Only the last entry is kept, since the integration's
decisions read no other.

**TurnLoop** is one request to an agent or an AI task. `Begin`, `StartRound`,
`Deliver(d)`, `StreamEnds`, `StreamRaises`, `SilentEnd`, `Apologise`, `RejectCalls`,
`LoopAgain`, `LoopEnds`, `Exhausted`, `AnswerTurn`, `AnswerTask`, `TaskRaises`, `Cancel`
are the branches of `_async_handle_message`, `_guarded`, `async_run_tool_loop` and
`_async_generate_data`. The adapter is an environment that delivers any delta in
any order; only what it may end on is constrained (`MayEnd`). A block that held nothing but
the empty string is one of those ends: `closed` keeps what the last block held, since
the chat log forgets it. `RejectCalls` is the one failure the guard cannot see, as the
chat log raises it in the consumer.

**AdapterStream** states what the loop relies on: a role first, and no clean end
on a backend tool's result or on a block opened for nothing; a block that got the empty
string is an end it may have, and TurnLoop shows what follows. **PresetStream**,
**ServerMemoryStreams**, **ReplayStreams** and **PresetStreams** model the six
generators: `Reads(p)` takes one backend event, the handler leaves the deltas to
yield in `out` and says whether to go on, end or raise; `local` holds the
generator's local variables; `Yield` hands one delta to the chat log, and
`RaiseStream` may strike at every yield. `ImplementsContract` is the refinement:
`Contract == INSTANCE AdapterStream WITH phase <- phase, entry <- entry,
block <- block`: the generator's own state is hidden, what the tool loop sees of
it is not. It is checked as a temporal property. TurnLoop's `MayEnd` is that contract's
`End`. An OpenAI turn begins with its request, `OpenAIPost`, `OpenAIRefused` (a 400
that names fields) and `OpenAIAccepted`, while other turns of the connection learn
what is refused (`LearnElsewhere`).

**EntryLifecycle** is one config entry: `Start` with `Migrate`, then `ProbeReaches`,
`AddEntities` and `FinishSetup`, the stretches between the awaits of
`async_setup_entry`; `StartReload` and `FinishUnload`; `ProbeFails`, for now or for good, and
`Retry`. Config
flows go from `OpenFlow` over `Submit` and the probe to `FinishUser` or
`FinishUpdate`; `SetOptions` and `RemoveAgent` change the agents. Home Assistant
holds one lock an entry over setup and reload, so one variable says how far the one
under way has come. `ReloadsAfter` is `_async_update_entry_and_abort`. A URL is its
server and the part of its end that some preset interprets. The credential may be left
empty, and a form is a duplicate of an entry that agrees with it in the fields it gives
(`Agrees`).

**ReplayHistory** is a conversation from the point of view of a preset that sends
it with every request: `Replayable` and `Trimmed` are `replayable_content` and
`trim_history` (Python's negative slice included), `Send` one round-trip of the tool
loop.

**Verdicts** says which error class each of the six presets raises for what its
backend does, at the probe (`ProbeRaises`) and in a turn (`TurnRaises`), and what the
integration reads from class and cause: `IsUnreachable`, `StartsReauth`,
`IsTranslated`. The class hierarchy of `base.py` is `IsA`.

**Reachability** is the connection's shared state for one preset: overlapping
requests of agents and tasks on the adapter they started with, setup, probe,
reload, unload and removal, the count, the issue, the signal, the reauth start
and each entity's cached availability. What a request or a probe meets is chosen
freely; what is recorded is decided by the error the preset makes of it, as the
code does. A setup ends loaded, to be retried, with a reauth, or for good
(`failed`) when the error is of no expected type. `outlived` says whether a
request was in flight when the entry was removed.

**ServerTurns** is the abstract specification of a turn towards a server that
does the work itself: `Begin`, `Accept` at most once, `See`, `Finish`, `Park` for work that
waits for a human, `Leave` with the seen work over, parked or asked to stop, `StopEnds`,
`Crash`. Being asked is all that is promised: the request to stop runs in the background
and its errors are swallowed, so it may fail. Both session presets implement it
(`ImplementsServerTurns`); `Work` in each of them is the refinement mapping.

**DifySessions** has one action per stretch between awaits of `_lookup`, `_drop`,
`_remember` and `stream_turn` (for instance `LookupAdopting` then `SaveAdopted`),
the lock, the Store's file separate from the adapter's map, two adapters after a
reload, cancellation at every await, restarts, and a server whose conversations expire,
whose chatflows pause (`PauseTurn`) and where the background stop ends when it will
(`StopEnds`). `mishaps` remembers the two events that the code's promises about the Store
do not survive, a cancelled save and a reload under a lookup; each property names those
it excepts.

**LangGraphThread** does the same for the thread a session uses and its
pending-resume marks. `Lookup`, `LookupAdopting` and `SaveAdopted` are `_thread_id`
under its lock: the thread that an earlier version kept for the device moves to
the first agent that asks. The marks have no lock: turns that wait for the first
load are woken one after the other and each installs a dict of its own
(`LoadEnds`, `Wake`). The server's interrupts, other clients, the check, the POST,
the interrupting run, broken streams, the background cancel (`FireCancel`, `CancelEnds`) and
restart are actions. Only turns with a thread are modelled; a run without one
keeps nothing and is never cancelled.

**Framing** takes chunks of any cut into the two framers and Dify's think
stripper, one step per terminator or tag found and one for the rest of a chunk,
as the code's loops do. The reference definitions (`EventsOf`, `LinesOf`,
`Spoken`) say what all the bytes at once should give. None of them scans: a line is
what lies before a terminator back to the one before it (`Before`), the lines are
those at the terminators' places in order (`Pick`), the openings of blocks are the
one set of places that agrees with itself (`OpensAt`). So they share nothing with
the loops they judge, and can be reasoned about.

Constants that are sizes of the model, not of the code, are called `Max...` and
marked "bound"; `MaxIterations`, `Threshold` and `MaxLine` are parameters of the
code.

## 3. Runs

| Run | Bounds | What it shows |
|---|---|---|
| `turn_loop` | the real cap of 10 rounds, 4 deltas a round | agent turns are answered unless the reply was blank, fallback and error mark agree, the guard's flags track the chat log's block it cannot see, only Home Assistant's tools or a blank reply cause another round, the request ends |
| `turn_blank` (violation) | 3 rounds | a blank reply leaves the turn without an entry to speak |
| `reachability` | 6 presets, an agent, a task, 2 requests, threshold 3, 2 adapters | availability, count and issue stay consistent; every preset's outages are counted and its refused credentials start a reauth; the issue goes with the entry |
| `dify_sessions` | 2 turns, 2 sibling agents, 2 conversations, 2 adapters | one agent per conversation, no dropped id comes back, saved when unlocked, a lock held at a save only, and turns are those of ServerTurns: one accepted POST, seen tasks over, parked or asked to stop |
| `dify_drop` (violation) | 3 conversations | `_drop` pops a fresh conversation that another turn remembered |
| `presets` | 7 events, 2 tool calls, up to 2 in one event | every preset implements the stream contract, and promises of single presets: tools in order, nothing of a replaced answer, a reply in one piece, OpenAI's retries bounded |
| `presets_resend` (violation) | 3 events | an n8n stream whose reply is blank ends on the result of a tool n8n ran |
| `langgraph_thread` | 2 turns, 2 sibling agents and a chat, the device's thread | resumes meet an interrupt, questions are remembered, the legacy thread has one owner, turns are those of ServerTurns |
| `langgraph_answer` (violation) | 1 turn, 1 thread | a mark popped too early loses the question |
| `entry_lifecycle` | 2 flows, a key entered or left empty, 4 forms of a URL, 1 agent changed twice, 2 reloads waiting | what runs is what is stored, each save is reloaded once, only probed connections are saved, no duplicate is created |
| `replay_history` (violation) | `max_history` 1, 3 turns of up to 2 rounds | the trim loses promised turns |
| `framing` | 7 bytes, chunks of 1 to 3, cap of 2, tags of 3 | output depends on the bytes, not on the cut |

Why these bounds are enough to be interesting. Four deltas hold a block with
text, a tool call, its result and a failure after it. Two requests and two
adapters give every order of a failure and a success across a reload; the count
is capped one request before it could only repeat. Two turns with two sibling
keys meet in every pair of awaits; two conversations are the legacy one and a
fresh one. Two sibling agents are needed for
one legacy thread to be wanted twice and for two dicts to disagree, the chat for
the marks that are not saved. Seven events hold a call, its repetition, its
result, text, a replacement and the end. Seven bytes hold an oversized line, an
event after it and a CRLF cut in two, or a whole block of reasoning and a
fragment that resembles a tag; three-letter tags that begin alike have every kind
of fragment the real ones have.

Two flows and two credentials let a reconfiguration and a reauth each be saved during the
other's probe; two waiting reloads let a change happen while another's reload waits.
LangGraphThread stops restarting once the save of an adoption was cancelled: from
then on the thread is anyone's again and nothing more is promised of it.

Symmetry is used for turns, sibling keys and flows, which no definition tells apart,
in runs of safety properties only; in the two with a refinement it permutes the turns
of ServerTurns, too, which has no fairness. Deadlock is checked except in the two
preset runs and `framing`, where a stream is over for good when it has ended, and in
`reachability`, where nothing is left to do once the entry is removed or the last setup
has ended for good. In the runs of DifySessions and LangGraphThread it is checked; that
a turn which waits for the lock gets it needs no more than that every holder lets go
(the lock clause of `TypeOK`) and that an `asyncio.Lock` is first come first served.

### Fairness

Only `TurnLoop` states `FairSpec`: weak fairness of a request's own steps. The event
loop runs every ready coroutine, and a backend that falls silent is cut off by the
agent's timeout (`build_client_timeout`), which `StreamRaises` stands for. That is a
`sock_read` timeout: nothing cuts off a backend that keeps sending. `RequestEnds` is
about the tool loop, then: it assumes that each round-trip's stream is finite
(`MaxDeltas`), and shows that the rounds are.

### Disagreements between code and documentation

Five violation runs show them; `PROJECT.json` quotes the lines.

1. `turn_blank`: a reply that is the empty string counts as spoken, but the chat
   log drops it, so the guard's "at least one AssistantContent on every exit" fails.
   (For a task, `ai_task.py:146-150` returns a reply that was only thinking as empty data,
   though `src/README.md:210` says an empty reply fails the action; no run is about that.)
2. `replay_history`: Max history is documented in past user turns, but the trim keeps
   `2 * max_history + 1` messages, and a tool loop's calls and results count: they push
   out past turns and, in a later round, the words of the turn in progress. The
   request may then begin with a tool result whose call is gone. Without
   tools (`MaxRounds = 0`) TLC finds no such request.
3. `dify_drop`: two turns refused the same stale id; the second drop forgets an id
   the server never rejected.
4. `langgraph_answer`: the mark is consumed before the check and the POST, so a
   turn given up in between makes the next answer a new message.
5. `presets_resend`: n8n's workflow ran tools and replied with the empty string. The
   comment at `backends/n8n.py:347-348` says that the log never ends on the tool's result,
   as the reply is spoken even when it is empty; but the chat log drops the empty block,
   the log ends on the result, and the loop sends the user's turn again, up to the cap.

## 4. Proofs

`TurnLoop_proofs` (for every cap, every number of deltas):

* `TypeCorrect`, `GuardTracks`, `FallbackMarked`: from the inductive invariant
  `FallbackInv`. `SpokenFallbackIsMarked` alone is not inductive: it speaks of the
  end of the turn. The invariant says where the fallback text can be at every
  point: nowhere while a round streams, then in the last entry exactly if
  `ctx.fallback` says so, unless Home Assistant's tool results superseded it.
* `EveryTurnAnswered` and `NoResend`: from `AnswerInv` and `ResendInv`, which add what the
  last entry can be between the rounds. Neither assumes anything of the replies: both
  name the blank block as what they except, and the violation runs show the exception
  happens.

`EntryLifecycle_proofs` (for any agents, flows, servers, keys and bounds):
`TypeCorrect`, `QuietIsCurrent`, `ReloadsOnce`, `SavesProbed`. `QuietEntryIsCurrent` says
nothing of an entry that is still being set up, so it is not inductive; `QuietInv`
extends it back to the moment the adapter is built (`AdapterCurrent`) and the entities
are (`EntitiesCurrent`): from then on, either they are current or a reload waits. The
step that matters is `SaveKeepsQuiet`: whichever branch the flow takes, a save of
other data leaves a reload waiting.

`Reachability_proofs` (for any entities, requests, threshold and bounds):
`TypeCorrect`, `Agreement`, `NoneStuck`, `IssueTracks`, `RemovalClears`, from
`ReachInv`, which adds that entities exist only between a setup and an unload,
that nothing is counted on an adapter not yet built, and that a removal which no
request outlived leaves none in flight (`NothingOutlives`). `RecordKeeps` is the
heart: any recorded outcome of any request keeps the invariant, whichever adapter
it ran on. `AnswerRecorded`, `OutageCounted` and `RejectionReauths` are about steps;
they rest on the lemmas `OutageVerdict` and `TypedVerdict`, which go through the six
presets: the error a preset raises reads as an outage exactly if the backend was
down, and as a refused credential exactly if it refused one.

`LangGraphThread_proofs` (for any turns, agents and chats): `TypeCorrect`, `ResumeMeets`,
`OneOwner`, `Remembered` and the refinement `Implements` (`Spec => Work!Spec`).
`PlacedInv` says what a turn's fields are at each of its awaits; the others rest on
it.

* `LegacyInv` is needed as `LegacyThreadHasOneOwner` speaks of turns only: a turn has
  the legacy thread exactly if the map says its key (`ThreadsFollowLegacy`), the
  owner is what Store and map say (`OwnerKept`), and an adopted map that is not saved
  has a saver (`MapSaved`).
* `MarksInv` is the argument for doing without a lock: while the first turns wake,
  the file is as they read it, since no turn has got far enough to save
  (`WakingFirst`); and what is owed is in the file and in the save under way
  (`OwedSaved`, `MarkSaved`).
* The refinement has one step per action: it is a step of `ServerTurns` or leaves the
  mapped state alone.

`DifySessions_proofs` (for any turns, agents, chats, conversations and adapters):
`TypeCorrect`, the refinement `Implements`, `Saved`, `ForgottenStays` and
`OneAgentEach`. Again `PlacedInv` says what a turn's fields are at each of its awaits
and which adapter's lock it then holds.

* `SavedWhenUnlocked` is not inductive for a turn that is saving: what makes it so is
  that whoever has the lock is at one of three saves, and no path gives the lock
  back in between.
* `ForgottenInv`: what a map holds was opened by the server, was not dropped by this
  adapter, and is not what a turn is about to remember (`MapsGood`, `DiskGood`); and what
  a turn is about to remember is its own, got fresh from the server (`FreshApart`). A turn
  that still talks in a dropped conversation remembers nothing.
* `AgentInv`: as long as no save was cancelled and no reload struck a lookup
  (`Smooth`), the maps of all adapters, the file and the turns agree on the key each
  conversation is talked in under (`OneAgent`).

`PresetStreams_proofs` (for any tool calls, any number of events and of calls in one):
`TypeCorrect`, `Ordered`, `ReplacedUnspoken`, `WholeSpoken`, `RetriesBounded` and the
refinement `Implements`. Between an event and the last of its deltas, what holds
does so because of the deltas that are still to come, so `StreamInv` says what those
in `out` will do to the chat log once they are yielded, and how the generator's
locals know it. A retry is paid for by a field (`Paid`): at every stage of a request, the posts beyond the first
are no more than the fields that were refused by then. The refinement has one step
per action; of all of them only `Yield` and the ends change what the contract sees.

`EntryLifecycle_proofs` also has `CreatedOnce`, from `CreatedInv`: what a flow holds
after its form is a normalised URL (`FlowsNormalised`), so entries that differ in
what they store differ in what they are (`CreatedApart`).

`Framing_proofs` (for streams and chunks of any length, any cap and any two tags):
`TypeCorrect`, `Frames` and `Stripped`.

* `FramesInv` names the bytes `t` that the framer has taken, all but the rest of the
  chunk, and says that the output is that of `t`, the buffer its unterminated line
  (or `over` that it is past the cap), and the gathered fields those after its last
  blank line (`Framed`). Then each step adds to `t` a terminator and what is before
  it, and the lemmas say what that adds to the lines and the events. A CRLF cut in
  two is the case where `t` ends with a CR.
* `ThinkInv` names how much of the text is settled (`HeldBack`) and where its blocks
  open (`Settled`): what is settled and outside them is spoken, and nothing that can
  still arrive makes a tag of it, as what a tag might begin in is held back. The
  argument is that a block's end, once known, stays where it is as more arrives
  (`Blocks`), and that a text has only one set of openings (`OpeningsAre`).
* The prover does no induction over data. These facts rest on the least element of
  a set of numbers instead (`LeastExists`, proved from the well-foundedness of
  finite sets under inclusion).

The assumptions are those named in the modules (`MaxIterations` and `Threshold`
positive, agents and tasks distinct, session keys and conversations distinct from
each other and from the words that stand for none, tags that are not empty, bounds
natural numbers).

Only model-checked: liveness (`RequestEnds`), since the prover does
none under fairness, and the violations. Every safety property and both kinds of
refinement are proved; the runs show that they are about something, as TLC finds
each of them violated by a mutant.

## 5. What is not modelled

* Texts, schemas, JSON renderings, prompts, images, usage statistics, traces and
  logging: data that no property tells apart.
* The optional form of a Dify app's inputs and its cache: an enrichment of the
  request that nothing else depends on (a body that cannot be decoded fails the
  turn, as only the connection's errors are caught).
* LangGraph runs without a thread: they keep no mark, and no cancel is sent for them.
* The deletion of the Stores at an entry's removal. A turn that outlives the removal
  saves its map again and leaves a Store behind; the code does nothing against it.
* Streams that never end: see Fairness.
* A reload of a LangGraph connection, which puts a second adapter with marks of
  its own on the same Store. DifySessions has that pattern, and what it costs.
* The model catalogs, which fill a form.
* Connections without a credential: reauth is started for them, too, and aborts at
  once. Connection fields other than the credential left empty.
* Forms and their prefilling.
* Home Assistant itself beyond the ChatLog, the Store's last-write-wins save and
  the entry's states. A Store save is one await that either ends with the data on
  disk or, if cancelled, may have left the file as it was.
* `MaxCount`, `MaxConversations`, `MaxEvents` and the like stop the model, not the
  code.
* Two first turns of one Dify key open two conversations and the last one wins:
  the code accepts that, so nothing is stated about it.

Some of what the models do contain is stated by no property, because the code and
its documents promise nothing of it: an AI task's rate limit is re-raised before
the answer is recorded; an attachment that cannot be read is recorded as an
answer of the backend although nothing was sent; a credential refused at
LangGraph's thread lookup starts no reauth; a probe that fails with an untyped
error ends the setup for good; an agent without an LLM API whose backend calls tools
fails outside the guard (`RejectCalls`); a reconfiguration saved during a reauth's probe is
overwritten; the map of an adapter that a reload has replaced may be saved over its
successor's. `AnswerIsRecorded`, `OutageIsCounted` and
`RejectionStartsReauth` say which answers they speak of.

## 6. Plan

Done: every module above with its runs; every invariant, action property and
refinement that the runs check, proved.

Next, in this order:

1. `TurnLoop` against `PresetStreams`: that the tool loop over a concrete preset is the
   tool loop over the contract, by proof.
2. A reload in `LangGraphThread`: two adapters with marks of their own on one Store.
3. Dify's inputs-form cache.
