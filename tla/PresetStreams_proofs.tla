------------------------ MODULE PresetStreams_proofs ------------------------
(***************************************************************************)
(* What PresetStreams promises, proved for any tool calls and any number of *)
(* events and of calls that one event lists: the types, the order of tool   *)
(* deltas, replies that are spoken whole, replaced answers that are not,    *)
(* the bound on retries, and that every stream implements AdapterStream.    *)
(*                                                                         *)
(* None of these is inductive: between an event and the last of its deltas  *)
(* they hold only because of what the generator has still to yield.  Each   *)
(* part of the inductive invariant StreamInv says what the deltas in "out"  *)
(* will do to the chat log, and how the generator's locals know it.         *)
(***************************************************************************)
EXTENDS PresetStreams, FiniteSetTheorems, SequenceTheorems, TLAPS

Streaming == phase = "streaming"

-----------------------------------------------------------------------------
(* The inductive invariants                                                *)

\* The deltas still to yield start with a role where the chat log needs one, and
\* a generator that believes its block open has opened one or is about to.
RoleFirst ==
    Streaming => /\ out # <<>> => block # NoBlock \/ CarriesRole(out[1].kind)
                 /\ local.open => block # NoBlock \/ out # <<>>

\* Once all of out is yielded, the open block got something.
Filled == IF out = <<>> THEN block # {}
          ELSE out[Len(out)].kind \in {"text", "blank", "thinking", "ha_calls", "ext_call"}

\* Only a Dify or LangGraph turn that has not ended, and has noted that it owes
\* its reply, may leave no block or an empty one behind.
ReplyOwed ==
    /\ after # "end"
    /\ preset \in {"dify", "langgraph"} /\ local.needsReply

EndsFilled == Streaming => Filled \/ ReplyOwed

\* A call is in out, before position n, or was yielded.
Announced(c, n) == c \in shown \/ \E j \in 1..n : out[j] = CallOf(c)

ResultsFollow ==
    preset # "langgraph" =>
        \A i \in DOMAIN out : \A c \in Calls : out[i] = ResultOf(c) => Announced(c, i - 1)

\* Dify's own bookkeeping agrees with what was yielded.
DifyKnows ==
    preset = "dify" =>
        /\ shown \subseteq local.called
        /\ given \subseteq local.answered
        /\ Streaming => \A c \in local.called : Announced(c, Len(out))
        /\ \A i \in DOMAIN out : \A c \in Calls :
               /\ out[i] = CallOf(c) => c \in local.called \ shown
               /\ out[i] = ResultOf(c) => c \in local.answered \ given
               /\ \A j \in 1..(i - 1) : out[j] = out[i] => out[i].kind \notin {"ext_call", "ext_result"}

OnlyDifyReplaces == local.replaced => preset = "dify"

\* The presets that speak in one block: no text before the role of its block.
OneBlock == {"n8n", "converse", "openai", "ollama"}

Unspoken(n) == "text" \notin block /\ \A j \in 1..n : out[j].kind # "text"

WholeReply ==
    Streaming /\ preset \in OneBlock =>
        /\ events = 0 => ~local.open
        /\ ~local.open => Unspoken(Len(out))
        /\ \A i \in DOMAIN out : CarriesRole(out[i].kind) => Unspoken(i - 1)

\* Each post of an OpenAI request beyond the first was paid for by a refused field.
Paid ==
    /\ local.stage # "open" => ~local.open
    /\ local.stage = "open" => local.posts = 0
    /\ local.stage = "build" => local.posts <= Cardinality(local.body \cap local.refused)
    /\ local.stage = "posted" =>
          /\ local.request \cap Retryable \subseteq local.body
          /\ local.body \ local.request \subseteq local.refused
          /\ local.posts <= 1 + Cardinality(local.body \ local.request)

-----------------------------------------------------------------------------
(* Lemmas about sequences of deltas                                        *)

LEMMA Deltas1 ==
    /\ Role \in Delta /\ Blank \in Delta /\ Thinking \in Delta /\ HaCalls \in Delta
    /\ \A o \in Origins : Text(o) \in Delta
    /\ \A c \in Calls : CallOf(c) \in Delta /\ ResultOf(c) \in Delta
BY DEF Role, Blank, Thinking, HaCalls, Text, CallOf, ResultOf, Delta, Deltas, Origins

LEMMA Kinds ==
    /\ Role.kind = "role" /\ Blank.kind = "blank" /\ Thinking.kind = "thinking" /\ HaCalls.kind = "ha_calls"
    /\ \A o : Text(o).kind = "text" /\ Text(o).of = o
    /\ \A c : CallOf(c).kind = "ext_call" /\ ResultOf(c).kind = "ext_result" /\ CallOf(c).of = c /\ ResultOf(c).of = c
BY DEF Role, Blank, Thinking, HaCalls, Text, CallOf, ResultOf

\* A list of one event is a sequence of calls.
LEMMA ListType ==
    ASSUME NEW cs \in Lists
    PROVE  cs \in Seq(Calls)
BY MaxListedAssumption DEF Lists

LEMMA ActivityType ==
    ASSUME NEW cs \in Seq(Calls)
    PROVE  /\ Activity(cs) \in Seq(Delta)
           /\ Len(Activity(cs)) = 2 * Len(cs)
           /\ DOMAIN Activity(cs) = 1..(2 * Len(cs))
           /\ \A i \in 1..(2 * Len(cs)) : Activity(cs)[i].kind \in {"ext_call", "ext_result"}
<1> DEFINE n == 2 * Len(cs)
<1>1. n \in Nat
  OBVIOUS
<1>2. \A i \in 1..n : i % 2 = 1 => (i + 1) \div 2 \in 1..Len(cs)
  OBVIOUS
<1>3. \A i \in 1..n : i % 2 # 1 => i \div 2 \in 1..Len(cs)
  OBVIOUS
<1>4. \A j \in 1..Len(cs) : cs[j] \in Calls
  OBVIOUS
<1>5. \A i \in 1..n : (IF i % 2 = 1 THEN CallOf(cs[(i + 1) \div 2]) ELSE ResultOf(cs[i \div 2])) \in Delta
  BY <1>2, <1>3, <1>4, Deltas1
<1>6. \A i \in 1..n : Activity(cs)[i] = IF i % 2 = 1 THEN CallOf(cs[(i + 1) \div 2]) ELSE ResultOf(cs[i \div 2])
  BY DEF Activity
<1>7. \A i \in 1..n : Activity(cs)[i].kind \in {"ext_call", "ext_result"}
  BY <1>6, Kinds
<1>8. Activity(cs) \in [1..n -> Delta]
  BY <1>5 DEF Activity
<1> QED
  BY <1>1, <1>7, <1>8

LEMMA ActivityOrder ==
    ASSUME NEW cs \in Seq(Calls), NEW i \in 1..(2 * Len(cs)), NEW c \in Calls, Activity(cs)[i] = ResultOf(c)
    PROVE  i - 1 \in 1..(2 * Len(cs)) /\ Activity(cs)[i - 1] = CallOf(c)
<1>1. Activity(cs)[i] = IF i % 2 = 1 THEN CallOf(cs[(i + 1) \div 2]) ELSE ResultOf(cs[i \div 2])
  BY DEF Activity
<1>2. i % 2 # 1
  BY <1>1, Kinds, ZenonT(60)
<1>3. i - 1 \in 1..(2 * Len(cs)) /\ (i - 1) % 2 = 1 /\ ((i - 1) + 1) \div 2 = i \div 2
  BY <1>2
<1>4. Activity(cs)[i - 1] = CallOf(cs[((i - 1) + 1) \div 2])
  BY <1>3 DEF Activity
<1>5. c = cs[i \div 2]
  BY <1>1, <1>2 DEF ResultOf
<1> QED
  BY <1>3, <1>4, <1>5

\* A delta that is opened: one or two deltas, the last one the delta itself.
LEMMA OpenedShape ==
    ASSUME NEW d \in Delta
    PROVE  /\ Opened(d) \in Seq(Delta) /\ Len(Opened(d)) \in {1, 2}
           /\ Opened(d)[Len(Opened(d))] = d
           /\ local.open => Opened(d) = <<d>>
           /\ ~local.open => Opened(d) = <<Role, d>>
BY Deltas1 DEF Opened

LEMMA OpenedAllShape ==
    ASSUME NEW ds \in Seq(Delta)
    PROVE  /\ OpenedAll(ds) \in Seq(Delta)
           /\ OpenedAll(ds) = <<>> <=> ds = <<>>
           /\ ds # <<>> => OpenedAll(ds)[Len(OpenedAll(ds))] = ds[Len(ds)]
           /\ ds # <<>> /\ ~local.open => /\ OpenedAll(ds)[1] = Role
                                          /\ Len(OpenedAll(ds)) = Len(ds) + 1
                                          /\ \A i \in 1..Len(ds) : OpenedAll(ds)[i + 1] = ds[i]
           /\ local.open => OpenedAll(ds) = ds
<1>1. CASE local.open \/ ds = <<>>
  BY <1>1 DEF OpenedAll
<1>2. CASE ~(local.open \/ ds = <<>>)
  <2>1. OpenedAll(ds) = <<Role>> \o ds /\ <<Role>> \in Seq(Delta)
    BY <1>2, Deltas1 DEF OpenedAll
  <2>2. Len(<<Role>> \o ds) = Len(ds) + 1 /\ <<Role>> \o ds \in Seq(Delta)
    BY <2>1
  <2>3. \A i \in 1..Len(ds) : (<<Role>> \o ds)[i + 1] = ds[i]
    OBVIOUS
  <2>4. (<<Role>> \o ds)[1] = Role
    OBVIOUS
  <2>5. Len(ds) \in 1..Len(ds)
    BY <1>2
  <2> QED
    BY <1>2, <2>1, <2>2, <2>3, <2>4, <2>5
<1> QED
  BY <1>1, <1>2

LEMMA OpenedOne ==
    ASSUME NEW d \in Delta
    PROVE  OpenedAll(<<d>>) = Opened(d)
<1>1. <<Role>> \o <<d>> = <<Role, d>>
  <2>1. <<Role>> \in Seq(Delta) /\ <<d>> \in Seq(Delta) /\ <<Role, d>> \in Seq(Delta)
    BY Deltas1
  <2>2. <<Role>> \o <<d>> \in Seq(Delta) /\ Len(<<Role>> \o <<d>>) = 2
    BY <2>1
  <2>3. (<<Role>> \o <<d>>)[1] = Role /\ (<<Role>> \o <<d>>)[2] = d
    BY <2>1
  <2> QED
    <3>1. \A i \in 1..2 : (<<Role>> \o <<d>>)[i] = <<Role, d>>[i]
      BY <2>3
    <3>2. Len(<<Role, d>>) = 2
      OBVIOUS
    <3> QED
      BY <2>1, <2>2, <3>1, <3>2, SeqEqual
<1>2. local.open \/ <<d>> = <<>> <=> local.open
  OBVIOUS
<1> QED
  BY <1>1, <1>2 DEF OpenedAll, Opened

-----------------------------------------------------------------------------
(* Types: the open block is one, because a role comes first                *)

TypedInv == TypeOK /\ RoleFirst

\* The locals of a generator that starts.
LEMMA FreshShape ==
    ASSUME Init
    PROVE  /\ DOMAIN local = DOMAIN FreshLocal
           /\ \A f \in Flags : local[f] \in BOOLEAN
           /\ ~local.open /\ ~local.replaced /\ ~local.needsReply
           /\ local.stage \in {"build", "open"} /\ local.body \cup local.refused \subseteq Retryable
           /\ local.request = {} /\ local.posts = 0 /\ local.called = {} /\ local.answered = {}
           /\ local.buffered = <<>>
<1>1. CASE local = FreshLocal
  BY <1>1 DEF FreshLocal, Flags
<1>2. CASE local \in UnsentLocals
  <2>1. \E optional \in SUBSET {"prompt_cache_key", "max_tokens"} : \E learned \in SUBSET Retryable :
           local = UnsentLocal(optional, learned)
    BY <1>2 DEF UnsentLocals
  <2>a. PICK optional \in SUBSET {"prompt_cache_key", "max_tokens"} :
              \E learned \in SUBSET Retryable : local = UnsentLocal(optional, learned)
    BY <2>1
  <2>b. PICK learned \in SUBSET Retryable : local = UnsentLocal(optional, learned)
    BY <2>a
  <2>2. /\ DOMAIN local = DOMAIN FreshLocal
        /\ local.stage = "build" /\ local.body = {"stream_options"} \cup optional /\ local.refused = learned
        /\ \A f \in DOMAIN FreshLocal \ {"stage", "body", "refused"} : local[f] = FreshLocal[f]
    BY <2>b DEF UnsentLocal, FreshLocal
  <2>3. local.body \cup local.refused \subseteq Retryable
    BY <2>2 DEF Retryable, Droppable
  <2> QED
    BY <2>2, <2>3, ZenonT(60) DEF FreshLocal, Flags
<1> QED
  BY <1>1, <1>2 DEF Init

LEMMA TypedInit == Init => TypedInv
<1> SUFFICES ASSUME Init PROVE TypedInv
  OBVIOUS
<1>1. events \in 0..MaxEvents
  BY MaxEventsAssumption DEF Init
<1>2. entry \in Entries /\ block \in Blocks /\ out \in Seq(Delta)
  BY DEF Init, Entries, Blocks
<1>3. TypeOK
  <2>1. shown \cup given \subseteq Calls /\ <<>> \in Seq(Calls)
    BY DEF Init
  <2>2. /\ \A f \in Flags : local[f] \in BOOLEAN
        /\ local.stage \in {"build", "posted", "open"} /\ local.request \subseteq Fields /\ local.posts \in Nat
        /\ local.answered \subseteq local.called /\ local.called \subseteq Calls
    BY FreshShape
  <2> QED
    BY <1>1, <1>2, <2>1, <2>2, FreshShape DEF Init, TypeOK
<1>4. RoleFirst
  BY FreshShape DEF Init, RoleFirst
<1> QED
  BY <1>3, <1>4 DEF TypedInv
LocalOK ==
    /\ DOMAIN local = DOMAIN FreshLocal
    /\ \A f \in Flags : local[f] \in BOOLEAN
    /\ local.stage \in {"build", "posted", "open"}
    /\ local.body \cup local.refused \subseteq Retryable
    /\ local.request \subseteq Fields
    /\ local.posts \in Nat
    /\ local.answered \subseteq local.called
    /\ local.called \subseteq Calls
    /\ local.buffered \in Seq(Calls)

-----------------------------------------------------------------------------
(* What the deltas of one event leave of the invariants.  A generator reads *)
(* when it has nothing left to yield, so the new deltas are all there is.   *)

\* Deltas of the reply: one block, opened if none is.
Plain(ds) == \A i \in 1..Len(ds) : ds[i].kind \in {"text", "blank", "thinking", "ha_calls"}

LEMMA PlainKeeps ==
    ASSUME TypeOK, RoleFirst, WholeReply, DifyKnows, NEW p, Reads(p),
           NEW ds \in Seq(Delta), Plain(ds), NEW then, Makes(OpenedAll(ds), then),
           local'.open <=> Opens(ds), local'.called = local.called, local'.answered = local.answered
    PROVE  /\ out' \in Seq(Delta) /\ RoleFirst' /\ WholeReply' /\ ResultsFollow' /\ DifyKnows'
           /\ ds # <<>> => Filled'
           /\ ds = <<>> /\ Filled => Filled'
<1>1. /\ out = <<>> /\ Streaming /\ Streaming' /\ out' = OpenedAll(ds) /\ events' = events + 1 /\ events \in Nat
      /\ preset' = preset /\ block' = block /\ shown' = shown /\ given' = given
  BY DEF Reads, Makes, log, Streaming, TypeOK
<1>2. out' \in Seq(Delta)
  BY <1>1, OpenedAllShape
<1>3. CASE local.open \/ ds = <<>>
  <2>1. out' = ds /\ (local'.open <=> local.open)
    BY <1>1, <1>3 DEF OpenedAll, Opens
  <2>2. \A i \in 1..Len(ds) : ~CarriesRole(ds[i].kind) /\ ds[i].kind \notin {"ext_call", "ext_result"}
    BY DEF Plain, CarriesRole
  <2>3. RoleFirst'
    BY <1>1, <1>3, <2>1 DEF RoleFirst
  <2>4. WholeReply'
    BY <1>1, <1>3, <2>1, <2>2 DEF WholeReply, Unspoken
  <2>5. ResultsFollow'
    BY <1>1, <2>1, <2>2, Kinds DEF ResultsFollow
  <2>6. DifyKnows'
    BY <1>1, <2>1, <2>2, Kinds DEF DifyKnows, Announced
  <2>7. ds # <<>> => Filled'
    BY <2>1 DEF Filled, Plain
  <2>8. ds = <<>> /\ Filled => Filled'
    BY <1>1, <2>1 DEF Filled
  <2> QED
    BY <1>2, <2>3, <2>4, <2>5, <2>6, <2>7, <2>8
<1>4. CASE ~local.open /\ ds # <<>>
  <2>1. /\ Len(out') = Len(ds) + 1 /\ out'[1] = Role /\ local'.open
        /\ \A i \in 1..Len(ds) : out'[i + 1] = ds[i]
        /\ DOMAIN out' = 1..Len(out')
    BY <1>1, <1>2, <1>4, OpenedAllShape DEF Opens
  <2>a. \A i \in 2..Len(out') : i - 1 \in 1..Len(ds) /\ out'[i] = ds[i - 1]
    <3> TAKE i \in 2..Len(out')
    <3>1. i - 1 \in 1..Len(ds) /\ (i - 1) + 1 = i
      BY <2>1
    <3> QED
      BY <2>1, <3>1
  <2>2. \A i \in 2..Len(out') : out'[i].kind \in {"text", "blank", "thinking", "ha_calls"}
    BY <2>a DEF Plain
  <2>3. \A i \in DOMAIN out' : out'[i].kind \notin {"ext_call", "ext_result"}
    BY <1>2, <2>1, <2>2, Kinds
  <2>4. \A i \in DOMAIN out' : CarriesRole(out'[i].kind) => i = 1
    BY <1>2, <2>2 DEF CarriesRole
  <2>5. RoleFirst'
    BY <1>1, <2>1, Kinds DEF RoleFirst, CarriesRole
  <2>6. preset \in OneBlock => "text" \notin block
    BY <1>1, <1>4 DEF WholeReply, Unspoken
  <2>7. WholeReply'
    BY <1>1, <2>1, <2>4, <2>6 DEF WholeReply, Unspoken
  <2>8. ResultsFollow'
    BY <1>1, <2>3, Kinds DEF ResultsFollow
  <2>9. DifyKnows'
    BY <1>1, <2>3, Kinds DEF DifyKnows, Announced
  <2>10. Filled'
    <3>1. out'[Len(out')] = ds[Len(ds)] /\ out' # <<>>
      BY <1>4, <2>1
    <3> QED
      BY <1>4, <3>1 DEF Filled, Plain
  <2> QED
    BY <1>2, <1>4, <2>5, <2>7, <2>8, <2>9, <2>10
<1> QED
  BY <1>3, <1>4
\* Tool activity of the backend, and perhaps the reply that opens a block after it.
ToolDeltas(acts) == \A i \in 1..Len(acts) : acts[i].kind \in {"ext_call", "ext_result"}

LEMMA ToolsKeep ==
    ASSUME TypeOK, RoleFirst, WholeReply, NEW p, Reads(p), preset \in OneBlock => ~local.open,
           NEW acts \in Seq(Delta), ToolDeltas(acts), NEW d \in Delta, d.kind \in {"text", "blank"},
           NEW tail \in {<<>>, <<Role, d>>}, acts \o tail # <<>>,
           NEW then, Makes(acts \o tail, then), local'.open <=> tail # <<>>,
           preset # "langgraph" =>
               \A i \in 1..Len(acts) : \A c \in Calls : acts[i] = ResultOf(c) =>
                   c \in shown \/ \E j \in 1..(i - 1) : acts[j] = CallOf(c)
    PROVE  /\ out' \in Seq(Delta) /\ RoleFirst' /\ WholeReply' /\ ResultsFollow'
           /\ tail # <<>> => Filled'
<1>1. /\ out = <<>> /\ Streaming /\ Streaming' /\ out' = acts \o tail /\ events' = events + 1 /\ events \in Nat
      /\ preset' = preset /\ block' = block /\ shown' = shown /\ given' = given
  BY DEF Reads, Makes, log, Streaming, TypeOK
<1>2. /\ tail \in Seq(Delta)
      /\ tail = <<>> => Len(tail) = 0
      /\ tail # <<>> => Len(tail) = 2 /\ tail[1] = Role /\ tail[2] = d
  <2>1. CASE tail = <<>>
    BY <2>1
  <2>2. CASE tail = <<Role, d>>
    BY <2>2, Deltas1
  <2> QED
    BY <2>1, <2>2
<1>3. out' \in Seq(Delta) /\ Len(out') = Len(acts) + Len(tail) /\ DOMAIN out' = 1..Len(out')
  BY <1>1, <1>2
<1>a. Len(acts) \in Nat
  OBVIOUS
<1>b. /\ tail = <<>> => Len(out') = Len(acts)
      /\ tail # <<>> => Len(out') = Len(acts) + 2
  <2>1. Len(out') = Len(acts) + Len(tail)
    BY <1>3
  <2>2. CASE tail = <<>>
    BY <1>a, <2>1, <2>2
  <2>3. CASE tail # <<>>
    <3>1. Len(tail) = 2
      BY <1>2, <2>3
    <3> QED
      BY <1>a, <2>1, <2>3, <3>1
  <2> QED
    BY <2>2, <2>3
<1>4. /\ \A i \in 1..Len(acts) : out'[i] = acts[i]
      /\ \A i \in (Len(acts) + 1)..Len(out') : out'[i] = tail[i - Len(acts)]
  BY <1>1, <1>2, <1>3
<1>5. tail # <<>> => /\ Len(out') = Len(acts) + 2
                     /\ out'[Len(acts) + 1] = Role /\ out'[Len(acts) + 2] = d
  <2> SUFFICES ASSUME tail # <<>>
               PROVE  /\ Len(out') = Len(acts) + 2 /\ out'[Len(acts) + 1] = Role /\ out'[Len(acts) + 2] = d
    OBVIOUS
  <2>1. Len(out') = Len(acts) + 2 /\ Len(acts) \in Nat
    BY <1>a, <1>b
  <2>2. out'[Len(acts) + 1] = tail[(Len(acts) + 1) - Len(acts)] /\ out'[Len(acts) + 2] = tail[(Len(acts) + 2) - Len(acts)]
    BY <1>4, <2>1
  <2>3. (Len(acts) + 1) - Len(acts) = 1 /\ (Len(acts) + 2) - Len(acts) = 2
    BY <2>1
  <2> QED
    BY <1>2, <2>1, <2>2, <2>3
<1>6. \A i \in 1..Len(out') : i <= Len(acts) \/ (tail # <<>> /\ (i = Len(acts) + 1 \/ i = Len(acts) + 2))
  BY <1>a, <1>b
<1>7. Len(out') >= 1 /\ CarriesRole(out'[1].kind)
  <2>1. CASE acts = <<>>
    BY <1>1, <1>5, <2>1, Kinds DEF CarriesRole
  <2>2. CASE acts # <<>>
    BY <1>3, <1>4, <2>2 DEF ToolDeltas, CarriesRole
  <2> QED
    BY <2>1, <2>2
<1>8. RoleFirst'
  BY <1>1, <1>7 DEF RoleFirst
<1>9. WholeReply'
  <2> SUFFICES ASSUME preset \in OneBlock PROVE WholeReply'
    BY <1>1 DEF WholeReply
  <2>1. "text" \notin block
    BY <1>1 DEF WholeReply, Unspoken
  <2>2. \A i \in 1..(Len(acts) + 1) : i \in 1..Len(out') => out'[i].kind # "text"
    BY <1>4, <1>5, <1>6, Kinds DEF ToolDeltas
  <2>3. \A i \in DOMAIN out' : CarriesRole(out'[i].kind) => i <= Len(acts) + 1
    BY <1>3, <1>5, <1>6 DEF CarriesRole
  <2>4. ~local'.open => \A i \in 1..Len(out') : out'[i].kind # "text"
    BY <1>6, <2>2
  <2> QED
    BY <1>1, <1>3, <2>1, <2>2, <2>3, <2>4 DEF WholeReply, Unspoken
<1>10. ResultsFollow'
  <2> SUFFICES ASSUME preset # "langgraph", NEW i \in DOMAIN out', NEW c \in Calls, out'[i] = ResultOf(c)
               PROVE  Announced(c, i - 1)'
    BY <1>1 DEF ResultsFollow
  <2>1. i \in 1..Len(acts)
    BY <1>3, <1>5, <1>6, Kinds
  <2>2. acts[i] = ResultOf(c)
    BY <1>4, <2>1
  <2>3. c \in shown \/ \E j \in 1..(i - 1) : acts[j] = CallOf(c)
    BY <2>1, <2>2
  <2> QED
    BY <1>1, <1>4, <2>1, <2>3 DEF Announced
<1>11. tail # <<>> => Filled'
  BY <1>5, <1>7 DEF Filled
<1> QED
  BY <1>3, <1>8, <1>9, <1>10, <1>11

-----------------------------------------------------------------------------
(* The steps of the generators                                             *)

StreamInv ==
    /\ TypeOK
    /\ RoleFirst
    /\ EndsFilled
    /\ ResultsFollow
    /\ DifyKnows
    /\ OnlyDifyReplaces
    /\ ReplacedAnswerUnspoken
    /\ WholeReply
    /\ Paid

\* No event after the stream is open touches the request, nor the books of any
\* preset but Dify.
SameRequest == local'.stage = local.stage /\ local'.posts = local.posts

SameBooks == local'.called = local.called /\ local'.answered = local.answered

LEMMA ReadKeeps ==
    ASSUME StreamInv, NEW p, Reads(p), NEW ds, NEW then \in {"read", "end", "raise"}, Makes(ds, then),
           LocalOK', SameRequest, out' \in Seq(Delta)
    PROVE  TypeOK' /\ Paid'
<1>1. events' \in 0..MaxEvents
  BY MaxEventsAssumption DEF StreamInv, TypeOK, Reads, Makes
<1>2. TypeOK'
  BY <1>1 DEF StreamInv, TypeOK, LocalOK, Reads, Makes, log
<1>3. Paid'
  BY DEF StreamInv, Paid, Reads, SameRequest
<1> QED
  BY <1>2, <1>3

\* An event of which only text, thinking or calls of Home Assistant's tools are made.
LEMMA PlainStep ==
    ASSUME StreamInv, NEW p, Reads(p), NEW ds \in Seq(Delta), Plain(ds),
           NEW then \in {"read", "end", "raise"}, Makes(OpenedAll(ds), then),
           LocalOK', SameRequest, SameBooks, local'.open <=> Opens(ds),
           local'.replaced => p = "dify" /\ \A i \in 1..Len(ds) : ds[i] # Text("answer"),
           \/ ds # <<>>
           \/ ds = <<>> /\ Filled
           \/ ReplyOwed'
    PROVE  StreamInv'
<1>1. /\ out' \in Seq(Delta) /\ RoleFirst' /\ WholeReply' /\ ResultsFollow' /\ DifyKnows'
      /\ ds # <<>> => Filled'
      /\ ds = <<>> /\ Filled => Filled'
  BY PlainKeeps DEF StreamInv, SameBooks
<1>2. TypeOK' /\ Paid'
  BY <1>1, ReadKeeps
<1>3. EndsFilled'
  BY <1>1 DEF EndsFilled
<1>4. OnlyDifyReplaces'
  BY DEF OnlyDifyReplaces, Reads, Makes
<1>5. ReplacedAnswerUnspoken'
  <2>1. out' = OpenedAll(ds)
    BY DEF Makes
  <2>2. \A i \in DOMAIN OpenedAll(ds) : OpenedAll(ds)[i] = Role \/ \E j \in 1..Len(ds) : OpenedAll(ds)[i] = ds[j]
    <3>1. CASE local.open \/ ds = <<>>
      BY <3>1 DEF OpenedAll
    <3>2. CASE ~(local.open \/ ds = <<>>)
      <4>1. OpenedAll(ds) = <<Role>> \o ds
        BY <3>2 DEF OpenedAll
      <4>2. DOMAIN OpenedAll(ds) = 1..(Len(ds) + 1) /\ Len(<<Role>>) = 1
        BY <4>1
      <4>3. ASSUME NEW i \in 1..(Len(ds) + 1) PROVE OpenedAll(ds)[i] = IF i = 1 THEN Role ELSE ds[i - 1]
        BY <4>1
      <4> QED
        BY <4>2, <4>3
    <3> QED
      BY <3>1, <3>2
  <2>3. Role # Text("answer")
    BY Kinds
  <2> QED
    BY <2>1, <2>2, <2>3 DEF ReplacedAnswerUnspoken
<1> QED
  BY <1>1, <1>2, <1>3, <1>4, <1>5 DEF StreamInv

\* An event that shows tool activity, and perhaps a reply after it.
LEMMA ToolsStep ==
    ASSUME StreamInv, NEW p, Reads(p), p \in OneBlock => ~local.open,
           NEW acts \in Seq(Delta), ToolDeltas(acts), NEW d \in Delta, d.kind \in {"text", "blank"},
           NEW tail \in {<<>>, <<Role, d>>}, acts \o tail # <<>>,
           NEW then \in {"read", "end", "raise"}, Makes(acts \o tail, then),
           LocalOK', SameRequest, local'.open <=> tail # <<>>,
           local'.replaced <=> local.replaced, p = "dify" => tail = <<>>,
           p # "langgraph" =>
               \A i \in 1..Len(acts) : \A c \in Calls : acts[i] = ResultOf(c) =>
                   c \in shown \/ \E j \in 1..(i - 1) : acts[j] = CallOf(c),
           DifyKnows',
           \/ tail # <<>>
           \/ ReplyOwed'
    PROVE  StreamInv'
<1>0. preset = p /\ preset' = p
  BY DEF Reads, Makes
<1>1. /\ out' \in Seq(Delta) /\ RoleFirst' /\ WholeReply' /\ ResultsFollow'
      /\ tail # <<>> => Filled'
  BY <1>0, ToolsKeep DEF StreamInv
<1>2. TypeOK' /\ Paid'
  BY <1>1, ReadKeeps
<1>3. EndsFilled'
  BY <1>1 DEF EndsFilled
<1>4. OnlyDifyReplaces'
  BY <1>0 DEF StreamInv, OnlyDifyReplaces
<1>5. ReplacedAnswerUnspoken'
  <2> SUFFICES ASSUME local'.replaced, NEW i \in DOMAIN out' PROVE out'[i] # Text("answer")
    BY DEF ReplacedAnswerUnspoken
  <2>1. tail = <<>>
    BY <1>0 DEF StreamInv, OnlyDifyReplaces
  <2>2. out' = acts
    BY <2>1 DEF Makes
  <2> QED
    BY <2>2, Kinds DEF ToolDeltas
<1> QED
  BY <1>1, <1>2, <1>3, <1>4, <1>5 DEF StreamInv

\* An event of which nothing is made, and one of which a single delta is.
LEMMA SilentStep ==
    ASSUME StreamInv, NEW p, Reads(p), NEW then \in {"read", "end", "raise"}, Makes(<<>>, then),
           LocalOK', SameRequest, SameBooks, local'.open <=> local.open,
           local'.replaced => p = "dify",
           Filled \/ ReplyOwed'
    PROVE  StreamInv'
<1> DEFINE ds == <<>>
<1>1. ds \in Seq(Delta) /\ Plain(ds) /\ OpenedAll(ds) = ds /\ (Opens(ds) <=> local.open)
  BY DEF Plain, OpenedAll, Opens
<1>2. Makes(OpenedAll(ds), then) /\ (local'.open <=> Opens(ds)) /\ Len(ds) = 0
  BY <1>1
<1>3. \A i \in 1..Len(ds) : ds[i] # Text("answer")
  BY <1>2
<1>4. ds = <<>>
  OBVIOUS
<1> HIDE DEF ds
<1> QED
  BY <1>1, <1>2, <1>3, <1>4, PlainStep

LEMMA OneStep ==
    ASSUME StreamInv, NEW p, Reads(p), NEW d \in Delta, d.kind \in {"text", "blank", "thinking", "ha_calls"},
           NEW then \in {"read", "end", "raise"}, Makes(Opened(d), then),
           LocalOK', SameRequest, SameBooks, local'.open,
           local'.replaced => p = "dify" /\ d # Text("answer")
    PROVE  StreamInv'
<1> DEFINE ds == <<d>>
<1>1. ds \in Seq(Delta) /\ Len(ds) = 1 /\ ds[1] = d /\ ds # <<>>
  OBVIOUS
<1>2. OpenedAll(ds) = Opened(d)
  BY OpenedOne
<1> HIDE DEF ds
<1>3. Plain(ds) /\ Makes(OpenedAll(ds), then) /\ (local'.open <=> Opens(ds))
  BY <1>1, <1>2 DEF Plain, Opens
<1>4. local'.replaced => p = "dify" /\ \A i \in 1..Len(ds) : ds[i] # Text("answer")
  BY <1>1
<1> QED
  BY <1>1, <1>3, <1>4, PlainStep

-----------------------------------------------------------------------------
(* Dify                                                                    *)

LEMMA DifyAnswerKeeps ==
    ASSUME StreamInv, NEW agent \in BOOLEAN, DifyAnswer(agent)
    PROVE  StreamInv'
<1>0. LocalOK /\ Reads("dify") /\ "answer" \in Origins /\ out = <<>> /\ Streaming /\ after = "read"
  BY DEF StreamInv, TypeOK, LocalOK, DifyAnswer, Origins, Reads, Streaming
<1>1. CASE local' = [local EXCEPT !.agentStreamed = @ \/ agent] /\ Makes(<<>>, "read")
  <2>1. LocalOK' /\ SameRequest /\ SameBooks /\ (local'.open <=> local.open) /\ (local'.replaced <=> local.replaced)
        /\ (local'.needsReply <=> local.needsReply)
    BY <1>0, <1>1 DEF LocalOK, FreshLocal, Flags, SameRequest, SameBooks
  <2>3. Filled \/ ReplyOwed'
    BY <1>0, <1>1, <2>1 DEF StreamInv, EndsFilled, ReplyOwed, Makes
  <2> QED
    BY <1>0, <1>1, <2>1, <2>3, SilentStep
<1>2. CASE ~(local.replaced \/ (~agent /\ local.agentStreamed))
  <2>1. PICK visible \in BOOLEAN, held \in BOOLEAN :
          /\ local' = [(IF visible THEN DifyOpened(TRUE) ELSE local) EXCEPT
                         !.spoke = @ \/ visible, !.held = held, !.agentStreamed = @ \/ agent]
          /\ Makes(IF visible THEN Opened(Text("answer")) ELSE <<>>, "read")
    BY <1>2 DEF DifyAnswer
  <2>2. LocalOK' /\ SameRequest /\ SameBooks /\ (local'.open <=> local.open \/ visible) /\ ~local'.replaced
        /\ (~visible => (local'.needsReply <=> local.needsReply))
    BY <1>0, <1>2, <2>1 DEF LocalOK, FreshLocal, Flags, SameRequest, SameBooks, DifyOpened
  <2>3. CASE visible
    BY <1>0, <2>1, <2>2, <2>3, Deltas1, Kinds, OneStep
  <2>4. CASE ~visible
    <3>1. Filled \/ ReplyOwed'
      BY <1>0, <2>1, <2>2, <2>4 DEF StreamInv, EndsFilled, ReplyOwed, Makes
    <3> QED
      BY <1>0, <2>1, <2>2, <2>4, <3>1, SilentStep
  <2> QED
    BY <2>3, <2>4
<1> QED
  BY <1>1, <1>2 DEF DifyAnswer
LEMMA DifyReasoningKeeps == ASSUME StreamInv, DifyReasoning PROVE StreamInv'
<1>0. LocalOK /\ Reads("dify") /\ Makes(Opened(Thinking), "read") /\ local' = DifyOpened(FALSE)
  BY DEF StreamInv, TypeOK, LocalOK, DifyReasoning
<1>1. LocalOK' /\ SameRequest /\ SameBooks /\ local'.open
  BY <1>0 DEF LocalOK, FreshLocal, Flags, SameRequest, SameBooks, DifyOpened
<1>2. Thinking # Text("answer")
  BY Kinds
<1> QED
  BY <1>0, <1>1, <1>2, Deltas1, Kinds, OneStep

LEMMA DifyPausedKeeps == ASSUME StreamInv, DifyPaused PROVE StreamInv'
<1>0. LocalOK /\ Reads("dify") /\ Makes(Opened(Text("notice")), "end") /\ local' = DifyOpened(TRUE)
  BY DEF StreamInv, TypeOK, LocalOK, DifyPaused
<1>1. LocalOK' /\ SameRequest /\ SameBooks /\ local'.open
  BY <1>0 DEF LocalOK, FreshLocal, Flags, SameRequest, SameBooks, DifyOpened
<1>2. Text("notice") \in Delta /\ Text("notice") # Text("answer")
  BY Deltas1, Kinds DEF Origins
<1> QED
  BY <1>0, <1>1, <1>2, Kinds, OneStep

LEMMA DifyReplaceKeeps ==
    ASSUME StreamInv, NEW answer \in BOOLEAN, DifyReplace(answer)
    PROVE  StreamInv'
<1>0. LocalOK /\ Reads("dify") /\ out = <<>> /\ Streaming /\ after = "read" /\ preset' = preset
  BY DEF StreamInv, TypeOK, LocalOK, DifyReplace, Reads, Streaming, Makes
<1>1. CASE ~local.spoke /\ answer
  <2>1. Makes(Opened(Text("replacement")), "read")
        /\ local' = [DifyOpened(TRUE) EXCEPT !.spoke = TRUE, !.replaced = TRUE]
    BY <1>1 DEF DifyReplace
  <2>2. LocalOK' /\ SameRequest /\ SameBooks /\ local'.open
    BY <1>0, <2>1 DEF LocalOK, FreshLocal, Flags, SameRequest, SameBooks, DifyOpened
  <2>3. Text("replacement") \in Delta /\ Text("replacement") # Text("answer")
    BY Deltas1, Kinds DEF Origins
  <2> QED
    BY <1>0, <2>1, <2>2, <2>3, Kinds, OneStep
<1>2. CASE ~(~local.spoke /\ answer)
  <2>1. Makes(<<>>, "read") /\ local' = [local EXCEPT !.replaced = TRUE]
    BY <1>2 DEF DifyReplace
  <2>2. LocalOK' /\ SameRequest /\ SameBooks /\ (local'.open <=> local.open) /\ (local'.needsReply <=> local.needsReply)
    BY <1>0, <2>1 DEF LocalOK, FreshLocal, Flags, SameRequest, SameBooks
  <2>3. Filled \/ ReplyOwed'
    BY <1>0, <2>1, <2>2 DEF StreamInv, EndsFilled, ReplyOwed, Makes
  <2> QED
    BY <1>0, <2>1, <2>2, <2>3, SilentStep
<1> QED
  BY <1>1, <1>2

LEMMA DifyMessageEndKeeps == ASSUME StreamInv, DifyMessageEnd PROVE StreamInv'
<1>0. LocalOK /\ Reads("dify") /\ out = <<>> /\ Streaming /\ after = "read" /\ preset' = preset
  BY DEF StreamInv, TypeOK, LocalOK, DifyMessageEnd, Reads, Streaming, Makes
<1>1. CASE local.held /\ ~local.replaced
  <2>1. PICK then \in {"read", "end", "raise"} : Makes(Opened(Text("answer")), then) /\ local' = DifyOpened(TRUE)
    BY <1>1 DEF DifyMessageEnd
  <2>2. LocalOK' /\ SameRequest /\ SameBooks /\ local'.open /\ ~local'.replaced
    BY <1>0, <1>1, <2>1 DEF LocalOK, FreshLocal, Flags, SameRequest, SameBooks, DifyOpened
  <2>3. Text("answer") \in Delta
    BY Deltas1 DEF Origins
  <2> QED
    BY <1>0, <2>1, <2>2, <2>3, Kinds, OneStep
<1>2. CASE ~(local.held /\ ~local.replaced)
  <2>1. Makes(<<>>, IF local.needsReply THEN "raise" ELSE "end") /\ local' = local
    BY <1>2 DEF DifyMessageEnd
  <2>2. LocalOK' /\ SameRequest /\ SameBooks /\ (local'.open <=> local.open)
    BY <1>0, <2>1 DEF LocalOK, SameRequest, SameBooks
  <2>3. Filled \/ ReplyOwed'
    BY <1>0, <2>1 DEF StreamInv, EndsFilled, ReplyOwed, Makes, Reads
  <2> QED
    BY <1>0, <2>1, <2>2, <2>3, SilentStep
<1> QED
  BY <1>1, <1>2

LEMMA ToolsOnlyStep ==
    ASSUME StreamInv, NEW p, Reads(p), p \notin OneBlock,
           NEW acts \in Seq(Delta), ToolDeltas(acts), acts # <<>>, Makes(acts, "read"),
           LocalOK', SameRequest, ~local'.open, local'.replaced <=> local.replaced, local'.needsReply,
           p \in {"dify", "langgraph"},
           p # "langgraph" =>
               \A i \in 1..Len(acts) : \A c \in Calls : acts[i] = ResultOf(c) =>
                   c \in shown \/ \E j \in 1..(i - 1) : acts[j] = CallOf(c),
           DifyKnows'
    PROVE  StreamInv'
<1> DEFINE d == Text("answer")
           tail == <<>>
<1>1. d \in Delta /\ d.kind \in {"text", "blank"} /\ tail \in {<<>>, <<Role, d>>}
  BY Deltas1, Kinds DEF Origins
<1>2. acts \o tail = acts
  OBVIOUS
<1>3. ReplyOwed'
  BY DEF ReplyOwed, Reads, Makes
<1>4. tail = <<>>
  OBVIOUS
<1> HIDE DEF d, tail
<1> QED
  BY <1>1, <1>2, <1>3, <1>4, ToolsStep

\* The places in a sequence of one or two deltas.
LEMMA OneOrTwo ==
    ASSUME NEW n, n = 1 \/ n = 2
    PROVE  \A i \in 1..n : i = 1 \/ (i = 2 /\ n = 2)
OBVIOUS

\* The deltas of one activity: a call that was not announced, then a result that
\* was not given, or only one of them.
LEMMA DifyToolKeeps ==
    ASSUME StreamInv, NEW c \in Calls, NEW args \in BOOLEAN, NEW result \in BOOLEAN, DifyTool(c, args, result)
    PROVE  StreamInv'
<1> DEFINE call == c \notin local.called /\ (args \/ result)
           gives == c \notin local.answered /\ result
           calls == IF call THEN <<CallOf(c)>> ELSE <<>>
           results == IF gives THEN <<ResultOf(c)>> ELSE <<>>
           acts == calls \o results
<1>0. /\ LocalOK /\ Reads("dify") /\ preset = "dify" /\ preset' = preset /\ out = <<>> /\ Streaming /\ after = "read"
      /\ shown' = shown /\ given' = given
  BY DEF StreamInv, TypeOK, LocalOK, DifyTool, Reads, Streaming, Makes, log
<1>1. CallOf(c) \in Delta /\ ResultOf(c) \in Delta
  BY Deltas1
<1>2. calls = <<>> <=> ~call
  OBVIOUS
<1>3. results = <<>> <=> ~gives
  OBVIOUS
<1>4. /\ local' = [local EXCEPT !.called = IF calls = <<>> THEN @ ELSE @ \cup {c},
                                !.answered = IF results = <<>> THEN @ ELSE @ \cup {c},
                                !.open = @ /\ acts = <<>>,
                                !.needsReply = @ \/ acts # <<>>]
      /\ Makes(acts, "read")
  BY DEF DifyTool
<1>5. CASE ~call /\ ~gives
  <2>1. acts = <<>>
    BY <1>5
  <2>2. LocalOK' /\ SameRequest /\ SameBooks /\ (local'.open <=> local.open) /\ (local'.replaced <=> local.replaced)
        /\ (local'.needsReply <=> local.needsReply)
    BY <1>0, <1>2, <1>3, <1>4, <1>5, <2>1 DEF LocalOK, FreshLocal, Flags, SameRequest, SameBooks
  <2>3. Filled \/ ReplyOwed'
    BY <1>0, <1>4, <2>1, <2>2 DEF StreamInv, EndsFilled, ReplyOwed, Makes
  <2> QED
    BY <1>0, <1>4, <2>1, <2>2, <2>3, SilentStep
<1>6. CASE call \/ gives
  <2>1. /\ call /\ gives => acts = <<CallOf(c), ResultOf(c)>>
        /\ call /\ ~gives => acts = <<CallOf(c)>>
        /\ ~call /\ gives => acts = <<ResultOf(c)>>
    <3>1. <<CallOf(c)>> \in Seq(Delta) /\ <<ResultOf(c)>> \in Seq(Delta) /\ <<CallOf(c), ResultOf(c)>> \in Seq(Delta)
      BY <1>1
    <3>2. <<CallOf(c)>> \o <<ResultOf(c)>> = <<CallOf(c), ResultOf(c)>>
      <4>1. <<CallOf(c)>> \o <<ResultOf(c)>> \in Seq(Delta) /\ Len(<<CallOf(c)>> \o <<ResultOf(c)>>) = 2
        BY <3>1
      <4>2. \A i \in 1..2 : (<<CallOf(c)>> \o <<ResultOf(c)>>)[i] = <<CallOf(c), ResultOf(c)>>[i]
        BY <3>1
      <4>3. Len(<<CallOf(c), ResultOf(c)>>) = 2
        OBVIOUS
      <4> QED
        BY <3>1, <4>1, <4>2, <4>3, SeqEqual
    <3>3. <<CallOf(c)>> \o <<>> = <<CallOf(c)>> /\ <<>> \o <<ResultOf(c)>> = <<ResultOf(c)>>
      BY <3>1, ConcatEmptySeq
    <3> QED
      BY <3>2, <3>3
  <2>2. /\ acts \in Seq(Delta)
        /\ Len(acts) \in {1, 2} /\ (Len(acts) = 2 <=> call /\ gives)
        /\ acts[1] = IF call THEN CallOf(c) ELSE ResultOf(c)
        /\ Len(acts) = 2 => acts[2] = ResultOf(c)
        /\ acts # <<>>
    <3>1. CASE call /\ gives
      BY <1>1, <2>1, <3>1
    <3>2. CASE call /\ ~gives
      BY <1>1, <2>1, <3>2
    <3>3. CASE ~call /\ gives
      BY <1>1, <2>1, <3>3
    <3> QED
      BY <1>6, <3>1, <3>2, <3>3
  <2> HIDE DEF acts, calls, results
  <2>3. /\ LocalOK' /\ SameRequest /\ ~local'.open /\ (local'.replaced <=> local.replaced) /\ local'.needsReply
    BY <1>0, <1>2, <1>3, <1>4, <2>2 DEF LocalOK, FreshLocal, Flags, SameRequest
  <2>4. /\ local'.called = IF call THEN local.called \cup {c} ELSE local.called
        /\ local'.answered = IF gives THEN local.answered \cup {c} ELSE local.answered
    BY <1>0, <1>2, <1>3, <1>4 DEF LocalOK, FreshLocal
  <2>5. \A i \in 1..Len(acts) : i = 1 \/ (i = 2 /\ Len(acts) = 2)
    <3>1. Len(acts) = 1 \/ Len(acts) = 2
      BY <2>2
    <3> QED
      BY <3>1, OneOrTwo
  <2>6. ToolDeltas(acts)
    BY <2>2, <2>5, Kinds DEF ToolDeltas
  <2>7. local.called \subseteq shown
    BY <1>0 DEF StreamInv, DifyKnows, Announced
  <2>8. \A i \in 1..Len(acts) : \A e \in Calls : acts[i] = ResultOf(e) =>
            e \in shown \/ \E j \in 1..(i - 1) : acts[j] = CallOf(e)
    <3> SUFFICES ASSUME NEW i \in 1..Len(acts), NEW e \in Calls, acts[i] = ResultOf(e), e \notin shown
                 PROVE  \E j \in 1..(i - 1) : acts[j] = CallOf(e)
      OBVIOUS
    <3>1. e = c /\ gives
      BY <1>6, <2>2, <2>5, Kinds
    <3>2. call
      BY <2>7, <3>1
    <3>3. i = 2 /\ acts[1] = CallOf(e)
      BY <2>2, <2>5, <3>1, <3>2, Kinds
    <3> QED
      BY <3>3
  <2>9. DifyKnows'
    <3>1. out' = acts /\ DOMAIN acts = 1..Len(acts)
      BY <1>4, <2>2 DEF Makes
    <3>2. shown \subseteq local.called /\ given \subseteq local.answered
      BY <1>0 DEF StreamInv, DifyKnows
    <3>3. shown' \subseteq local'.called /\ given' \subseteq local'.answered
      BY <1>0, <2>4, <3>2
    <3>4. \A e \in local'.called : Announced(e, Len(out))'
      <4>1. call => acts[1] = CallOf(c) /\ 1 \in 1..Len(acts)
        BY <2>2
      <4> QED
        BY <1>0, <2>4, <2>7, <3>1, <4>1 DEF Announced
    <3>5. ASSUME NEW i \in 1..Len(acts), NEW e \in Calls
          PROVE  /\ acts[i] = CallOf(e) => e \in local'.called \ shown
                 /\ acts[i] = ResultOf(e) => e \in local'.answered \ given
                 /\ \A j \in 1..(i - 1) : acts[j] = acts[i] => acts[i].kind \notin {"ext_call", "ext_result"}
      <4>1. call => c \in local'.called \ shown
        BY <2>4, <3>2
      <4>2. gives => c \in local'.answered \ given
        BY <2>4, <3>2
      <4>3. acts[i] = CallOf(e) => e = c /\ call
        BY <1>6, <2>2, <2>5, Kinds
      <4>4. acts[i] = ResultOf(e) => e = c /\ gives
        BY <1>6, <2>2, <2>5, Kinds
      <4>5. \A j \in 1..(i - 1) : acts[j].kind # acts[i].kind
        <5> TAKE j \in 1..(i - 1)
        <5>1. j = 1 /\ i = 2 /\ Len(acts) = 2
          BY <2>5
        <5> QED
          BY <2>2, <5>1, Kinds
      <4> QED
        BY <4>1, <4>2, <4>3, <4>4, <4>5
    <3> QED
      BY <1>0, <3>1, <3>3, <3>4, <3>5 DEF DifyKnows
  <2> QED
    BY <1>0, <1>4, <2>2, <2>3, <2>6, <2>8, <2>9, ToolsOnlyStep DEF OneBlock
<1> QED
  BY <1>5, <1>6
-----------------------------------------------------------------------------
(* LangGraph                                                               *)

LEMMA LangGraphTextKeeps == ASSUME StreamInv, LangGraphText PROVE StreamInv'
<1>0. LocalOK /\ Reads("langgraph") /\ Makes(Opened(Text("answer")), "read")
      /\ local' = [local EXCEPT !.open = TRUE, !.needsReply = FALSE] /\ ~local.replaced
  BY DEF StreamInv, TypeOK, LocalOK, LangGraphText, OnlyDifyReplaces, Reads
<1>1. LocalOK' /\ SameRequest /\ SameBooks /\ local'.open /\ ~local'.replaced
  BY <1>0 DEF LocalOK, FreshLocal, Flags, SameRequest, SameBooks
<1>2. Text("answer") \in Delta
  BY Deltas1 DEF Origins
<1> QED
  BY <1>0, <1>1, <1>2, Kinds, OneStep

LEMMA LangGraphEndKeeps == ASSUME StreamInv, LangGraphEnd PROVE StreamInv'
<1>0. LocalOK /\ Reads("langgraph") /\ Makes(<<>>, IF local.needsReply THEN "raise" ELSE "end")
      /\ local' = local /\ ~local.replaced /\ preset = "langgraph" /\ Streaming /\ after = "read"
  BY DEF StreamInv, TypeOK, LocalOK, LangGraphEnd, OnlyDifyReplaces, Reads, Streaming
<1>1. LocalOK' /\ SameRequest /\ SameBooks /\ (local'.open <=> local.open)
  BY <1>0 DEF LocalOK, SameRequest, SameBooks
<1>2. Filled \/ ReplyOwed'
  BY <1>0 DEF StreamInv, EndsFilled, ReplyOwed, Makes
<1> QED
  BY <1>0, <1>1, <1>2, SilentStep

\* The calls or the results of one frame.
LEMMA ListedDeltas ==
    ASSUME NEW cs \in Seq(Calls)
    PROVE  /\ [i \in DOMAIN cs |-> CallOf(cs[i])] \in Seq(Delta)
           /\ Len([i \in DOMAIN cs |-> CallOf(cs[i])]) = Len(cs)
           /\ ToolDeltas([i \in DOMAIN cs |-> CallOf(cs[i])])
           /\ [i \in DOMAIN cs |-> ResultOf(cs[i])] \in Seq(Delta)
           /\ Len([i \in DOMAIN cs |-> ResultOf(cs[i])]) = Len(cs)
           /\ ToolDeltas([i \in DOMAIN cs |-> ResultOf(cs[i])])
<1>1. DOMAIN cs = 1..Len(cs) /\ Len(cs) \in Nat /\ \A i \in 1..Len(cs) : cs[i] \in Calls
  OBVIOUS
<1>2. [i \in DOMAIN cs |-> CallOf(cs[i])] \in [1..Len(cs) -> Delta]
  BY <1>1, Deltas1
<1>3. [i \in DOMAIN cs |-> ResultOf(cs[i])] \in [1..Len(cs) -> Delta]
  BY <1>1, Deltas1
<1>4. \A i \in 1..Len(cs) : /\ [k \in DOMAIN cs |-> CallOf(cs[k])][i].kind = "ext_call"
                            /\ [k \in DOMAIN cs |-> ResultOf(cs[k])][i].kind = "ext_result"
  BY <1>1, Kinds
<1> QED
  BY <1>1, <1>2, <1>3, <1>4 DEF ToolDeltas

LEMMA LangGraphUpdateKeeps ==
    ASSUME StreamInv, NEW calls \in Lists, NEW results \in Lists, NEW interrupt \in BOOLEAN,
           LangGraphUpdate(calls, results, interrupt)
    PROVE  StreamInv'
<1> DEFINE tools == calls \o results # <<>>
           callsOut == [i \in DOMAIN calls |-> CallOf(calls[i])]
           resultsOut == [i \in DOMAIN results |-> ResultOf(results[i])]
           acts == callsOut \o resultsOut
           question == IF local.open /\ ~tools THEN <<Text("notice")>> ELSE <<Role, Text("notice")>>
           tail == IF interrupt THEN question ELSE <<>>
           d == Text("notice")
<1>0. /\ LocalOK /\ Reads("langgraph") /\ preset = "langgraph" /\ Streaming /\ after = "read" /\ ~local.replaced
      /\ local' = [local EXCEPT !.open = interrupt \/ (@ /\ ~tools), !.needsReply = ~interrupt /\ (@ \/ tools)]
      /\ Makes(acts \o tail, "read")
  BY DEF StreamInv, TypeOK, LocalOK, LangGraphUpdate, OnlyDifyReplaces, Reads, Streaming
<1>1. calls \in Seq(Calls) /\ results \in Seq(Calls)
  BY ListType
<1>2. callsOut \in Seq(Delta) /\ resultsOut \in Seq(Delta) /\ Len(callsOut) = Len(calls) /\ Len(resultsOut) = Len(results)
      /\ ToolDeltas(callsOut) /\ ToolDeltas(resultsOut)
  BY <1>1, ListedDeltas
<1>3. tools <=> acts # <<>>
  <2>1. Len(calls \o results) = Len(calls) + Len(results) /\ calls \o results \in Seq(Calls)
    BY <1>1
  <2> HIDE DEF callsOut, resultsOut
  <2>2. Len(acts) = Len(calls) + Len(results) /\ acts \in Seq(Delta)
    BY <1>2
  <2> QED
    BY <1>1, <2>1, <2>2
<1>4. ToolDeltas(acts) /\ acts \in Seq(Delta)
  <2> HIDE DEF callsOut, resultsOut
  <2> QED
    BY <1>2 DEF ToolDeltas
<1>5. d \in Delta /\ d.kind = "text" /\ d # Text("answer")
  BY Deltas1, Kinds DEF Origins
<1>6. /\ LocalOK' /\ SameRequest /\ SameBooks /\ ~local'.replaced
      /\ (local'.open <=> interrupt \/ (local.open /\ ~tools))
      /\ (local'.needsReply <=> ~interrupt /\ (local.needsReply \/ tools))
  <2> HIDE DEF tools, acts, tail
  <2> QED
    BY <1>0, <1>3 DEF LocalOK, FreshLocal, Flags, SameRequest, SameBooks
<1> HIDE DEF acts, d
<1>7. CASE tools
  <2>1. tail = IF interrupt THEN <<Role, d>> ELSE <<>>
    BY <1>7 DEF d
  <2>2. DifyKnows'
    BY <1>0 DEF DifyKnows, Makes
  <2>3. acts \o tail # <<>>
    <3>1. acts # <<>> /\ tail \in Seq(Delta)
      BY <1>3, <1>5, <1>7, <2>1, Deltas1
    <3> HIDE DEF tail
    <3> QED
      BY <1>4, <3>1
  <2>4. tail # <<>> \/ ReplyOwed'
    BY <1>0, <1>6, <1>7, <2>1 DEF ReplyOwed, Makes
  <2>5. (local'.open <=> tail # <<>>) /\ tail \in {<<>>, <<Role, d>>}
    BY <1>6, <1>7, <2>1
  <2>6. (local'.replaced <=> local.replaced) /\ d.kind \in {"text", "blank"}
    BY <1>0, <1>5, <1>6
  <2>7. "langgraph" \in OneBlock => ~local.open
    BY DEF OneBlock
  <2> HIDE DEF tail, tools
  <2>9. Reads("langgraph") /\ Makes(acts \o tail, "read")
    BY <1>0
  <2>10. LocalOK' /\ SameRequest
    BY <1>6
  <2>11. d \in Delta /\ ToolDeltas(acts) /\ acts \in Seq(Delta)
    BY <1>4, <1>5
  <2> QED
    <3> DEFINE q == "langgraph"
               r == "read"
    <3>1. Reads(q) /\ Makes(acts \o tail, r) /\ r \in {"read", "end", "raise"} /\ q = "langgraph" /\ q # "dify"
      BY <2>9
    <3>2. q \in OneBlock => ~local.open
      BY <2>7
    <3>3. q = "dify" => tail = <<>>
      BY <3>1
    <3>4. q # "langgraph" =>
               \A i \in 1..Len(acts) : \A c \in Calls : acts[i] = ResultOf(c) =>
                   c \in shown \/ \E j \in 1..(i - 1) : acts[j] = CallOf(c)
      BY <3>1
    <3>5. d.kind \in {"text", "blank"}
      BY <2>6
    <3>6. tail \in {<<>>, <<Role, d>>} /\ (local'.open <=> tail # <<>>) /\ (local'.replaced <=> local.replaced)
      BY <2>5, <2>6
    <3> HIDE DEF q, r, callsOut, resultsOut, question
    <3> QED
      BY <2>2, <2>3, <2>4, <2>10, <2>11, <3>1, <3>2, <3>3, <3>4, <3>5, <3>6, ToolsStep
<1>8. CASE ~tools
  <2>1. acts = <<>>
    BY <1>3, <1>8
  <2>2. CASE interrupt
    <3>1. tail = Opened(d)
      BY <1>8, <2>2 DEF Opened, d
    <3>2. Makes(Opened(d), "read")
      <4>1. Opened(d) \in Seq(Delta)
        BY <1>5, OpenedShape
      <4>2. acts \o tail = Opened(d)
        BY <2>1, <3>1, <4>1
      <4> QED
        BY <1>0, <4>2
    <3> QED
      BY <1>0, <1>5, <1>6, <2>2, <3>2, OneStep
  <2>3. CASE ~interrupt
    <3>1. Makes(<<>>, "read")
      <4>1. acts \o tail = <<>>
        BY <2>1, <2>3
      <4> QED
        BY <1>0, <4>1
    <3>2. Filled \/ ReplyOwed'
      BY <1>0, <1>6, <1>8, <2>3 DEF StreamInv, EndsFilled, ReplyOwed, Makes
    <3>3. local'.open <=> local.open
      BY <1>6, <1>8, <2>3
    <3> QED
      BY <1>0, <1>6, <3>1, <3>2, <3>3, SilentStep
  <2> QED
    BY <2>2, <2>3
<1> QED
  BY <1>7, <1>8

-----------------------------------------------------------------------------
(* n8n and Converse                                                        *)

\* The reply of a workflow or an agent, after the activity of its tools.
LEMMA ReplyStep ==
    ASSUME StreamInv, NEW p \in {"n8n", "converse"}, Reads(p), ~local.open,
           NEW cs \in Seq(Calls), NEW d \in Delta, d.kind \in {"text", "blank"},
           NEW then \in {"read", "end", "raise"}, Makes(Activity(cs) \o <<Role, d>>, then),
           LocalOK', SameRequest, local'.open, local'.replaced <=> local.replaced
    PROVE  StreamInv'
<1> DEFINE acts == Activity(cs)
           tail == <<Role, d>>
<1>1. acts \in Seq(Delta) /\ Len(acts) = 2 * Len(cs) /\ ToolDeltas(acts)
  BY ActivityType DEF ToolDeltas
<1>2. ASSUME NEW i \in 1..Len(acts), NEW c \in Calls, acts[i] = ResultOf(c)
      PROVE  \E j \in 1..(i - 1) : acts[j] = CallOf(c)
  <2>1. i \in 1..(2 * Len(cs))
    BY <1>1
  <2>2. i - 1 \in 1..(2 * Len(cs)) /\ acts[i - 1] = CallOf(c)
    BY <1>2, <2>1, ActivityOrder
  <2> QED
    BY <2>1, <2>2
<1>3. tail \in Seq(Delta) /\ tail \in {<<>>, <<Role, d>>} /\ tail # <<>>
  BY Deltas1
<1>4. acts \o tail # <<>> /\ Makes(acts \o tail, then)
  <2> HIDE DEF acts, tail
  <2>1. acts \o tail # <<>>
    BY <1>1, <1>3
  <2> QED
    BY <2>1 DEF acts, tail
<1>5. p \in OneBlock /\ p \notin {"dify", "langgraph"}
  BY DEF OneBlock
<1>6. DifyKnows'
  BY <1>5 DEF DifyKnows, Reads, Makes
<1> HIDE DEF acts, tail
<1> QED
  BY <1>1, <1>2, <1>3, <1>4, <1>5, <1>6, ToolsStep

\* These presets never owe a reply when they read, and replace none.
LEMMA NothingOwed ==
    ASSUME StreamInv, NEW p \in {"n8n", "converse", "openai", "ollama"}, Reads(p)
    PROVE  Filled /\ ~local.replaced /\ LocalOK
BY DEF StreamInv, EndsFilled, ReplyOwed, OnlyDifyReplaces, Reads, Streaming, TypeOK, LocalOK

LEMMA N8nTextKeeps == ASSUME StreamInv, N8nText PROVE StreamInv'
<1>0. Reads("n8n") /\ local' = [local EXCEPT !.open = TRUE] /\ Makes(<<Role, Text("answer")>>, "end") /\ ~local.open
  BY DEF StreamInv, N8nText, WholeReply, OneBlock, Reads, Streaming
<1>1. LocalOK' /\ SameRequest /\ SameBooks /\ local'.open /\ ~local'.replaced
  BY <1>0, NothingOwed DEF LocalOK, FreshLocal, Flags, SameRequest, SameBooks
<1>2. Text("answer") \in Delta /\ Opened(Text("answer")) = <<Role, Text("answer")>>
  BY <1>0, Deltas1 DEF Origins, Opened
<1> QED
  BY <1>0, <1>1, <1>2, Kinds, OneStep

LEMMA N8nBlockingKeeps ==
    ASSUME StreamInv, NEW steps \in Lists, NEW reply \in N8nReplies, N8nBlocking(steps, reply)
    PROVE  StreamInv'
<1>0. /\ Reads("n8n") /\ local' = [local EXCEPT !.open = TRUE] /\ ~local.open
      /\ Makes(Activity(steps) \o <<Role, reply>>, "end")
  BY DEF StreamInv, N8nBlocking, WholeReply, OneBlock, Reads, Streaming
<1>1. LocalOK' /\ SameRequest /\ local'.open /\ (local'.replaced <=> local.replaced)
  BY <1>0, NothingOwed DEF LocalOK, FreshLocal, Flags, SameRequest
<1>2. steps \in Seq(Calls)
  BY ListType
<1>3. reply \in Delta /\ reply.kind \in {"text", "blank"}
  BY Deltas1, Kinds DEF Origins, N8nReplies
<1> DEFINE q == "n8n"
           then == "end"
<1>4. Reads(q) /\ q \in {"n8n", "converse"} /\ Makes(Activity(steps) \o <<Role, reply>>, then) /\ then \in {"read", "end", "raise"}
  BY <1>0
<1> HIDE DEF q, then
<1> QED
  BY <1>0, <1>1, <1>2, <1>3, <1>4, ReplyStep

LEMMA N8nItemKeeps == ASSUME StreamInv, NEW reply \in N8nReplies, N8nItem(reply) PROVE StreamInv'
<1>1. PICK d \in Delta : d.kind \in {"text", "blank"} /\ Makes(Opened(d), "read")
  <2>1. /\ reply \in Delta /\ reply.kind \in {"text", "blank"}
        /\ Text("separated") \in Delta /\ Text("separated").kind \in {"text", "blank"}
    BY Deltas1, Kinds DEF Origins, N8nReplies
  <2> QED
    BY <2>1 DEF N8nItem
<1>2. Reads("n8n") /\ local' = [local EXCEPT !.open = TRUE, !.separate = FALSE]
  BY DEF N8nItem
<1>3. LocalOK' /\ SameRequest /\ SameBooks /\ local'.open /\ ~local'.replaced
  BY <1>2, NothingOwed DEF LocalOK, FreshLocal, Flags, SameRequest, SameBooks
<1> QED
  BY <1>1, <1>2, <1>3, Deltas1, Kinds, OneStep

LEMMA N8nSegmentEndKeeps == ASSUME StreamInv, N8nSegmentEnd PROVE StreamInv'
<1>1. Reads("n8n") /\ local' = [local EXCEPT !.separate = local.open] /\ Makes(<<>>, "read")
  BY DEF N8nSegmentEnd
<1>2. LocalOK' /\ SameRequest /\ SameBooks /\ (local'.open <=> local.open) /\ ~local'.replaced
  BY <1>1, NothingOwed DEF LocalOK, FreshLocal, Flags, SameRequest, SameBooks
<1> QED
  BY <1>1, <1>2, NothingOwed, SilentStep

LEMMA N8nEofKeeps == ASSUME StreamInv, N8nEof PROVE StreamInv'
<1>1. Reads("n8n") /\ local' = local /\ Makes(<<>>, IF local.open THEN "end" ELSE "raise")
  BY DEF N8nEof
<1>2. LocalOK' /\ SameRequest /\ SameBooks /\ (local'.open <=> local.open) /\ ~local'.replaced
  BY <1>1, NothingOwed DEF LocalOK, SameRequest, SameBooks
<1> QED
  BY <1>1, <1>2, NothingOwed, SilentStep

LEMMA ConverseTextKeeps == ASSUME StreamInv, ConverseText PROVE StreamInv'
<1>0. /\ Reads("converse") /\ local' = [local EXCEPT !.open = TRUE, !.buffered = <<>>] /\ LocalOK
      /\ Makes((IF local.open THEN <<>> ELSE Activity(local.buffered)) \o Opened(Text("answer")), "read")
  BY NothingOwed DEF ConverseText
<1>1. LocalOK' /\ SameRequest /\ SameBooks /\ local'.open /\ (local'.replaced <=> local.replaced) /\ ~local'.replaced
  BY <1>0, NothingOwed DEF LocalOK, FreshLocal, Flags, SameRequest, SameBooks
<1>2. Text("answer") \in Delta /\ Text("answer").kind = "text" /\ local.buffered \in Seq(Calls)
  BY <1>0, Deltas1, Kinds DEF Origins, LocalOK
<1> DEFINE d == Text("answer")
<1>3. CASE local.open
  <2>1. Opened(d) \in Seq(Delta)
    BY <1>2, OpenedShape
  <2>2. <<>> \o Opened(d) = Opened(d)
    BY <2>1, ConcatEmptySeq
  <2> QED
    BY <1>0, <1>1, <1>2, <1>3, <2>2, OneStep
<1>4. CASE ~local.open
  <2> DEFINE q == "converse"
             then == "read"
  <2>1. Makes(Activity(local.buffered) \o <<Role, d>>, then)
    BY <1>0, <1>4 DEF Opened
  <2>2. Reads(q) /\ q \in {"n8n", "converse"} /\ then \in {"read", "end", "raise"} /\ d.kind \in {"text", "blank"}
    BY <1>0, <1>2
  <2> HIDE DEF q, then, d
  <2> QED
    BY <1>1, <1>2, <1>4, <2>1, <2>2, ReplyStep DEF d
<1> QED
  BY <1>3, <1>4

LEMMA ConverseToolKeeps == ASSUME StreamInv, NEW c \in Calls, ConverseTool(c) PROVE StreamInv'
<1>1. /\ Reads("converse") /\ local' = [local EXCEPT !.buffered = IF local.open THEN @ ELSE Append(@, c)]
      /\ Makes(<<>>, "read") /\ LocalOK
  BY NothingOwed DEF ConverseTool
<1>2. Append(local.buffered, c) \in Seq(Calls)
  BY <1>1 DEF LocalOK
<1>3. LocalOK' /\ SameRequest /\ SameBooks /\ (local'.open <=> local.open) /\ ~local'.replaced
  BY <1>1, <1>2, NothingOwed DEF LocalOK, FreshLocal, Flags, SameRequest, SameBooks
<1> QED
  BY <1>1, <1>3, NothingOwed, SilentStep

LEMMA ConverseDoneKeeps == ASSUME StreamInv, NEW text \in BOOLEAN, ConverseDone(text) PROVE StreamInv'
<1>0. Reads("converse") /\ LocalOK /\ local.buffered \in Seq(Calls)
  BY NothingOwed DEF ConverseDone, LocalOK
<1>1. CASE ~local.open /\ text
  <2> DEFINE q == "converse"
             then == "end"
             d == Text("answer")
  <2>1. local' = [local EXCEPT !.open = TRUE, !.buffered = <<>>] /\ Makes(Activity(local.buffered) \o <<Role, d>>, then)
    BY <1>1 DEF ConverseDone
  <2>2. LocalOK' /\ SameRequest /\ local'.open /\ (local'.replaced <=> local.replaced)
    BY <1>0, <2>1, NothingOwed DEF LocalOK, FreshLocal, Flags, SameRequest
  <2>3. Reads(q) /\ q \in {"n8n", "converse"} /\ then \in {"read", "end", "raise"}
    BY <1>0
  <2>4. d \in Delta /\ d.kind = "text"
    BY Deltas1, Kinds DEF Origins
  <2> HIDE DEF q, then, d
  <2> QED
    BY <1>0, <1>1, <2>1, <2>2, <2>3, <2>4, ReplyStep
<1>2. CASE ~(~local.open /\ text)
  <2>1. Makes(<<>>, "end") /\ local' = local
    BY <1>2 DEF ConverseDone
  <2>2. LocalOK' /\ SameRequest /\ SameBooks /\ (local'.open <=> local.open) /\ ~local'.replaced
    BY <1>0, <2>1, NothingOwed DEF LocalOK, SameRequest, SameBooks
  <2> QED
    BY <1>0, <2>1, <2>2, NothingOwed, SilentStep
<1> QED
  BY <1>1, <1>2

-----------------------------------------------------------------------------
(* OpenAI's and Ollama's stream                                            *)

LEMMA KindsJoined ==
    ASSUME NEW K, NEW a \in Seq(Delta), NEW b \in Seq(Delta),
           \A i \in 1..Len(a) : a[i].kind \in K, \A i \in 1..Len(b) : b[i].kind \in K
    PROVE  a \o b \in Seq(Delta) /\ \A i \in 1..Len(a \o b) : (a \o b)[i].kind \in K
<1>1. a \o b \in Seq(Delta) /\ Len(a \o b) = Len(a) + Len(b)
  OBVIOUS
<1>2. ASSUME NEW i \in 1..Len(a \o b) PROVE (a \o b)[i].kind \in K
  <2>1. CASE i <= Len(a)
    BY <2>1
  <2>2. CASE i > Len(a)
    <3>1. i - Len(a) \in 1..Len(b) /\ (a \o b)[i] = b[i - Len(a)]
      BY <1>1, <2>2
    <3> QED
      BY <3>1
  <2> QED
    BY <2>1, <2>2
<1> QED
  BY <1>1, <1>2

LEMMA IfThenKind ==
    ASSUME NEW b \in BOOLEAN, NEW d \in Delta, NEW K, d.kind \in K
    PROVE  IfThen(b, d) \in Seq(Delta) /\ \A i \in 1..Len(IfThen(b, d)) : IfThen(b, d)[i].kind \in K
<1>1. CASE b
  <2>1. IfThen(b, d) = <<d>>
    BY <1>1 DEF IfThen
  <2>2. Len(<<d>>) = 1 /\ <<d>>[1] = d /\ <<d>> \in Seq(Delta)
    OBVIOUS
  <2> QED
    BY <2>1, <2>2
<1>2. CASE ~b
  BY <1>2 DEF IfThen
<1> QED
  BY <1>1, <1>2

LEMMA OpenAIChunkKeeps ==
    ASSUME StreamInv, NEW fragment \in BOOLEAN, NEW reasoning \in BOOLEAN, NEW failed \in BOOLEAN,
           NEW content \in {<<>>, <<Blank>>, <<Text("answer")>>},
           OpenAIChunk(fragment, reasoning, content, failed)
    PROVE  StreamInv'
<1> DEFINE ds == IfThen(reasoning, Thinking) \o content
           K == {"text", "blank", "thinking", "ha_calls"}
           then == IF failed THEN "raise" ELSE "read"
           q == "openai"
<1>0. /\ LocalOK /\ Reads("openai") /\ preset = "openai" /\ ~local.replaced
      /\ local' = [local EXCEPT !.open = Opens(ds), !.pending = @ \/ fragment]
      /\ Makes(OpenedAll(ds), then)
  BY DEF StreamInv, TypeOK, LocalOK, OpenAIChunk, OnlyDifyReplaces, Reads
<1>1. content \in Seq(Delta) /\ \A i \in 1..Len(content) : content[i].kind \in K
  <2>1. Blank \in Delta /\ Text("answer") \in Delta
    BY Deltas1 DEF Origins
  <2>2. CASE content = <<>>
    BY <2>2
  <2>3. CASE content = <<Blank>>
    BY <2>1, <2>3, Kinds
  <2>4. CASE content = <<Text("answer")>>
    BY <2>1, <2>4, Kinds
  <2> QED
    BY <2>2, <2>3, <2>4
<1>2. ds \in Seq(Delta) /\ Plain(ds)
  <2>1. Thinking \in Delta /\ Thinking.kind \in K
    BY Deltas1, Kinds
  <2> HIDE DEF K
  <2>2. IfThen(reasoning, Thinking) \in Seq(Delta)
        /\ \A i \in 1..Len(IfThen(reasoning, Thinking)) : IfThen(reasoning, Thinking)[i].kind \in K
    BY <2>1, IfThenKind
  <2> QED
    BY <1>1, <2>2, KindsJoined DEF Plain, K
<1> HIDE DEF ds
<1>3. LocalOK' /\ SameRequest /\ SameBooks /\ (local'.open <=> Opens(ds)) /\ ~local'.replaced
  BY <1>0 DEF LocalOK, FreshLocal, Flags, SameRequest, SameBooks, Opens
<1>4. ds # <<>> \/ (ds = <<>> /\ Filled)
  BY <1>0, NothingOwed
<1>5. Reads(q) /\ Makes(OpenedAll(ds), then) /\ then \in {"read", "end", "raise"}
  BY <1>0
<1> HIDE DEF then, q
<1> QED
  BY <1>2, <1>3, <1>4, <1>5, PlainStep

LEMMA OpenAIEndKeeps ==
    ASSUME StreamInv, NEW parsed \in BOOLEAN, OpenAIEnd(parsed)
    PROVE  StreamInv'
<1> DEFINE ds == IfThen(parsed, HaCalls)
<1>0. /\ LocalOK /\ Reads("openai") /\ preset = "openai" /\ ~local.replaced /\ out = <<>>
      /\ local' = [local EXCEPT !.open = Opens(ds)] /\ Makes(OpenedAll(ds), "end")
  BY DEF StreamInv, TypeOK, LocalOK, OpenAIEnd, OnlyDifyReplaces, Reads
<1>1. LocalOK' /\ SameRequest /\ SameBooks /\ (local'.open <=> Opens(ds)) /\ ~local'.replaced
  <2> HIDE DEF ds
  <2> QED
    BY <1>0 DEF LocalOK, FreshLocal, Flags, SameRequest, SameBooks, Opens
<1>2. CASE parsed
  <2>1. ds = <<HaCalls>> /\ OpenedAll(ds) = Opened(HaCalls) /\ local'.open
    <3>1. HaCalls \in Delta /\ ds = <<HaCalls>>
      BY <1>2, Deltas1 DEF IfThen
    <3>2. Opens(ds)
      BY <3>1 DEF Opens
    <3> QED
      BY <1>1, <3>1, <3>2, OpenedOne
  <2> QED
    BY <1>0, <1>1, <2>1, Deltas1, Kinds, OneStep
<1>3. CASE ~parsed
  <2>1. ds = <<>> /\ OpenedAll(ds) = <<>> /\ (local'.open <=> local.open)
    BY <1>1, <1>3 DEF IfThen, OpenedAll, Opens
  <2>2. Filled
    BY <1>0, NothingOwed
  <2> QED
    BY <1>0, <1>1, <2>1, <2>2, SilentStep
<1> QED
  BY <1>2, <1>3

LEMMA OllamaObjectKeeps ==
    ASSUME StreamInv, NEW calls \in BOOLEAN, NEW thinking \in BOOLEAN, NEW content \in BOOLEAN, NEW done \in BOOLEAN,
           OllamaObject(calls, thinking, content, done)
    PROVE  StreamInv'
<1> DEFINE ds == IfThen(calls, HaCalls) \o IfThen(thinking, Thinking) \o IfThen(content, Text("answer"))
           K == {"text", "thinking", "ha_calls"}
           then == IF done THEN "end" ELSE "read"
           q == "ollama"
<1>0. /\ LocalOK /\ Reads("ollama") /\ ~local.replaced /\ Filled
      /\ local' = [local EXCEPT !.open = Opens(ds)] /\ Makes(OpenedAll(ds), then)
  BY NothingOwed DEF OllamaObject
<1>1. ds \in Seq(Delta) /\ \A i \in 1..Len(ds) : ds[i].kind \in K
  <2>1. HaCalls \in Delta /\ Thinking \in Delta /\ Text("answer") \in Delta
    BY Deltas1 DEF Origins
  <2>2. HaCalls.kind \in K /\ Thinking.kind \in K /\ Text("answer").kind \in K
    BY Kinds
  <2> DEFINE a == IfThen(calls, HaCalls)
             b == IfThen(thinking, Thinking)
             c == IfThen(content, Text("answer"))
  <2> HIDE DEF K
  <2>3. a \in Seq(Delta) /\ \A i \in 1..Len(a) : a[i].kind \in K
    BY <2>1, <2>2, IfThenKind
  <2>4. b \in Seq(Delta) /\ \A i \in 1..Len(b) : b[i].kind \in K
    BY <2>1, <2>2, IfThenKind
  <2>5. c \in Seq(Delta) /\ \A i \in 1..Len(c) : c[i].kind \in K
    BY <2>1, <2>2, IfThenKind
  <2> HIDE DEF a, b, c
  <2>6. a \o b \in Seq(Delta) /\ \A i \in 1..Len(a \o b) : (a \o b)[i].kind \in K
    BY <2>3, <2>4, KindsJoined
  <2>7. (a \o b) \o c \in Seq(Delta) /\ \A i \in 1..Len((a \o b) \o c) : ((a \o b) \o c)[i].kind \in K
    BY <2>5, <2>6, KindsJoined
  <2> QED
    BY <2>7 DEF a, b, c
<1> HIDE DEF ds
<1>2. Plain(ds)
  BY <1>1 DEF Plain
<1>3. LocalOK' /\ SameRequest /\ SameBooks /\ (local'.open <=> Opens(ds)) /\ ~local'.replaced
  BY <1>0 DEF LocalOK, FreshLocal, Flags, SameRequest, SameBooks, Opens
<1>4. Reads(q) /\ Makes(OpenedAll(ds), then) /\ then \in {"read", "end", "raise"}
  BY <1>0
<1>5. ds # <<>> \/ (ds = <<>> /\ Filled)
  BY <1>0
<1> HIDE DEF then, q
<1> QED
  BY <1>1, <1>2, <1>3, <1>4, <1>5, PlainStep

LEMMA OllamaEofKeeps == ASSUME StreamInv, OllamaEof PROVE StreamInv'
<1>1. Reads("ollama") /\ local' = local /\ Makes(<<>>, "end")
  BY DEF OllamaEof
<1>2. LocalOK' /\ SameRequest /\ SameBooks /\ (local'.open <=> local.open) /\ ~local'.replaced
  BY <1>1, NothingOwed DEF LocalOK, SameRequest, SameBooks
<1> QED
  BY <1>1, <1>2, NothingOwed, SilentStep

-----------------------------------------------------------------------------
(* OpenAI's request                                                        *)

\* Nothing but the request changes while no stream is open.
LEMMA RequestStep ==
    ASSUME StreamInv, preset = "openai", UNCHANGED <<preset, phase, events, out, after, log>>,
           LocalOK', Paid', ~local.open, ~local'.open, ~local'.replaced
    PROVE  StreamInv'
<1>0. /\ preset' = "openai" /\ phase' = phase /\ events' = events /\ out' = out /\ after' = after
      /\ entry' = entry /\ block' = block /\ shown' = shown /\ given' = given
  BY DEF log
<1>1. TypeOK'
  BY <1>0 DEF StreamInv, TypeOK, LocalOK
<1>2. RoleFirst' /\ EndsFilled'
  BY <1>0 DEF StreamInv, RoleFirst, EndsFilled, ReplyOwed, Filled, Streaming
<1>3. ResultsFollow' /\ DifyKnows' /\ OnlyDifyReplaces' /\ ReplacedAnswerUnspoken'
  BY <1>0 DEF StreamInv, ResultsFollow, Announced, DifyKnows, OnlyDifyReplaces, ReplacedAnswerUnspoken
<1>4. WholeReply'
  BY <1>0 DEF StreamInv, WholeReply, Unspoken, Streaming
<1> QED
  BY <1>1, <1>2, <1>3, <1>4 DEF StreamInv

\* How much of a request can be refused.
LEMMA RetryableFinite ==
    ASSUME NEW A \in SUBSET Retryable
    PROVE  /\ IsFiniteSet(A) /\ Cardinality(A) \in Nat
           /\ \A B \in SUBSET A : /\ Cardinality(B) <= Cardinality(A)
                                  /\ B # A => Cardinality(B) + 1 <= Cardinality(A)
<1>1. IsFiniteSet({"stream_options"} \cup {"prompt_cache_key"})
  BY FS_Singleton, FS_AddElement
<1>2. IsFiniteSet(({"stream_options"} \cup {"prompt_cache_key"}) \cup {"max_tokens"})
  BY <1>1, FS_AddElement
<1>3. Retryable = ({"stream_options"} \cup {"prompt_cache_key"}) \cup {"max_tokens"}
  BY DEF Retryable, Droppable
<1>4. IsFiniteSet(A)
  BY <1>2, <1>3, FS_Subset
<1>5. ASSUME NEW B \in SUBSET A
      PROVE  Cardinality(B) <= Cardinality(A) /\ (B # A => Cardinality(B) + 1 <= Cardinality(A))
  BY <1>4, <1>5, FS_Subset, FS_CardinalityType
<1> QED
  BY <1>4, <1>5, FS_CardinalityType

LEMMA OpenAIPostKeeps == ASSUME StreamInv, OpenAIPost PROVE StreamInv'
<1>0. /\ preset = "openai" /\ local.stage = "build" /\ UNCHANGED <<preset, phase, events, out, after, log>>
      /\ local' = [local EXCEPT !.stage = "posted", !.request = Request, !.posts = @ + 1]
      /\ LocalOK /\ ~local.open /\ ~local.replaced
      /\ local.posts <= Cardinality(local.body \cap local.refused)
  BY DEF StreamInv, OpenAIPost, InStage, Sending, Paid, OnlyDifyReplaces, TypeOK, LocalOK
<1>1. Request \subseteq Fields /\ Request \cap Retryable \subseteq local.body
      /\ local.body \ Request = local.body \cap local.refused
  BY <1>0 DEF Request, LocalOK, Fields, Retryable, Droppable
<1>2. /\ LocalOK' /\ ~local'.open /\ ~local'.replaced
      /\ local'.stage = "posted" /\ local'.request = Request /\ local'.posts = local.posts + 1
      /\ local'.body = local.body /\ local'.refused = local.refused
  BY <1>0, <1>1 DEF LocalOK, FreshLocal, Flags
<1>3. Cardinality(local.body \cap local.refused) \in Nat /\ local.posts \in Nat
  BY <1>0, RetryableFinite DEF LocalOK
<1>4. local'.posts <= 1 + Cardinality(local'.body \ local'.request)
  BY <1>0, <1>1, <1>2, <1>3
<1>5. Paid'
  BY <1>1, <1>2, <1>4 DEF Paid
<1> QED
  BY <1>0, <1>2, <1>5, RequestStep

LEMMA OpenAIRefusedKeeps ==
    ASSUME StreamInv, NEW fields \in SUBSET Retryable \ {{}}, OpenAIRefused(fields)
    PROVE  StreamInv'
<1>0. /\ preset = "openai" /\ local.stage = "posted" /\ UNCHANGED <<preset, phase, events, out, after, log>>
      /\ local' = [local EXCEPT !.stage = "build", !.refused = Learned(fields)]
      /\ LocalOK /\ ~local.open /\ ~local.replaced /\ fields \subseteq local.request \cap Retryable
      /\ local.posts <= 1 + Cardinality(local.body \ local.request)
      /\ local.request \cap Retryable \subseteq local.body /\ local.body \ local.request \subseteq local.refused
  BY DEF StreamInv, OpenAIRefused, InStage, Sending, Paid, OnlyDifyReplaces, TypeOK, LocalOK
<1>1. /\ LocalOK' /\ ~local'.open /\ ~local'.replaced
      /\ local'.stage = "build" /\ local'.refused = local.refused \cup fields
      /\ local'.posts = local.posts /\ local'.body = local.body
  BY <1>0 DEF LocalOK, FreshLocal, Flags, Learned
<1> DEFINE B == local.body \ local.request
           A == local'.body \cap local'.refused
<1>2. A \subseteq Retryable /\ B \subseteq A /\ B # A
  BY <1>0, <1>1, ZenonT(60) DEF LocalOK
<1>3. Cardinality(B) + 1 <= Cardinality(A) /\ Cardinality(B) \in Nat /\ Cardinality(A) \in Nat
  <2> HIDE DEF A, B
  <2>1. B \subseteq Retryable
    BY <1>2
  <2> QED
    BY <1>2, <2>1, RetryableFinite
<1>4. local'.posts <= Cardinality(A)
  <2>1. local.posts \in Nat /\ local.posts <= 1 + Cardinality(B)
    BY <1>0 DEF LocalOK
  <2> HIDE DEF A, B
  <2> QED
    BY <1>1, <1>3, <2>1
<1>5. Paid'
  BY <1>1, <1>4 DEF Paid
<1> QED
  BY <1>0, <1>1, <1>5, RequestStep

LEMMA LearnElsewhereKeeps ==
    ASSUME StreamInv, NEW fields \in SUBSET Retryable \ {{}}, LearnElsewhere(fields)
    PROVE  StreamInv'
<1>0. /\ preset = "openai" /\ local.stage = "posted" /\ UNCHANGED <<preset, phase, events, out, after, log>>
      /\ local' = [local EXCEPT !.refused = Learned(fields)]
      /\ LocalOK /\ ~local.open /\ ~local.replaced /\ Paid
  BY DEF StreamInv, LearnElsewhere, InStage, Sending, Paid, OnlyDifyReplaces, TypeOK, LocalOK
<1>1. /\ LocalOK' /\ ~local'.open /\ ~local'.replaced
      /\ local'.stage = "posted" /\ local'.refused = local.refused \cup fields
      /\ local'.posts = local.posts /\ local'.body = local.body /\ local'.request = local.request
  BY <1>0 DEF LocalOK, FreshLocal, Flags, Learned
<1>2. Paid'
  BY <1>0, <1>1 DEF Paid
<1> QED
  BY <1>0, <1>1, <1>2, RequestStep

LEMMA OpenAIAcceptedKeeps == ASSUME StreamInv, OpenAIAccepted PROVE StreamInv'
<1>0. /\ preset = "openai" /\ UNCHANGED <<preset, phase, events, out, after, log>>
      /\ local' = FreshLocal /\ ~local.open
  BY DEF StreamInv, OpenAIAccepted, InStage, Sending, Paid
<1>1. LocalOK' /\ ~local'.open /\ ~local'.replaced /\ Paid'
  BY <1>0 DEF LocalOK, FreshLocal, Flags, Paid
<1> QED
  BY <1>0, <1>1, RequestStep

-----------------------------------------------------------------------------
(* Yielding, ending and raising                                            *)

\* The chat log's block after a delta that may follow what it holds.
LEMMA BlockStep ==
    ASSUME block \in Blocks, NEW k \in Deltas, block # NoBlock \/ CarriesRole(k)
    PROVE  /\ BlockAfter(block, k) \in Blocks \ {NoBlock}
           /\ k \in {"text", "blank", "thinking", "ha_calls", "ext_call"} => BlockAfter(block, k) # {}
           /\ "text" \notin block /\ k # "text" => "text" \notin BlockAfter(block, k)
<1>1. CASE k \in {"role", "ext_result"}
  BY <1>1 DEF BlockAfter, Blocks, NoBlock, Parts
<1>2. CASE k = "ext_call"
  BY <1>2 DEF BlockAfter, Blocks, NoBlock, Parts
<1>3. CASE k \in {"text", "blank", "thinking", "ha_calls"}
  <2>1. block \subseteq Parts /\ BlockAfter(block, k) = block \cup {k}
    BY <1>3 DEF BlockAfter, CarriesRole, Blocks
  <2> QED
    BY <1>3, <2>1 DEF Blocks, NoBlock, Parts
<1> QED
  BY <1>1, <1>2, <1>3 DEF Deltas

LEMMA EntryStep ==
    ASSUME entry \in Entries, block \in Blocks
    PROVE  Flushed(entry, block) \in Entries /\ \A k \in Deltas : EntryAfter(entry, block, k) \in Entries
<1>1. Flushed(entry, block) \in Entries
  <2>1. CASE block = NoBlock \/ Visible(block) = {}
    <3>1. "ha_calls" \in block => "ha_calls" \in Visible(block)
      BY DEF Visible
    <3>2. "ha_calls" \notin NoBlock
      BY DEF NoBlock
    <3> QED
      BY <2>1, <3>1, <3>2 DEF Flushed
  <2>2. CASE ~(block = NoBlock \/ Visible(block) = {})
    <3>1. Visible(block) \in (SUBSET Visible(Parts)) \ {{}}
      BY <2>2 DEF Blocks, Visible
    <3>2. HaResult \in Entries /\ Assistant(Visible(block)) \in Entries
      BY <3>1 DEF Entries
    <3> QED
      BY <2>2, <3>2 DEF Flushed
  <2> QED
    BY <2>1, <2>2
<1> QED
  BY <1>1 DEF EntryAfter, Entries

LEMMA YieldKeeps == ASSUME StreamInv, Yield PROVE StreamInv'
<1> DEFINE k == Head(out).kind
<1>0. /\ Streaming /\ Streaming' /\ phase' = phase /\ preset' = preset /\ events' = events /\ local' = local /\ after' = after
      /\ out \in Seq(Delta) /\ out # <<>> /\ out' = Tail(out)
      /\ entry' = EntryAfter(entry, block, k) /\ block' = BlockAfter(block, k)
      /\ shown' = shown \cup {c \in Calls : out[1] = CallOf(c)}
      /\ given' = given \cup {c \in Calls : out[1] = ResultOf(c)}
      /\ TypeOK
  BY DEF StreamInv, Yield, Streaming, TypeOK
<1>1. /\ out' \in Seq(Delta) /\ Len(out') = Len(out) - 1 /\ Len(out) \in Nat \ {0} /\ Len(out') \in Nat
      /\ DOMAIN out = 1..Len(out) /\ DOMAIN out' = 1..Len(out')
      /\ \A i \in 1..Len(out') : i + 1 \in 1..Len(out) /\ out'[i] = out[i + 1]
      /\ Head(out) = out[1] /\ out[1] \in Delta
  BY <1>0
<1>2. k \in Deltas /\ k = out[1].kind
  BY <1>1 DEF Delta
<1> HIDE DEF k
<1>3. block # NoBlock \/ CarriesRole(k)
  BY <1>0, <1>2 DEF StreamInv, RoleFirst
<1>4. /\ block' \in Blocks \ {NoBlock}
      /\ k \in {"text", "blank", "thinking", "ha_calls", "ext_call"} => block' # {}
      /\ "text" \notin block /\ k # "text" => "text" \notin block'
  BY <1>0, <1>2, <1>3, BlockStep DEF TypeOK
<1>5. TypeOK'
  <2>1. entry' \in Entries
    BY <1>0, <1>2, EntryStep DEF TypeOK
  <2>2. shown' \cup given' \subseteq Calls
    BY <1>0 DEF TypeOK
  <2> QED
    BY <1>0, <1>1, <1>4, <2>1, <2>2 DEF TypeOK
<1>6. RoleFirst'
  BY <1>4 DEF RoleFirst
<1>7. EndsFilled'
  <2>1. ReplyOwed' <=> ReplyOwed
    BY <1>0 DEF ReplyOwed
  <2>2. Filled => Filled'
    <3> SUFFICES ASSUME Filled PROVE Filled'
      OBVIOUS
    <3>1. out[Len(out)].kind \in {"text", "blank", "thinking", "ha_calls", "ext_call"}
      BY <1>0 DEF Filled
    <3>2. CASE out' = <<>>
      <4>1. Len(out) = 1
        BY <1>1, <3>2
      <4> QED
        BY <1>2, <1>4, <3>1, <3>2, <4>1 DEF Filled
    <3>3. CASE out' # <<>>
      <4>1. Len(out') \in 1..Len(out') /\ Len(out') + 1 = Len(out)
        BY <1>1, <3>3
      <4>2. out'[Len(out')] = out[Len(out)]
        BY <1>1, <4>1
      <4> QED
        BY <3>1, <3>3, <4>2 DEF Filled
    <3> QED
      BY <3>2, <3>3
  <2> QED
    BY <1>0, <2>1, <2>2 DEF StreamInv, EndsFilled
<1>8. ASSUME NEW c \in Calls, NEW n \in 1..Len(out), Announced(c, n) PROVE Announced(c, n - 1)'
  <2>1. CASE c \in shown
    BY <1>0, <2>1 DEF Announced
  <2>2. CASE out[1] = CallOf(c)
    BY <1>0, <2>2 DEF Announced
  <2>3. CASE \E j \in 2..n : out[j] = CallOf(c)
    <3>1. PICK j \in 2..n : out[j] = CallOf(c)
      BY <2>3
    <3>2. j - 1 \in 1..(n - 1) /\ j - 1 \in 1..Len(out') /\ (j - 1) + 1 = j
      BY <1>1
    <3>3. out'[j - 1] = CallOf(c)
      BY <1>1, <3>1, <3>2
    <3> QED
      BY <3>2, <3>3 DEF Announced
  <2>4. \A j \in 1..n : j = 1 \/ j \in 2..n
    BY <1>1
  <2> QED
    BY <1>8, <2>1, <2>2, <2>3, <2>4 DEF Announced
<1>9. ResultsFollow'
  <2> SUFFICES ASSUME preset # "langgraph", NEW i \in 1..Len(out'), NEW c \in Calls, out'[i] = ResultOf(c)
               PROVE  Announced(c, i - 1)'
    BY <1>0, <1>1 DEF ResultsFollow
  <2>1. i + 1 \in 1..Len(out) /\ out[i + 1] = ResultOf(c) /\ (i + 1) - 1 = i /\ i \in 1..Len(out)
    BY <1>1
  <2>2. Announced(c, (i + 1) - 1)
    BY <1>1, <2>1 DEF StreamInv, ResultsFollow
  <2> QED
    BY <1>8, <2>1, <2>2
<1>10. DifyKnows'
  <2> SUFFICES ASSUME preset = "dify" PROVE DifyKnows'
    BY <1>0 DEF DifyKnows
  <2>1. /\ shown \subseteq local.called /\ given \subseteq local.answered
        /\ \A c \in local.called : Announced(c, Len(out))
        /\ \A i \in 1..Len(out) : \A c \in Calls :
               /\ out[i] = CallOf(c) => c \in local.called \ shown
               /\ out[i] = ResultOf(c) => c \in local.answered \ given
               /\ \A j \in 1..(i - 1) : out[j] = out[i] => out[i].kind \notin {"ext_call", "ext_result"}
    BY <1>0, <1>1 DEF StreamInv, DifyKnows
  <2>2. 1 \in 1..Len(out)
    BY <1>1
  <2>3. shown' \subseteq local.called /\ given' \subseteq local.answered
    BY <1>0, <2>1, <2>2
  <2>4. ASSUME NEW c \in local.called PROVE Announced(c, Len(out))'
    <3>1. c \in Calls /\ Len(out) \in 1..Len(out) /\ Len(out) - 1 = Len(out')
      BY <1>0, <1>1 DEF TypeOK
    <3>2. PICK n \in 1..Len(out) : n = Len(out)
      BY <3>1
    <3>3. Announced(c, n - 1)' /\ n - 1 = Len(out')
      BY <1>8, <2>1, <3>1, <3>2
    <3> QED
      BY <3>3 DEF Announced
  <2>5. ASSUME NEW i \in 1..Len(out'), NEW c \in Calls
        PROVE  /\ out'[i] = CallOf(c) => c \in local.called \ shown'
               /\ out'[i] = ResultOf(c) => c \in local.answered \ given'
               /\ \A j \in 1..(i - 1) : out'[j] = out'[i] => out'[i].kind \notin {"ext_call", "ext_result"}
    <3>1. i + 1 \in 1..Len(out) /\ out'[i] = out[i + 1] /\ 1 \in 1..((i + 1) - 1)
      BY <1>1
    <3>2. out[1] = out[i + 1] => out[i + 1].kind \notin {"ext_call", "ext_result"}
      BY <2>1, <3>1
    <3>3. out'[i] = CallOf(c) => c \in local.called \ shown'
      <4> SUFFICES ASSUME out'[i] = CallOf(c) PROVE c \in local.called \ shown'
        OBVIOUS
      <4>1. c \in local.called \ shown
        BY <2>1, <3>1
      <4>2. out[1] # CallOf(c)
        BY <3>1, <3>2 DEF CallOf
      <4> QED
        BY <1>0, <4>1, <4>2
    <3>4. out'[i] = ResultOf(c) => c \in local.answered \ given'
      <4> SUFFICES ASSUME out'[i] = ResultOf(c) PROVE c \in local.answered \ given'
        OBVIOUS
      <4>1. c \in local.answered \ given
        BY <2>1, <3>1
      <4>2. out[1] # ResultOf(c)
        BY <3>1, <3>2 DEF ResultOf
      <4> QED
        BY <1>0, <4>1, <4>2
    <3>5. ASSUME NEW j \in 1..(i - 1), out'[j] = out'[i]
          PROVE  out'[i].kind \notin {"ext_call", "ext_result"}
      <4>1. j \in 1..Len(out') /\ j + 1 \in 1..((i + 1) - 1) /\ out'[j] = out[j + 1]
        BY <1>1
      <4> QED
        BY <2>1, <3>1, <3>5, <4>1
    <3> QED
      BY <3>3, <3>4, <3>5
  <2> QED
    BY <1>0, <1>1, <2>3, <2>4, <2>5 DEF DifyKnows
<1>11. OnlyDifyReplaces' /\ Paid'
  BY <1>0 DEF StreamInv, OnlyDifyReplaces, Paid
<1>12. ReplacedAnswerUnspoken'
  BY <1>0, <1>1 DEF StreamInv, ReplacedAnswerUnspoken
<1>13. WholeReply'
  <2> SUFFICES ASSUME preset \in OneBlock PROVE WholeReply'
    BY <1>0 DEF WholeReply
  <2>1. /\ events = 0 => ~local.open
        /\ ~local.open => Unspoken(Len(out))
        /\ \A i \in 1..Len(out) : CarriesRole(out[i].kind) => Unspoken(i - 1)
    BY <1>0, <1>1 DEF StreamInv, WholeReply
  <2>2. ASSUME NEW n \in 0..Len(out'), Unspoken(n + 1) PROVE Unspoken(n)'
    <3>1. "text" \notin block /\ \A j \in 1..(n + 1) : out[j].kind # "text"
      BY <2>2 DEF Unspoken
    <3>2. 1 \in 1..(n + 1)
      OBVIOUS
    <3>3. "text" \notin block'
      BY <1>2, <1>4, <3>1, <3>2
    <3>4. \A j \in 1..n : j + 1 \in 1..(n + 1) /\ out'[j] = out[j + 1]
      BY <1>1
    <3> QED
      BY <3>1, <3>3, <3>4 DEF Unspoken
  <2>3. ~local.open => Unspoken(Len(out))'
    <3> SUFFICES ASSUME ~local.open PROVE Unspoken(Len(out))'
      OBVIOUS
    <3>1. PICK n \in 0..Len(out') : n = Len(out') /\ n + 1 = Len(out)
      BY <1>1
    <3>2. Unspoken(n + 1)
      BY <2>1, <3>1
    <3>3. Unspoken(n)'
      BY <2>2, <3>2
    <3> QED
      BY <3>1, <3>3 DEF Unspoken
  <2>4. ASSUME NEW i \in 1..Len(out'), CarriesRole(out'[i].kind) PROVE Unspoken(i - 1)'
    <3>1. i + 1 \in 1..Len(out) /\ out'[i] = out[i + 1] /\ i - 1 \in 0..Len(out') /\ (i + 1) - 1 = (i - 1) + 1
      BY <1>1
    <3>2. Unspoken((i + 1) - 1)
      BY <2>1, <2>4, <3>1
    <3> QED
      BY <2>2, <3>1, <3>2
  <2> QED
    BY <1>0, <1>1, <2>1, <2>3, <2>4 DEF WholeReply
<1> QED
  BY <1>5, <1>6, <1>7, <1>9, <1>10, <1>11, <1>12, <1>13 DEF StreamInv

LEMMA EndStreamKeeps == ASSUME StreamInv, EndStream PROVE StreamInv'
<1>0. /\ ~Streaming' /\ out = <<>> /\ out' = out /\ preset' = preset /\ local' = local /\ events' = events /\ after' = after
      /\ phase' = "ended" /\ block' = NoBlock /\ entry' = Flushed(entry, block) /\ shown' = shown /\ given' = given
  BY DEF EndStream, Streaming
<1>1. TypeOK'
  <2>1. entry' \in Entries /\ block' \in Blocks
    BY <1>0, EntryStep DEF StreamInv, TypeOK, Blocks
  <2> QED
    BY <1>0, <2>1 DEF StreamInv, TypeOK
<1>2. RoleFirst' /\ EndsFilled' /\ WholeReply'
  BY <1>0 DEF RoleFirst, EndsFilled, WholeReply
<1>3. ResultsFollow' /\ DifyKnows' /\ OnlyDifyReplaces' /\ ReplacedAnswerUnspoken' /\ Paid'
  BY <1>0 DEF StreamInv, ResultsFollow, DifyKnows, OnlyDifyReplaces, ReplacedAnswerUnspoken, Paid
<1> QED
  BY <1>1, <1>2, <1>3 DEF StreamInv

LEMMA RaiseStreamKeeps == ASSUME StreamInv, RaiseStream PROVE StreamInv'
<1>0. /\ ~Streaming' /\ out' = <<>> /\ preset' = preset /\ local' = local /\ events' = events /\ after' = after
      /\ phase' = "raised" /\ block' = block /\ entry' = entry /\ shown' = shown /\ given' = given
  BY DEF RaiseStream, Streaming, log
<1>1. TypeOK'
  <2>1. out' \in Seq(Delta)
    BY <1>0
  <2> QED
    BY <1>0, <2>1 DEF StreamInv, TypeOK
<1>2. RoleFirst' /\ EndsFilled' /\ WholeReply'
  BY <1>0 DEF RoleFirst, EndsFilled, WholeReply
<1>3. ResultsFollow' /\ DifyKnows' /\ OnlyDifyReplaces' /\ ReplacedAnswerUnspoken' /\ Paid'
  BY <1>0 DEF StreamInv, ResultsFollow, DifyKnows, OnlyDifyReplaces, ReplacedAnswerUnspoken, Paid
<1> QED
  BY <1>1, <1>2, <1>3 DEF StreamInv

-----------------------------------------------------------------------------
(* The theorems                                                            *)

LEMMA StreamInit == Init => StreamInv
<1> SUFFICES ASSUME Init PROVE StreamInv
  OBVIOUS
<1>0. /\ out = <<>> /\ block = NoBlock /\ shown = {} /\ given = {} /\ after = "read"
  BY DEF Init
<1>1. TypeOK /\ RoleFirst
  BY TypedInit DEF TypedInv
<1>2. EndsFilled
  BY <1>0 DEF EndsFilled, Filled, NoBlock
<1>3. ResultsFollow /\ ReplacedAnswerUnspoken /\ OnlyDifyReplaces
  BY <1>0, FreshShape DEF ResultsFollow, ReplacedAnswerUnspoken, OnlyDifyReplaces
<1>4. DifyKnows
  BY <1>0, FreshShape DEF DifyKnows
<1>5. WholeReply
  <2>1. "text" \notin block
    BY <1>0 DEF NoBlock
  <2>3. Len(out) = 0 /\ DOMAIN out = 1..0
    BY <1>0, <1>1 DEF TypeOK
  <2>2. ~local.open
    BY FreshShape
  <2> QED
    BY <2>1, <2>2, <2>3 DEF WholeReply, Unspoken
<1>6. Paid
  <2>1. local.body \cap local.refused \in SUBSET Retryable /\ local.posts = 0 /\ ~local.open /\ local.stage \in {"build", "open"}
    BY FreshShape
  <2>2. Cardinality(local.body \cap local.refused) \in Nat
    BY <2>1, RetryableFinite
  <2> QED
    BY <2>1, <2>2 DEF Paid
<1> QED
  BY <1>1, <1>2, <1>3, <1>4, <1>5, <1>6 DEF StreamInv

LEMMA StreamStep == StreamInv /\ [Next]_vars => StreamInv'
<1> SUFFICES ASSUME StreamInv, [Next]_vars PROVE StreamInv'
  OBVIOUS
<1>1. CASE Shared
  BY <1>1, YieldKeeps, EndStreamKeeps, RaiseStreamKeeps DEF Shared
<1>2. CASE ServerMemoryNext
  <2>1. CASE \E agent \in BOOLEAN : DifyAnswer(agent)
    BY <2>1, DifyAnswerKeeps
  <2>2. CASE \E c \in Calls, args, result \in BOOLEAN : DifyTool(c, args, result)
    BY <2>2, DifyToolKeeps
  <2>3. CASE \E answer \in BOOLEAN : DifyReplace(answer)
    BY <2>3, DifyReplaceKeeps
  <2>4. CASE DifyReasoning \/ DifyPaused \/ DifyMessageEnd
    BY <2>4, DifyReasoningKeeps, DifyPausedKeeps, DifyMessageEndKeeps
  <2>5. CASE \E calls, results \in Lists, interrupt \in BOOLEAN : LangGraphUpdate(calls, results, interrupt)
    BY <2>5, LangGraphUpdateKeeps
  <2>6. CASE LangGraphText \/ LangGraphEnd
    BY <2>6, LangGraphTextKeeps, LangGraphEndKeeps
  <2>7. CASE \/ \E steps \in Lists, reply \in N8nReplies : N8nBlocking(steps, reply)
             \/ \E reply \in N8nReplies : N8nItem(reply)
    BY <2>7, N8nBlockingKeeps, N8nItemKeeps
  <2>8. CASE N8nText \/ N8nSegmentEnd \/ N8nEof
    BY <2>8, N8nTextKeeps, N8nSegmentEndKeeps, N8nEofKeeps
  <2>9. CASE \E c \in Calls : ConverseTool(c)
    BY <2>9, ConverseToolKeeps
  <2>10. CASE \E text \in BOOLEAN : ConverseDone(text)
    BY <2>10, ConverseDoneKeeps
  <2>11. CASE ConverseText
    BY <2>11, ConverseTextKeeps
  <2> QED
    BY <1>2, <2>1, <2>2, <2>3, <2>4, <2>5, <2>6, <2>7, <2>8, <2>9, <2>10, <2>11 DEF ServerMemoryNext
<1>3. CASE ReplayNext
  <2>1. CASE OpenAIPost \/ OpenAIAccepted
    BY <2>1, OpenAIPostKeeps, OpenAIAcceptedKeeps
  <2>2. CASE \E fields \in SUBSET Retryable \ {{}} : OpenAIRefused(fields) \/ LearnElsewhere(fields)
    BY <2>2, OpenAIRefusedKeeps, LearnElsewhereKeeps
  <2>3. CASE \E fragment, reasoning, failed \in BOOLEAN, content \in {<<>>, <<Blank>>, <<Text("answer")>>} :
                OpenAIChunk(fragment, reasoning, content, failed)
    BY <2>3, OpenAIChunkKeeps
  <2>4. CASE \E parsed \in BOOLEAN : OpenAIEnd(parsed)
    BY <2>4, OpenAIEndKeeps
  <2>5. CASE \E calls, thinking, content, done \in BOOLEAN : OllamaObject(calls, thinking, content, done)
    BY <2>5, OllamaObjectKeeps
  <2>6. CASE OllamaEof
    BY <2>6, OllamaEofKeeps
  <2> QED
    BY <1>3, <2>1, <2>2, <2>3, <2>4, <2>5, <2>6 DEF ReplayNext
<1>4. CASE UNCHANGED vars
  BY <1>4 DEF vars, log, StreamInv, TypeOK, RoleFirst, EndsFilled, Filled, ReplyOwed, ResultsFollow, Announced, DifyKnows,
     OnlyDifyReplaces, ReplacedAnswerUnspoken, WholeReply, Unspoken, Paid, Streaming
<1> QED
  BY <1>1, <1>2, <1>3, <1>4 DEF Next

LEMMA StreamHolds == Spec => []StreamInv
BY StreamInit, StreamStep, PTL DEF Spec

\* The types of a round-trip: the open block the chat log is given is always one,
\* since no preset sends a delta that needs a role before it has sent one.
THEOREM TypeCorrect == Spec => []TypeOK
<1>1. StreamInv => TypeOK
  BY DEF StreamInv
<1> QED
  BY <1>1, StreamHolds, PTL

\* A result never precedes its call, and Dify shows neither twice.
THEOREM Ordered == Spec => []ToolsInOrder
<1>1. StreamInv => ToolsInOrder
  <2> SUFFICES ASSUME StreamInv, Yields, NEW c \in Calls
               PROVE  /\ Head(out) = ResultOf(c) /\ preset # "langgraph" => c \in shown
                      /\ preset = "dify" => /\ Head(out) = CallOf(c) => c \notin shown
                                            /\ Head(out) = ResultOf(c) => c \notin given
    BY DEF ToolsInOrder
  <2>1. 1 \in DOMAIN out /\ Head(out) = out[1]
    BY DEF StreamInv, TypeOK, Yields
  <2>2. Head(out) = ResultOf(c) /\ preset # "langgraph" => c \in shown
    BY <2>1 DEF StreamInv, ResultsFollow, Announced
  <2> QED
    BY <2>1, <2>2 DEF StreamInv, DifyKnows
<1> QED
  BY <1>1, StreamHolds, PTL

\* Nothing of an answer that the moderation replaced is spoken.
THEOREM ReplacedUnspoken == Spec => []ReplacedAnswerUnspoken
<1>1. StreamInv => ReplacedAnswerUnspoken
  BY DEF StreamInv
<1> QED
  BY <1>1, StreamHolds, PTL

\* A reply that is spoken in one block is not split by a later one.
THEOREM WholeSpoken == Spec => []ReplyStaysWhole
<1>1. StreamInv => ReplyStaysWhole
  <2> SUFFICES ASSUME StreamInv, Yields, preset \in OneBlock, CarriesRole(Head(out).kind)
               PROVE  "text" \notin block
    BY DEF ReplyStaysWhole, OneBlock
  <2>1. 1 \in DOMAIN out /\ Head(out) = out[1]
    BY DEF StreamInv, TypeOK, Yields
  <2> QED
    BY <2>1 DEF StreamInv, WholeReply, Unspoken, Yields, Streaming
<1> QED
  BY <1>1, StreamHolds, PTL

\* A request is posted once, and once more for each of its refusable fields.
THEOREM RetriesBounded == Spec => []RetriesAreBounded
<1>1. StreamInv => RetriesAreBounded
  <2> SUFFICES ASSUME StreamInv PROVE local.posts <= 1 + Cardinality(local.body)
    BY DEF RetriesAreBounded
  <2>1. local.body \in SUBSET Retryable /\ local.posts \in Nat
    BY DEF StreamInv, TypeOK
  <2>2. /\ Cardinality(local.body) \in Nat
        /\ \A B \in SUBSET local.body : Cardinality(B) <= Cardinality(local.body) /\ Cardinality(B) \in Nat
    BY <2>1, RetryableFinite
  <2>3. /\ Cardinality(local.body \cap local.refused) <= Cardinality(local.body)
        /\ Cardinality(local.body \cap local.refused) \in Nat
        /\ Cardinality(local.body \ local.request) <= Cardinality(local.body)
        /\ Cardinality(local.body \ local.request) \in Nat
    BY <2>2
  <2> QED
    BY <2>1, <2>2, <2>3 DEF StreamInv, TypeOK, Paid
<1> QED
  BY <1>1, StreamHolds, PTL

\* The contract speaks of the same chat log.
LEMMA SameLog ==
    /\ Contract!NoBlock = NoBlock /\ Contract!User = User /\ Contract!HaResult = HaResult /\ Contract!Deltas = Deltas
    /\ \A d : Contract!CarriesRole(d) <=> CarriesRole(d)
    /\ \A b : Contract!Visible(b) = Visible(b)
    /\ \A e, b : Contract!Flushed(e, b) = Flushed(e, b)
    /\ \A e, b, d : Contract!EntryAfter(e, b, d) = EntryAfter(e, b, d)
    /\ \A b, d : Contract!BlockAfter(b, d) = BlockAfter(b, d)
<1>1. Contract!NoBlock = NoBlock /\ Contract!User = User /\ Contract!HaResult = HaResult /\ Contract!Deltas = Deltas
  BY DEF Contract!NoBlock, NoBlock, Contract!User, User, Contract!HaResult, HaResult, Contract!Deltas, Deltas
<1>2. \A d : Contract!CarriesRole(d) <=> CarriesRole(d)
  BY DEF Contract!CarriesRole, CarriesRole
<1>3. \A b : Contract!Visible(b) = Visible(b)
  BY DEF Contract!Visible, Visible
<1>4. \A e, b : Contract!Flushed(e, b) = Flushed(e, b)
  BY <1>1, <1>3 DEF Contract!Flushed, Flushed, Contract!Assistant, Assistant
<1>5. \A e, b, d : Contract!EntryAfter(e, b, d) = EntryAfter(e, b, d)
  BY <1>4 DEF Contract!EntryAfter, EntryAfter, Contract!ExtResult, ExtResult
<1>6. \A b, d : Contract!BlockAfter(b, d) = BlockAfter(b, d)
  BY DEF Contract!BlockAfter, BlockAfter
<1> QED
  BY <1>1, <1>2, <1>3, <1>4, <1>5, <1>6

\* Every step of a preset's stream is one that the contract allows, or none.
LEMMA ContractStep == StreamInv /\ [Next]_vars => [Contract!Next]_(Contract!vars)
<1> SUFFICES ASSUME StreamInv, [Next]_vars PROVE [Contract!Next]_(Contract!vars)
  OBVIOUS
<1>1. CASE Yield
  <2>1. out[1] \in Delta /\ Head(out) = out[1] /\ out # <<>> /\ phase = "streaming"
    BY <1>1 DEF Yield, StreamInv, TypeOK
  <2>2. Head(out).kind \in Deltas
    BY <2>1 DEF Delta
  <2>3. Contract!Emit(Head(out).kind)
    BY <1>1, <2>1, SameLog DEF Yield, StreamInv, RoleFirst, Streaming, Contract!Emit
  <2> QED
    BY <2>2, <2>3, SameLog DEF Contract!Next
<1>2. CASE EndStream
  <2>1. block # {}
    BY <1>2 DEF EndStream, StreamInv, EndsFilled, Filled, ReplyOwed, Streaming
  <2>2. Contract!End
    BY <1>2, <2>1, SameLog DEF EndStream, Contract!End
  <2> QED
    BY <2>2 DEF Contract!Next
<1>3. CASE RaiseStream
  BY <1>3 DEF RaiseStream, log, Contract!Next, Contract!Raise
<1>4. CASE ServerMemoryNext \/ ReplayNext \/ UNCHANGED vars
  <2>1. UNCHANGED <<phase, log>>
    BY <1>4 DEF vars, ServerMemoryNext, ReplayNext, DifyAnswer, DifyTool, DifyReplace, DifyReasoning, DifyPaused, DifyMessageEnd,
       LangGraphUpdate, LangGraphText, LangGraphEnd, N8nBlocking, N8nText, N8nItem, N8nSegmentEnd, N8nEof,
       ConverseTool, ConverseDone, ConverseText, OpenAIPost, OpenAIRefused, LearnElsewhere, OpenAIAccepted, OpenAIChunk,
       OpenAIEnd, OllamaObject, OllamaEof, Makes, Sending
  <2> QED
    BY <2>1 DEF log, Contract!vars
<1> QED
  BY <1>1, <1>2, <1>3, <1>4 DEF Next, Shared

\* Every preset keeps the contract that the tool loop rests on.
THEOREM Implements == Spec => ImplementsContract
<1>1. Init => Contract!Init
  BY SameLog DEF Init, Contract!Init
<1> QED
  BY <1>1, StreamHolds, ContractStep, PTL DEF Spec, ImplementsContract, Contract!Spec

====
