----------------------- MODULE EntryLifecycle_proofs -----------------------
(***************************************************************************)
(* For any number of agents, flows, keys and waiting reloads, a loaded     *)
(* entry with no reload waiting runs on what is stored, and two flows      *)
(* never create one connection twice.                                      *)
(*                                                                         *)
(* QuietEntryIsCurrent is not inductive: nothing in it says that the       *)
(* adapter was current before the entry was loaded.  QuietInv extends it   *)
(* over the whole setup, from the moment the adapter is built, and adds    *)
(* when there is a listener: either the adapter is current, or a reload    *)
(* waits that was asked for when it ceased to be.                          *)
(***************************************************************************)
EXTENDS EntryLifecycle, TLAPS

AdapterCurrent == setup \in {"forwarding", "adding", "loaded"} /\ reloads = 0 => adapter = stored
EntitiesCurrent == setup \in {"adding", "loaded"} /\ reloads = 0 => entities = agents

QuietInv == TypeOK /\ AdapterCurrent /\ EntitiesCurrent

\* A normalised URL is a URL of the same server.
LEMMA NormalisedTyped == ASSUME NEW p, NEW url \in Urls PROVE Normalised(p, url) \in Urls
<1>1. \A end \in Ends : RStrip(end) \in Ends
  BY DEF RStrip, Ends
<1>2. \A end \in Ends : Suffixed(p, end) \in Ends
  BY DEF Suffixed, Ends
<1>3. Suffixed(p, RStrip(url.end)) \in Ends
  BY <1>1, <1>2 DEF Urls
<1> QED BY <1>3 DEF Normalised, Urls

\* The entry starts typed, with nothing built.
LEMMA InitQuiet == Init => QuietInv
<1> SUFFICES ASSUME Init PROVE QuietInv
  OBVIOUS
<1>1. stored \in Data
  <2>1. PICK url \in Urls, key \in Keys :
          stored = [url |-> IF version = 1 THEN url ELSE Normalised(preset, url), key |-> key]
    BY DEF Init
  <2>2. Normalised(preset, url) \in Urls
    BY NormalisedTyped
  <2> QED BY <2>1, <2>2 DEF Data
<1>2. agents \in Agency /\ entities \in Agency
  BY DEF Init, Nobody, Agency
<1>3. (adapter # None) <=> (setup \in Built)
  BY DEF Init, Built
<1>4. listening <=> (setup \in {"loaded", "unloading"})
  BY DEF Init
<1>5. v0Entity \in {"none", "entry", "agent"} /\ (v0Entity = "entry" => version = 1 /\ setup = "not_loaded")
  BY DEF Init
<1>6. flow \in [Flows -> Forms \cup Submitted \cup {Closed}]
  BY DEF Init
<1>7. reloads \in 0..MaxReloads /\ changes \in 0..MaxChanges
  <2>1. reloads = 0 /\ changes = 0
    BY DEF Init
  <2> QED BY <2>1, BoundsAssumption
<1>8. setup \in SetupStates /\ adapter \in Data \cup {None} /\ listening \in BOOLEAN
  BY DEF Init, SetupStates
<1>9. preset \in Presets /\ version \in 1..3
  BY DEF Init
<1>10. TypeOK
  BY <1>1, <1>2, <1>3, <1>4, <1>5, <1>6, <1>7, <1>8, <1>9 DEF TypeOK
<1> QED BY <1>10 DEF QuietInv, AdapterCurrent, EntitiesCurrent, Init

\* Migration, setup, unload and reload, one step at a time.
LEMMA SetupKeepsQuiet ==
    ASSUME QuietInv,
           \/ Start \/ ProbeReaches \/ ProbeFails \/ Retry \/ AddEntities
           \/ FinishSetup \/ StartReload \/ FinishUnload \/ AskReload
    PROVE  QuietInv'
<1> USE BoundsAssumption, NoneAssumption
    DEF QuietInv, TypeOK, AdapterCurrent, EntitiesCurrent, entry, running
<1>1. CASE Start
  <2>1. agents' \in Agency /\ version' \in 1..3
    BY <1>1, V0Assumption DEF Start, Migrate, Agency
  <2>2. v0Entity' \in {"none", "agent"}
    BY <1>1 DEF Start, Migrate
  <2>3. setup' \in {"refused", "probing"}
    BY <1>1 DEF Start
  <2> QED BY <1>1, <2>1, <2>2, <2>3 DEF Start, SetupStates, Built
<1>2. CASE ProbeReaches
  BY <1>2 DEF ProbeReaches, SetupStates, Built
<1>3. CASE ProbeFails
  BY <1>3 DEF ProbeFails, SetupStates, Built
<1>4. CASE Retry
  BY <1>4 DEF Retry, SetupStates, Built
<1>5. CASE AddEntities
  BY <1>5 DEF AddEntities, SetupStates, Built
<1>6. CASE FinishSetup
  BY <1>6 DEF FinishSetup, SetupStates, Built
<1>7. CASE StartReload
  <2>1. \/ setup = "loaded" /\ setup' = "unloading"
        \/ setup = "refused" /\ setup' = "refused"
        \/ setup \in {"retrying", "auth_failed", "failed"} /\ setup' = "probing"
    BY <1>7 DEF StartReload
  <2>2. reloads' \in 0..MaxReloads
    BY <1>7 DEF StartReload
  <2> QED BY <1>7, <2>1, <2>2 DEF StartReload, SetupStates, Built
<1>8. CASE FinishUnload
  <2>1. Nobody \in Agency
    BY DEF Nobody, Agency
  <2> QED BY <1>8, <2>1 DEF FinishUnload, SetupStates, Built
<1>9. CASE AskReload
  <2>1. reloads' \in 0..MaxReloads /\ reloads' # 0
    BY <1>9 DEF AskReload
  <2> QED BY <1>9, <2>1 DEF AskReload
<1> QED BY <1>1, <1>2, <1>3, <1>4, <1>5, <1>6, <1>7, <1>8, <1>9

\* The forms: a flow keeps what it has entered and probed, and touches nothing else
\* before it saves.
LEMMA FormsKeepQuiet ==
    ASSUME QuietInv, NEW f \in Flows,
           \/ OpenFlow(f) \/ Submit(f) \/ ProbeRejects(f) \/ Dismiss(f) \/ FinishUser(f)
    PROVE  QuietInv'
<1> DEFINE Typed == Forms \cup Submitted \cup {Closed}
<1>0. flow \in [Flows -> Typed]
  BY DEF QuietInv, TypeOK
<1>1. PICK record : SetFlow(f, record) /\ record \in Typed
  <2>1. CASE OpenFlow(f)
    <3>1. PICK kind \in Kinds : SetFlow(f, [Closed EXCEPT !.kind = kind, !.phase = "form"])
      BY <2>1 DEF OpenFlow, Kinds
    <3>2. [Closed EXCEPT !.kind = kind, !.phase = "form"] \in Forms
      BY DEF Closed, Forms
    <3> QED BY <3>1, <3>2
  <2>2. CASE Submit(f)
    <3>0. flow[f].phase = "form" /\ flow[f] \in Typed
      BY <1>0, <2>2 DEF Submit
    <3>1. flow[f] \in Forms
      BY <3>0 DEF Submitted, Closed
    <3>2. stored \in Data
      BY DEF QuietInv, TypeOK
    <3>3. PICK url \in Urls, key \in Keys :
            LET saved == IF flow[f].kind = "reauth" THEN stored.url ELSE Normalised(preset, url)
                entered == IF flow[f].kind = "user" THEN url ELSE saved
            IN /\ MayEnter(preset, url, key)
               /\ SetFlow(f, [flow[f] EXCEPT !.phase = "probing", !.entered = entered,
                                             !.data = [url |-> saved, key |-> key]])
      BY <2>2 DEF Submit
    <3> DEFINE saved == IF flow[f].kind = "reauth" THEN stored.url ELSE Normalised(preset, url)
               entered == IF flow[f].kind = "user" THEN url ELSE saved
    <3>4. entered \in Urls /\ saved \in Urls
      BY <3>2, NormalisedTyped DEF Data
    <3>5. [flow[f] EXCEPT !.phase = "probing", !.entered = entered,
                          !.data = [url |-> saved, key |-> key]] \in Submitted
      BY <3>1, <3>4 DEF Forms, Submitted, Data
    <3> QED BY <3>3, <3>5
  <2>3. CASE ProbeRejects(f)
    <3>1. flow[f] \in Submitted
      BY <1>0, <2>3 DEF ProbeRejects, Forms, Closed
    <3>2. [flow[f] EXCEPT !.phase = "form", !.entered = None, !.data = None] \in Forms
      BY <3>1 DEF Forms, Submitted
    <3> QED BY <2>3, <3>2 DEF ProbeRejects
  <2>4. CASE Dismiss(f)
    BY <2>4 DEF Dismiss
  <2>5. CASE FinishUser(f)
    <3>1. flow[f] \in Submitted
      BY <1>0, <2>5 DEF FinishUser, Forms, Closed
    <3>2. [flow[f] EXCEPT !.phase = "created"] \in Submitted
      BY <3>1 DEF Submitted
    <3> QED BY <2>5, <3>2 DEF FinishUser
  <2> QED BY <2>1, <2>2, <2>3, <2>4, <2>5
<1>2. flow' \in [Flows -> Typed]
  BY <1>0, <1>1 DEF SetFlow
<1>3. UNCHANGED <<entry, running, reloads, v0Entity, changes>>
  BY DEF OpenFlow, Submit, ProbeRejects, Dismiss, FinishUser
<1> QED BY <1>2, <1>3 DEF QuietInv, TypeOK, AdapterCurrent, EntitiesCurrent, entry, running

\* A flow that saves new data leaves a reload waiting; one that saves what was
\* there already leaves a current adapter current.
LEMMA SaveKeepsQuiet ==
    ASSUME QuietInv, NEW f \in Flows, FinishUpdate(f)
    PROVE  QuietInv'
<1> DEFINE Typed == Forms \cup Submitted \cup {Closed}
<1>1. flow \in [Flows -> Typed]
  BY DEF QuietInv, TypeOK
<1>2. flow[f] \in Submitted
  BY <1>1 DEF FinishUpdate, Forms, Closed
<1>3. stored' \in Data
  BY <1>2 DEF FinishUpdate, Saved, Submitted
<1>4. flow' \in [Flows -> Typed]
  BY <1>1 DEF FinishUpdate, SetFlow
<1>5. reloads' \in 0..MaxReloads /\ (reloads' # 0 \/ (reloads = 0 /\ stored' = stored))
  BY BoundsAssumption DEF QuietInv, TypeOK, FinishUpdate, ReloadsAfter, Notify, Saved
<1> QED BY <1>3, <1>4, <1>5
        DEF QuietInv, TypeOK, AdapterCurrent, EntitiesCurrent, FinishUpdate, entry, running

\* Options change under a loaded entry only, where the listener asks for a reload.
LEMMA SetOptionsKeepsQuiet ==
    ASSUME QuietInv, SetOptions
    PROVE  QuietInv'
<1>1. PICK a \in Agents, o \in Options :
        /\ agents' = [agents EXCEPT ![a] = o]
        /\ reloads + Notify(agents[a] # o) <= MaxReloads
        /\ reloads' = reloads + Notify(agents[a] # o)
  BY DEF SetOptions
<1>2. agents \in Agency /\ agents' \in Agency
  BY <1>1 DEF QuietInv, TypeOK, Agency
<1>3. agents[a] = o => agents' = agents
  BY <1>1, <1>2 DEF Agency
<1>4. listening
  BY DEF QuietInv, TypeOK, SetOptions, Manageable
<1>5. reloads' \in 0..MaxReloads /\ (reloads' # 0 \/ (reloads = 0 /\ agents' = agents))
  BY <1>1, <1>3, <1>4, BoundsAssumption DEF QuietInv, TypeOK, Notify
<1>6. changes' \in 0..MaxChanges
  BY BoundsAssumption DEF QuietInv, TypeOK, SetOptions
<1> QED BY <1>2, <1>5, <1>6
        DEF QuietInv, TypeOK, AdapterCurrent, EntitiesCurrent, SetOptions, running

\* A removed agent takes its entity along.
LEMMA RemoveKeepsQuiet ==
    ASSUME QuietInv, RemoveAgent
    PROVE  QuietInv'
<1>1. PICK a \in Agents :
        /\ agents' = [agents EXCEPT ![a] = None]
        /\ entities' = [entities EXCEPT ![a] = None]
  BY DEF RemoveAgent
<1>2. agents' \in Agency /\ entities' \in Agency
  BY <1>1 DEF QuietInv, TypeOK, Agency
<1>3. entities = agents => entities' = agents'
  BY <1>1
<1>4. reloads' \in 0..MaxReloads /\ (reloads' = 0 => reloads = 0)
  BY BoundsAssumption DEF QuietInv, TypeOK, RemoveAgent, Notify
<1>5. changes' \in 0..MaxChanges
  BY BoundsAssumption DEF QuietInv, TypeOK, RemoveAgent
<1>6. v0Entity' \in {"none", "entry", "agent"} /\ (v0Entity' = "entry" => v0Entity = "entry")
  BY DEF QuietInv, TypeOK, RemoveAgent
<1> QED BY <1>2, <1>3, <1>4, <1>5, <1>6
        DEF QuietInv, TypeOK, AdapterCurrent, EntitiesCurrent, RemoveAgent

\* Every step keeps the invariant.
LEMMA StepQuiet == QuietInv /\ [Next]_vars => QuietInv'
<1> SUFFICES ASSUME QuietInv, [Next]_vars PROVE QuietInv'
  OBVIOUS
<1>1. CASE \/ Start \/ ProbeReaches \/ ProbeFails \/ Retry \/ AddEntities
           \/ FinishSetup \/ StartReload \/ FinishUnload \/ AskReload
  BY <1>1, SetupKeepsQuiet
<1>2. ASSUME NEW f \in Flows,
             \/ OpenFlow(f) \/ Submit(f) \/ ProbeRejects(f) \/ Dismiss(f) \/ FinishUser(f)
      PROVE  QuietInv'
  BY <1>2, FormsKeepQuiet
<1>3. ASSUME NEW f \in Flows, FinishUpdate(f) PROVE QuietInv'
  BY <1>3, SaveKeepsQuiet
<1>4. CASE SetOptions
  BY <1>4, SetOptionsKeepsQuiet
<1>5. CASE RemoveAgent
  BY <1>5, RemoveKeepsQuiet
<1>6. CASE UNCHANGED vars
  BY <1>6 DEF QuietInv, TypeOK, AdapterCurrent, EntitiesCurrent, vars, entry, running
<1> QED BY <1>1, <1>2, <1>3, <1>4, <1>5, <1>6 DEF Next

\* The entry's state is well typed: an adapter exists from the probe to the unload,
\* the update listener from the end of setup on.
THEOREM TypeCorrect == Spec => []TypeOK
<1>1. QuietInv => TypeOK
  BY DEF QuietInv
<1> QED BY InitQuiet, StepQuiet, <1>1, PTL DEF Spec

\* A loaded entry with no reload waiting runs on the data and the agents that are
\* stored (async_setup_entry, _async_update_entry_and_abort, async_step_set_options).
THEOREM QuietIsCurrent == Spec => []QuietEntryIsCurrent
<1>1. QuietInv => QuietEntryIsCurrent
  BY DEF QuietInv, AdapterCurrent, EntitiesCurrent, QuietEntryIsCurrent
<1> QED BY InitQuiet, StepQuiet, <1>1, PTL DEF Spec

\* No step but a flow's that has been probed changes the data, and that step makes
\* one reload wait that did not before, whether there is a listener or not.
THEOREM ReloadsOnce == Spec => SavedReloadsOnce
<1>1. ASSUME [Next]_vars, stored' # stored PROVE reloads' = reloads + 1
  <2>1. PICK f \in Flows : FinishUpdate(f)
    BY <1>1 DEF Next, vars, entry, Start, ProbeReaches, ProbeFails, Retry, AddEntities,
                FinishSetup, StartReload, FinishUnload, AskReload, OpenFlow, Submit,
                ProbeRejects, Dismiss, FinishUser, SetOptions, RemoveAgent
  <2> QED BY <1>1, <2>1 DEF FinishUpdate, ReloadsAfter, Notify
<1>2. [Next]_vars => [stored' # stored => reloads' = reloads + 1]_vars
  BY <1>1
<1> QED BY <1>2, PTL DEF Spec, SavedReloadsOnce

\* What is saved is what the flow's own probe has accepted.
THEOREM SavesProbed == Spec => SavedAsProbed
<1>1. ASSUME [Next]_vars, stored' # stored
      PROVE  \E f \in Flows : flow[f].phase = "probing" /\ flow[f].data = stored'
  <2>1. PICK f \in Flows : FinishUpdate(f)
    BY <1>1 DEF Next, vars, entry, Start, ProbeReaches, ProbeFails, Retry, AddEntities,
                FinishSetup, StartReload, FinishUnload, AskReload, OpenFlow, Submit,
                ProbeRejects, Dismiss, FinishUser, SetOptions, RemoveAgent
  <2> QED BY <2>1 DEF FinishUpdate, Saved
<1>2. [Next]_vars => [stored' # stored =>
        \E f \in Flows : flow[f].phase = "probing" /\ flow[f].data = stored']_vars
  BY <1>1
<1> QED BY <1>2, PTL DEF Spec, SavedAsProbed


-----------------------------------------------------------------------------
(* Connections are created once                                            *)

\* A new connection is kept under its normalised URL, and only such a flow creates one.
NormalisedFlow(r) ==
    /\ r.phase \in {"probing", "created"} /\ r.kind = "user" =>
           r.data.url = Normalised(preset, r.entered)
    /\ r.phase = "created" => r.kind = "user"

FlowsNormalised == \A f \in Flows : NormalisedFlow(flow[f])
CreatedApart == \A f, g \in Created : flow[f].data = flow[g].data => f = g

CreatedInv == FlowsNormalised /\ CreatedApart

\* URLs that address one API are stored as one (_async_connection_step).
LEMMA SameStored ==
    ASSUME preset \in Presets, NEW u \in Urls, NEW v \in Urls, SameApi(u, v)
    PROVE  Normalised(preset, u) = Normalised(preset, v)
<1>1. u.end \in Ends /\ v.end \in Ends /\ u.server = v.server
  BY DEF SameApi, Urls
<1>2. CASE preset = "n8n"
  BY <1>2 DEF SameApi, Normalised
<1>3. CASE preset # "n8n"
  <2>1. Suffixed(preset, RStrip(u.end)) = Suffixed(preset, RStrip(v.end))
    <3>1. CASE preset = "converse"
      BY <1>1, <3>1 DEF SameApi, Suffixed, RStrip, Ends
    <3>2. CASE preset \in {"openai_compat", "dify"}
      BY <1>1, <3>2 DEF Suffixed, RStrip, Ends
    <3>3. QED BY <1>3, <3>1, <3>2 DEF Presets
  <2>2. \A w \in Urls : Normalised(preset, w) = [w EXCEPT !.end = Suffixed(preset, RStrip(w.end))]
    BY <1>3 DEF Normalised
  <2>3. \A w \in Urls : [w EXCEPT !.end = Suffixed(preset, RStrip(w.end))] =
                         [server |-> w.server, end |-> Suffixed(preset, RStrip(w.end))]
    BY DEF Urls
  <2> HIDE DEF Suffixed, RStrip, Normalised
  <2>4. QED BY <1>1, <2>1, <2>2, <2>3
<1>4. QED BY <1>2, <1>3

\* A flow gets a record of which that is true, and none is created that exists.
LEMMA FlowKeepsCreated ==
    ASSUME QuietInv, CreatedInv, NEW f \in Flows, NEW record, preset' = preset,
           SetFlow(f, record), NormalisedFlow(record),
           record.phase = "created" => \A g \in Created : flow[g].data # record.data
    PROVE  CreatedInv'
<1>1. \A g \in Flows : flow'[g] = IF g = f THEN record ELSE flow[g]
  BY DEF SetFlow, QuietInv, TypeOK
<1>2. FlowsNormalised'
  BY <1>1 DEF CreatedInv, FlowsNormalised, NormalisedFlow
<1>3. CreatedApart'
  <2>1. \A g \in Created' : (g \in Created /\ flow'[g] = flow[g]) \/ (g = f /\ record.phase = "created")
    BY <1>1 DEF Created
  <2>2. \A g \in Created' : g \in Flows
    BY DEF Created
  <2>3. QED BY <1>1, <2>1, <2>2 DEF CreatedInv, CreatedApart
<1>4. QED BY <1>2, <1>3 DEF CreatedInv

LEMMA StepCreated == QuietInv /\ CreatedInv /\ [Next]_vars => CreatedInv'
<1> SUFFICES ASSUME QuietInv, CreatedInv, [Next]_vars PROVE CreatedInv'
  OBVIOUS
<1>1. CASE UNCHANGED <<preset, flow>>
  BY <1>1 DEF CreatedInv, FlowsNormalised, NormalisedFlow, CreatedApart, Created
<1>2. ASSUME NEW f \in Flows,
             \/ OpenFlow(f) \/ Submit(f) \/ ProbeRejects(f) \/ Dismiss(f) \/ FinishUser(f) \/ FinishUpdate(f)
      PROVE  CreatedInv'
  <2>1. preset' = preset
    BY <1>2 DEF OpenFlow, Submit, ProbeRejects, Dismiss, FinishUser, FinishUpdate, entry
  <2>2. flow[f] \in Forms \cup Submitted \cup {Closed} /\ NormalisedFlow(flow[f])
    BY DEF QuietInv, TypeOK, CreatedInv, FlowsNormalised
  <2>3. \A r : r.phase \in {"form", "closed"} => NormalisedFlow(r) /\ r.phase # "created"
    BY DEF NormalisedFlow
  <2>4. CASE OpenFlow(f)
    <3>1. PICK kind \in Kinds : SetFlow(f, [Closed EXCEPT !.kind = kind, !.phase = "form"])
      BY <2>4 DEF OpenFlow, Kinds
    <3> DEFINE r == [Closed EXCEPT !.kind = kind, !.phase = "form"]
    <3>2. r.phase = "form" /\ SetFlow(f, r)
      BY <3>1 DEF Closed
    <3> HIDE DEF r
    <3>3. QED BY <2>1, <2>3, <3>2, FlowKeepsCreated
  <2>5. CASE Submit(f)
    <3>1. flow[f] \in Forms
      BY <2>2, <2>5 DEF Submit, Submitted, Closed
    <3>2. PICK url \in Urls, key \in Keys :
            LET saved == IF flow[f].kind = "reauth" THEN stored.url ELSE Normalised(preset, url)
                entered == IF flow[f].kind = "user" THEN url ELSE saved
            IN /\ MayEnter(preset, url, key)
               /\ SetFlow(f, [flow[f] EXCEPT !.phase = "probing", !.entered = entered,
                                             !.data = [url |-> saved, key |-> key]])
      BY <2>5 DEF Submit
    <3> DEFINE saved == IF flow[f].kind = "reauth" THEN stored.url ELSE Normalised(preset, url)
               entered == IF flow[f].kind = "user" THEN url ELSE saved
               r == [flow[f] EXCEPT !.phase = "probing", !.entered = entered,
                                    !.data = [url |-> saved, key |-> key]]
    <3>3. SetFlow(f, r)
      BY <3>2
    <3>4. r.phase = "probing" /\ r.kind = flow[f].kind /\ r.entered = entered /\ r.data.url = saved
      BY <3>1 DEF Forms
    <3>5. NormalisedFlow(r)
      <4>1. r.kind = "user" => entered = url /\ saved = Normalised(preset, url)
        BY <3>4
      <4> HIDE DEF r, entered, saved
      <4>2. QED BY <3>4, <4>1 DEF NormalisedFlow
    <3> HIDE DEF r
    <3>6. QED BY <2>1, <3>3, <3>4, <3>5, FlowKeepsCreated
  <2>6. CASE ProbeRejects(f)
    <3>1. flow[f] \in Submitted
      BY <2>2, <2>6 DEF ProbeRejects, Forms, Closed
    <3> DEFINE r == [flow[f] EXCEPT !.phase = "form", !.entered = None, !.data = None]
    <3>2. r.phase = "form" /\ SetFlow(f, r)
      BY <2>6, <3>1 DEF ProbeRejects, Submitted
    <3> HIDE DEF r
    <3>3. QED BY <2>1, <2>3, <3>2, FlowKeepsCreated
  <2>7. CASE Dismiss(f)
    <3>1. Closed.phase = "closed"
      BY DEF Closed
    <3>2. QED BY <2>1, <2>3, <2>7, <3>1, FlowKeepsCreated DEF Dismiss
  <2>8. CASE FinishUser(f)
    <3>1. flow[f] \in Submitted /\ flow[f].kind = "user" /\ flow[f].phase = "probing"
      BY <2>2, <2>8 DEF FinishUser, Forms, Closed
    <3>2. CASE Duplicate(flow[f].data)
      <4>1. Closed.phase = "closed"
        BY DEF Closed
      <4>2. SetFlow(f, Closed)
        BY <2>8, <3>2 DEF FinishUser
      <4>3. QED BY <2>1, <2>3, <4>1, <4>2, FlowKeepsCreated
    <3>3. CASE ~Duplicate(flow[f].data)
      <4> DEFINE r == [flow[f] EXCEPT !.phase = "created"]
      <4>1. SetFlow(f, r)
        BY <2>8, <3>3 DEF FinishUser
      <4>2. r.kind = "user" /\ r.data = flow[f].data /\ r.entered = flow[f].entered
        BY <3>1 DEF Submitted
      <4>3. \A g \in Created : flow[g].data # r.data
        BY <3>3, <4>2 DEF Duplicate, Agrees
      <4> HIDE DEF r
      <4>4. NormalisedFlow(r)
        BY <2>2, <3>1, <4>2 DEF NormalisedFlow
      <4>5. QED BY <2>1, <4>1, <4>3, <4>4, FlowKeepsCreated
    <3>4. QED BY <3>2, <3>3
  <2>9. CASE FinishUpdate(f)
    <3>1. Closed.phase = "closed"
      BY DEF Closed
    <3>2. QED BY <2>1, <2>3, <2>9, <3>1, FlowKeepsCreated DEF FinishUpdate
  <2>10. QED BY <1>2, <2>4, <2>5, <2>6, <2>7, <2>8, <2>9
<1>3. CASE \/ Start \/ ProbeReaches \/ ProbeFails \/ Retry \/ AddEntities \/ FinishSetup \/ StartReload
           \/ FinishUnload \/ AskReload \/ SetOptions \/ RemoveAgent \/ UNCHANGED vars
  BY <1>1, <1>3 DEF Start, ProbeReaches, ProbeFails, Retry, AddEntities, FinishSetup, StartReload,
                    FinishUnload, AskReload, SetOptions, RemoveAgent, vars, entry
<1>4. QED BY <1>2, <1>3 DEF Next

\* Two flows never create one connection twice, however its URL is entered and however
\* their probes overlap: what is looked for in the other entries is the normalised URL,
\* after the probe and without an await before the entry is created.
THEOREM CreatedOnce == Spec => []CreatedDistinct
<1>1. Init => CreatedInv
  <2> SUFFICES ASSUME Init PROVE CreatedInv
    OBVIOUS
  <2>1. \A f \in Flows : flow[f].phase = "closed"
    BY DEF Init, Closed
  <2>2. QED BY <2>1 DEF CreatedInv, FlowsNormalised, NormalisedFlow, CreatedApart, Created
<1>2. QuietInv /\ CreatedInv => CreatedDistinct
  <2> SUFFICES ASSUME QuietInv, CreatedInv, NEW f \in Created, NEW g \in Created,
                      SameApi(flow[f].entered, flow[g].entered), flow[f].data.key = flow[g].data.key
               PROVE  f = g
    BY DEF CreatedDistinct
  <2>1. /\ flow[f] \in Submitted /\ flow[g] \in Submitted /\ preset \in Presets
        /\ flow[f].phase = "created" /\ flow[g].phase = "created" /\ f \in Flows /\ g \in Flows
    BY DEF QuietInv, TypeOK, Created, Forms, Closed
  <2>2. /\ flow[f].data.url = Normalised(preset, flow[f].entered)
        /\ flow[g].data.url = Normalised(preset, flow[g].entered)
    BY <2>1 DEF CreatedInv, FlowsNormalised, NormalisedFlow
  <2>3. flow[f].data.url = flow[g].data.url
    BY <2>1, <2>2, SameStored DEF Submitted
  <2>4. flow[f].data = flow[g].data
    BY <2>1, <2>3 DEF Submitted, Data
  <2>5. QED BY <2>4 DEF CreatedInv, CreatedApart
<1>3. QED BY InitQuiet, StepQuiet, StepCreated, <1>1, <1>2, PTL DEF Spec

=============================================================================
