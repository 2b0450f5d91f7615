--------------------------- MODULE EntryLifecycle ---------------------------
(***************************************************************************)
(* One connection's config entry: its migration and setup (__init__.py),   *)
(* the flows that create, reconfigure and reauthenticate a connection and  *)
(* the subentry flow that adds and changes its agents (config_flow.py).    *)
(*                                                                         *)
(* A flow probes the backend before it saves, setup probes it before it    *)
(* builds the adapter and hands over to the platforms, and unloading takes *)
(* its time, too: the entry's data and its agents can change during any of *)
(* these awaits.  What keeps the running adapter and its entities up to    *)
(* date is a reload per change, asked for by the update listener or, while *)
(* there is none, by the flow.                                             *)
(*                                                                         *)
(* Home Assistant runs setups, unloads and reloads of one entry one at a   *)
(* time, so a single variable tells how far the one under way has come.    *)
(***************************************************************************)
EXTENDS Naturals

CONSTANTS
    Agents,       \* subentries the connection may have
    Options,      \* what an agent can be configured with
    Servers,      \* backends a URL may name
    Keys,         \* credentials; None, if it is one, for a field left empty
    Flows,        \* config flows open at the same time
    None,         \* no data, no agent, no credential
    V0Agent,      \* the agent that a migrated v0 entry becomes
    V0Options,    \* and the options it gets
    MaxReloads,   \* bound: reloads waiting
    MaxChanges    \* bound: agents added, changed or removed

\* A connection is its server's URL, here with the end that matters to a preset,
\* and a credential.
Ends == {"", "/", "/v1", "/v1/"}
Urls == [server : Servers, end : Ends]
Data == [url : Urls, key : Keys]

ASSUME V0Assumption == V0Agent \in Agents /\ V0Options \in Options
ASSUME NoneAssumption == None \notin Options \cup Data
ASSUME BoundsAssumption == MaxReloads \in Nat \ {0} /\ MaxChanges \in Nat

VARIABLES
    preset,     \* the connection's backend type, never changed
    version,    \* entry.version
    stored,     \* entry.data
    agents,     \* entry.subentries
    setup,      \* how far a setup, reload or unload has come
    adapter,    \* the data that entry.runtime_data was built with
    entities,   \* the options each agent's entity was built with
    listening,  \* entry.update_listeners is not empty
    reloads,    \* tasks that wait to reload the entry
    flow,       \* the config flows
    v0Entity,   \* what the v0 entity is registered for: the entry, an agent
    changes     \* agents changed so far (bound)

entry == <<preset, version, stored, agents>>
running == <<setup, adapter, entities, listening>>
vars == <<entry, running, reloads, flow, v0Entity, changes>>

Presets == {"openai_compat", "dify", "n8n", "converse"}
Agency == [Agents -> Options \cup {None}]

SetupStates == {"not_loaded", "probing", "forwarding", "adding", "loaded",
                "unloading", "retrying", "auth_failed", "failed", "refused"}
Built == {"forwarding", "adding", "loaded", "unloading"}

Closed == [kind |-> "none", phase |-> "closed", entered |-> None, data |-> None]
Kinds == {"user", "reconfigure", "reauth"}
Forms == [kind : Kinds, phase : {"form"}, entered : {None}, data : {None}]
Submitted == [kind : Kinds, phase : {"probing", "created"}, entered : Urls, data : Data]

-----------------------------------------------------------------------------
(* The URL a connection is stored with (_async_connection_step)            *)

RStrip(end) == CASE end = "/" -> "" [] end = "/v1/" -> "/v1" [] OTHER -> end

\* Each preset's idea of a trailing /v1: the OpenAI adapter adds its own, Dify's
\* expects it in the base URL, the others take the path as it is.
Suffixed(p, end) ==
    CASE p = "openai_compat" /\ end = "/v1" -> ""
      [] p = "dify" /\ end = "" -> "/v1"
      [] OTHER -> end

\* Mutant: the suffix is looked for before the slash behind it is stripped.
NormalisedSuffixFirst(p, url) ==
    IF p = "n8n" THEN url ELSE [url EXCEPT !.end = RStrip(Suffixed(p, @))]

Normalised(p, url) ==
    IF p = "n8n" THEN url ELSE [url EXCEPT !.end = Suffixed(p, RStrip(@))]

\* What a preset's form may be given: Dify's alone requires its credential.  (To
\* n8n a /v1 is a path like any other, so none is entered.)
MayEnter(p, url, key) ==
    /\ p = "dify" => key # None
    /\ p = "n8n" => url.end \in {"", "/"}

-----------------------------------------------------------------------------
TypeOK ==
    /\ preset \in Presets
    /\ version \in 1..3
    /\ stored \in Data
    /\ agents \in Agency
    /\ setup \in SetupStates
    /\ adapter \in Data \cup {None}
    /\ (adapter # None) <=> (setup \in Built)
    /\ entities \in Agency
    /\ listening \in BOOLEAN
    /\ listening <=> (setup \in {"loaded", "unloading"})
    /\ reloads \in 0..MaxReloads
    /\ flow \in [Flows -> Forms \cup Submitted \cup {Closed}]
    /\ v0Entity \in {"none", "entry", "agent"}
    /\ v0Entity = "entry" => version = 1 /\ setup = "not_loaded"
    /\ changes \in 0..MaxChanges

Nobody == [a \in Agents |-> None]

Init ==
    /\ preset \in Presets
    /\ version \in 1..3
    /\ version = 1 => preset = "converse"
    \* The URL of a v0 entry was not normalised, and its migration keeps it; /v1
    \* means nothing to its backend.
    /\ \E url \in Urls, key \in Keys :
        /\ version = 1 => url.end \in {"", "/"}
        /\ MayEnter(preset, url, key)
        /\ stored = [url |-> IF version = 1 THEN url ELSE Normalised(preset, url), key |-> key]
    /\ agents = Nobody
    /\ setup = "not_loaded"
    /\ adapter = None
    /\ entities = Nobody
    /\ listening = FALSE
    /\ reloads = 0
    /\ flow = [f \in Flows |-> Closed]
    /\ v0Entity \in IF version = 1 THEN {"none", "entry"} ELSE {"none"}
    /\ changes = 0

-----------------------------------------------------------------------------
(* Migration, setup and reload                                             *)

\* async_migrate_entry of a v0 entry, without an await: its one agent becomes a
\* subentry, and the entity registered for the entry moves to that subentry.
Migrate ==
    /\ agents' = [agents EXCEPT ![V0Agent] = V0Options]
    /\ version' = 2
    /\ v0Entity' = IF v0Entity = "entry" THEN "agent" ELSE v0Entity

\* Home Assistant starts the entry; one of a later version is refused.
Start ==
    /\ setup = "not_loaded"
    /\ setup' = IF version > 2 THEN "refused" ELSE "probing"
    /\ IF version = 1 THEN Migrate ELSE UNCHANGED <<agents, version, v0Entity>>
    /\ UNCHANGED <<preset, stored, adapter, entities, listening, reloads, flow, changes>>

\* The probe answers: the adapter is built with the data as they are now.
ProbeReaches ==
    /\ setup = "probing"
    /\ setup' = "forwarding"
    /\ adapter' = stored
    /\ UNCHANGED <<entry, entities, listening, reloads, flow, v0Entity, changes>>

\* ConfigEntryNotReady, ConfigEntryAuthFailed, or an error of any other type.
ProbeFails ==
    /\ setup = "probing"
    /\ setup' \in {"retrying", "auth_failed", "failed"}
    /\ UNCHANGED <<entry, adapter, entities, listening, reloads, flow, v0Entity, changes>>

Retry ==
    /\ setup = "retrying"
    /\ setup' = "probing"
    /\ UNCHANGED <<entry, adapter, entities, listening, reloads, flow, v0Entity, changes>>

\* The platforms build one entity per subentry.
AddEntities ==
    /\ setup = "forwarding"
    /\ setup' = "adding"
    /\ entities' = agents
    /\ UNCHANGED <<entry, adapter, listening, reloads, flow, v0Entity, changes>>

\* The platforms are done: the listener is registered and the entry is loaded.
FinishSetup ==
    /\ setup = "adding"
    /\ setup' = "loaded"
    /\ listening' = TRUE
    /\ UNCHANGED <<entry, adapter, entities, reloads, flow, v0Entity, changes>>

\* async_reload: a loaded entry is unloaded first, one that is not is set up.
StartReload ==
    /\ reloads > 0
    /\ setup \in {"loaded", "retrying", "auth_failed", "failed", "refused"}
    /\ reloads' = reloads - 1
    /\ setup' = CASE setup = "loaded" -> "unloading"
                  [] setup = "refused" -> "refused"
                  [] OTHER -> "probing"
    /\ UNCHANGED <<entry, adapter, entities, listening, flow, v0Entity, changes>>

\* Mutant: the adapter outlives the unload.
FinishUnloadKeepingAdapter ==
    /\ setup = "unloading"
    /\ setup' = "probing"
    /\ entities' = Nobody
    /\ listening' = FALSE
    /\ UNCHANGED <<entry, adapter, reloads, flow, v0Entity, changes>>

\* The platforms are unloaded and the listener is taken away; the reload goes
\* on with a setup.
FinishUnload ==
    /\ setup = "unloading"
    /\ setup' = "probing"
    /\ adapter' = None
    /\ entities' = Nobody
    /\ listening' = FALSE
    /\ UNCHANGED <<entry, reloads, flow, v0Entity, changes>>

\* The user asks for a reload.
AskReload ==
    /\ reloads < MaxReloads
    /\ reloads' = reloads + 1
    /\ UNCHANGED <<entry, running, flow, v0Entity, changes>>

-----------------------------------------------------------------------------
(* Config flows                                                            *)

SetFlow(f, record) == flow' = [flow EXCEPT ![f] = record]

\* Home Assistant has started its entries before it offers flows for them.
OpenFlow(f) ==
    /\ setup # "not_loaded"
    /\ flow[f] = Closed
    /\ \E kind \in {"user", "reconfigure", "reauth"} :
        \* One reauth flow an entry, opened by a rejected setup or request.
        /\ kind = "reauth" => /\ setup \in {"auth_failed", "loaded"}
                              /\ \A g \in Flows : flow[g].kind # "reauth"
        /\ SetFlow(f, [Closed EXCEPT !.kind = kind, !.phase = "form"])
    /\ UNCHANGED <<entry, running, reloads, v0Entity, changes>>

\* A form is submitted and its connection probed.  Reauth asks for the key alone
\* and takes the rest from the entry as it is before the probe.  (entered is kept
\* for CreatedDistinct alone, which speaks of new connections.)
Submit(f) ==
    /\ flow[f].phase = "form"
    /\ \E url \in Urls, key \in Keys :
        LET saved == IF flow[f].kind = "reauth" THEN stored.url ELSE Normalised(preset, url)
            entered == IF flow[f].kind = "user" THEN url ELSE saved
        IN /\ MayEnter(preset, url, key)
           /\ SetFlow(f, [flow[f] EXCEPT !.phase = "probing", !.entered = entered,
                                         !.data = [url |-> saved, key |-> key]])
    /\ UNCHANGED <<entry, running, reloads, v0Entity, changes>>

\* The probe fails: the form is shown again.
ProbeRejects(f) ==
    /\ flow[f].phase = "probing"
    /\ SetFlow(f, [flow[f] EXCEPT !.phase = "form", !.entered = None, !.data = None])
    /\ UNCHANGED <<entry, running, reloads, v0Entity, changes>>

Dismiss(f) ==
    /\ flow[f].phase = "form"
    /\ SetFlow(f, Closed)
    /\ UNCHANGED <<entry, running, reloads, v0Entity, changes>>

Created == {f \in Flows : flow[f].phase = "created"}

\* An entry agrees with all that was given; its credential may not have been.
Agrees(data, other) == data.url = other.url /\ data.key \in {other.key, None}

\* _async_abort_entries_match: there is such an entry.
Duplicate(data) == Agrees(data, stored) \/ \E f \in Created : Agrees(data, flow[f].data)

\* A probed new connection becomes an entry of its own unless it exists.
FinishUser(f) ==
    /\ flow[f].phase = "probing"
    /\ flow[f].kind = "user"
    /\ SetFlow(f, IF Duplicate(flow[f].data) THEN Closed
                  ELSE [flow[f] EXCEPT !.phase = "created"])
    /\ UNCHANGED <<entry, running, reloads, v0Entity, changes>>

\* The update listeners: a changed entry of a loaded connection is reloaded.
Notify(changed) == IF listening /\ changed THEN 1 ELSE 0

\* Mutant: the flow leaves the reload to the listener, also if there is none.
ReloadsAfterListenerOnly(data) == Notify(data # stored)

\* Mutant: the flow reloads the entry, also if the listener does.
ReloadsAfterAlways(data) == Notify(data # stored) + 1

\* _async_update_entry_and_abort.
ReloadsAfter(data) == IF listening THEN Notify(data # stored) ELSE 1

\* Mutant: reauth puts its key into the entry as it is after the probe.
SavedMergedLate(f) ==
    IF flow[f].kind = "reauth" THEN [stored EXCEPT !.key = flow[f].data.key] ELSE flow[f].data

Saved(f) == flow[f].data

\* A probed reconfiguration or reauthentication is saved.
FinishUpdate(f) ==
    /\ flow[f].phase = "probing"
    /\ flow[f].kind \in {"reconfigure", "reauth"}
    /\ reloads + ReloadsAfter(Saved(f)) <= MaxReloads
    /\ stored' = Saved(f)
    /\ reloads' = reloads + ReloadsAfter(Saved(f))
    /\ SetFlow(f, Closed)
    /\ UNCHANGED <<preset, version, agents, running, v0Entity, changes>>

-----------------------------------------------------------------------------
(* Agents                                                                  *)

\* async_step_set_options: agents are managed under a loaded connection only.
Manageable == setup = "loaded"

\* The subentry flow adds an agent or gives it other options.
SetOptions ==
    /\ Manageable
    /\ changes < MaxChanges
    /\ changes' = changes + 1
    /\ \E a \in Agents, o \in Options :
        /\ agents' = [agents EXCEPT ![a] = o]
        /\ reloads + Notify(agents[a] # o) <= MaxReloads
        /\ reloads' = reloads + Notify(agents[a] # o)
    /\ UNCHANGED <<preset, version, stored, running, flow, v0Entity>>

\* Home Assistant removes an agent, with its entity, whatever the entry's state.
RemoveAgent ==
    /\ changes < MaxChanges
    /\ changes' = changes + 1
    /\ reloads + Notify(TRUE) <= MaxReloads
    /\ reloads' = reloads + Notify(TRUE)
    /\ \E a \in Agents :
        /\ agents[a] # None
        /\ agents' = [agents EXCEPT ![a] = None]
        /\ entities' = [entities EXCEPT ![a] = None]
        /\ v0Entity' = IF a = V0Agent /\ v0Entity = "agent" THEN "none" ELSE v0Entity
    /\ UNCHANGED <<preset, version, stored, setup, adapter, listening, flow>>

-----------------------------------------------------------------------------
Next ==
    \/ Start
    \/ ProbeReaches
    \/ ProbeFails
    \/ Retry
    \/ AddEntities
    \/ FinishSetup
    \/ StartReload
    \/ FinishUnload
    \/ AskReload
    \/ \E f \in Flows : \/ OpenFlow(f)
                        \/ Submit(f)
                        \/ ProbeRejects(f)
                        \/ Dismiss(f)
                        \/ FinishUser(f)
                        \/ FinishUpdate(f)
    \/ SetOptions
    \/ RemoveAgent

Spec == Init /\ [][Next]_vars

-----------------------------------------------------------------------------
(* Properties                                                              *)

\* A loaded entry with no reload waiting runs on what is stored: the adapter has
\* the entry's data and each entity its agent's options, although both may have
\* been changed while the entry was being set up, before the listener was there.
QuietEntryIsCurrent ==
    setup = "loaded" /\ reloads = 0 => adapter = stored /\ entities = agents

\* A flow that saves other data has the entry reloaded exactly once, by the
\* listener or by itself, in whatever state the flow's probe finds it.
SavedReloadsOnce == [][stored' # stored => reloads' = reloads + 1]_vars

\* Only a connection that was probed as a whole is saved, although reauth asks
\* for a part of it and another flow may change the rest during the probe.
SavedAsProbed ==
    [][stored' # stored =>
        \E f \in Flows : flow[f].phase = "probing" /\ flow[f].data = stored']_vars

\* Two URLs that address one API of one server: the adapter adds the /v1 of an
\* OpenAI or Dify URL or finds it there, and a slash at the end means nothing,
\* except to n8n, whose webhook URL is taken verbatim.
SameApi(u, v) ==
    /\ u.server = v.server
    /\ preset = "n8n" => u = v
    /\ preset = "converse" => (u.end \in {"", "/"}) = (v.end \in {"", "/"})

\* Two flows never create one connection twice, in whatever form its URL is
\* entered and however their probes overlap.
CreatedDistinct ==
    \A f, g \in Created :
        f # g => ~ (SameApi(flow[f].entered, flow[g].entered) /\ flow[f].data.key = flow[g].data.key)

=============================================================================
