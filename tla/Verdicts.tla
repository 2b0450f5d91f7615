------------------------------ MODULE Verdicts ------------------------------
(***************************************************************************)
(* Which error each preset raises for what its backend does, when setup    *)
(* probes it and when a turn talks to it, and what the integration reads   *)
(* from the error: its place in the class hierarchy (base.py) and the      *)
(* error it wraps are all that setup and the entities look at.             *)
(***************************************************************************)

Presets == {"converse", "dify", "langgraph", "n8n", "ollama", "openai_compat"}

\* The presets with supports_ai_task.
TaskPresets == {"ollama", "openai_compat"}

-----------------------------------------------------------------------------
(* Errors: a class and the class of the error it was raised from           *)

NoError == [class |-> "none", cause |-> "none"]
Err(c) == [class |-> c, cause |-> "none"]
Wrapped(c, k) == [class |-> c, cause |-> k]

IsA(c, base) ==
    \/ c = base
    \/ base = "BackendAuthError" /\ c = "BackendStreamAuthError"
    \/ /\ base = "BackendConnectionError"
       /\ c \in {"BackendAuthError", "BackendStatusError", "BackendStreamAuthError",
                 "DifyAppError", "N8nWebhookError", "AssistantNotFoundError"}

\* helpers.is_unreachable: refused, dropped or timed out, be it wrapped.
IsUnreachable(err) == "ClientConnectionError" \in {err.class, err.cause}

StartsReauth(err) == IsA(err.class, "BackendAuthError")

\* An error of the integration that the user may read as it is: a
\* HomeAssistantError with the integration's translation domain.
IsTranslated(err) == err.class = "TranslatedError"

-----------------------------------------------------------------------------
(* The probe                                                               *)

\* What a probe meets.  wrong_target: the app, workflow or assistant is not one
\* that can chat; odd_shape: a success whose body cannot be decoded or holds a
\* null for a list; slow: PROBE_TIMEOUT, always before the request's own.
ProbeAnswers == {"good", "rejected", "not_found", "error_status", "malformed",
                 "wrong_target", "odd_shape", "down", "slow"}

\* probe_json, of which some presets have a version of their own.
ProbeJsonRaises(w) ==
    CASE w = "rejected" -> "BackendAuthError"
      [] w \in {"not_found", "error_status"} -> "BackendStatusError"
      [] w \in {"malformed", "down"} -> "BackendConnectionError"
      [] w = "slow" -> "TimeoutError"
      [] OTHER -> "none"

\* Converse only asks whether anything answers; any status but 401 and 403 will do.
ConverseProbeRaises(w) == IF w \in {"rejected", "down", "slow"} THEN ProbeJsonRaises(w) ELSE "none"

DifyProbeRaises(w) ==
    CASE w = "wrong_target" -> "DifyAppError"
      [] w = "odd_shape" -> "ValueError"
      [] OTHER -> ProbeJsonRaises(w)

LangGraphProbeRaises(w) ==
    IF w \in {"not_found", "wrong_target"} THEN "AssistantNotFoundError" ELSE ProbeJsonRaises(w)

\* OPTIONS shows an unregistered path; any other answer is left to the turns.
N8nProbeRaises(w) ==
    CASE w = "wrong_target" -> "N8nWebhookError"
      [] w = "odd_shape" -> "ValueError"
      [] OTHER -> ConverseProbeRaises(w)

OpenAIProbeRaises(w) == IF w = "odd_shape" THEN "TypeError" ELSE ProbeJsonRaises(w)

ProbeRaises(p, w) ==
    CASE p = "converse" -> ConverseProbeRaises(w)
      [] p = "dify" -> DifyProbeRaises(w)
      [] p = "langgraph" -> LangGraphProbeRaises(w)
      [] p = "n8n" -> N8nProbeRaises(w)
      [] p = "openai_compat" -> OpenAIProbeRaises(w)
      [] p = "ollama" -> ProbeJsonRaises(w)

-----------------------------------------------------------------------------
(* The turn                                                                *)

\* What a round-trip meets.  cut: the body ends before its end; down: refused,
\* dropped, or silent for the agent's timeout; lookup_rejected: the credentials
\* are refused when a LangGraph thread is looked up before the run.
ReplyAnswers == {"good", "rejected", "rate_limited", "error_status", "broken_reply", "cut", "down"}
LookupAnswers == {"lookup_rejected"}
\* Nothing is sent: an attachment that is no image, or that cannot be read.
LocalErrors == {"unsupported_attachment", "unreadable_attachment"}
TurnAnswers == ReplyAnswers \cup LookupAnswers \cup LocalErrors

\* What a round-trip of the preset may meet; only AI tasks have attachments.
MayMeet(p, kind) ==
    ReplyAnswers \cup (IF p = "langgraph" THEN LookupAnswers ELSE {})
                 \cup (IF kind = "ai_task" THEN LocalErrors ELSE {})

\* Mutant: a rejected credential is an error status like any other.
PostCheckedRaisesUntyped(w) ==
    CASE w = "good" -> NoError
      [] w = "cut" -> Err("ClientPayloadError")
      [] w = "down" -> Err("ClientConnectionError")
      [] w = "unsupported_attachment" -> Err("TranslatedError")
      [] w = "unreadable_attachment" -> Err("OSError")
      [] OTHER -> Err("BackendStreamError")

\* _post_checked and the streams behind it.
PostCheckedRaises(w) ==
    CASE w = "good" -> NoError
      [] w = "rejected" -> Err("BackendStreamAuthError")
      [] w \in {"rate_limited", "error_status", "broken_reply", "lookup_rejected"} -> Err("BackendStreamError")
      [] w = "cut" -> Err("ClientPayloadError")
      [] w = "down" -> Err("ClientConnectionError")
      [] w = "unsupported_attachment" -> Err("TranslatedError")
      [] OTHER -> Err("OSError")

DifyTurnRaises(w) ==
    CASE w = "rejected" -> Err("BackendAuthError")
      [] w \in {"rate_limited", "error_status"} -> Err("BackendConnectionError")
      [] OTHER -> PostCheckedRaises(w)

\* Mutant: n8n raises its own error without the one it replaces.
N8nTurnRaisesFromNone(w) ==
    IF w \in {"down", "cut"} THEN Err("BackendStreamError") ELSE PostCheckedRaises(w)

N8nTurnRaises(w) ==
    CASE w = "down" -> Wrapped("BackendStreamError", "ClientConnectionError")
      [] w = "cut" -> Wrapped("BackendStreamError", "ClientPayloadError")
      [] OTHER -> PostCheckedRaises(w)

OllamaTurnRaises(w) ==
    IF w \in {"rate_limited", "error_status"} THEN Err("BackendConnectionError")
                                              ELSE PostCheckedRaises(w)

OpenAITurnRaises(w) == IF w = "rate_limited" THEN Err("TranslatedError") ELSE PostCheckedRaises(w)

TurnRaises(p, w) ==
    CASE p \in {"converse", "langgraph"} -> PostCheckedRaises(w)
      [] p = "dify" -> DifyTurnRaises(w)
      [] p = "n8n" -> N8nTurnRaises(w)
      [] p = "ollama" -> OllamaTurnRaises(w)
      [] p = "openai_compat" -> OpenAITurnRaises(w)

=============================================================================
