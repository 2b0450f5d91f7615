------------------------------ MODULE ChatLog ------------------------------
(***************************************************************************)
(* Home Assistant's ChatLog, as far as the integration depends on it: the  *)
(* external component that turns a stream of deltas into log entries.      *)
(*                                                                         *)
(* A delta that carries a role closes the open block and opens a new one;  *)
(* a delta without a role extends the open block.  A closed block becomes  *)
(* an AssistantContent only if it carries text, thinking or tool calls: a  *)
(* block that got nothing, or nothing but the empty string, vanishes.  The *)
(* tool calls of a block that Home Assistant runs itself are answered      *)
(* right after the entry, so the log then ends on a tool result.  Only the *)
(* LAST entry of the log is kept: every decision of the integration        *)
(* (unresponded_tool_results, the final answer) reads that entry and no    *)
(* other.                                                                  *)
(***************************************************************************)

\* What a block can get.  "fallback" is the translated error message, "blank" a
\* content that is the empty string: it leaves no trace in the log, and is kept
\* here to tell a blank reply from a block that was opened for nothing.
Parts == {"text", "blank", "thinking", "ha_calls", "ext_call", "fallback"}

\* What of a block reaches the log.
Visible(parts) == parts \ {"blank"}

\* No role was received yet in this round-trip: not a block, and not one that is
\* merely empty.
NoBlock == {"no role yet"}

Blocks == (SUBSET Parts) \cup {NoBlock}

\* A log entry.  A tool result says who ran the tool: Home Assistant itself,
\* or the backend (an "external" call that is only displayed).
User == [kind |-> "user", has |-> {}]
Assistant(parts) == [kind |-> "assistant", has |-> parts]
HaResult == [kind |-> "ha_result", has |-> {}]
ExtResult == [kind |-> "ext_result", has |-> {}]

Entries ==
    {User, HaResult, ExtResult} \cup {Assistant(p) : p \in (SUBSET Visible(Parts)) \ {{}}}

\* The delta kinds of an adapter's stream.
Deltas == {"role", "text", "blank", "thinking", "ha_calls", "ext_call", "ext_result"}

CarriesRole(d) == d \in {"role", "ext_call", "ext_result"}

\* The last entry after the open block is closed.
Flushed(entry, block) ==
    CASE block = NoBlock \/ Visible(block) = {} -> entry
      [] "ha_calls" \in block -> HaResult
      [] OTHER                -> Assistant(Visible(block))

\* The last entry after delta d was consumed.
EntryAfter(entry, block, d) ==
    CASE d = "ext_result" -> ExtResult
      [] d \in {"role", "ext_call"} -> Flushed(entry, block)
      [] OTHER -> entry

\* The open block after delta d was consumed.
BlockAfter(block, d) ==
    CASE d \in {"role", "ext_result"} -> {}
      [] d = "ext_call" -> {"ext_call"}
      [] OTHER -> block \cup {d}

\* chat_log.unresponded_tool_results: the log ends on a tool result, whoever
\* ran the tool.
UnrespondedToolResults(entry) == entry.kind \in {"ha_result", "ext_result"}

=============================================================================
