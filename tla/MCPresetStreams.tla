-------------------------- MODULE MCPresetStreams --------------------------
(* PresetStreams for TLC: round-trips of a few events about two tool calls;  *)
(* MCPresetStreamsBlank.cfg shows what n8n's reply that is the empty string  *)
(* leaves in the chat log.                                                   *)
EXTENDS PresetStreams

=============================================================================
