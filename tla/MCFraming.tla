----------------------------- MODULE MCFraming -----------------------------
(***************************************************************************)
(* Framing with tags of three characters that begin alike, and a cap that a *)
(* few bytes exceed.                                                        *)
(***************************************************************************)
EXTENDS Framing

OpenTag == <<"<", "t", ">">>
CloseTag == <<"<", "/", ">">>

=============================================================================
