---------------------------- MODULE MCNlpSession ----------------------------
(* Small instances of NlpSession for TLC. *)
EXTENDS NlpSession

AnyRoute == {"check", "zoneless"}
=============================================================================
