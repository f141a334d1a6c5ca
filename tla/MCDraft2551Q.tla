---------------------------- MODULE MCDraft2551Q ----------------------------
(* Instances of Draft2551Q for TLC. *)
EXTENDS Draft2551Q
=============================================================================
