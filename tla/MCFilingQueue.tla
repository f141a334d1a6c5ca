--------------------------- MODULE MCFilingQueue ---------------------------
(* Instances of FilingQueue for TLC. *)
EXTENDS FilingQueueInvariant

=============================================================================
