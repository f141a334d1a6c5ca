----------------------------- MODULE MCCronLoop -----------------------------
(* Values TLC checks CronLoop with. *)
EXTENDS CronLoop

=============================================================================
