----------------------------- MODULE MCUpdater -----------------------------
(* Three versions: an update can overtake another one.                       *)
EXTENDS Updater
=============================================================================
