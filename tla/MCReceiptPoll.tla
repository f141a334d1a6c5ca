--------------------------- MODULE MCReceiptPoll ---------------------------
(* Values TLC checks ReceiptPoll with. *)
EXTENDS ReceiptPoll

CONSTANTS r1, r2

\* Two returns filed once by a user who leaves the jobs alone, or one return
\* filed, amended and filed again by one who presses "check now" or archives
\* a job.
MCUsers ==
    {[files |-> {r1, r2}, filings |-> 1, checks |-> 0, archivals |-> 0, failures |-> 1, crashes |-> 1],
     [files |-> {r1}, filings |-> 2, checks |-> 1, archivals |-> 0, failures |-> 1, crashes |-> 0],
     [files |-> {r1}, filings |-> 2, checks |-> 0, archivals |-> 1, failures |-> 0, crashes |-> 1]}

=============================================================================
