----------------------------- MODULE ReceiptPoll -----------------------------
(***************************************************************************)
(* How a Submitted return learns that BIR has it: the poll jobs of         *)
(* job_queue, the tick that runs them, the mailbox and the confirmation    *)
(* (background_cron.rs, email/fetcher.rs, email/inbox.rs, db/jobs.rs).     *)
(*                                                                         *)
(* All returns are tracked through one mailbox, the case in which one      *)
(* return's poll confirms another's.  The database lock is dropped between *)
(* any two steps below.  Simplifications:                                  *)
(*  - A return is what FilingQueue calls a row, reduced to its status and  *)
(*    the number of its filing; the worker that files it is two steps.     *)
(*  - Of the times that a confirmation compares only the outcome is kept:  *)
(*    the first filing whose receipt is not more than two minutes older    *)
(*    than the standing authorization.  A user who amends and queues the   *)
(*    return at once leaves it where it was.                               *)
(*  - Jobs are archived by the user, not deleted; a poll is the only kind  *)
(*    of job; the calendar year does not change.                           *)
(*                                                                         *)
(* A definition named X_Slip is X with a mistake one could make in that    *)
(* code; nothing uses it but the runs that show a property notices it.     *)
(***************************************************************************)
EXTENDS Naturals, Sequences, FiniteSets

CONSTANTS
    Returns,       \* the returns tracked through the mailbox
    Lagging,       \* those of a taxable year before the current one
    Users          \* bounds: what may happen, see UserAssumption

ASSUME ReturnsAssumption == IsFiniteSet(Returns)
ASSUME LaggingAssumption == Lagging \subseteq Returns

\* A user files some of the returns, so many times each, presses "check now"
\* and archives jobs so many times; polls fail and the process dies so often.
ASSUME UserAssumption ==
    /\ Users # {}
    /\ Users \subseteq [files: SUBSET Returns, filings: 0 .. 3, checks: 0 .. 3,
                       archivals: 0 .. 3, failures: 0 .. 3, crashes: 0 .. 3]

VARIABLES
    status,      \* status[r]: the filing status of r
    filing,      \* filing[r]: how often r has been uploaded
    floor,       \* floor[r]: the first filing of r whose receipt confirms r
    mail,        \* external: the receipts in the mailbox
    saved,       \* saved[r]: the filing whose receipt submission_receipts holds
    jobs,        \* the rows of job_queue, by id
    listed,      \* the jobs the running tick still has to handle
    poll,        \* poll[id]: the task of job id; poll[0]: "check now"
    user,        \* which of Users this is
    failures, crashes, checks, archivals

vars == <<status, filing, floor, mail, saved, jobs, listed, poll,
          user, failures, crashes, checks, archivals>>
bounds == <<user, failures, crashes, checks, archivals>>
returns == <<status, filing, floor, mail, saved>>

----------------------------------------------------------------------------
(* Types *)

MaxFilings == CHOOSE n \in {u.filings : u \in Users} : \A u \in Users : u.filings <= n

Receipt == [ret: Returns, filing: 1 .. MaxFilings]

Window == 0                                    \* the user's "check now"
MaxJobs == Cardinality(Returns) * MaxFilings   \* a filing creates at most one
Pollers == 0 .. MaxJobs

Job == [ret: Returns,                          \* the return in the job's name
        status: {"Queued", "Running", "Archived"},
        next: {"unset", "ahead", "due"}]       \* next_run_at, against the clock

Poll == [pc: {"idle", "planning", "fetching", "answered"},
         todo: SUBSET Receipt,                 \* messages still to process
         ok: BOOLEAN,                          \* poll_success
         pending: BOOLEAN]                     \* still_pending

IdlePoll == [pc |-> "idle", todo |-> {}, ok |-> FALSE, pending |-> FALSE]

Init == /\ status = [r \in Returns |-> "Draft"]
        /\ filing = [r \in Returns |-> 0]
        /\ floor = [r \in Returns |-> 1]
        /\ mail = {}
        /\ saved = [r \in Returns |-> 0]
        /\ jobs = <<>>
        /\ listed = {}
        /\ poll = [x \in Pollers |-> IdlePoll]
        /\ user \in Users
        /\ failures = 0 /\ crashes = 0 /\ checks = 0 /\ archivals = 0

----------------------------------------------------------------------------
(* Filing: the part of FilingQueue that polling depends on *)

Live(j) == j.status # "Archived"

AlreadyPolled_ByMailbox(r) == \E id \in DOMAIN jobs : Live(jobs[id])

\* A job of the same name, hence of the same return, is still live.
AlreadyPolled(r) == \E id \in DOMAIN jobs : jobs[id].ret = r /\ Live(jobs[id])

NewJob(r) == [ret |-> r, status |-> "Queued", next |-> "unset"]

\* The return is authorized, at most two minutes after some of its former
\* receipts or later, and the upload starts: BIR may acknowledge it.
StartUpload(r) ==
    /\ status[r] = "Draft"
    /\ r \in user.files
    /\ filing[r] < user.filings
    /\ status' = [status EXCEPT ![r] = "Uploading"]
    /\ filing' = [filing EXCEPT ![r] = @ + 1]
    /\ \E n \in floor[r] .. filing[r] + 1 : floor' = [floor EXCEPT ![r] = n]
    /\ UNCHANGED <<mail, saved, jobs, listed, poll, bounds>>

\* The worker records the upload and, under the same lock, schedules a poll.
Submit(r) ==
    /\ status[r] = "Uploading"
    /\ status' = [status EXCEPT ![r] = "Submitted"]
    /\ jobs' = IF AlreadyPolled(r) THEN jobs ELSE Append(jobs, NewJob(r))
    /\ UNCHANGED <<filing, floor, mail, saved, listed, poll, bounds>>

Amend(r) ==
    /\ status[r] \in {"Submitted", "Confirmed"}
    /\ status' = [status EXCEPT ![r] = "Draft"]
    /\ UNCHANGED <<filing, floor, mail, saved, jobs, listed, poll, bounds>>

\* External: the receipt of some filing of r reaches the mailbox.
ReceiptArrives(r) ==
    \E n \in 1 .. filing[r] :
        /\ mail' = mail \cup {[ret |-> r, filing |-> n]}
        /\ UNCHANGED <<status, filing, floor, saved, jobs, listed, poll, bounds>>

----------------------------------------------------------------------------
(* The tick: process_generic_jobs *)

\* Time reaches a job's next_run_at.
JobFallsDue(id) ==
    /\ jobs[id].next = "ahead"
    /\ jobs' = [jobs EXCEPT ![id].next = "due"]
    /\ UNCHANGED <<returns, listed, poll, bounds>>

ToSchedule(j) == j.status = "Queued" /\ j.next = "unset"

\* A Running job whose time has come runs again: its task may have died.
ShouldRun(j) == Live(j) /\ j.next = "due"

\* list_jobs: from here on the tick works on copies.
StartTick ==
    /\ listed = {}
    /\ listed' = {[id |-> id, ret |-> jobs[id].ret, run |-> ShouldRun(jobs[id])] :
                     id \in {i \in DOMAIN jobs : ToSchedule(jobs[i]) \/ ShouldRun(jobs[i])}}
    /\ UNCHANGED <<returns, jobs, poll, bounds>>

\* A job without a next run gets one; save_job writes the whole copy.
ScheduleJob(c) ==
    /\ c \in listed /\ ~c.run
    /\ listed' = listed \ {c}
    /\ jobs' = [jobs EXCEPT ![c.id] = [ret |-> c.ret, status |-> "Queued", next |-> "ahead"]]
    /\ UNCHANGED <<returns, poll, bounds>>

\* A job that should run is saved as Running, then run unless it is running.
RunJob(c) ==
    /\ c \in listed /\ c.run
    /\ listed' = listed \ {c}
    /\ jobs' = [jobs EXCEPT ![c.id] = [ret |-> c.ret, status |-> "Running", next |-> "due"]]
    /\ poll' = IF poll[c.id].pc = "idle"
               THEN [poll EXCEPT ![c.id].pc = "planning"]
               ELSE poll
    /\ UNCHANGED <<returns, bounds>>

----------------------------------------------------------------------------
(* A poll: fetch_and_process_emails_for_address *)

\* plan_email_poll_for_address lists the drafts of the current year only.
StillPending == \E r \in Returns \ Lagging : status[r] = "Submitted"

Plan(x) ==
    /\ poll[x].pc = "planning"
    /\ poll' = [poll EXCEPT ![x] =
                  IF StillPending
                  THEN [@ EXCEPT !.pc = "fetching", !.todo = mail, !.pending = TRUE]
                  ELSE [@ EXCEPT !.pc = "answered", !.ok = TRUE, !.pending = FALSE]]
    /\ UNCHANGED <<returns, jobs, listed, bounds>>

Confirms_NewReceiptOnly(m) ==
    status[m.ret] = "Submitted" /\ m.filing >= floor[m.ret] /\ saved[m.ret] # m.filing
Confirms_AnyFiling(m) == status[m.ret] = "Submitted"

\* confirm_submission_from_receipt, tried for every message of every poll:
\* the time of the receipt is compared, not which filing it is of.
Confirms(m) == status[m.ret] = "Submitted" /\ m.filing >= floor[m.ret]

\* One message: save the receipt, then try to confirm its return.
ProcessMessage(x, m) ==
    /\ poll[x].pc = "fetching"
    /\ m \in poll[x].todo
    /\ poll' = [poll EXCEPT ![x].todo = @ \ {m}]
    /\ saved' = [saved EXCEPT ![m.ret] = m.filing]
    /\ status' = IF Confirms(m) THEN [status EXCEPT ![m.ret] = "Confirmed"] ELSE status
    /\ UNCHANGED <<filing, floor, mail, jobs, listed, bounds>>

\* The mailbox is read; what is still pending now?
FetchSucceeds(x) ==
    /\ poll[x].pc = "fetching"
    /\ poll[x].todo = {}
    /\ poll' = [poll EXCEPT ![x].pc = "answered", ![x].ok = TRUE, ![x].pending = StillPending]
    /\ UNCHANGED <<returns, jobs, listed, bounds>>

FetchFails(x) ==
    /\ poll[x].pc = "fetching"
    /\ failures < user.failures
    /\ failures' = failures + 1
    /\ poll' = [poll EXCEPT ![x].pc = "answered", ![x].todo = {}, ![x].ok = FALSE]
    /\ UNCHANGED <<returns, jobs, listed, user, crashes, checks, archivals>>

StatusAfter_Failed(p) ==
    IF ~p.ok THEN "Failed" ELSE IF p.pending THEN "Queued" ELSE "Archived"

\* Done with the mailbox for good, or to be run again.
StatusAfter(p) == IF p.ok /\ ~p.pending THEN "Archived" ELSE "Queued"

\* The task of a job saves its copy of the row and frees the job key.
FinishJob(id) ==
    /\ poll[id].pc = "answered"
    /\ jobs' = [jobs EXCEPT ![id].status = StatusAfter(poll[id]), ![id].next = "ahead"]
    /\ poll' = [poll EXCEPT ![id] = IdlePoll]
    /\ UNCHANGED <<returns, listed, bounds>>

----------------------------------------------------------------------------
(* The user's windows *)

\* check_inbox_now_run polls in a window and settles every live job after it.
CheckNow ==
    /\ checks < user.checks
    /\ poll[Window].pc = "idle"
    /\ checks' = checks + 1
    /\ poll' = [poll EXCEPT ![Window].pc = "planning"]
    /\ UNCHANGED <<returns, jobs, listed, user, failures, crashes, archivals>>

FinishCheck ==
    LET p == poll[Window]
        Settled(j) == CASE ~Live(j)           -> j
                        [] p.ok /\ ~p.pending -> [j EXCEPT !.status = "Archived"]
                        [] p.ok /\ p.pending  -> j
                        [] ~p.ok              -> [j EXCEPT !.status = "Queued"]
    IN /\ p.pc = "answered"
       /\ jobs' = [id \in DOMAIN jobs |-> Settled(jobs[id])]
       /\ poll' = [poll EXCEPT ![Window] = IdlePoll]
       /\ UNCHANGED <<returns, listed, bounds>>

ArchiveJob(id) ==
    /\ Live(jobs[id])
    /\ archivals < user.archivals
    /\ archivals' = archivals + 1
    /\ jobs' = [jobs EXCEPT ![id].status = "Archived"]
    /\ UNCHANGED <<returns, listed, poll, user, failures, crashes, checks>>

\* The process dies: tasks, windows and the tick are lost, the tables stay.
Crash ==
    /\ crashes < user.crashes
    /\ listed # {} \/ \E x \in Pollers : poll[x].pc # "idle"
    /\ crashes' = crashes + 1
    /\ listed' = {}
    /\ poll' = [x \in Pollers |-> IdlePoll]
    /\ UNCHANGED <<returns, jobs, user, failures, checks, archivals>>

----------------------------------------------------------------------------

HandleListed == \E c \in listed : ScheduleJob(c) \/ RunJob(c)

ReadMailbox(x) == (\E m \in poll[x].todo : ProcessMessage(x, m)) \/ FetchSucceeds(x)

Next == \/ \E r \in Returns : StartUpload(r) \/ Submit(r) \/ Amend(r) \/ ReceiptArrives(r)
        \/ \E id \in DOMAIN jobs : JobFallsDue(id) \/ FinishJob(id) \/ ArchiveJob(id)
        \/ StartTick
        \/ HandleListed
        \/ \E x \in Pollers : Plan(x) \/ ReadMailbox(x) \/ FetchFails(x)
        \/ CheckNow
        \/ FinishCheck
        \/ Crash

Spec == Init /\ [][Next]_vars

\* The cron loop ticks, a task that can run runs, a mailbox read ends and
\* time passes.  Nothing is assumed of the user, of the worker or of BIR.
Fairness ==
    /\ WF_vars(StartTick) /\ WF_vars(HandleListed)
    /\ \A id \in 1 .. MaxJobs :
          /\ WF_vars(id \in DOMAIN jobs /\ JobFallsDue(id))
          /\ WF_vars(id \in DOMAIN jobs /\ FinishJob(id))
    /\ \A x \in Pollers : WF_vars(Plan(x)) /\ WF_vars(ReadMailbox(x))
    /\ WF_vars(FinishCheck)

FairSpec == Spec /\ Fairness

----------------------------------------------------------------------------
(* What polling promises *)

TypeOK ==
    /\ status \in [Returns -> {"Draft", "Uploading", "Submitted", "Confirmed"}]
    /\ filing \in [Returns -> 0 .. MaxFilings]
    /\ floor \in [Returns -> Nat]
    /\ mail \subseteq Receipt
    /\ saved \in [Returns -> 0 .. MaxFilings]
    /\ jobs \in Seq(Job) /\ Len(jobs) <= MaxJobs
    /\ listed \subseteq [id: 1 .. MaxJobs, ret: Returns, run: BOOLEAN]
    /\ poll \in [Pollers -> Poll]
    /\ user \in Users
    /\ failures \in 0 .. user.failures /\ crashes \in 0 .. user.crashes
    /\ checks \in 0 .. user.checks /\ archivals \in 0 .. user.archivals

\* A Confirmed return was acknowledged by BIR, whichever job's poll read which
\* message, in which order and how often: the filing it stands for, or a
\* former one that it was authorized within two minutes of
\* (fetch_with_auth, receipt_belongs_to_this_generation).
ConfirmedWasAcknowledged ==
    \A r \in Returns : status[r] = "Confirmed" =>
        \E n \in floor[r] .. filing[r] : [ret |-> r, filing |-> n] \in mail

\* Nothing has happened yet that may leave a return without a job: a return
\* filed again counts on the job of its first filing, "check now" settles the
\* jobs of returns it did not see, and the user may archive a job.
Undisturbed == checks = 0 /\ archivals = 0 /\ \A r \in Returns : filing[r] <= 1

\* While a return of the current year waits for its receipt, a live job keeps
\* polling the mailbox, although a job archives itself on what it read before
\* it dropped the lock (schedule_email_poll, process_generic_jobs).
PendingIsPolled ==
    Undisturbed /\ (\E r \in Returns \ Lagging : status[r] = "Submitted") =>
        \E id \in DOMAIN jobs : Live(jobs[id])

\* A Submitted return whose receipt is in the mailbox is confirmed, across
\* crashes, failed polls and receipts read before the return was Submitted
\* (the "stuck in Submitted forever" of fetcher.rs).
ReceiptConfirms ==
    \A r \in Returns :
        status[r] = "Submitted" /\ [ret |-> r, filing |-> filing[r]] \in mail
            ~> status[r] # "Submitted" \/ ~Undisturbed

=============================================================================
