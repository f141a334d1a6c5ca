---------------------------- MODULE FilingQueue ----------------------------
(***************************************************************************)
(* The durable filing queue of bir-core: one form_drafts row per return,   *)
(* the background worker that files it, and the user who edits, queues,    *)
(* cancels and amends it (filing_queue.rs, background_cron.rs,             *)
(* forms/queueable.rs, db/queueable.rs).                                   *)
(*                                                                         *)
(* Every action is one database transaction or one step between two of     *)
(* them: the worker drops the database lock while it prepares, connects    *)
(* and uploads, and any other actor may run in the gaps.  Simplifications: *)
(*  - A timestamp is a reading of a clock that advances at every           *)
(*    timestamped write and every new day, so timestamps are unique (the   *)
(*    code's have nanosecond precision); 0 stands for None, and readings   *)
(*    ReceiptSkew apart are at most two minutes apart.  Waiting for a      *)
(*    retry time or a lease is a flag that time raises at any later        *)
(*    moment.                                                              *)
(*  - A return's field map is its user edit, its "Amended Return?" answer  *)
(*    and the amounts the engine computes for a day (penalties); a         *)
(*    fingerprint is the field map it was taken from.                      *)
(*  - The build is a release build: Dev Mode's auto-confirm is a no-op.    *)
(*                                                                         *)
(* A definition named X_Slip is X with a mistake one could make in that    *)
(* code; nothing uses it but the runs that show a property notices it.     *)
(***************************************************************************)
EXTENDS Naturals, FiniteSets

CONSTANTS
    Returns,       \* the returns of one taxpayer: form, TIN and period
    Guarded,       \* those whose form runs the save-009 guard
    Edits,         \* the values the user may enter on a return
    Sources,       \* where a session leads: subset of {"live", "dry-run"}
    MaxAttempts,   \* failed sessions after which a return goes back to Draft
    ReceiptSkew,   \* clock readings within RECEIPT_AUTH_CLOCK_SKEW
    MaxGrants,     \* bound: how often the user queues a return
    MaxCrashes,    \* bound: how often the process dies
    MaxDays,       \* bound: how often a computed amount changes with the day
    NoContent      \* Option::None of a fingerprint or a payload

Content == [edit: Edits, amended: BOOLEAN, accrual: Nat]

ASSUME GuardedAssumption == Guarded \subseteq Returns
ASSUME EditsAssumption == Edits # {}
ASSUME SourcesAssumption == Sources \subseteq {"live", "dry-run"}
ASSUME AttemptsAssumption == MaxAttempts \in Nat \ {0}
ASSUME SkewAssumption == ReceiptSkew \in Nat
ASSUME BoundsAssumption == /\ MaxGrants \in Nat
                           /\ MaxCrashes \in Nat
                           /\ MaxDays \in Nat
ASSUME NoContentAssumption == NoContent \notin Content

VARIABLES
    row,        \* row[r]: the stored draft of return r with its lifecycle
    task,       \* task[r]: the worker task that holds the job key of r
    received,   \* external: the files on BIR's server
    simulated,  \* the uploads that dry runs stood in for
    snapshots,  \* the amendment_snapshots table
    clock,      \* the latest timestamp written
    today,      \* changes of computed amounts so far
    crashes,    \* how often the process has died
    granted,    \* history: what the user authorized, and under which grant
    withdrawn,  \* history: grants taken back before a worker claimed them
    released    \* history: grants whose held claim a human released

vars == <<row, task, received, simulated, snapshots, clock, today, crashes,
          granted, withdrawn, released>>
history == <<granted, withdrawn, released>>

----------------------------------------------------------------------------
(* Types *)

Status == {"Draft", "Queued", "Submitted", "Confirmed"}

OptContent == Content \cup {NoContent}

Row == [status: Status,
        content: Content,
        fingerprint: OptContent,       \* queued_submission_fingerprint
        authorization: Nat,            \* queue_authorization.authorized_at
        nextRetry: Nat,                \* next_retry_at
        retryDue: BOOLEAN,             \* the clock has reached next_retry_at
        attempts: 0 .. MaxAttempts,    \* submission_attempts
        claim: Nat,                    \* submission_claim_token, claimed_at
        leaseOver: BOOLEAN,            \* the clock has reached lease_until
        putStarted: BOOLEAN,           \* submission_put_started_at is set
        payload: OptContent,           \* submitted_payload
        receipt: Nat]                  \* receipt_id: when BIR stamped it

Task == [pc: {"idle", "stale", "connecting", "session", "claimed",
              "putting", "stored"},
         copy: Row,                    \* the worker's own draft value
         payload: OptContent,          \* the XML prepared for the upload
         token: Nat,                   \* the claim it holds
         source: {"live", "dry-run"}]

Upload == [ret: Returns, grant: Nat, content: Content, at: Nat]
Grant == [ret: Returns, grant: Nat, content: Content]
Snapshot == [ret: Returns, grant: Nat, content: OptContent]

----------------------------------------------------------------------------
(* The lifecycle: SubmissionLifecycle and QueueableForm *)

Compute(c) == [c EXCEPT !.accrual = today]

IsUnclaimed_Unchecked(d) == TRUE

IsUnclaimed(d) == d.claim = 0

Revalidates_NotRefreshed(d) == d.status = "Queued" /\ d.authorization # 0

\* revalidate_queued_before_submission would accept d now.
Revalidates(d) == /\ d.status = "Queued"
                  /\ d.fingerprint = Compute(d.content)
                  /\ d.authorization # 0

\* clear_claim
ClearClaim(d) == [d EXCEPT !.claim = 0, !.leaseOver = FALSE, !.putStarted = FALSE]

MarkQueued(d, now) ==
    [ClearClaim(d) EXCEPT !.status = "Queued",
                          !.fingerprint = d.content,
                          !.authorization = now,
                          !.nextRetry = now,
                          !.retryDue = TRUE,
                          !.attempts = 0,
                          !.payload = d.content]

RevertToDraft(d) ==
    [ClearClaim(d) EXCEPT !.status = "Draft",
                          !.fingerprint = NoContent,
                          !.authorization = 0,
                          !.nextRetry = 0,
                          !.retryDue = FALSE,
                          !.attempts = 0,
                          !.payload = NoContent,
                          !.receipt = 0]

\* A refused revalidation leaves the recomputed return behind, as a Draft.
Refreshed(d) == [d EXCEPT !.content = Compute(@)]
Rejected(d) == RevertToDraft(Refreshed(d))

\* sent_payload: what BIR received for a filed return.
SentPayload_Rendered(d) == Compute(d.content)

SentPayload(d) == d.payload

TransitionToSubmitted(d, payload) ==
    [ClearClaim(d) EXCEPT !.status = "Submitted",
                          !.nextRetry = 0,
                          !.retryDue = FALSE,
                          !.attempts = 0,
                          !.payload = payload]

TransitionToConfirmed(d, receipt) ==
    [d EXCEPT !.status = "Confirmed", !.receipt = receipt]

ReleaseExpiredUnstartedClaim(d, now) ==
    [ClearClaim(d) EXCEPT !.nextRetry = now, !.retryDue = TRUE]

AttemptsExhausted_OffByOne(n) == n > MaxAttempts

AttemptsExhausted(n) == n >= MaxAttempts

RecordSubmissionFailure(d, now) ==
    IF AttemptsExhausted(d.attempts + 1)
    THEN [ClearClaim(d) EXCEPT !.status = "Draft",
                               !.fingerprint = NoContent,
                               !.authorization = 0,
                               !.nextRetry = 0,
                               !.retryDue = FALSE,
                               !.attempts = @ + 1,
                               !.payload = NoContent]
    ELSE [ClearClaim(d) EXCEPT !.nextRetry = now,
                               !.retryDue = FALSE,
                               !.attempts = @ + 1]

TakeClaim(d, now) ==
    [d EXCEPT !.claim = now, !.leaseOver = FALSE, !.putStarted = FALSE]

ClaimIsRecoverable_AfterPut(d) == d.claim # 0 /\ d.leaseOver
ClaimIsRecoverable_Swapped(d) == d.claim # 0 /\ ~d.putStarted /\ ~d.leaseOver

ClaimIsRecoverable(d) == d.claim # 0 /\ ~d.putStarted /\ d.leaseOver

SameGeneration_RetryIgnored(stored, loaded) ==
    /\ stored.status = "Queued"
    /\ IsUnclaimed(stored)
    /\ stored.fingerprint = loaded.fingerprint
    /\ stored.attempts = loaded.attempts

\* The generation a worker or a window loaded is still the stored one.
SameGeneration(stored, loaded) ==
    /\ stored.status = "Queued"
    /\ IsUnclaimed(stored)
    /\ stored.fingerprint = loaded.fingerprint
    /\ stored.nextRetry = loaded.nextRetry
    /\ stored.attempts = loaded.attempts

ReceiptBelongsToThisGeneration_AnyStamp(stamp, authorized) == stamp > 0

ReceiptBelongsToThisGeneration(stamp, authorized) ==
    stamp + ReceiptSkew >= authorized

----------------------------------------------------------------------------
(* Initial state: every return is a new Draft and nothing runs. *)

BlankContent == [edit |-> CHOOSE e \in Edits : TRUE, amended |-> FALSE, accrual |-> 0]

BlankRow == [status |-> "Draft", content |-> BlankContent,
             fingerprint |-> NoContent, authorization |-> 0,
             nextRetry |-> 0, retryDue |-> FALSE, attempts |-> 0,
             claim |-> 0, leaseOver |-> FALSE, putStarted |-> FALSE,
             payload |-> NoContent, receipt |-> 0]

IdleTask == [pc |-> "idle", copy |-> BlankRow, payload |-> NoContent,
             token |-> 0, source |-> "live"]

Init == /\ row = [r \in Returns |-> BlankRow]
        /\ task = [r \in Returns |-> IdleTask]
        /\ received = {}
        /\ simulated = {}
        /\ snapshots = {}
        /\ clock = 0
        /\ today = 0
        /\ crashes = 0
        /\ granted = {}
        /\ withdrawn = {}
        /\ released = {}

----------------------------------------------------------------------------
(* The user *)

NewContent(e, a) == [edit |-> e, amended |-> a, accrual |-> today]

\* save_queueable_draft: only an editable row is overwritten.
SaveDraft(r, e, a) ==
    /\ row[r].status = "Draft"
    /\ row' = [row EXCEPT ![r].content = NewContent(e, a)]
    /\ UNCHANGED <<task, received, simulated, snapshots, clock, today, crashes, history>>

AmendedReturnRequired_AmendedOnly(r, c) ==
    r \in Guarded /\ c.amended /\ \E s \in snapshots : s.ret = r

\* amended_return_required: an original filed before must be amended instead.
\* The amended_return_answer of a form without the guard is None.
AmendedReturnRequired(r, c) ==
    r \in Guarded /\ ~c.amended /\ \E s \in snapshots : s.ret = r

\* queue() and save_queued_queueable: freeze the reviewed fields under a
\* fresh authorization.
Queue(r) ==
    LET d == Refreshed(row[r]) IN
    /\ row[r].status = "Draft"
    /\ ~AmendedReturnRequired(r, d.content)
    /\ Cardinality(granted) < MaxGrants
    /\ clock' = clock + 1
    /\ row' = [row EXCEPT ![r] = MarkQueued(d, clock')]
    /\ granted' = granted \cup {[ret |-> r, grant |-> clock', content |-> d.content]}
    /\ UNCHANGED <<task, received, simulated, snapshots, today, crashes, withdrawn, released>>

\* The row of r goes back to Draft before any worker claimed it.
Withdraw(r) ==
    /\ row[r].status = "Queued"
    /\ IsUnclaimed(row[r])
    /\ row' = [row EXCEPT ![r] = RevertToDraft(@)]
    /\ withdrawn' = withdrawn \cup {row[r].authorization}
    /\ UNCHANGED <<task, received, simulated, snapshots, clock, today, crashes, granted, released>>

\* cancel_queued_queueable: only the exact reviewed snapshot is canceled.
Cancel(r) == Revalidates(row[r]) /\ Withdraw(r)

\* revert_queueable_inner on a Queued row: no revalidation.
RevertQueued(r) == Withdraw(r)

\* revert_queueable_inner on a filed row, with the amendment's first save:
\* what BIR received is kept and the row becomes a Draft again.
AmendFiled(r, e, a) ==
    /\ row[r].status \in {"Submitted", "Confirmed"}
    /\ IsUnclaimed(row[r])
    /\ snapshots' = snapshots \cup {[ret |-> r, grant |-> row[r].authorization,
                                     content |-> SentPayload(row[r])]}
    /\ row' = [row EXCEPT ![r] = [RevertToDraft(@) EXCEPT !.content = NewContent(e, a)]]
    /\ UNCHANGED <<task, received, simulated, clock, today, crashes, history>>

\* release_abandoned_claimed_queueable: a human states that nothing was filed.
ReleaseAbandonedClaim(r) ==
    /\ row[r].status = "Queued"
    /\ ~IsUnclaimed(row[r])
    /\ row' = [row EXCEPT ![r] = RevertToDraft(@)]
    /\ released' = released \cup {row[r].authorization}
    /\ UNCHANGED <<task, received, simulated, snapshots, clock, today, crashes, granted, withdrawn>>

----------------------------------------------------------------------------
(* The worker task: process_queued_queueable *)

Stop(r) == task' = [task EXCEPT ![r] = IdleTask]

\* A task takes the job key of a queued return, loads and revalidates it and
\* prepares the payload.  A return that revalidates but is not due is dropped
\* at once, which changes nothing.
Load(r) ==
    /\ task[r].pc = "idle"
    /\ row[r].status = "Queued"
    /\ IsUnclaimed(row[r])
    /\ row[r].retryDue \/ ~Revalidates(row[r])
    /\ task' = [task EXCEPT ![r] =
                  [IdleTask EXCEPT !.pc = IF Revalidates(row[r]) THEN "connecting" ELSE "stale",
                                   !.copy = Refreshed(row[r]),
                                   !.payload = Compute(row[r].content)]]
    /\ UNCHANGED <<row, received, simulated, snapshots, clock, today, crashes, history>>

\* A claim found held is recovered when its lease ended before the PUT.
RecoverExpiredClaim(r) ==
    /\ task[r].pc = "idle"
    /\ row[r].status = "Queued"
    /\ ClaimIsRecoverable(row[r])
    /\ clock' = clock + 1
    /\ row' = [row EXCEPT ![r] = ReleaseExpiredUnstartedClaim(@, clock')]
    /\ UNCHANGED <<task, received, simulated, snapshots, today, crashes, history>>

\* replace_unclaimed_queued_queueable: write d over the loaded generation,
\* or leave a superseded row alone.
Replace(r, d) ==
    row' = IF SameGeneration(row[r], task[r].copy) /\ (d.status = "Draft" \/ Revalidates(d))
           THEN [row EXCEPT ![r] = d]
           ELSE row

\* The loaded return no longer recomputes to what was reviewed.
RejectStale(r) ==
    /\ task[r].pc = "stale"
    /\ Replace(r, RevertToDraft(task[r].copy))
    /\ Stop(r)
    /\ UNCHANGED <<received, simulated, snapshots, clock, today, crashes, history>>

OpenSession(r, s) ==
    /\ task[r].pc = "connecting"
    /\ task' = [task EXCEPT ![r].pc = "session", ![r].source = s]
    /\ UNCHANGED <<row, received, simulated, snapshots, clock, today, crashes, history>>

\* fail_queueable: the encryption or the connection failed, nothing was sent.
FailSession(r) ==
    /\ task[r].pc = "connecting"
    /\ clock' = clock + 1
    /\ Replace(r, RecordSubmissionFailure(task[r].copy, clock'))
    /\ Stop(r)
    /\ UNCHANGED <<received, simulated, snapshots, today, crashes, history>>

\* claim_queued_queueable: Claimed, Rejected or Superseded.
Claim(r) ==
    /\ task[r].pc = "session"
    /\ SameGeneration(row[r], task[r].copy)
    /\ Revalidates(row[r])
    /\ clock' = clock + 1
    /\ row' = [row EXCEPT ![r] = TakeClaim(@, clock')]
    /\ task' = [task EXCEPT ![r].pc = "claimed",
                            ![r].copy = TakeClaim(row[r], clock'),
                            ![r].token = clock']
    /\ UNCHANGED <<received, simulated, snapshots, today, crashes, history>>

ClaimRefused(r) ==
    /\ task[r].pc = "session"
    /\ SameGeneration(row[r], task[r].copy) => ~Revalidates(row[r])
    /\ row' = IF SameGeneration(row[r], task[r].copy)
              THEN [row EXCEPT ![r] = Rejected(@)]
              ELSE row
    /\ Stop(r)
    /\ UNCHANGED <<received, simulated, snapshots, clock, today, crashes, history>>

HoldsClaim_StatusOnly(r) == row[r].status = "Queued"

\* The row is still held under the claim of the task of r.
HoldsClaim(r) == row[r].status = "Queued" /\ row[r].claim = task[r].token

\* mark_claimed_queueable_put_started: the last check before the upload.
MarkPutStarted(r) ==
    /\ task[r].pc = "claimed"
    /\ IF HoldsClaim(r)
       THEN /\ row' = [row EXCEPT ![r].putStarted = TRUE]
            /\ task' = [task EXCEPT ![r].pc = "putting"]
       ELSE /\ Stop(r)
            /\ UNCHANGED row
    /\ UNCHANGED <<received, simulated, snapshots, clock, today, crashes, history>>

\* External: BIR has the file.
FileReceived(r) ==
    /\ task[r].pc = "putting"
    /\ task[r].source = "live"
    /\ clock' = clock + 1
    /\ received' = received \cup {[ret |-> r,
                                   grant |-> task[r].copy.authorization,
                                   content |-> task[r].payload,
                                   at |-> clock']}
    /\ task' = [task EXCEPT ![r].pc = "stored"]
    /\ UNCHANGED <<row, simulated, snapshots, today, crashes, history>>

\* A dry-run session notes the upload and sends nothing.
DryRunStored(r) ==
    /\ task[r].pc = "putting"
    /\ task[r].source = "dry-run"
    /\ simulated' = simulated \cup {[ret |-> r,
                                     grant |-> task[r].copy.authorization,
                                     content |-> task[r].payload]}
    /\ task' = [task EXCEPT ![r].pc = "stored"]
    /\ UNCHANGED <<row, received, snapshots, clock, today, crashes, history>>

\* store returned Ok: finish_claimed_queueable_submission, which refuses a
\* row that is no longer this task's.
PutSucceeded(r) ==
    /\ task[r].pc = "stored"
    /\ row' = IF /\ HoldsClaim(r)
                 /\ row[r].fingerprint = task[r].copy.fingerprint
                 /\ row[r].content = task[r].copy.content
              THEN [row EXCEPT ![r] = TransitionToSubmitted(task[r].copy, task[r].payload)]
              ELSE row
    /\ Stop(r)
    /\ UNCHANGED <<received, simulated, snapshots, clock, today, crashes, history>>

\* store returned an error, with or without the file at BIR: the claim stays.
PutFailed(r) ==
    /\ task[r].pc \in {"putting", "stored"}
    /\ task[r].source = "live"
    /\ Stop(r)
    /\ UNCHANGED <<row, received, simulated, snapshots, clock, today, crashes, history>>

----------------------------------------------------------------------------
(* BIR's receipts, time and crashes *)

\* confirm_queueable_from_receipt with the receipt of upload p.
ConfirmFromReceipt(r, p) ==
    /\ row[r].status = "Submitted"
    /\ p.ret = r
    /\ ReceiptBelongsToThisGeneration(p.at, row[r].authorization)
    /\ row' = [row EXCEPT ![r] = TransitionToConfirmed(@, p.at)]
    /\ UNCHANGED <<task, received, simulated, snapshots, clock, today, crashes, history>>

\* A backoff or a lease ends.
RetryFallsDue(r) ==
    /\ row[r].status = "Queued"
    /\ ~row[r].retryDue
    /\ row' = [row EXCEPT ![r].retryDue = TRUE]
    /\ UNCHANGED <<task, received, simulated, snapshots, clock, today, crashes, history>>

LeaseExpires(r) ==
    /\ row[r].claim # 0
    /\ ~row[r].leaseOver
    /\ row' = [row EXCEPT ![r].leaseOver = TRUE]
    /\ UNCHANGED <<task, received, simulated, snapshots, clock, today, crashes, history>>

\* Midnight: the engine computes another amount from now on.
DayTurns ==
    /\ today < MaxDays
    /\ today' = today + 1
    /\ clock' = clock + 1
    /\ UNCHANGED <<row, task, received, simulated, snapshots, crashes, history>>

\* The process dies or its runtime is dropped: tasks and job keys are lost,
\* the rows stay.
Crash ==
    /\ crashes < MaxCrashes
    /\ \E r \in Returns : task[r].pc # "idle"
    /\ crashes' = crashes + 1
    /\ task' = [r \in Returns |-> IdleTask]
    /\ UNCHANGED <<row, received, simulated, snapshots, clock, today, history>>

----------------------------------------------------------------------------

UserStep(r) == \/ \E e \in Edits, a \in BOOLEAN : SaveDraft(r, e, a) \/ AmendFiled(r, e, a)
               \/ Queue(r)
               \/ Cancel(r)
               \/ RevertQueued(r)
               \/ ReleaseAbandonedClaim(r)

Connect(r) == FailSession(r) \/ \E s \in Sources : OpenSession(r, s)
PutEnds(r) == PutSucceeded(r) \/ PutFailed(r)

WorkerStep(r) == \/ Load(r)
                 \/ RecoverExpiredClaim(r)
                 \/ RejectStale(r)
                 \/ Connect(r)
                 \/ Claim(r)
                 \/ ClaimRefused(r)
                 \/ MarkPutStarted(r)
                 \/ DryRunStored(r)
                 \/ PutEnds(r)

OutsideStep(r) == \/ FileReceived(r)
                  \/ \E p \in received : ConfirmFromReceipt(r, p)
                  \/ RetryFallsDue(r)
                  \/ LeaseExpires(r)

Next == \/ \E r \in Returns : UserStep(r) \/ WorkerStep(r) \/ OutsideStep(r)
        \/ DayTurns
        \/ Crash

Spec == Init /\ [][Next]_vars

\* The cron loop keeps ticking, a task that can run runs, a connection
\* attempt and an upload end, and time passes.
Fairness == \A r \in Returns :
    /\ WF_vars(Load(r)) /\ WF_vars(RecoverExpiredClaim(r))
    /\ WF_vars(RejectStale(r)) /\ WF_vars(Connect(r))
    /\ WF_vars(Claim(r)) /\ WF_vars(ClaimRefused(r))
    /\ WF_vars(MarkPutStarted(r)) /\ WF_vars(DryRunStored(r) \/ PutEnds(r))
    /\ WF_vars(RetryFallsDue(r)) /\ WF_vars(LeaseExpires(r))

FairSpec == Spec /\ Fairness

----------------------------------------------------------------------------
(* What the queue promises *)

TypeOK ==
    /\ row \in [Returns -> Row]
    /\ task \in [Returns -> Task]
    /\ received \subseteq Upload
    /\ simulated \subseteq Grant
    /\ snapshots \subseteq Snapshot
    /\ clock \in Nat
    /\ today \in Nat
    /\ crashes \in Nat
    /\ granted \subseteq Grant
    /\ withdrawn \subseteq Nat
    /\ released \subseteq Nat

\* No authorization is uploaded twice, whatever crashed, failed, was retried
\* or recovered between the claim and the answer (claim_is_recoverable,
\* mark_claimed_queueable_put_started).
AtMostOnePut ==
    \A p, q \in received : p.grant = q.grant => p = q

\* Whatever BIR receives, the user authorized exactly that: this content for
\* this return under this grant (queue, revalidate_queued_before_submission,
\* claim_queued_queueable).
PutAsGranted ==
    \A p \in received : [ret |-> p.ret, grant |-> p.grant, content |-> p.content] \in granted

\* A grant the user took back while no worker held it is never uploaded, even
\* by a task that loaded the return before (claim_queued_queueable's
\* generation check).
WithdrawnNeverPut ==
    \A p \in received : p.grant \notin withdrawn

\* What was uploaded, without the time: live uploads and dry runs.
Delivered == {[ret |-> p.ret, grant |-> p.grant, content |-> p.content] : p \in received}
                \cup simulated

\* A return that says it is filed was uploaded with exactly the content of
\* the row, and an amendment's snapshot is what BIR received
\* (finish_claimed_queueable_submission, sent_payload).
FiledMeansReceived ==
    /\ \A r \in Returns : row[r].status \in {"Submitted", "Confirmed"} =>
          [ret |-> r, grant |-> row[r].authorization, content |-> row[r].content] \in Delivered
    /\ snapshots \subseteq Delivered

\* Once BIR has an original of a return whose form has the guard, a later
\* original can only follow a claim that a human released as unfiled
\* (amended_return_required).
NoSecondOriginal ==
    \A p, q \in received :
        /\ p.ret = q.ret /\ p.ret \in Guarded
        /\ p.grant < q.grant /\ ~q.content.amended
        => p.grant \in released

\* A claim whose upload may have started ends as Submitted or by a human's
\* release, never by a retry: the row is not queued again without them.
FailClosed ==
    [][\A r \in Returns :
          row[r].putStarted /\ row'[r].claim # row[r].claim =>
             \/ row'[r].status = "Submitted" /\ row'[r].authorization = row[r].authorization
             \/ row'[r].status = "Draft" /\ row[r].authorization \in released']_vars

\* A receipt that confirms a return is of its standing grant, of an upload
\* that a human released as unfiled, or of a former generation whose file
\* arrived at most the skew before the return was authorized again
\* (receipt_belongs_to_this_generation).
OldReceiptIsWithinSkew ==
    \A r \in Returns : row[r].status = "Confirmed" =>
        \E p \in received :
            /\ p.ret = r
            /\ p.at = row[r].receipt
            /\ \/ p.grant = row[r].authorization
               \/ p.grant \in released
               \/ /\ p.at < row[r].authorization
                  /\ row[r].authorization <= p.at + ReceiptSkew

\* What the comment of receipt_belongs_to_this_generation says: an amended and
\* queued return has a new authorized_at, "so an older receipt stays ignored".
\* The two minutes of the skew break it.
OlderReceiptIgnored ==
    \A r \in Returns : row[r].status = "Confirmed" =>
        \E p \in received : /\ p.ret = r
                            /\ p.at = row[r].receipt
                            /\ p.grant = row[r].authorization \/ p.grant \in released

\* The queue implements the promise made to the taxpayer.
Promise == INSTANCE FilingPromise WITH
    phase <- [r \in Returns |-> row[r].status],
    standing <- [r \in Returns |-> row[r].authorization],
    approved <- granted,
    uploaded <- Delivered,
    revoked <- withdrawn

KeepsPromise == Promise!Spec

\* A queued return that no upload has started for does not stay queued: it is
\* uploaded, returned to the user, or held for a human after the upload.
QueuedMovesOn ==
    \A r \in Returns :
        row[r].status = "Queued" /\ ~row[r].putStarted
            ~> row[r].status # "Queued" \/ row[r].putStarted

=============================================================================
