------------------------- MODULE FilingQueueProofs -------------------------
(***************************************************************************)
(* Proofs that FilingQueue keeps its inductive invariant, and with it its  *)
(* safety properties, for any returns, edits, sessions and limits; that    *)
(* every upload stays accounted for; and that the queue implements         *)
(* FilingPromise.                                                          *)
(***************************************************************************)
EXTENDS FilingQueueInvariant, TLAPS

----------------------------------------------------------------------------
(* The lifecycle operators *)

\* A computed return is again a return with fields.
LEMMA ComputeType == ASSUME TypeOK, NEW c \in Content
                     PROVE  Compute(c) \in Content
BY DEF TypeOK, Compute, Content

\* Recomputing a return leaves a well-formed row.
LEMMA RefreshedType == ASSUME TypeOK, NEW d \in Row
                       PROVE  Refreshed(d) \in Row
BY ComputeType DEF Row, Refreshed

\* The values the lifecycle operators write are of the types of a row.
LEMMA RowMembers == /\ \A s \in {"Draft", "Queued", "Submitted", "Confirmed"} : s \in Status
                    /\ NoContent \in OptContent
                    /\ Content \subseteq OptContent
                    /\ 0 \in 0 .. MaxAttempts
BY AttemptsAssumption DEF Status, OptContent

\* clear_claim drops the claim and the mark of its upload, nothing else.
LEMMA ClearClaimFacts ==
    ASSUME NEW d \in Row
    PROVE  /\ ClearClaim(d) \in Row
           /\ ClearClaim(d).claim = 0
           /\ ~ClearClaim(d).putStarted
           /\ ClearClaim(d).status = d.status
           /\ ClearClaim(d).authorization = d.authorization
           /\ ClearClaim(d).attempts = d.attempts
           /\ ClearClaim(d).content = d.content
           /\ ClearClaim(d).fingerprint = d.fingerprint
BY DEF Row, ClearClaim

\* revert_to_draft leaves a Draft that carries nothing of the queue.
LEMMA RevertFacts ==
    ASSUME NEW d \in Row
    PROVE  /\ RevertToDraft(d) \in Row
           /\ RevertToDraft(d).status = "Draft"
           /\ RevertToDraft(d).authorization = 0
           /\ RevertToDraft(d).nextRetry = 0
           /\ RevertToDraft(d).claim = 0
           /\ ~RevertToDraft(d).putStarted
           /\ RevertToDraft(d).content = d.content
BY ClearClaimFacts, RowMembers DEF Row, RevertToDraft

\* mark_queued freezes the content under a fresh, unclaimed grant.
LEMMA MarkQueuedFacts ==
    ASSUME NEW d \in Row, NEW now \in Nat
    PROVE  /\ MarkQueued(d, now) \in Row
           /\ MarkQueued(d, now).status = "Queued"
           /\ MarkQueued(d, now).authorization = now
           /\ MarkQueued(d, now).nextRetry = now
           /\ MarkQueued(d, now).claim = 0
           /\ ~MarkQueued(d, now).putStarted
           /\ MarkQueued(d, now).attempts = 0
           /\ MarkQueued(d, now).content = d.content
           /\ MarkQueued(d, now).fingerprint = d.content
BY ClearClaimFacts, RowMembers DEF Row, MarkQueued

\* transition_to_submitted keeps the grant and records the payload.
LEMMA SubmittedFacts ==
    ASSUME NEW d \in Row, NEW p \in Content
    PROVE  /\ TransitionToSubmitted(d, p) \in Row
           /\ TransitionToSubmitted(d, p).status = "Submitted"
           /\ TransitionToSubmitted(d, p).authorization = d.authorization
           /\ TransitionToSubmitted(d, p).nextRetry = 0
           /\ TransitionToSubmitted(d, p).claim = 0
           /\ ~TransitionToSubmitted(d, p).putStarted
           /\ TransitionToSubmitted(d, p).content = d.content
           /\ TransitionToSubmitted(d, p).payload = p
BY ClearClaimFacts, RowMembers DEF Row, TransitionToSubmitted

\* release_expired_unstarted_claim re-queues the same grant.
LEMMA ReleaseFacts ==
    ASSUME NEW d \in Row, NEW now \in Nat
    PROVE  /\ ReleaseExpiredUnstartedClaim(d, now) \in Row
           /\ ReleaseExpiredUnstartedClaim(d, now).status = d.status
           /\ ReleaseExpiredUnstartedClaim(d, now).authorization = d.authorization
           /\ ReleaseExpiredUnstartedClaim(d, now).nextRetry = now
           /\ ReleaseExpiredUnstartedClaim(d, now).claim = 0
           /\ ~ReleaseExpiredUnstartedClaim(d, now).putStarted
           /\ ReleaseExpiredUnstartedClaim(d, now).attempts = d.attempts
           /\ ReleaseExpiredUnstartedClaim(d, now).content = d.content
           /\ ReleaseExpiredUnstartedClaim(d, now).fingerprint = d.fingerprint
BY AttemptsAssumption DEF Row, ReleaseExpiredUnstartedClaim, ClearClaim

\* record_submission_failure stays within the attempts and gives the return
\* back to the user or leaves it queued, unclaimed and for later.
LEMMA FailureFacts ==
    ASSUME NEW d \in Row, d.status = "Queued", d.attempts < MaxAttempts, NEW now \in Nat
    PROVE  /\ RecordSubmissionFailure(d, now) \in Row
           /\ RecordSubmissionFailure(d, now).claim = 0
           /\ ~RecordSubmissionFailure(d, now).putStarted
           /\ \/ /\ RecordSubmissionFailure(d, now).status = "Draft"
                 /\ RecordSubmissionFailure(d, now).authorization = 0
                 /\ RecordSubmissionFailure(d, now).nextRetry = 0
              \/ /\ RecordSubmissionFailure(d, now).status = "Queued"
                 /\ RecordSubmissionFailure(d, now).authorization = d.authorization
                 /\ RecordSubmissionFailure(d, now).nextRetry = now
                 /\ RecordSubmissionFailure(d, now).attempts < MaxAttempts
                 /\ RecordSubmissionFailure(d, now).content = d.content
                 /\ RecordSubmissionFailure(d, now).fingerprint = d.fingerprint
<1>1. d.attempts + 1 \in 0 .. MaxAttempts
  BY AttemptsAssumption DEF Row
<1>2. CASE AttemptsExhausted(d.attempts + 1)
  BY <1>1, <1>2, ClearClaimFacts, RowMembers DEF Row, RecordSubmissionFailure
<1>3. CASE ~AttemptsExhausted(d.attempts + 1)
  <2>1. d.attempts + 1 < MaxAttempts
    BY <1>1, <1>3, AttemptsAssumption DEF AttemptsExhausted
  <2>2. QED
    BY <1>1, <1>3, <2>1, ClearClaimFacts DEF Row, RecordSubmissionFailure
<1>4. QED BY <1>2, <1>3

\* claim marks the row as held and changes nothing of the generation.
LEMMA TakeClaimFacts ==
    ASSUME NEW d \in Row, NEW now \in Nat
    PROVE  /\ TakeClaim(d, now) \in Row
           /\ TakeClaim(d, now).status = d.status
           /\ TakeClaim(d, now).authorization = d.authorization
           /\ TakeClaim(d, now).nextRetry = d.nextRetry
           /\ TakeClaim(d, now).claim = now
           /\ ~TakeClaim(d, now).putStarted
           /\ TakeClaim(d, now).attempts = d.attempts
           /\ TakeClaim(d, now).content = d.content
           /\ TakeClaim(d, now).fingerprint = d.fingerprint
BY DEF Row, TakeClaim

----------------------------------------------------------------------------
(* What a step about one return leaves alone *)

\* A grant names one return and one content.
LEMMA OneGrant ==
    ASSUME GrantsInv, NEW q, NEW r, NEW g, NEW c, NEW e,
           IsGranted(q, g, c), IsGranted(r, g, e)
    PROVE  q = r /\ c = e
<1> DEFINE a == [ret |-> q, grant |-> g, content |-> c]
           b == [ret |-> r, grant |-> g, content |-> e]
<1>1. a = b BY DEF GrantsInv, IsGranted
<1>2. a.ret = b.ret /\ a.content = b.content BY <1>1
<1>3. QED BY <1>2

\* A step about return r that touches no grant but g, one of r's, keeps what
\* the invariant says of every other return.
LEMMA OtherReturns ==
    ASSUME IInv, NEW r \in Returns, NEW q \in Returns, q # r,
           row'[q] = row[q], task'[q] = task[q],
           granted \subseteq granted',
           received \subseteq received',
           simulated \subseteq simulated',
           NEW g, NEW c, IsGranted(r, g, c),
           withdrawn' \subseteq withdrawn \cup {g},
           \A p \in received' : p \in received \/ p.grant = g,
           \A p \in simulated' : p \in simulated \/ p.grant = g
    PROVE  RowInv(q)' /\ TaskInv(q)'
<1>1. GrantsInv /\ RowInv(q) /\ TaskInv(q)
  BY DEF IInv
<1>2. \A h, e : IsGranted(q, h, e) => h # g
  BY <1>1, OneGrant
<1>3. \A h, e : IsGranted(q, h, e) => IsGranted(q, h, e)'
  BY DEF IsGranted
<1>4. \A h, e : IsGranted(q, h, e) /\ h \notin withdrawn => h \notin withdrawn'
  BY <1>2
<1>5. \A h, e : IsGranted(q, h, e) /\ NotUploaded(h) => NotUploaded(h)'
  BY <1>2 DEF NotUploaded
<1>6. Delivered \subseteq Delivered'
  BY DEF Delivered
<1>7. RowInv(q)'
  BY <1>1, <1>3, <1>4, <1>5, <1>6 DEF RowInv, DraftRow, QueuedRow, FiledRow
<1>8. TaskInv(q)'
  <2>1. LoadedTask(q, task[q]) => LoadedTask(q, task[q])'
    BY DEF LoadedTask
  <2>2. ClaimedTask(q, task[q]) => ClaimedTask(q, task[q])'
    BY <1>3, <1>4 DEF ClaimedTask
  <2>3. ClaimedTask(q, task[q]) /\ NotUploaded(task[q].copy.authorization)
           => NotUploaded(task[q].copy.authorization)'
    BY <1>5 DEF ClaimedTask
  <2>4. QED BY <1>1, <1>6, <2>1, <2>2, <2>3 DEF TaskInv
<1>9. QED BY <1>7, <1>8

\* The stamps a step writes are readings of the clock.
LEMMA StampsKept ==
    ASSUME StampsInv, TypeOK, NEW r \in Returns, NEW d \in Row, NEW t \in Task,
           row' = [row EXCEPT ![r] = d],
           task' = [task EXCEPT ![r] = t],
           clock' \in Nat, clock <= clock',
           d.authorization <= clock', d.nextRetry <= clock', d.claim <= clock',
           t.token <= clock', t.copy.nextRetry <= clock',
           \A g \in granted' : g \in granted \/ (g.grant = clock' /\ clock' # 0),
           \A g \in withdrawn' : g \in withdrawn \/ g <= clock'
    PROVE  StampsInv'
<1>1. ASSUME NEW q \in Returns
      PROVE  /\ row'[q].authorization <= clock'
             /\ row'[q].nextRetry <= clock'
             /\ row'[q].claim <= clock'
             /\ task'[q].token <= clock'
             /\ task'[q].copy.nextRetry <= clock'
  <2>1. CASE q = r BY <2>1 DEF TypeOK
  <2>2. CASE q # r
    <3>1. row'[q] = row[q] /\ task'[q] = task[q] BY <2>2 DEF TypeOK
    <3>2. row[q] \in Row /\ task[q] \in Task BY DEF TypeOK
    <3>3. QED BY <3>1, <3>2 DEF StampsInv, TypeOK, Row, Task
  <2>3. QED BY <2>1, <2>2
<1>2. \A g \in granted' : g.grant # 0 /\ g.grant <= clock'
  BY DEF StampsInv, TypeOK, Grant
<1>3. \A g \in withdrawn' : g <= clock'
  BY DEF StampsInv, TypeOK
<1>4. QED BY <1>1, <1>2, <1>3 DEF StampsInv

\* Most steps change one row or one task and neither grants nor uploads.
LEMMA QuietStep ==
    ASSUME IInv, NEW r \in Returns, NEW d \in Row, NEW t \in Task,
           row' = [row EXCEPT ![r] = d],
           task' = [task EXCEPT ![r] = t],
           UNCHANGED <<received, simulated, snapshots, today, crashes, granted, withdrawn>>,
           released' \subseteq Nat,
           clock' \in Nat, clock <= clock',
           d.authorization <= clock', d.nextRetry <= clock', d.claim <= clock',
           t.token <= clock', t.copy.nextRetry <= clock',
           RowInv(r)', TaskInv(r)'
    PROVE  IInv'
<1>1. TypeOK'
  BY DEF IInv, TypeOK
<1>2. StampsInv'
  BY StampsKept DEF IInv
<1>3. GrantsInv' /\ UploadsInv'
  BY DEF IInv, GrantsInv, UploadsInv, IsGranted, Delivered
<1>4. ASSUME NEW q \in Returns, q # r
      PROVE  RowInv(q)' /\ TaskInv(q)'
  <2>1. row'[q] = row[q] /\ task'[q] = task[q]
    BY <1>4 DEF IInv, TypeOK
  <2>2. RowInv(q) /\ TaskInv(q)
    BY DEF IInv
  <2>3. RowInv(q)'
    BY <2>1, <2>2 DEF RowInv, DraftRow, QueuedRow, FiledRow, IsGranted, NotUploaded, Delivered
  <2>4. TaskInv(q)'
    BY <2>1, <2>2 DEF TaskInv, LoadedTask, ClaimedTask, IsGranted, NotUploaded, Delivered
  <2>5. QED BY <2>3, <2>4
<1>5. QED BY <1>1, <1>2, <1>3, <1>4 DEF IInv

\* What the invariant says of one return.
LEMMA OneReturn ==
    ASSUME IInv, NEW r \in Returns
    PROVE  /\ row[r] \in Row
           /\ task[r] \in Task
           /\ task[r].copy \in Row
           /\ clock \in Nat
           /\ row[r].authorization \in Nat /\ row[r].authorization <= clock
           /\ row[r].nextRetry \in Nat /\ row[r].nextRetry <= clock
           /\ row[r].claim \in Nat /\ row[r].claim <= clock
           /\ task[r].token \in Nat /\ task[r].token <= clock
           /\ task[r].copy.nextRetry \in Nat /\ task[r].copy.nextRetry <= clock
           /\ row = [row EXCEPT ![r] = row[r]]
           /\ task = [task EXCEPT ![r] = task[r]]
           /\ RowInv(r)
           /\ TaskInv(r)
<1>1. row[r] \in Row /\ task[r] \in Task
  BY DEF IInv, TypeOK
<1>2. /\ row[r].authorization \in Nat /\ row[r].nextRetry \in Nat /\ row[r].claim \in Nat
      /\ task[r].token \in Nat /\ task[r].copy \in Row
  BY <1>1 DEF Row, Task
<1>3. task[r].copy.nextRetry \in Nat
  BY <1>2 DEF Row
<1>4. row = [row EXCEPT ![r] = row[r]] /\ task = [task EXCEPT ![r] = task[r]]
  BY DEF IInv, TypeOK
<1>5. QED
  BY <1>1, <1>2, <1>3, <1>4 DEF IInv, TypeOK, StampsInv

\* A step that only rewrites the row of r, at no new time.
LEMMA RowStep ==
    ASSUME IInv, NEW r \in Returns, NEW d \in Row,
           row' = [row EXCEPT ![r] = d],
           UNCHANGED <<task, received, simulated, snapshots, clock, today, crashes,
                       granted, withdrawn>>,
           released' \subseteq Nat,
           d.authorization <= clock, d.nextRetry <= clock, d.claim <= clock,
           RowInv(r)', TaskInv(r)'
    PROVE  IInv'
<1> DEFINE t == task[r]
<1>1. /\ t \in Task /\ task' = [task EXCEPT ![r] = t]
      /\ clock' = clock /\ clock' \in Nat /\ clock <= clock'
      /\ t.token <= clock' /\ t.copy.nextRetry <= clock'
  BY OneReturn
<1>2. d.authorization <= clock' /\ d.nextRetry <= clock' /\ d.claim <= clock'
  BY <1>1
<1>3. UNCHANGED <<received, simulated, snapshots, today, crashes, granted, withdrawn>>
  OBVIOUS
<1> HIDE DEF t
<1>4. QED
  BY <1>1, <1>2, <1>3, QuietStep

\* A step that only moves the task of r.
LEMMA TaskStep ==
    ASSUME IInv, NEW r \in Returns, NEW t \in Task,
           task' = [task EXCEPT ![r] = t],
           UNCHANGED <<row, received, simulated, snapshots, clock, today, crashes, history>>,
           t.token <= clock, t.copy.nextRetry <= clock,
           TaskInv(r)'
    PROVE  IInv'
<1> DEFINE d == row[r]
<1>1. /\ d \in Row /\ row' = [row EXCEPT ![r] = d]
      /\ clock' = clock /\ clock' \in Nat /\ clock <= clock'
      /\ d.authorization <= clock' /\ d.nextRetry <= clock' /\ d.claim <= clock'
  BY OneReturn
<1>2. t.token <= clock' /\ t.copy.nextRetry <= clock'
  BY <1>1
<1>3. /\ UNCHANGED <<received, simulated, snapshots, today, crashes, granted, withdrawn>>
      /\ released' \subseteq Nat
  BY DEF history, IInv, TypeOK
<1>4. RowInv(r)'
  BY OneReturn DEF RowInv, DraftRow, QueuedRow, FiledRow, IsGranted, NotUploaded,
                   Delivered, history
<1> HIDE DEF d
<1>5. QED
  BY <1>1, <1>2, <1>3, <1>4, QuietStep

\* A fresh task and a fresh row carry nothing of the queue.
LEMMA IdleTaskFacts ==
    ASSUME IInv
    PROVE  /\ IdleTask \in Task
           /\ IdleTask.pc = "idle"
           /\ IdleTask.token = 0
           /\ IdleTask.copy.nextRetry = 0
           /\ BlankRow \in Row
           /\ BlankRow.status = "Draft"
           /\ BlankRow.authorization = 0
           /\ BlankRow.nextRetry = 0
           /\ BlankRow.claim = 0
           /\ ~BlankRow.putStarted
<1>1. BlankContent \in Content
  BY EditsAssumption DEF BlankContent, Content
<1>2. BlankRow \in Row
  BY <1>1, RowMembers DEF BlankRow, Row
<1>3. IdleTask \in Task
  BY <1>2, RowMembers DEF IdleTask, Task
<1>4. QED
  BY <1>2, <1>3 DEF IdleTask, BlankRow

\* An idle task promises nothing.
LEMMA StoppedTask ==
    ASSUME NEW r \in Returns, task'[r].pc = "idle"
    PROVE  TaskInv(r)'
BY DEF TaskInv

\* When the row of r leaves the queue, or was never in it, the task that
\* holds an earlier generation or a claim of it still keeps its invariant.
LEMMA RowLeftQueue ==
    ASSUME IInv, NEW r \in Returns,
           task'[r] = task[r],
           row'[r].status # "Queued", row'[r].claim = 0,
           UNCHANGED <<received, simulated, granted>>,
           \/ withdrawn' = withdrawn
           \/ /\ row[r].status = "Queued"
              /\ row[r].claim = 0
              /\ withdrawn' = withdrawn \cup {row[r].authorization}
    PROVE  TaskInv(r)'
<1>1. TaskInv(r)
  BY OneReturn
<1>2. LoadedTask(r, task[r]) => LoadedTask(r, task[r])'
  BY DEF LoadedTask
<1>3. ClaimedTask(r, task[r]) => task[r].copy.authorization \notin withdrawn'
  BY DEF ClaimedTask
<1>4. ClaimedTask(r, task[r]) => ClaimedTask(r, task[r])'
  BY <1>3 DEF ClaimedTask, IsGranted
<1>5. QED
  BY <1>1, <1>2, <1>4 DEF TaskInv, NotUploaded, Delivered, ClaimedTask

----------------------------------------------------------------------------
(* The user's steps *)

\* Saving a draft: the row was not in the queue.
LEMMA SaveDraftStep ==
    ASSUME IInv, NEW r \in Returns, NEW e \in Edits, NEW a \in BOOLEAN, SaveDraft(r, e, a)
    PROVE  IInv'
<1> DEFINE d == [row[r] EXCEPT !.content = NewContent(e, a)]
<1>1. row[r] \in Row /\ RowInv(r)
  BY OneReturn
<1>2. NewContent(e, a) \in Content
  BY DEF IInv, TypeOK, NewContent, Content
<1>3. /\ d \in Row
      /\ d.status = "Draft" /\ d.authorization = 0 /\ d.claim = 0 /\ ~d.putStarted
      /\ d.nextRetry = row[r].nextRetry
  BY <1>1, <1>2 DEF SaveDraft, RowInv, DraftRow, Row
<1>4. row' = [row EXCEPT ![r] = d] /\ row'[r] = d
  BY DEF SaveDraft, IInv, TypeOK
<1>5. RowInv(r)'
  BY <1>3, <1>4 DEF RowInv, DraftRow
<1> HIDE DEF d
<1>6. /\ UNCHANGED <<task, received, simulated, snapshots, clock, today, crashes,
                      granted, withdrawn>>
      /\ released' \subseteq Nat
  BY DEF SaveDraft, history, IInv, TypeOK
<1>7. TaskInv(r)'
  BY <1>3, <1>4, <1>6, RowLeftQueue
<1>8. d.authorization <= clock /\ d.nextRetry <= clock /\ d.claim <= clock
  BY <1>3, OneReturn
<1>9. QED
  BY <1>3, <1>4, <1>5, <1>6, <1>7, <1>8, RowStep

\* A human release: the row leaves the queue, its task may still run.
LEMMA ReleaseAbandonedClaimStep ==
    ASSUME IInv, NEW r \in Returns, ReleaseAbandonedClaim(r)
    PROVE  IInv'
<1> DEFINE d == RevertToDraft(row[r])
<1>1. /\ d \in Row /\ d.status = "Draft" /\ d.authorization = 0 /\ d.nextRetry = 0
      /\ d.claim = 0 /\ ~d.putStarted
  BY OneReturn, RevertFacts
<1>2. row' = [row EXCEPT ![r] = d] /\ row'[r] = d
  BY DEF ReleaseAbandonedClaim, IInv, TypeOK
<1> HIDE DEF d
<1>3. RowInv(r)'
  BY <1>1, <1>2 DEF RowInv, DraftRow
<1>4. /\ UNCHANGED <<task, received, simulated, snapshots, clock, today, crashes,
                      granted, withdrawn>>
      /\ released' \subseteq Nat
  BY OneReturn DEF ReleaseAbandonedClaim, IInv, TypeOK
<1>5. TaskInv(r)'
  BY <1>1, <1>2, <1>4, RowLeftQueue
<1>6. d.authorization <= clock /\ d.nextRetry <= clock /\ d.claim <= clock
  BY <1>1, OneReturn
<1>7. QED
  BY <1>1, <1>2, <1>3, <1>4, <1>5, <1>6, RowStep

\* A grant withdrawn before any claim has not been uploaded, and no task
\* holds a claim under it.
LEMMA WithdrawStep ==
    ASSUME IInv, NEW r \in Returns, Withdraw(r)
    PROVE  IInv'
<1> DEFINE d == RevertToDraft(row[r])
           g == row[r].authorization
<1>1. /\ d \in Row /\ d.status = "Draft" /\ d.authorization = 0 /\ d.nextRetry = 0
      /\ d.claim = 0 /\ ~d.putStarted
  BY OneReturn, RevertFacts
<1>2. row' = [row EXCEPT ![r] = d] /\ row'[r] = d
  BY DEF Withdraw, IInv, TypeOK
<1> HIDE DEF d
<1>3. RowInv(r)'
  BY <1>1, <1>2 DEF RowInv, DraftRow
<1>4. /\ row[r].status = "Queued" /\ row[r].claim = 0
      /\ withdrawn' = withdrawn \cup {g}
      /\ UNCHANGED <<task, received, simulated, snapshots, clock, today, crashes,
                      granted, released>>
  BY DEF Withdraw, IsUnclaimed
<1>5. TaskInv(r)'
  BY <1>1, <1>2, <1>4, RowLeftQueue
<1>6. QueuedRow(r, row[r])
  BY <1>4, OneReturn DEF RowInv
<1>7. NotUploaded(g) /\ IsGranted(r, g, row[r].content)
  BY <1>4, <1>6 DEF QueuedRow
<1>8. TypeOK'
  BY <1>1, <1>2, <1>4, OneReturn DEF IInv, TypeOK
<1>9. StampsInv'
  <2> DEFINE t == task[r]
  <2>1. /\ t \in Task /\ task' = [task EXCEPT ![r] = t]
        /\ clock' \in Nat /\ clock <= clock'
        /\ d.authorization <= clock' /\ d.nextRetry <= clock' /\ d.claim <= clock'
        /\ t.token <= clock' /\ t.copy.nextRetry <= clock'
        /\ g <= clock'
    BY <1>1, <1>4, OneReturn
  <2>2. /\ \A h \in granted' : h \in granted \/ (h.grant = clock' /\ clock' # 0)
        /\ \A h \in withdrawn' : h \in withdrawn \/ h <= clock'
    BY <1>4, <2>1
  <2> HIDE DEF t
  <2>3. QED BY <1>1, <1>2, <2>1, <2>2, StampsKept DEF IInv
<1>10. GrantsInv'
  BY <1>4 DEF IInv, GrantsInv
<1>11. UploadsInv'
  BY <1>4, <1>7 DEF IInv, UploadsInv, NotUploaded, IsGranted, Delivered
<1>12. ASSUME NEW q \in Returns, q # r
       PROVE  RowInv(q)' /\ TaskInv(q)'
  <2>1. row'[q] = row[q] /\ task'[q] = task[q]
    BY <1>2, <1>4, <1>12 DEF IInv, TypeOK
  <2> HIDE DEF g
  <2>2. QED
    BY <1>4, <1>7, <1>12, <2>1, OtherReturns
<1>13. QED
  BY <1>3, <1>5, <1>8, <1>9, <1>10, <1>11, <1>12 DEF IInv

\* A filed return was uploaded with the content its snapshot keeps.
LEMMA AmendFiledStep ==
    ASSUME IInv, NEW r \in Returns, NEW e \in Edits, NEW a \in BOOLEAN, AmendFiled(r, e, a)
    PROVE  IInv'
<1> DEFINE b == RevertToDraft(row[r])
           d == [b EXCEPT !.content = NewContent(e, a)]
           s == [ret |-> r, grant |-> row[r].authorization, content |-> row[r].payload]
<1>1. /\ b \in Row /\ b.status = "Draft" /\ b.authorization = 0 /\ b.nextRetry = 0
      /\ b.claim = 0 /\ ~b.putStarted
  BY OneReturn, RevertFacts
<1>2. row' = [row EXCEPT ![r] = d] /\ row'[r] = d
  BY DEF AmendFiled, IInv, TypeOK
<1>3. NewContent(e, a) \in Content
  BY DEF IInv, TypeOK, NewContent, Content
<1> HIDE DEF b
<1>4. /\ d \in Row /\ d.status = "Draft" /\ d.authorization = 0 /\ d.nextRetry = 0
      /\ d.claim = 0 /\ ~d.putStarted
  BY <1>1, <1>3 DEF Row
<1> HIDE DEF d
<1>5. /\ row[r].status \in {"Submitted", "Confirmed"}
      /\ snapshots' = snapshots \cup {s}
      /\ UNCHANGED <<task, received, simulated, clock, today, crashes,
                      granted, withdrawn, released>>
  BY DEF AmendFiled, SentPayload, history
<1>6. s \in Delivered
  BY <1>5, OneReturn DEF RowInv, FiledRow
<1>7. s \in Snapshot
  BY <1>5, OneReturn DEF Row, Snapshot
<1> HIDE DEF s
<1>8. TypeOK'
  BY <1>2, <1>4, <1>5, <1>7 DEF IInv, TypeOK
<1>9. StampsInv'
  <2> DEFINE t == task[r]
  <2>1. /\ t \in Task /\ task' = [task EXCEPT ![r] = t]
        /\ clock' \in Nat /\ clock <= clock'
        /\ d.authorization <= clock' /\ d.nextRetry <= clock' /\ d.claim <= clock'
        /\ t.token <= clock' /\ t.copy.nextRetry <= clock'
    BY <1>4, <1>5, OneReturn
  <2>2. /\ \A h \in granted' : h \in granted \/ (h.grant = clock' /\ clock' # 0)
        /\ \A h \in withdrawn' : h \in withdrawn \/ h <= clock'
    BY <1>5
  <2> HIDE DEF t
  <2>3. QED BY <1>2, <1>4, <2>1, <2>2, StampsKept DEF IInv
<1>10. GrantsInv'
  BY <1>5 DEF IInv, GrantsInv
<1>11. UploadsInv'
  BY <1>5, <1>6 DEF IInv, UploadsInv, IsGranted, Delivered
<1>12. RowInv(r)'
  BY <1>2, <1>4 DEF RowInv, DraftRow
<1>13. TaskInv(r)'
  BY <1>2, <1>4, <1>5, RowLeftQueue
<1>14. ASSUME NEW q \in Returns, q # r
       PROVE  RowInv(q)' /\ TaskInv(q)'
  <2>1. row'[q] = row[q] /\ task'[q] = task[q]
    BY <1>2, <1>5, <1>14 DEF IInv, TypeOK
  <2>2. RowInv(q) /\ TaskInv(q)
    BY DEF IInv
  <2>3. RowInv(q)'
    BY <1>5, <2>1, <2>2 DEF RowInv, DraftRow, QueuedRow, FiledRow, IsGranted, NotUploaded, Delivered
  <2>4. TaskInv(q)'
    BY <1>5, <2>1, <2>2 DEF TaskInv, LoadedTask, ClaimedTask, IsGranted, NotUploaded, Delivered
  <2>5. QED BY <2>3, <2>4
<1>15. QED
  BY <1>8, <1>9, <1>10, <1>11, <1>12, <1>13, <1>14 DEF IInv

\* A new grant is stamped later than every grant, claim and copy before it.
LEMMA QueueStep ==
    ASSUME IInv, NEW r \in Returns, Queue(r)
    PROVE  IInv'
<1>0. PICK now \in Nat : now = clock'
  BY OneReturn DEF Queue
<1> DEFINE b == Refreshed(row[r])
<1>1. /\ b \in Row /\ b.content \in Content /\ b.status = "Draft"
  BY OneReturn, RefreshedType DEF IInv, Queue, Row, Refreshed
<1> PICK c \in Content : c = b.content
  BY <1>1
<1> DEFINE d == MarkQueued(b, now)
           g == [ret |-> r, grant |-> now, content |-> c]
<1>2. clock' = now /\ now = clock + 1 /\ clock < now
  BY <1>0, OneReturn DEF Queue
<1> HIDE DEF b
<1>3. /\ d \in Row /\ d.status = "Queued" /\ d.authorization = now /\ d.nextRetry = now
      /\ d.claim = 0 /\ ~d.putStarted /\ d.attempts = 0
      /\ d.content = c /\ d.fingerprint = c
  BY <1>1, <1>2, MarkQueuedFacts
<1>4. /\ row' = [row EXCEPT ![r] = d] /\ row'[r] = d
      /\ granted' = granted \cup {g}
      /\ UNCHANGED <<task, received, simulated, snapshots, today, crashes, withdrawn, released>>
      /\ row[r].status = "Draft"
  BY <1>2 DEF Queue, IInv, TypeOK, b
<1> HIDE DEF d
<1>5. g \in Grant /\ g.grant = now /\ g.ret = r /\ g.content = c
  BY <1>1, <1>2 DEF Grant
<1> HIDE DEF g
<1>6. TypeOK'
  BY <1>2, <1>3, <1>4, <1>5 DEF IInv, TypeOK
<1>7. StampsInv'
  <2> DEFINE t == task[r]
  <2>1. /\ t \in Task /\ task' = [task EXCEPT ![r] = t]
        /\ clock' \in Nat /\ clock <= clock'
        /\ d.authorization <= clock' /\ d.nextRetry <= clock' /\ d.claim <= clock'
        /\ t.token <= clock' /\ t.copy.nextRetry <= clock'
    BY <1>2, <1>3, <1>4, OneReturn
  <2>2. /\ \A h \in granted' : h \in granted \/ (h.grant = clock' /\ clock' # 0)
        /\ \A h \in withdrawn' : h \in withdrawn \/ h <= clock'
    BY <1>2, <1>4, <1>5, OneReturn
  <2> HIDE DEF t
  <2>3. QED BY <1>3, <1>4, <2>1, <2>2, StampsKept DEF IInv
<1>8. \A h \in granted : h.grant # now
  <2>1. \A h \in granted : h.grant \in Nat /\ h.grant <= clock
    BY DEF IInv, TypeOK, StampsInv, Grant
  <2>2. QED BY <2>1, <1>2, OneReturn
<1>9. GrantsInv'
  BY <1>4, <1>5, <1>8 DEF IInv, GrantsInv
<1>10. UploadsInv'
  BY <1>4 DEF IInv, UploadsInv, IsGranted, Delivered
<1>11. NotUploaded(now)' /\ now \notin withdrawn'
  <2>1. \A p \in received : p.grant # now
    BY <1>8 DEF IInv, UploadsInv, IsGranted
  <2>2. \A p \in simulated : p.grant # now
    BY <1>8 DEF IInv, UploadsInv
  <2>3. \A h \in withdrawn : h \in Nat /\ h <= clock
    BY DEF IInv, TypeOK, StampsInv
  <2>4. QED BY <1>2, <1>4, <2>1, <2>2, <2>3, OneReturn DEF NotUploaded
<1>12. IsGranted(r, now, c)'
  BY <1>4 DEF IsGranted, g
<1>13. RowInv(r)'
  <2>1. d.attempts < MaxAttempts /\ now # 0
    BY <1>2, <1>3, AttemptsAssumption, OneReturn
  <2>2. QED
    BY <1>3, <1>4, <1>11, <1>12, <2>1 DEF RowInv, QueuedRow
<1>14. TaskInv(r)'
  <2>1. TaskInv(r) /\ row[r].claim = 0
    BY <1>4, OneReturn DEF RowInv, DraftRow
  <2>2. LoadedTask(r, task[r]) => LoadedTask(r, task[r])'
    <3>1. task[r].copy.nextRetry # now
      BY <1>2, OneReturn
    <3>2. QED BY <1>3, <1>4, <3>1 DEF LoadedTask
  <2>3. ClaimedTask(r, task[r]) => ClaimedTask(r, task[r])'
    <3>1. ClaimedTask(r, task[r]) => task[r].copy.authorization # now
      BY <1>8 DEF ClaimedTask, IsGranted
    <3>2. QED BY <1>3, <1>4, <3>1 DEF ClaimedTask, IsGranted
  <2>4. QED
    BY <1>3, <1>4, <2>1, <2>2, <2>3 DEF TaskInv, NotUploaded, Delivered, ClaimedTask
<1>15. ASSUME NEW q \in Returns, q # r
       PROVE  RowInv(q)' /\ TaskInv(q)'
  <2>1. row'[q] = row[q] /\ task'[q] = task[q]
    BY <1>4, <1>15 DEF IInv, TypeOK
  <2>2. RowInv(q) /\ TaskInv(q)
    BY DEF IInv
  <2>3. RowInv(q)'
    BY <1>4, <2>1, <2>2 DEF RowInv, DraftRow, QueuedRow, FiledRow, IsGranted, NotUploaded, Delivered
  <2>4. TaskInv(q)'
    BY <1>4, <2>1, <2>2 DEF TaskInv, LoadedTask, ClaimedTask, IsGranted, NotUploaded, Delivered
  <2>5. QED BY <2>3, <2>4
<1>16. QED
  BY <1>6, <1>7, <1>9, <1>10, <1>13, <1>14, <1>15 DEF IInv

----------------------------------------------------------------------------
(* The worker's steps before it claims *)

\* What a task loads agrees with the row it was loaded from.
LEMMA LoadStep ==
    ASSUME IInv, NEW r \in Returns, Load(r)
    PROVE  IInv'
<1> DEFINE copy == Refreshed(row[r])
           t == [IdleTask EXCEPT !.pc = IF Revalidates(row[r]) THEN "connecting" ELSE "stale",
                                 !.copy = copy,
                                 !.payload = Compute(row[r].content)]
<1>1. /\ copy \in Row
      /\ copy.content = Compute(row[r].content)
      /\ copy.status = row[r].status /\ copy.fingerprint = row[r].fingerprint
      /\ copy.authorization = row[r].authorization /\ copy.nextRetry = row[r].nextRetry
      /\ copy.attempts = row[r].attempts /\ copy.claim = row[r].claim
      /\ copy.putStarted = row[r].putStarted
  BY OneReturn, RefreshedType DEF IInv, Row, Refreshed
<1>2. Compute(row[r].content) \in Content
  BY OneReturn, ComputeType DEF IInv, Row
<1> HIDE DEF copy
<1>3. /\ t \in Task /\ t.copy = copy /\ t.payload = Compute(row[r].content) /\ t.token = 0
      /\ t.pc \in {"connecting", "stale"}
      /\ t.pc = "connecting" => Revalidates(row[r])
  BY <1>1, <1>2, IdleTaskFacts, RowMembers DEF Task
<1>4. /\ task' = [task EXCEPT ![r] = t] /\ task'[r] = t
      /\ UNCHANGED <<row, received, simulated, snapshots, clock, today, crashes, history>>
      /\ row[r].status = "Queued" /\ row[r].claim = 0
  BY DEF Load, IInv, TypeOK, IsUnclaimed, copy
<1> HIDE DEF t
<1>5. QueuedRow(r, row[r])
  BY <1>4, OneReturn DEF RowInv
<1>6. TaskInv(r)'
  <2>1. CASE t.pc = "stale"
    BY <1>4, <2>1 DEF TaskInv
  <2>2. CASE t.pc = "connecting"
    <3>1. row[r].content = Compute(row[r].content)
      BY <1>3, <1>5, <2>2 DEF Revalidates, QueuedRow
    <3>2. LoadedTask(r, task[r])'
      BY <1>1, <1>3, <1>4, <1>5, <3>1 DEF LoadedTask, QueuedRow
    <3>3. QED BY <1>4, <2>2, <3>2 DEF TaskInv
  <2>3. QED BY <1>3, <2>1, <2>2
<1>7. t.token <= clock /\ t.copy.nextRetry <= clock
  BY <1>1, <1>3, OneReturn
<1>8. QED
  BY <1>3, <1>4, <1>6, <1>7, TaskStep

\* A connection changes neither the copy nor the payload.
LEMMA OpenSessionStep ==
    ASSUME IInv, NEW r \in Returns, NEW s \in Sources, OpenSession(r, s)
    PROVE  IInv'
<1> DEFINE t == [task[r] EXCEPT !.pc = "session", !.source = s]
<1>1. /\ t \in Task /\ t.pc = "session" /\ t.copy = task[r].copy
      /\ t.payload = task[r].payload /\ t.token = task[r].token
  BY OneReturn, SourcesAssumption DEF Task
<1>2. /\ task' = [task EXCEPT ![r] = t] /\ task'[r] = t
      /\ UNCHANGED <<row, received, simulated, snapshots, clock, today, crashes, history>>
      /\ task[r].pc = "connecting"
  BY DEF OpenSession, IInv, TypeOK
<1> HIDE DEF t
<1>3. LoadedTask(r, task[r])'
  <2>1. LoadedTask(r, task[r])
    BY <1>2, OneReturn DEF TaskInv
  <2>2. QED BY <1>1, <1>2, <2>1 DEF LoadedTask
<1>4. TaskInv(r)'
  BY <1>1, <1>2, <1>3 DEF TaskInv
<1>5. t.token <= clock /\ t.copy.nextRetry <= clock
  BY <1>1, OneReturn
<1>6. QED
  BY <1>1, <1>2, <1>4, <1>5, TaskStep

\* A recovered claim had no upload, so the grant stands again.
LEMMA RecoverExpiredClaimStep ==
    ASSUME IInv, NEW r \in Returns, RecoverExpiredClaim(r)
    PROVE  IInv'
<1>0. PICK now \in Nat : now = clock'
  BY OneReturn DEF RecoverExpiredClaim
<1> DEFINE d == ReleaseExpiredUnstartedClaim(row[r], now)
           t == task[r]
<1>1. /\ d \in Row
      /\ d.status = row[r].status /\ d.authorization = row[r].authorization
      /\ d.nextRetry = now /\ d.claim = 0 /\ ~d.putStarted
      /\ d.attempts = row[r].attempts
      /\ d.content = row[r].content /\ d.fingerprint = row[r].fingerprint
  <2>1. row[r] \in Row BY OneReturn
  <2>2. QED BY <2>1, ReleaseFacts
<1>2. /\ row' = [row EXCEPT ![r] = d] /\ row'[r] = d
      /\ t \in Task /\ task' = [task EXCEPT ![r] = t] /\ task'[r].pc = "idle"
      /\ UNCHANGED <<received, simulated, snapshots, today, crashes, granted, withdrawn>>
      /\ released' \subseteq Nat
      /\ row[r].status = "Queued" /\ ~row[r].putStarted
  BY <1>0, OneReturn DEF RecoverExpiredClaim, ClaimIsRecoverable, history, IInv, TypeOK
<1>3. /\ clock' = now /\ clock' \in Nat /\ clock <= clock' /\ now # 0
      /\ d.authorization <= clock' /\ d.nextRetry <= clock' /\ d.claim <= clock'
      /\ t.token <= clock' /\ t.copy.nextRetry <= clock'
  BY <1>0, <1>1, OneReturn DEF RecoverExpiredClaim
<1> HIDE DEF d, t
<1>4. RowInv(r)'
  <2>1. QueuedRow(r, row[r])
    BY <1>2, OneReturn DEF RowInv
  <2>2. QueuedRow(r, row[r])'
    BY <1>1, <1>2, <1>3, <2>1 DEF QueuedRow, IsGranted, NotUploaded
  <2>3. QED BY <1>1, <1>2, <2>2 DEF RowInv
<1>5. TaskInv(r)'
  BY <1>2, StoppedTask
<1>6. QED
  BY <1>1, <1>2, <1>3, <1>4, <1>5, QuietStep

\* A task that ends leaves its row unchanged, or written once more.
LEMMA StopStep ==
    ASSUME IInv, NEW r \in Returns, NEW d \in Row,
           row' = [row EXCEPT ![r] = d],
           Stop(r),
           UNCHANGED <<received, simulated, snapshots, today, crashes, history>>,
           clock' \in Nat, clock <= clock',
           d.authorization <= clock', d.nextRetry <= clock', d.claim <= clock',
           RowInv(r)'
    PROVE  IInv'
<1> DEFINE t == IdleTask
<1>1. /\ t \in Task /\ t.pc = "idle" /\ t.token = 0 /\ t.copy.nextRetry = 0
  BY IdleTaskFacts
<1>2. task' = [task EXCEPT ![r] = t] /\ task'[r] = t
  BY DEF Stop, IInv, TypeOK
<1> HIDE DEF t
<1>3. TaskInv(r)'
  BY <1>1, <1>2, StoppedTask
<1>4. /\ t.token <= clock' /\ t.copy.nextRetry <= clock'
      /\ UNCHANGED <<received, simulated, snapshots, today, crashes, granted, withdrawn>>
      /\ released' \subseteq Nat
  BY <1>1 DEF history, IInv, TypeOK
<1>5. QED
  BY <1>1, <1>2, <1>3, <1>4, QuietStep

\* The same for a task that ends without writing its row.
LEMMA StopOnlyStep ==
    ASSUME IInv, NEW r \in Returns, row' = row, Stop(r),
           UNCHANGED <<received, simulated, snapshots, today, crashes, history>>,
           clock' \in Nat, clock <= clock'
    PROVE  IInv'
<1> DEFINE d == row[r]
<1>1. /\ d \in Row /\ row' = [row EXCEPT ![r] = d]
      /\ d.authorization <= clock' /\ d.nextRetry <= clock' /\ d.claim <= clock'
  BY OneReturn
<1>2. RowInv(r)'
  BY OneReturn DEF RowInv, DraftRow, QueuedRow, FiledRow, IsGranted, NotUploaded,
                   Delivered, history
<1> HIDE DEF d
<1>3. QED
  BY <1>1, <1>2, StopStep

\* A stale generation goes back to Draft.
LEMMA RejectStaleStep ==
    ASSUME IInv, NEW r \in Returns, RejectStale(r)
    PROVE  IInv'
<1> DEFINE d == RevertToDraft(task[r].copy)
<1>1. task[r].copy \in Row /\ clock \in Nat
  BY OneReturn
<1>2. /\ d \in Row /\ d.status = "Draft" /\ d.authorization = 0 /\ d.nextRetry = 0
      /\ d.claim = 0 /\ ~d.putStarted
  BY <1>1, RevertFacts
<1>3. row' = row \/ row' = [row EXCEPT ![r] = d]
  BY DEF RejectStale, Replace
<1> HIDE DEF d
<1>4. /\ Stop(r)
      /\ UNCHANGED <<received, simulated, snapshots, today, crashes, history>>
      /\ clock' \in Nat /\ clock <= clock'
  BY <1>1 DEF RejectStale
<1>5. CASE row' = row
  BY <1>4, <1>5, StopOnlyStep
<1>6. CASE row' = [row EXCEPT ![r] = d]
  <2>1. RowInv(r)'
    BY <1>2, <1>6 DEF RowInv, DraftRow, IInv, TypeOK
  <2>2. d.authorization <= clock' /\ d.nextRetry <= clock' /\ d.claim <= clock'
    BY <1>2, <1>4
  <2>3. QED
    BY <1>2, <1>4, <1>6, <2>1, <2>2, StopStep
<1>7. QED
  BY <1>3, <1>5, <1>6

\* A failed session either gives the return back or re-queues the very
\* generation the task had loaded.
LEMMA FailSessionStep ==
    ASSUME IInv, NEW r \in Returns, FailSession(r)
    PROVE  IInv'
<1>0. PICK now \in Nat : now = clock'
  BY OneReturn DEF FailSession
<1> DEFINE copy == task[r].copy
           d == RecordSubmissionFailure(copy, now)
<1>1. LoadedTask(r, task[r])
  BY OneReturn DEF TaskInv, FailSession
<1>2. /\ copy \in Row /\ copy.status = "Queued" /\ copy.attempts < MaxAttempts
      /\ copy.authorization \in Nat
      /\ clock \in Nat /\ now = clock + 1 /\ clock' = now
  BY <1>0, <1>1, OneReturn DEF LoadedTask, FailSession, Row
<1>3. /\ d \in Row /\ d.claim = 0 /\ ~d.putStarted
      /\ \/ d.status = "Draft" /\ d.authorization = 0 /\ d.nextRetry = 0
         \/ /\ d.status = "Queued" /\ d.authorization = copy.authorization /\ d.nextRetry = now
            /\ d.attempts < MaxAttempts
            /\ d.content = copy.content /\ d.fingerprint = copy.fingerprint
  BY <1>2, FailureFacts
<1>4. \/ row' = row
      \/ row' = [row EXCEPT ![r] = d] /\ SameGeneration(row[r], copy)
  BY <1>0 DEF FailSession, Replace
<1> HIDE DEF d
<1>5. /\ Stop(r)
      /\ UNCHANGED <<received, simulated, snapshots, today, crashes, history>>
      /\ clock' \in Nat /\ clock <= clock'
  BY <1>2 DEF FailSession
<1>6. CASE row' = row
  BY <1>5, <1>6, StopOnlyStep
<1>7. CASE row' = [row EXCEPT ![r] = d] /\ SameGeneration(row[r], copy)
  <2>1. /\ row[r].status = "Queued" /\ row[r].claim = 0
        /\ row[r].nextRetry = copy.nextRetry
    BY <1>7 DEF SameGeneration, IsUnclaimed
  <2>2. /\ row[r].authorization = copy.authorization /\ row[r].content = copy.content
        /\ copy.fingerprint = copy.content
    BY <1>1, <2>1 DEF LoadedTask
  <2>3. QueuedRow(r, row[r])
    BY <2>1, OneReturn DEF RowInv
  <2>4. row'[r] = d
    BY <1>7 DEF IInv, TypeOK
  <2>5. RowInv(r)'
    <3>1. CASE d.status = "Draft"
      BY <1>3, <2>4, <3>1 DEF RowInv, DraftRow
    <3>2. CASE d.status = "Queued"
      <4>1. now # 0 BY <1>2
      <4>2. QueuedRow(r, row[r])'
        BY <1>3, <1>5, <2>1, <2>2, <2>3, <2>4, <3>2, <4>1 DEF QueuedRow, IsGranted, NotUploaded, history
      <4>3. QED BY <2>4, <3>2, <4>2 DEF RowInv
    <3>3. QED BY <1>3, <3>1, <3>2
  <2>6. d.authorization <= clock' /\ d.nextRetry <= clock' /\ d.claim <= clock'
    BY <1>2, <1>3, <2>2, OneReturn
  <2>7. QED
    BY <1>3, <1>5, <1>7, <2>5, <2>6, StopStep
<1>8. QED
  BY <1>4, <1>6, <1>7

----------------------------------------------------------------------------
(* The claim and the upload *)

\* The claimed row is the generation whose payload the task prepared.
LEMMA ClaimStep ==
    ASSUME IInv, NEW r \in Returns, Claim(r)
    PROVE  IInv'
<1>0. PICK now \in Nat : now = clock'
  BY OneReturn DEF Claim
<1> DEFINE d == TakeClaim(row[r], now)
           t == [task[r] EXCEPT !.pc = "claimed", !.copy = d, !.token = now]
<1>1. /\ row[r] \in Row /\ task[r] \in Task
      /\ clock \in Nat /\ now = clock + 1 /\ clock' = now
  BY <1>0, OneReturn DEF Claim
<1>2. /\ d \in Row /\ d.status = row[r].status /\ d.authorization = row[r].authorization
      /\ d.nextRetry = row[r].nextRetry /\ d.claim = now /\ ~d.putStarted
      /\ d.attempts = row[r].attempts
      /\ d.content = row[r].content /\ d.fingerprint = row[r].fingerprint
  BY <1>1, TakeClaimFacts
<1>3. /\ row' = [row EXCEPT ![r] = d] /\ row'[r] = d
      /\ row[r].status = "Queued" /\ row[r].claim = 0
      /\ row[r].nextRetry = task[r].copy.nextRetry
      /\ task[r].pc = "session"
      /\ UNCHANGED <<received, simulated, snapshots, today, crashes, granted, withdrawn>>
      /\ released' \subseteq Nat
  BY <1>0 DEF Claim, SameGeneration, IsUnclaimed, history, IInv, TypeOK
<1>4. task' = [task EXCEPT ![r] = t] /\ task'[r] = t
  BY <1>0 DEF Claim, IInv, TypeOK
<1> HIDE DEF d
<1>5. /\ t \in Task /\ t.pc = "claimed" /\ t.copy = d /\ t.token = now
      /\ t.payload = task[r].payload
  BY <1>1, <1>2 DEF Task
<1> HIDE DEF t
<1>6. QueuedRow(r, row[r]) /\ LoadedTask(r, task[r])
  BY <1>3, OneReturn DEF RowInv, TaskInv
<1>7. t.payload = row[r].content
  BY <1>3, <1>5, <1>6 DEF LoadedTask
<1>8. now # 0
  BY <1>1
<1>9. RowInv(r)'
  <2>1. QueuedRow(r, row[r])'
    BY <1>2, <1>3, <1>6, <1>8 DEF QueuedRow, IsGranted, NotUploaded
  <2>2. QED BY <1>2, <1>3, <2>1 DEF RowInv
<1>10. TaskInv(r)'
  <2>1. ClaimedTask(r, task[r])'
    BY <1>2, <1>3, <1>4, <1>5, <1>6, <1>7, <1>8 DEF ClaimedTask, QueuedRow, IsGranted
  <2>2. NotUploaded(task[r].copy.authorization)'
    BY <1>2, <1>3, <1>4, <1>5, <1>6 DEF QueuedRow, NotUploaded
  <2>3. QED BY <1>4, <1>5, <2>1, <2>2 DEF TaskInv
<1>11. /\ clock' \in Nat /\ clock <= clock'
       /\ d.authorization <= clock' /\ d.nextRetry <= clock' /\ d.claim <= clock'
       /\ t.token <= clock' /\ t.copy.nextRetry <= clock'
  BY <1>1, <1>2, <1>5, OneReturn
<1>12. QED
  BY <1>2, <1>3, <1>4, <1>5, <1>9, <1>10, <1>11, QuietStep

\* A refused claim leaves the row alone or gives it back.
LEMMA ClaimRefusedStep ==
    ASSUME IInv, NEW r \in Returns, ClaimRefused(r)
    PROVE  IInv'
<1> DEFINE b == Refreshed(row[r])
           d == RevertToDraft(b)
<1>1. b \in Row /\ clock \in Nat
  BY OneReturn, RefreshedType DEF IInv
<1>2. /\ d \in Row /\ d.status = "Draft" /\ d.authorization = 0 /\ d.nextRetry = 0
      /\ d.claim = 0 /\ ~d.putStarted
  BY <1>1, RevertFacts
<1>3. row' = row \/ row' = [row EXCEPT ![r] = d]
  BY DEF ClaimRefused, Rejected
<1> HIDE DEF d
<1>4. /\ Stop(r)
      /\ UNCHANGED <<received, simulated, snapshots, today, crashes, history>>
      /\ clock' \in Nat /\ clock <= clock'
  BY <1>1 DEF ClaimRefused
<1>5. CASE row' = row
  BY <1>4, <1>5, StopOnlyStep
<1>6. CASE row' = [row EXCEPT ![r] = d]
  <2>1. RowInv(r)'
    BY <1>2, <1>6 DEF RowInv, DraftRow, IInv, TypeOK
  <2>2. d.authorization <= clock' /\ d.nextRetry <= clock' /\ d.claim <= clock'
    BY <1>2, <1>4
  <2>3. QED
    BY <1>2, <1>4, <1>6, <2>1, <2>2, StopStep
<1>7. QED
  BY <1>3, <1>5, <1>6

\* Only the holder of the claim marks the upload as started.
LEMMA MarkPutStartedStep ==
    ASSUME IInv, NEW r \in Returns, MarkPutStarted(r)
    PROVE  IInv'
<1>1. ClaimedTask(r, task[r]) /\ NotUploaded(task[r].copy.authorization)
  BY OneReturn DEF MarkPutStarted, TaskInv
<1>2. CASE HoldsClaim(r)
  <2> DEFINE d == [row[r] EXCEPT !.putStarted = TRUE]
             t == [task[r] EXCEPT !.pc = "putting"]
  <2>1. row[r] \in Row /\ task[r] \in Task
    BY OneReturn
  <2>2. /\ d \in Row /\ d.status = row[r].status /\ d.authorization = row[r].authorization
        /\ d.nextRetry = row[r].nextRetry /\ d.claim = row[r].claim /\ d.putStarted
        /\ d.attempts = row[r].attempts
        /\ d.content = row[r].content /\ d.fingerprint = row[r].fingerprint
    BY <2>1 DEF Row
  <2>3. /\ t \in Task /\ t.pc = "putting" /\ t.copy = task[r].copy /\ t.token = task[r].token
        /\ t.payload = task[r].payload
    BY <2>1 DEF Task
  <2>4. /\ row' = [row EXCEPT ![r] = d] /\ row'[r] = d
        /\ task' = [task EXCEPT ![r] = t] /\ task'[r] = t
        /\ UNCHANGED <<received, simulated, snapshots, clock, today, crashes, granted, withdrawn>>
        /\ released' \subseteq Nat
        /\ row[r].status = "Queued" /\ row[r].claim = task[r].token
    BY <1>2 DEF MarkPutStarted, HoldsClaim, history, IInv, TypeOK
  <2> HIDE DEF d, t
  <2>5. QueuedRow(r, row[r])
    BY <2>4, OneReturn DEF RowInv
  <2>6. RowInv(r)'
    <3>1. task[r].token # 0
      BY <1>1 DEF ClaimedTask
    <3>2. QueuedRow(r, row[r])'
      BY <2>2, <2>4, <2>5, <3>1 DEF QueuedRow, IsGranted
    <3>3. QED BY <2>2, <2>4, <3>2 DEF RowInv
  <2>7. TaskInv(r)'
    <3>1. ClaimedTask(r, task[r])'
      BY <1>1, <2>2, <2>3, <2>4 DEF ClaimedTask, IsGranted
    <3>2. NotUploaded(task[r].copy.authorization)'
      BY <1>1, <2>3, <2>4 DEF NotUploaded
    <3>3. QED BY <2>2, <2>3, <2>4, <3>1, <3>2 DEF TaskInv
  <2>8. /\ clock' \in Nat /\ clock <= clock'
        /\ d.authorization <= clock' /\ d.nextRetry <= clock' /\ d.claim <= clock'
        /\ t.token <= clock' /\ t.copy.nextRetry <= clock'
    BY <2>2, <2>3, <2>4, OneReturn
  <2>9. UNCHANGED <<received, simulated, snapshots, today, crashes, granted, withdrawn>>
    BY <2>4
  <2>10. QED
    BY <2>2, <2>3, <2>4, <2>6, <2>7, <2>8, <2>9, QuietStep
<1>3. CASE ~HoldsClaim(r)
  <2>1. /\ row' = row /\ Stop(r)
        /\ UNCHANGED <<received, simulated, snapshots, today, crashes, history>>
        /\ clock' \in Nat /\ clock <= clock'
    BY <1>3, OneReturn DEF MarkPutStarted
  <2>2. QED BY <2>1, StopOnlyStep
<1>4. QED BY <1>2, <1>3

\* Only the holder of the claim records the upload.
LEMMA PutSucceededStep ==
    ASSUME IInv, NEW r \in Returns, PutSucceeded(r)
    PROVE  IInv'
<1> DEFINE copy == task[r].copy
           d == TransitionToSubmitted(copy, task[r].payload)
<1>1. /\ ClaimedTask(r, task[r])
      /\ [ret |-> r, grant |-> copy.authorization, content |-> task[r].payload] \in Delivered
  BY OneReturn DEF PutSucceeded, TaskInv
<1>2. /\ copy \in Row /\ task[r].payload = copy.content /\ copy.content \in Content
      /\ copy.authorization \in Nat /\ clock \in Nat
  BY <1>1, OneReturn DEF ClaimedTask, Row
<1>3. /\ d \in Row /\ d.status = "Submitted" /\ d.authorization = copy.authorization
      /\ d.nextRetry = 0 /\ d.claim = 0 /\ ~d.putStarted
      /\ d.content = copy.content /\ d.payload = copy.content
  BY <1>2, SubmittedFacts
<1>4. /\ \/ row' = row
         \/ row' = [row EXCEPT ![r] = d] /\ row[r].claim = task[r].token /\ row[r].status = "Queued"
      /\ Stop(r)
      /\ UNCHANGED <<received, simulated, snapshots, today, crashes, history>>
      /\ clock' \in Nat /\ clock <= clock'
  BY <1>2 DEF PutSucceeded, HoldsClaim
<1> HIDE DEF d
<1>5. CASE row' = row
  BY <1>4, <1>5, StopOnlyStep
<1>6. CASE /\ row' = [row EXCEPT ![r] = d]
           /\ row[r].claim = task[r].token /\ row[r].status = "Queued"
  <2>1. row'[r] = d
    BY <1>6 DEF IInv, TypeOK
  <2>2. copy.authorization = row[r].authorization /\ copy.authorization # 0
    BY <1>1, <1>6, OneReturn DEF ClaimedTask, RowInv, QueuedRow
  <2>3. RowInv(r)'
    BY <1>1, <1>2, <1>3, <1>4, <2>1, <2>2 DEF RowInv, FiledRow, Delivered
  <2>4. d.authorization <= clock' /\ d.nextRetry <= clock' /\ d.claim <= clock'
    BY <1>3, <1>4, <2>2, OneReturn
  <2>5. QED
    BY <1>3, <1>4, <1>6, <2>3, <2>4, StopStep
<1>7. QED
  BY <1>4, <1>5, <1>6

\* A failed upload leaves the claim to a human.
LEMMA PutFailedStep ==
    ASSUME IInv, NEW r \in Returns, PutFailed(r)
    PROVE  IInv'
<1>1. /\ row' = row /\ Stop(r)
      /\ UNCHANGED <<received, simulated, snapshots, today, crashes, history>>
      /\ clock' \in Nat /\ clock <= clock'
  BY OneReturn DEF PutFailed
<1>2. QED BY <1>1, StopOnlyStep

\* An upload, live or dry, carries out the claimed grant for the first time.
LEMMA UploadStep ==
    ASSUME IInv, NEW r \in Returns, task[r].pc = "putting",
           row' = row, task' = [task EXCEPT ![r].pc = "stored"],
           clock' \in Nat, clock <= clock',
           UNCHANGED <<snapshots, today, crashes, history>>,
           received' \subseteq Upload, simulated' \subseteq Grant,
           received \subseteq received', simulated \subseteq simulated',
           \A p \in (received' \ received) \cup (simulated' \ simulated) :
              /\ p.ret = r
              /\ p.grant = task[r].copy.authorization
              /\ p.content = task[r].payload,
           \A p, q \in received' \ received : p = q,
           [ret |-> r, grant |-> task[r].copy.authorization,
            content |-> task[r].payload] \in Delivered'
    PROVE  IInv'
<1>1. PICK g \in Nat, c \in Content : g = task[r].copy.authorization /\ c = task[r].payload
  <2>1. ClaimedTask(r, task[r])
    BY OneReturn DEF TaskInv
  <2>2. QED BY <2>1, OneReturn DEF ClaimedTask, Row
<1>2. /\ ClaimedTask(r, task[r]) /\ NotUploaded(g)
      /\ row[r].claim = task[r].token => row[r].putStarted
      /\ RowInv(r)
  BY <1>1, OneReturn DEF TaskInv
<1>3. IsGranted(r, g, c) /\ g \notin withdrawn
  BY <1>1, <1>2 DEF ClaimedTask
<1>4. /\ \A p \in received' : p \in received \/ (p.ret = r /\ p.grant = g /\ p.content = c)
      /\ \A p \in simulated' : p \in simulated \/ (p.ret = r /\ p.grant = g /\ p.content = c)
      /\ UNCHANGED <<granted, withdrawn, released>>
  BY <1>1 DEF history
<1> DEFINE t == [task[r] EXCEPT !.pc = "stored"]
<1>5. /\ task' = [task EXCEPT ![r] = t] /\ task'[r] = t
  BY DEF IInv, TypeOK
<1>6. /\ t \in Task /\ t.pc = "stored" /\ t.copy = task[r].copy /\ t.token = task[r].token
      /\ t.payload = task[r].payload
  BY OneReturn DEF Task
<1> HIDE DEF t
<1>7. TypeOK'
  BY <1>5, <1>6 DEF IInv, TypeOK, history
<1>8. StampsInv'
  <2> DEFINE d == row[r]
  <2>1. /\ d \in Row /\ row' = [row EXCEPT ![r] = d]
        /\ d.authorization <= clock' /\ d.nextRetry <= clock' /\ d.claim <= clock'
        /\ t.token <= clock' /\ t.copy.nextRetry <= clock'
        /\ \A h \in granted' : h \in granted \/ (h.grant = clock' /\ clock' # 0)
        /\ \A h \in withdrawn' : h \in withdrawn \/ h <= clock'
    BY <1>4, <1>6, OneReturn
  <2> HIDE DEF d
  <2>2. QED BY <1>5, <1>6, <2>1, StampsKept DEF IInv
<1>9. GrantsInv'
  BY <1>4 DEF IInv, GrantsInv
<1>10. Delivered \subseteq Delivered'
  BY DEF Delivered
<1>11. UploadsInv'
  <2>1. \A p \in received' : IsGranted(p.ret, p.grant, p.content)' /\ p.grant \notin withdrawn'
    BY <1>3, <1>4 DEF IInv, UploadsInv, IsGranted
  <2>2. \A p \in simulated' : p \in granted' /\ p.grant \notin withdrawn'
    <3>1. ASSUME NEW p \in simulated', p \notin simulated
          PROVE  p \in granted
      <4>1. p \in Grant /\ p.ret = r /\ p.grant = g /\ p.content = c
        BY <1>4, <3>1
      <4>2. p = [ret |-> r, grant |-> g, content |-> c]
        BY <4>1 DEF Grant
      <4>3. QED BY <1>3, <4>2 DEF IsGranted
    <3>2. QED BY <1>3, <1>4, <3>1 DEF IInv, UploadsInv
  <2>3. \A p, q \in received' : p.grant = q.grant => p = q
    BY <1>2, <1>4 DEF IInv, UploadsInv, NotUploaded
  <2>4. QED BY <1>10, <2>1, <2>2, <2>3 DEF IInv, UploadsInv
<1>12. RowInv(r)'
  <2>1. ASSUME row[r].status = "Queued", ~row[r].putStarted
        PROVE  NotUploaded(row[r].authorization)'
    <3>1. row[r].authorization # g
      BY <1>1, <1>2, <2>1 DEF ClaimedTask
    <3>2. NotUploaded(row[r].authorization)
      BY <1>2, <2>1 DEF RowInv, QueuedRow
    <3>3. QED BY <1>4, <3>1, <3>2 DEF NotUploaded
  <2>2. QueuedRow(r, row[r]) /\ row[r].status = "Queued" => QueuedRow(r, row[r])'
    BY <1>4, <2>1 DEF QueuedRow, IsGranted
  <2>3. FiledRow(r, row[r]) => FiledRow(r, row[r])'
    BY <1>10 DEF FiledRow
  <2>4. QED BY <1>2, <2>2, <2>3 DEF RowInv, DraftRow
<1>13. TaskInv(r)'
  <2>1. ClaimedTask(r, task[r])'
    BY <1>2, <1>4, <1>5, <1>6 DEF ClaimedTask, IsGranted
  <2>2. QED BY <1>2, <1>5, <1>6, <2>1 DEF TaskInv
<1>14. ASSUME NEW q \in Returns, q # r
       PROVE  RowInv(q)' /\ TaskInv(q)'
  <2>1. row'[q] = row[q] /\ task'[q] = task[q]
    BY <1>5, <1>14 DEF IInv, TypeOK
  <2>2. /\ granted \subseteq granted'
        /\ withdrawn' \subseteq withdrawn \cup {g}
        /\ \A p \in received' : p \in received \/ p.grant = g
        /\ \A p \in simulated' : p \in simulated \/ p.grant = g
    BY <1>4
  <2>3. QED
    BY <1>3, <1>14, <2>1, <2>2, OtherReturns
<1>15. QED
  BY <1>7, <1>8, <1>9, <1>11, <1>12, <1>13, <1>14 DEF IInv

\* A live upload.
LEMMA FileReceivedStep ==
    ASSUME IInv, NEW r \in Returns, FileReceived(r)
    PROVE  IInv'
<1> DEFINE p == [ret |-> r, grant |-> task[r].copy.authorization,
                 content |-> task[r].payload, at |-> clock']
<1>1. /\ task[r].copy.authorization \in Nat /\ task[r].payload \in Content
      /\ clock' \in Nat /\ clock <= clock'
  <2>1. ClaimedTask(r, task[r])
    BY OneReturn DEF FileReceived, TaskInv
  <2>2. QED BY <2>1, OneReturn DEF ClaimedTask, Row, FileReceived
<1>2. p \in Upload /\ p.ret = r /\ p.grant = task[r].copy.authorization
      /\ p.content = task[r].payload
  BY <1>1 DEF Upload
<1>3. /\ received' = received \cup {p}
      /\ task[r].pc = "putting" /\ row' = row /\ task' = [task EXCEPT ![r].pc = "stored"]
      /\ simulated' = simulated
      /\ UNCHANGED <<snapshots, today, crashes, history>>
  BY DEF FileReceived
<1>4. [ret |-> r, grant |-> task[r].copy.authorization, content |-> task[r].payload]
         \in Delivered'
  BY <1>2, <1>3 DEF Delivered
<1> HIDE DEF p
<1>5. /\ received' \subseteq Upload /\ simulated' \subseteq Grant
      /\ received \subseteq received' /\ simulated \subseteq simulated'
      /\ \A q \in (received' \ received) \cup (simulated' \ simulated) : q = p
  BY <1>2, <1>3 DEF IInv, TypeOK
<1>6. QED
  BY <1>1, <1>2, <1>3, <1>4, <1>5, UploadStep

\* A dry-run upload.
LEMMA DryRunStoredStep ==
    ASSUME IInv, NEW r \in Returns, DryRunStored(r)
    PROVE  IInv'
<1> DEFINE p == [ret |-> r, grant |-> task[r].copy.authorization, content |-> task[r].payload]
<1>1. /\ task[r].copy.authorization \in Nat /\ task[r].payload \in Content
      /\ clock' \in Nat /\ clock <= clock'
  <2>1. ClaimedTask(r, task[r])
    BY OneReturn DEF DryRunStored, TaskInv
  <2>2. QED BY <2>1, OneReturn DEF ClaimedTask, Row, DryRunStored
<1>2. p \in Grant /\ p.ret = r /\ p.grant = task[r].copy.authorization
      /\ p.content = task[r].payload
  BY <1>1 DEF Grant
<1>3. /\ simulated' = simulated \cup {p}
      /\ task[r].pc = "putting" /\ row' = row /\ task' = [task EXCEPT ![r].pc = "stored"]
      /\ received' = received
      /\ UNCHANGED <<snapshots, today, crashes, history>>
  BY DEF DryRunStored
<1>4. p \in Delivered'
  BY <1>3 DEF Delivered
<1>5. /\ received' \subseteq Upload /\ simulated' \subseteq Grant
      /\ received \subseteq received' /\ simulated \subseteq simulated'
      /\ \A q \in (received' \ received) \cup (simulated' \ simulated) : q = p
  BY <1>2, <1>3 DEF IInv, TypeOK
<1>6. /\ [ret |-> r, grant |-> task[r].copy.authorization, content |-> task[r].payload]
            \in Delivered'
      /\ \A q \in (received' \ received) \cup (simulated' \ simulated) :
            /\ q.ret = r
            /\ q.grant = task[r].copy.authorization
            /\ q.content = task[r].payload
  BY <1>2, <1>4, <1>5
<1> HIDE DEF p
<1>7. QED
  BY <1>1, <1>3, <1>5, <1>6, UploadStep

----------------------------------------------------------------------------
(* Receipts, time and crashes *)

\* A confirmed row was filed already.
LEMMA ConfirmStep ==
    ASSUME IInv, NEW r \in Returns, NEW p \in received, ConfirmFromReceipt(r, p)
    PROVE  IInv'
<1> DEFINE d == TransitionToConfirmed(row[r], p.at)
<1>1. row[r] \in Row /\ p.at \in Nat
  BY OneReturn DEF IInv, TypeOK, Upload
<1>2. /\ d \in Row /\ d.status = "Confirmed" /\ d.authorization = row[r].authorization
      /\ d.nextRetry = row[r].nextRetry /\ d.claim = row[r].claim
      /\ d.putStarted = row[r].putStarted
      /\ d.content = row[r].content /\ d.payload = row[r].payload
  BY <1>1, RowMembers DEF Row, TransitionToConfirmed
<1>3. /\ row' = [row EXCEPT ![r] = d] /\ row'[r] = d
      /\ row[r].status = "Submitted"
      /\ UNCHANGED <<task, received, simulated, snapshots, clock, today, crashes,
                      granted, withdrawn>>
      /\ released' \subseteq Nat
  BY DEF ConfirmFromReceipt, history, IInv, TypeOK
<1> HIDE DEF d
<1>4. FiledRow(r, row[r])
  BY <1>3, OneReturn DEF RowInv
<1>5. RowInv(r)'
  BY <1>2, <1>3, <1>4 DEF RowInv, FiledRow, Delivered
<1>6. TaskInv(r)'
  BY <1>2, <1>3, <1>4, RowLeftQueue DEF FiledRow
<1>7. d.authorization <= clock /\ d.nextRetry <= clock /\ d.claim <= clock
  BY <1>2, OneReturn
<1>8. QED
  BY <1>2, <1>3, <1>5, <1>6, <1>7, RowStep

\* The passing of time raises a flag of a row and nothing else.
LEMMA TimeStep ==
    ASSUME IInv, NEW r \in Returns, RetryFallsDue(r) \/ LeaseExpires(r)
    PROVE  IInv'
<1>1. PICK due \in BOOLEAN, over \in BOOLEAN :
         row' = [row EXCEPT ![r] = [row[r] EXCEPT !.retryDue = due, !.leaseOver = over]]
  <2>1. CASE RetryFallsDue(r)
    <3>1. row' = [row EXCEPT ![r] = [row[r] EXCEPT !.retryDue = TRUE,
                                                   !.leaseOver = row[r].leaseOver]]
      BY <2>1, OneReturn DEF RetryFallsDue, IInv, TypeOK, Row
    <3>2. row[r].leaseOver \in BOOLEAN
      BY OneReturn DEF Row
    <3>3. QED BY <3>1, <3>2
  <2>2. CASE LeaseExpires(r)
    <3>1. row' = [row EXCEPT ![r] = [row[r] EXCEPT !.retryDue = row[r].retryDue,
                                                   !.leaseOver = TRUE]]
      BY <2>2, OneReturn DEF LeaseExpires, IInv, TypeOK, Row
    <3>2. row[r].retryDue \in BOOLEAN
      BY OneReturn DEF Row
    <3>3. QED BY <3>1, <3>2
  <2>3. QED BY <2>1, <2>2
<1> DEFINE d == [row[r] EXCEPT !.retryDue = due, !.leaseOver = over]
<1>2. /\ d \in Row /\ d.status = row[r].status /\ d.authorization = row[r].authorization
      /\ d.nextRetry = row[r].nextRetry /\ d.claim = row[r].claim
      /\ d.putStarted = row[r].putStarted /\ d.attempts = row[r].attempts
      /\ d.content = row[r].content /\ d.fingerprint = row[r].fingerprint
      /\ d.payload = row[r].payload
  BY OneReturn DEF Row
<1>3. /\ row' = [row EXCEPT ![r] = d] /\ row'[r] = d
      /\ UNCHANGED <<task, received, simulated, snapshots, clock, today, crashes,
                      granted, withdrawn>>
      /\ released' \subseteq Nat
  BY <1>1 DEF RetryFallsDue, LeaseExpires, history, IInv, TypeOK
<1> HIDE DEF d
<1>4. RowInv(r)'
  <2>1. RowInv(r) BY OneReturn
  <2>2. QED BY <1>2, <1>3, <2>1 DEF RowInv, DraftRow, QueuedRow, FiledRow, IsGranted,
                                    NotUploaded, Delivered
<1>5. TaskInv(r)'
  <2>1. TaskInv(r) BY OneReturn
  <2>2. QED BY <1>2, <1>3, <2>1 DEF TaskInv, LoadedTask, ClaimedTask, IsGranted,
                                    NotUploaded, Delivered
<1>6. d.authorization <= clock /\ d.nextRetry <= clock /\ d.claim <= clock
  BY <1>2, OneReturn
<1>7. QED
  BY <1>2, <1>3, <1>4, <1>5, <1>6, RowStep

\* A new day changes no stored content.
LEMMA DayTurnsStep == ASSUME IInv, DayTurns PROVE IInv'
<1>1. TypeOK' /\ GrantsInv' /\ UploadsInv'
  BY DEF DayTurns, history, IInv, TypeOK, GrantsInv, UploadsInv, IsGranted, Delivered
<1>s. StampsInv'
  <2>1. \A n \in Nat : n <= clock => n <= clock'
    BY DEF DayTurns, IInv, TypeOK
  <2>2. \A r \in Returns : row[r] \in Row /\ task[r] \in Task
    BY DEF IInv, TypeOK
  <2>3. UNCHANGED <<row, task, granted, withdrawn>>
    BY DEF DayTurns, history
  <2>4. /\ \A g \in granted : g.grant \in Nat
        /\ \A g \in withdrawn : g \in Nat
    BY DEF IInv, TypeOK, Grant
  <2>5. QED BY <2>1, <2>2, <2>3, <2>4 DEF IInv, StampsInv, Row, Task
<1>2. ASSUME NEW r \in Returns PROVE RowInv(r)' /\ TaskInv(r)'
  <2>1. RowInv(r)'
    BY OneReturn DEF DayTurns, history, RowInv, DraftRow, QueuedRow, FiledRow, IsGranted,
                     NotUploaded, Delivered
  <2>2. TaskInv(r)'
    BY OneReturn DEF DayTurns, history, TaskInv, LoadedTask, ClaimedTask, IsGranted,
                     NotUploaded, Delivered
  <2>3. QED BY <2>1, <2>2
<1>3. QED BY <1>1, <1>s, <1>2 DEF IInv

\* A crash loses the tasks; nothing in the rows depended on them.
LEMMA CrashStep == ASSUME IInv, Crash PROVE IInv'
<1>1. \A r \in Returns : task'[r] = IdleTask
  BY DEF Crash
<1>2. TypeOK'
  BY <1>1, IdleTaskFacts DEF Crash, history, IInv, TypeOK
<1>3. StampsInv'
  BY <1>1, IdleTaskFacts DEF Crash, history, IInv, TypeOK, StampsInv
<1>4. GrantsInv' /\ UploadsInv'
  BY DEF Crash, history, IInv, GrantsInv, UploadsInv, IsGranted, Delivered
<1>5. ASSUME NEW r \in Returns PROVE RowInv(r)' /\ TaskInv(r)'
  <2>1. RowInv(r)'
    BY OneReturn DEF Crash, history, RowInv, DraftRow, QueuedRow, FiledRow, IsGranted,
                     NotUploaded, Delivered
  <2>2. TaskInv(r)'
    BY <1>1, IdleTaskFacts, StoppedTask
  <2>3. QED BY <2>1, <2>2
<1>6. QED BY <1>2, <1>3, <1>4, <1>5 DEF IInv

----------------------------------------------------------------------------
(* The theorems *)

\* The invariant holds initially.
LEMMA InitInv == Init => IInv
<1> SUFFICES ASSUME Init PROVE IInv
  OBVIOUS
<1>1. BlankContent \in Content
  BY EditsAssumption DEF BlankContent, Content
<1>2. BlankRow \in Row /\ BlankRow.status = "Draft" /\ BlankRow.authorization = 0
      /\ BlankRow.nextRetry = 0 /\ BlankRow.claim = 0 /\ ~BlankRow.putStarted
  BY <1>1, RowMembers DEF BlankRow, Row
<1>3. IdleTask \in Task /\ IdleTask.pc = "idle" /\ IdleTask.token = 0
      /\ IdleTask.copy.nextRetry = 0
  BY <1>2 DEF IdleTask, Task, OptContent
<1>4. TypeOK
  BY <1>2, <1>3 DEF Init, TypeOK
<1>5. StampsInv
  BY <1>2, <1>3 DEF Init, StampsInv
<1>6. GrantsInv /\ UploadsInv
  BY DEF Init, GrantsInv, UploadsInv
<1>7. ASSUME NEW r \in Returns PROVE RowInv(r) /\ TaskInv(r)
  <2>1. row[r] = BlankRow /\ task[r] = IdleTask
    BY DEF Init
  <2>2. QED BY <1>2, <1>3, <2>1 DEF RowInv, DraftRow, TaskInv
<1>8. QED BY <1>4, <1>5, <1>6, <1>7 DEF IInv

\* Every step keeps the invariant.
LEMMA NextInv == IInv /\ [Next]_vars => IInv'
<1> SUFFICES ASSUME IInv, [Next]_vars PROVE IInv'
  OBVIOUS
<1>1. ASSUME NEW r \in Returns, UserStep(r) PROVE IInv'
  BY <1>1, SaveDraftStep, AmendFiledStep, QueueStep, WithdrawStep, ReleaseAbandonedClaimStep
     DEF UserStep, Cancel, RevertQueued
<1>2. ASSUME NEW r \in Returns, WorkerStep(r) PROVE IInv'
  BY <1>2, LoadStep, RecoverExpiredClaimStep, RejectStaleStep, OpenSessionStep,
     FailSessionStep, ClaimStep, ClaimRefusedStep, MarkPutStartedStep, DryRunStoredStep,
     PutSucceededStep, PutFailedStep
     DEF WorkerStep, Connect, PutEnds
<1>3. ASSUME NEW r \in Returns, OutsideStep(r) PROVE IInv'
  BY <1>3, FileReceivedStep, ConfirmStep, TimeStep DEF OutsideStep
<1>4. CASE UNCHANGED vars
  <2>1. TypeOK' /\ StampsInv' /\ GrantsInv' /\ UploadsInv'
    BY <1>4 DEF vars, IInv, TypeOK, StampsInv, GrantsInv, UploadsInv, IsGranted, Delivered
  <2>2. ASSUME NEW r \in Returns PROVE RowInv(r)' /\ TaskInv(r)'
    <3>1. RowInv(r)'
      BY <1>4, OneReturn DEF vars, RowInv, DraftRow, QueuedRow, FiledRow, IsGranted,
                             NotUploaded, Delivered
    <3>2. TaskInv(r)'
      BY <1>4, OneReturn DEF vars, TaskInv, LoadedTask, ClaimedTask, IsGranted,
                             NotUploaded, Delivered
    <3>3. QED BY <3>1, <3>2
  <2>3. QED BY <2>1, <2>2 DEF IInv
<1>5. QED
  BY <1>1, <1>2, <1>3, <1>4, DayTurnsStep, CrashStep DEF Next

\* The inductive invariant holds in every reachable state, for any number of
\* returns, edits, attempts, crashes and days.
THEOREM Invariance == Spec => []IInv
BY InitInv, NextInv, PTL DEF Spec

\* Type correctness (SubmissionLifecycle, QueueGeneration).
THEOREM TypeCorrect == Spec => []TypeOK
<1>1. IInv => TypeOK BY DEF IInv
<1>2. QED BY <1>1, Invariance, PTL

\* No authorization is uploaded twice (claim_is_recoverable,
\* mark_claimed_queueable_put_started).
THEOREM OnePut == Spec => []AtMostOnePut
<1>1. IInv => AtMostOnePut BY DEF IInv, UploadsInv, AtMostOnePut
<1>2. QED BY <1>1, Invariance, PTL

\* Every upload is one the user authorized, with exactly that content
\* (queue, revalidate_queued_before_submission, claim_queued_queueable).
THEOREM PutsAreGranted == Spec => []PutAsGranted
<1>1. IInv => PutAsGranted BY DEF IInv, UploadsInv, PutAsGranted, IsGranted
<1>2. QED BY <1>1, Invariance, PTL

\* A grant that was taken back before a claim is never uploaded
\* (cancel_queued_queueable, revert_queueable_inner).
THEOREM WithdrawnStaysUnput == Spec => []WithdrawnNeverPut
<1>1. IInv => WithdrawnNeverPut BY DEF IInv, UploadsInv, WithdrawnNeverPut
<1>2. QED BY <1>1, Invariance, PTL

\* A filed return and every amendment snapshot was uploaded with that content
\* (finish_claimed_queueable_submission, sent_payload).
THEOREM FiledWasReceived == Spec => []FiledMeansReceived
<1>1. IInv => FiledMeansReceived
  BY DEF IInv, RowInv, FiledRow, UploadsInv, FiledMeansReceived
<1>2. QED BY <1>1, Invariance, PTL

----------------------------------------------------------------------------
(* Fail closed *)

\* How a claim whose upload may have started ends.
EndsFailClosed(r) ==
    row[r].putStarted /\ row'[r].claim # row[r].claim =>
       \/ row'[r].status = "Submitted" /\ row'[r].authorization = row[r].authorization
       \/ row'[r].status = "Draft" /\ row[r].authorization \in released'

\* Only a queued, claimed row has a started upload.
LEMMA StartedIsClaimed ==
    ASSUME IInv, NEW r \in Returns, row[r].putStarted
    PROVE  row[r].status = "Queued" /\ row[r].claim # 0
BY OneReturn DEF RowInv, DraftRow, QueuedRow, FiledRow, Row, Status

\* A step about one return leaves the rows of the others.
LEMMA OthersEndFailClosed ==
    ASSUME IInv, NEW r \in Returns, NEW q \in Returns, q # r,
           UserStep(q) \/ WorkerStep(q) \/ OutsideStep(q)
    PROVE  row'[r] = row[r]
BY DEF IInv, TypeOK, UserStep, SaveDraft, AmendFiled, Queue, Cancel, RevertQueued, Withdraw,
       ReleaseAbandonedClaim, WorkerStep, Load, RecoverExpiredClaim, RejectStale, Replace,
       Connect, FailSession, OpenSession, Claim, ClaimRefused, MarkPutStarted, DryRunStored,
       PutEnds, PutSucceeded, PutFailed, OutsideStep, FileReceived, ConfirmFromReceipt,
       RetryFallsDue, LeaseExpires

\* Of the user's steps, only the release touches a started claim.
LEMMA UserFailClosed ==
    ASSUME IInv, NEW r \in Returns, UserStep(r)
    PROVE  EndsFailClosed(r)
<1> SUFFICES ASSUME row[r].putStarted, row'[r].claim # row[r].claim
             PROVE  \/ row'[r].status = "Submitted" /\ row'[r].authorization = row[r].authorization
                    \/ row'[r].status = "Draft" /\ row[r].authorization \in released'
  BY DEF EndsFailClosed
<1>1. row[r].status = "Queued" /\ row[r].claim # 0 /\ row[r] \in Row
  BY StartedIsClaimed, OneReturn
<1>2. ReleaseAbandonedClaim(r)
  BY <1>1 DEF UserStep, SaveDraft, AmendFiled, Queue, Cancel, RevertQueued, Withdraw, IsUnclaimed
<1>3. row'[r] = RevertToDraft(row[r]) /\ row[r].authorization \in released'
  BY <1>2 DEF ReleaseAbandonedClaim, IInv, TypeOK
<1>4. QED
  BY <1>1, <1>3, RevertFacts

\* Of the worker's steps, only the completion ends a started claim.
LEMMA WorkerFailClosed ==
    ASSUME IInv, NEW r \in Returns, WorkerStep(r)
    PROVE  EndsFailClosed(r)
<1> SUFFICES ASSUME row[r].putStarted, row'[r].claim # row[r].claim
             PROVE  row'[r].status = "Submitted" /\ row'[r].authorization = row[r].authorization
  BY DEF EndsFailClosed
<1>1. row[r].status = "Queued" /\ row[r].claim # 0 /\ row[r] \in Row
  BY StartedIsClaimed, OneReturn
<1>2. ~RecoverExpiredClaim(r)
  BY DEF RecoverExpiredClaim, ClaimIsRecoverable
<1>3. ~SameGeneration(row[r], task[r].copy)
  BY <1>1 DEF SameGeneration, IsUnclaimed
<1>4. ~MarkPutStarted(r)
  BY <1>1 DEF MarkPutStarted, Row, IInv, TypeOK
<1>5. PutSucceeded(r)
  BY <1>2, <1>3, <1>4 DEF WorkerStep, Load, RejectStale, Replace, Connect, FailSession,
     OpenSession, Claim, ClaimRefused, DryRunStored, PutEnds, PutFailed
<1>6. /\ row'[r] = TransitionToSubmitted(task[r].copy, task[r].payload)
      /\ row[r].claim = task[r].token
      /\ ClaimedTask(r, task[r])
  BY <1>5, OneReturn DEF PutSucceeded, HoldsClaim, TaskInv, IInv, TypeOK
<1>7. task[r].copy \in Row /\ task[r].payload \in Content
  BY <1>6, OneReturn DEF ClaimedTask, Row
<1>8. QED
  BY <1>1, <1>6, <1>7, SubmittedFacts DEF ClaimedTask

\* Nothing from outside touches a claim.
LEMMA OutsideFailClosed ==
    ASSUME IInv, NEW r \in Returns, OutsideStep(r)
    PROVE  row'[r].claim = row[r].claim
<1>1. row[r] \in Row
  BY OneReturn
<1>2. CASE FileReceived(r)
  BY <1>2 DEF FileReceived
<1>3. ASSUME NEW p \in received, ConfirmFromReceipt(r, p)
      PROVE  row'[r].claim = row[r].claim
  <2>1. row'[r] = TransitionToConfirmed(row[r], p.at)
    BY <1>3 DEF ConfirmFromReceipt, IInv, TypeOK
  <2>2. QED BY <1>1, <2>1 DEF TransitionToConfirmed, Row
<1>4. CASE RetryFallsDue(r)
  BY <1>1, <1>4 DEF RetryFallsDue, IInv, TypeOK, Row
<1>5. CASE LeaseExpires(r)
  BY <1>1, <1>5 DEF LeaseExpires, IInv, TypeOK, Row
<1>6. QED
  BY <1>2, <1>3, <1>4, <1>5 DEF OutsideStep

\* Every step is fail closed.
LEMMA StepFailClosed ==
    IInv /\ [Next]_vars => \A r \in Returns : EndsFailClosed(r)
<1> SUFFICES ASSUME IInv, [Next]_vars, NEW r \in Returns PROVE EndsFailClosed(r)
  OBVIOUS
<1>1. CASE UNCHANGED vars
  BY <1>1 DEF vars, EndsFailClosed
<1>2. CASE DayTurns \/ Crash
  BY <1>2 DEF DayTurns, Crash, EndsFailClosed
<1>3. ASSUME NEW q \in Returns, UserStep(q) \/ WorkerStep(q) \/ OutsideStep(q)
      PROVE  EndsFailClosed(r)
  <2>1. CASE q = r
    BY <1>3, <2>1, UserFailClosed, WorkerFailClosed, OutsideFailClosed DEF EndsFailClosed
  <2>2. CASE q # r
    BY <1>3, <2>2, OthersEndFailClosed DEF EndsFailClosed
  <2>3. QED BY <2>1, <2>2
<1>4. QED
  BY <1>1, <1>2, <1>3 DEF Next

\* Once the upload of a claim may have started, only its own completion or a
\* human's release ends the claim; no retry, recovery, cancellation or crash
\* does (mark_claimed_queueable_put_started, claim_is_recoverable).
THEOREM PutFailsClosed == Spec => FailClosed
<1>1. IInv /\ [Next]_vars =>
        \A r \in Returns :
          row[r].putStarted /\ row'[r].claim # row[r].claim =>
             \/ row'[r].status = "Submitted" /\ row'[r].authorization = row[r].authorization
             \/ row'[r].status = "Draft" /\ row[r].authorization \in released'
  BY StepFailClosed DEF EndsFailClosed
<1>2. QED BY <1>1, Invariance, PTL DEF Spec, FailClosed

----------------------------------------------------------------------------
(* What became of the uploads *)

\* Most steps rewrite at most one row and neither grant nor upload: the row
\* keeps its grant and its receipt, or becomes a Draft once every upload of
\* its grant is accounted for.
LEMMA HistoryStep ==
    ASSUME IInv, HistoryInv, NEW r \in Returns, NEW d \in Row,
           row' = [row EXCEPT ![r] = d],
           \A q \in Returns : q # r => task'[q] = task[q],
           granted' = granted, received' = received,
           released \subseteq released', snapshots \subseteq snapshots',
           clock' \in Nat, clock <= clock',
           d.status # "Draft" => /\ row[r].status # "Draft"
                                 /\ d.authorization = row[r].authorization,
           \/ d.status = "Confirmed" => /\ row[r].status = "Confirmed"
                                        /\ d.receipt = row[r].receipt
           \/ ReceiptFits(r)',
           \/ d.authorization = row[r].authorization
           \/ row[r].authorization \in released'
           \/ \E s \in snapshots' : s.ret = r /\ s.grant = row[r].authorization
           \/ \A p \in received : p.grant # row[r].authorization,
           HeldClaim(r)'
    PROVE  HistoryInv'
<1>1. /\ row'[r] = d
      /\ \A q \in Returns : q # r => row'[q] = row[q]
  BY DEF IInv, TypeOK
<1>2. ASSUME NEW q \in Returns PROVE LatestGrant(q)'
  <2>1. LatestGrant(q) BY DEF HistoryInv
  <2>2. QED BY <1>1, <2>1 DEF LatestGrant
<1>3. ASSUME NEW q \in Returns PROVE HeldClaim(q)'
  <2>1. HeldClaim(q) BY DEF HistoryInv
  <2>2. QED BY <1>1, <2>1 DEF HeldClaim
<1>4. ASSUME NEW q \in Returns PROVE ReceiptFits(q)'
  <2>1. ReceiptFits(q) BY DEF HistoryInv
  <2>2. QED BY <1>1, <2>1 DEF ReceiptFits
<1>5. ASSUME NEW p \in received PROVE p.at <= clock' /\ Accounted(p)' /\ Followed(p)'
  <2>1. p.at <= clock /\ Accounted(p) /\ Followed(p) BY DEF HistoryInv
  <2>2. p.ret \in Returns /\ p.at \in Nat BY DEF IInv, TypeOK, Upload
  <2>3. p.at <= clock' BY <2>1, <2>2 DEF IInv, TypeOK
  <2>4. Followed(p)' BY <2>1 DEF Followed
  <2>5. Accounted(p)'
    <3>1. CASE p.ret = r BY <1>1, <2>1, <3>1 DEF Accounted
    <3>2. CASE p.ret # r BY <1>1, <2>1, <2>2, <3>2 DEF Accounted
    <3>3. QED BY <3>1, <3>2
  <2>6. QED BY <2>3, <2>4, <2>5
<1>6. QED BY <1>2, <1>3, <1>4, <1>5 DEF HistoryInv

\* A step that only moves a task keeps the claim it holds, or holds none.
LEMMA HistoryTaskStep ==
    ASSUME IInv, HistoryInv, NEW r \in Returns,
           UNCHANGED <<row, received, snapshots, granted>>,
           released \subseteq released',
           clock' \in Nat, clock <= clock',
           \A q \in Returns : q # r => task'[q] = task[q],
           HeldClaim(r)'
    PROVE  HistoryInv'
<1> DEFINE d == row[r]
<1>1. d \in Row /\ row' = [row EXCEPT ![r] = d]
  BY OneReturn
<1>2. d.status = "Confirmed" => d.receipt = row[r].receipt
  OBVIOUS
<1>3. d.status # "Draft" => row[r].status # "Draft"
  OBVIOUS
<1>4. d.authorization = row[r].authorization
  OBVIOUS
<1>5. d.status = "Confirmed" => row[r].status = "Confirmed"
  OBVIOUS
<1>6. snapshots \subseteq snapshots' /\ granted' = granted /\ received' = received
  OBVIOUS
<1> HIDE DEF d
<1>7. QED BY <1>1, <1>2, <1>3, <1>4, <1>5, <1>6, HistoryStep

\* A task whose row is not under its claim worked on a released grant.
LEMMA LostClaim ==
    ASSUME IInv, HistoryInv, NEW r \in Returns,
           task'[r] = task[r], released \subseteq released',
           row[r].claim = 0 \/ row[r].authorization \in released'
    PROVE  HeldClaim(r)'
<1>1. HeldClaim(r) /\ TaskInv(r)
  BY OneReturn DEF HistoryInv
<1>2. CASE task[r].pc \in {"claimed", "putting", "stored"}
  <2>1. ClaimedTask(r, task[r])
    BY <1>1, <1>2 DEF TaskInv
  <2>2. row[r].claim # task[r].token \/ row[r].authorization = task[r].copy.authorization
    BY <2>1 DEF ClaimedTask
  <2>3. task[r].copy.authorization \in released'
    BY <1>1, <1>2, <2>1, <2>2 DEF HeldClaim, ClaimedTask
  <2>4. QED BY <2>3 DEF HeldClaim
<1>3. CASE task[r].pc \notin {"claimed", "putting", "stored"}
  BY <1>3 DEF HeldClaim
<1>4. QED BY <1>2, <1>3

\* A grant whose upload never started has no upload.
LEMMA UnstartedIsUnsent ==
    ASSUME IInv, NEW r \in Returns, row[r].status = "Queued", row[r].claim = 0
    PROVE  \A p \in received : p.grant # row[r].authorization
BY OneReturn DEF RowInv, QueuedRow, NotUploaded

----------------------------------------------------------------------------
(* The user's steps and the uploads *)

\* Saving a draft and withdrawing a queued return touch no upload.
LEMMA SaveDraftHistory ==
    ASSUME IInv, HistoryInv, NEW r \in Returns, NEW e \in Edits, NEW a \in BOOLEAN,
           SaveDraft(r, e, a)
    PROVE  HistoryInv'
<1> DEFINE d == [row[r] EXCEPT !.content = NewContent(e, a)]
<1>1. NewContent(e, a) \in Content
  BY DEF IInv, TypeOK, NewContent, Content
<1>2. /\ d \in Row
      /\ d.status = "Draft" /\ d.authorization = row[r].authorization
  BY <1>1, OneReturn DEF SaveDraft, Row
<1>3. row' = [row EXCEPT ![r] = d]
  BY DEF SaveDraft, IInv, TypeOK
<1> HIDE DEF d
<1>4. /\ UNCHANGED <<task, received, snapshots, clock, granted, released>>
      /\ clock' \in Nat /\ clock <= clock'
  BY DEF SaveDraft, history, IInv, TypeOK
<1>5. row[r].claim = 0
  BY OneReturn DEF SaveDraft, RowInv, DraftRow
<1>6. HeldClaim(r)'
  BY <1>4, <1>5, LostClaim
<1>7. QED BY <1>2, <1>3, <1>4, <1>6, HistoryStep

\* A return leaves the queue before any worker claimed it.
LEMMA WithdrawHistory ==
    ASSUME IInv, HistoryInv, NEW r \in Returns, Withdraw(r)
    PROVE  HistoryInv'
<1> DEFINE d == RevertToDraft(row[r])
<1>1. d \in Row /\ d.status = "Draft"
  BY OneReturn, RevertFacts
<1>2. row' = [row EXCEPT ![r] = d]
  BY DEF Withdraw, IInv, TypeOK
<1> HIDE DEF d
<1>3. /\ UNCHANGED <<task, received, snapshots, clock, granted, released>>
      /\ clock' \in Nat /\ clock <= clock'
      /\ row[r].status = "Queued" /\ row[r].claim = 0
  BY DEF Withdraw, IsUnclaimed, IInv, TypeOK
<1>4. HeldClaim(r)'
  BY <1>3, LostClaim
<1>5. \A p \in received : p.grant # row[r].authorization
  BY <1>3, UnstartedIsUnsent
<1>6. QED BY <1>1, <1>2, <1>3, <1>4, <1>5, HistoryStep

\* A human's release is noted with the grant.
LEMMA ReleaseHistory ==
    ASSUME IInv, HistoryInv, NEW r \in Returns, ReleaseAbandonedClaim(r)
    PROVE  HistoryInv'
<1> DEFINE d == RevertToDraft(row[r])
<1>1. d \in Row /\ d.status = "Draft"
  BY OneReturn, RevertFacts
<1>2. row' = [row EXCEPT ![r] = d]
  BY DEF ReleaseAbandonedClaim, IInv, TypeOK
<1> HIDE DEF d
<1>3. /\ UNCHANGED <<task, received, snapshots, clock, granted>>
      /\ clock' \in Nat /\ clock <= clock'
      /\ released \subseteq released' /\ row[r].authorization \in released'
  BY DEF ReleaseAbandonedClaim, IInv, TypeOK
<1>4. HeldClaim(r)'
  BY <1>3, LostClaim
<1>5. QED BY <1>1, <1>2, <1>3, <1>4, HistoryStep

\* An amendment keeps what BIR received.
LEMMA AmendFiledHistory ==
    ASSUME IInv, HistoryInv, NEW r \in Returns, NEW e \in Edits, NEW a \in BOOLEAN,
           AmendFiled(r, e, a)
    PROVE  HistoryInv'
<1> DEFINE b == RevertToDraft(row[r])
           d == [b EXCEPT !.content = NewContent(e, a)]
           s == [ret |-> r, grant |-> row[r].authorization, content |-> SentPayload(row[r])]
<1>1. b \in Row /\ b.status = "Draft"
  BY OneReturn, RevertFacts
<1>2. NewContent(e, a) \in Content
  BY DEF IInv, TypeOK, NewContent, Content
<1>3. row' = [row EXCEPT ![r] = d]
  BY DEF AmendFiled, IInv, TypeOK
<1> HIDE DEF b
<1>4. d \in Row /\ d.status = "Draft"
  BY <1>1, <1>2 DEF Row
<1> HIDE DEF d
<1>5. s.ret = r /\ s.grant = row[r].authorization
  OBVIOUS
<1>6. /\ UNCHANGED <<task, received, clock, granted, released>>
      /\ clock' \in Nat /\ clock <= clock'
      /\ snapshots \subseteq snapshots' /\ s \in snapshots'
      /\ row[r].claim = 0
  BY DEF AmendFiled, IsUnclaimed, history, IInv, TypeOK
<1> HIDE DEF s
<1>7. HeldClaim(r)'
  BY <1>6, LostClaim
<1>8. QED BY <1>3, <1>4, <1>5, <1>6, <1>7, HistoryStep

\* A grant is given only where every earlier upload is accounted for, and an
\* original only where no filing was kept for an amendment.
LEMMA QueueHistory ==
    ASSUME IInv, HistoryInv, NEW r \in Returns, Queue(r)
    PROVE  HistoryInv'
<1>0. PICK now \in Nat : now = clock'
  BY OneReturn DEF Queue
<1> DEFINE b == Refreshed(row[r])
<1>1. b \in Row /\ b.content \in Content
  BY OneReturn, RefreshedType DEF IInv, Row
<1>2. PICK c \in Content : c = b.content
  BY <1>1
<1> DEFINE d == MarkQueued(b, now)
           g == [ret |-> r, grant |-> now, content |-> c]
<1>3. d.status = "Queued" /\ d.authorization = now
  BY <1>1, MarkQueuedFacts
<1>4. /\ row' = [row EXCEPT ![r] = d]
      /\ granted' = granted \cup {g}
      /\ UNCHANGED <<task, received, snapshots, released>>
      /\ row[r].status = "Draft"
      /\ now = clock + 1
      /\ r \in Guarded /\ ~c.amended => ~\E s \in snapshots : s.ret = r
  BY <1>0, <1>2 DEF Queue, AmendedReturnRequired
<1> HIDE DEF b, d
<1>5. g.ret = r /\ g.grant = now /\ g.content = c
  OBVIOUS
<1> HIDE DEF g
<1>6. /\ row'[r] = d
      /\ \A q \in Returns : q # r => row'[q] = row[q]
  BY <1>4 DEF IInv, TypeOK
<1>7. /\ clock \in Nat /\ clock < now
      /\ \A h \in granted : h.grant \in Nat /\ h.grant <= clock /\ h.grant # 0
  BY <1>4, OneReturn DEF IInv, TypeOK, StampsInv, Grant
<1>8. row[r].authorization = 0 /\ row[r].claim = 0
  BY <1>4, OneReturn DEF RowInv, DraftRow
<1>9. ASSUME NEW q \in Returns PROVE LatestGrant(q)'
  <2>1. CASE q = r
    <3>1. \A h \in granted' : h.grant <= now
      BY <1>4, <1>5, <1>7
    <3>2. QED BY <1>3, <1>6, <2>1, <3>1 DEF LatestGrant
  <2>2. CASE q # r
    <3>1. LatestGrant(q) BY DEF HistoryInv
    <3>2. QED BY <1>4, <1>5, <1>6, <2>2, <3>1 DEF LatestGrant
  <2>3. QED BY <2>1, <2>2
<1>10. ASSUME NEW q \in Returns PROVE HeldClaim(q)'
  <2>1. CASE q = r
    BY <1>4, <1>8, <2>1, LostClaim
  <2>2. CASE q # r
    <3>1. HeldClaim(q) BY DEF HistoryInv
    <3>2. QED BY <1>4, <1>6, <2>2, <3>1 DEF HeldClaim
  <2>3. QED BY <2>1, <2>2
<1>11. ASSUME NEW q \in Returns PROVE ReceiptFits(q)'
  <2>1. ReceiptFits(q) BY DEF HistoryInv
  <2>2. QED BY <1>3, <1>4, <1>6, <2>1 DEF ReceiptFits
<1>12. ASSUME NEW p \in received PROVE p.at <= clock' /\ Accounted(p)' /\ Followed(p)'
  <2>1. p.at <= clock /\ Accounted(p) /\ Followed(p)
    BY DEF HistoryInv
  <2>2. p.ret \in Returns /\ p.at \in Nat /\ p.grant \in Nat
    BY DEF IInv, TypeOK, Upload
  <2>3. p.grant # 0
    BY <1>7 DEF IInv, UploadsInv, IsGranted
  <2>4. p.at < now /\ p.at <= clock'
    BY <1>0, <1>7, <2>1, <2>2
  <2>5. CASE p.ret = r
    <3>1. p.grant \in released \/ \E s \in snapshots : s.ret = r /\ s.grant = p.grant
      BY <1>8, <2>1, <2>3, <2>5 DEF Accounted
    <3>2. Accounted(p)'
      BY <1>4, <2>5, <3>1 DEF Accounted
    <3>3. (p.ret \in Guarded /\ ~c.amended) \/ now <= p.at => p.grant \in released
      BY <1>4, <1>7, <2>2, <2>4, <2>5, <3>1
    <3>4. ASSUME NEW h \in granted', h.ret = p.ret, p.grant < h.grant,
                 (p.ret \in Guarded /\ ~h.content.amended) \/ h.grant <= p.at
          PROVE  p.grant \in released'
      <4>1. CASE h \in granted BY <1>4, <2>1, <3>4, <4>1 DEF Followed
      <4>2. CASE h = g BY <1>4, <1>5, <3>3, <3>4, <4>2
      <4>3. QED BY <1>4, <4>1, <4>2
    <3>5. QED BY <2>4, <3>2, <3>4 DEF Followed
  <2>6. CASE p.ret # r
    <3>1. Accounted(p)' BY <1>4, <1>6, <2>1, <2>2, <2>6 DEF Accounted
    <3>2. Followed(p)' BY <1>4, <1>5, <2>1, <2>6 DEF Followed
    <3>3. QED BY <2>4, <3>1, <3>2
  <2>7. QED BY <2>5, <2>6
<1>13. QED BY <1>4, <1>9, <1>10, <1>11, <1>12 DEF HistoryInv

----------------------------------------------------------------------------
(* The worker's steps and the uploads *)

\* A worker that has no claim writes at most a row nobody uploaded.
LEMMA UnclaimedHistory ==
    ASSUME IInv, HistoryInv, NEW r \in Returns,
           Load(r) \/ RejectStale(r) \/ FailSession(r) \/ ClaimRefused(r)
             \/ \E s \in Sources : OpenSession(r, s)
    PROVE  HistoryInv'
<1>1. /\ UNCHANGED <<received, snapshots, granted, released>>
      /\ clock' \in Nat /\ clock <= clock'
      /\ \A q \in Returns : q # r => task'[q] = task[q]
  <2>1. UNCHANGED <<received, snapshots, granted, released>>
    BY DEF Load, RejectStale, FailSession, ClaimRefused, OpenSession, history
  <2>2. clock \in Nat /\ (clock' = clock \/ clock' = clock + 1)
    BY OneReturn DEF Load, RejectStale, FailSession, ClaimRefused, OpenSession
  <2>3. \A q \in Returns : q # r => task'[q] = task[q]
    BY DEF Load, RejectStale, FailSession, ClaimRefused, OpenSession, Stop, IInv, TypeOK
  <2>4. QED BY <2>1, <2>2, <2>3
<1>2. HeldClaim(r)'
  <2>1. task'[r].pc \in {"idle", "stale", "connecting", "session"}
    <3>1. task[r] \in Task BY OneReturn
    <3>2. CASE Load(r)
      BY <3>2 DEF Load, IdleTask, IInv, TypeOK
    <3>3. CASE RejectStale(r) \/ FailSession(r) \/ ClaimRefused(r)
      BY <3>3 DEF RejectStale, FailSession, ClaimRefused, Stop, IdleTask, IInv, TypeOK
    <3>4. ASSUME NEW s \in Sources, OpenSession(r, s) PROVE task'[r].pc = "session"
      BY <3>1, <3>4 DEF OpenSession, Task, IInv, TypeOK
    <3>5. QED BY <3>2, <3>3, <3>4
  <2>2. QED BY <2>1 DEF HeldClaim
<1>3. CASE row' = row
  BY <1>1, <1>2, <1>3, HistoryTaskStep
<1>4. CASE row' # row
  <2>1. PICK d \in Row : /\ row' = [row EXCEPT ![r] = d]
                         /\ SameGeneration(row[r], task[r].copy)
                         /\ \/ d.status = "Draft"
                            \/ d.status = "Queued" /\ d.authorization = row[r].authorization
    <3>1. CASE RejectStale(r)
      <4>1. RevertToDraft(task[r].copy) \in Row /\ RevertToDraft(task[r].copy).status = "Draft"
        BY OneReturn, RevertFacts
      <4>2. QED BY <1>4, <3>1, <4>1 DEF RejectStale, Replace
    <3>2. CASE ClaimRefused(r)
      <4>1. Refreshed(row[r]) \in Row
        BY OneReturn, RefreshedType DEF IInv
      <4>2. Rejected(row[r]) \in Row /\ Rejected(row[r]).status = "Draft"
        BY <4>1, RevertFacts DEF Rejected
      <4>3. QED BY <1>4, <3>2, <4>2 DEF ClaimRefused, IInv, TypeOK
    <3>3. CASE FailSession(r)
      <4>1. PICK now \in Nat : now = clock'
        BY <1>1
      <4> DEFINE d == RecordSubmissionFailure(task[r].copy, now)
      <4>2. LoadedTask(r, task[r])
        BY <3>3, OneReturn DEF FailSession, TaskInv
      <4>3. /\ d \in Row
            /\ \/ d.status = "Draft"
               \/ d.status = "Queued" /\ d.authorization = task[r].copy.authorization
        BY <4>2, OneReturn, FailureFacts DEF LoadedTask
      <4>4. row' = [row EXCEPT ![r] = d] /\ SameGeneration(row[r], task[r].copy)
        BY <1>4, <3>3, <4>1 DEF FailSession, Replace
      <4> HIDE DEF d
      <4>5. row[r].authorization = task[r].copy.authorization
        BY <4>2, <4>4 DEF LoadedTask, SameGeneration
      <4>6. QED BY <4>3, <4>4, <4>5
    <3>4. ~Load(r) /\ ~\E s \in Sources : OpenSession(r, s)
      BY <1>4 DEF Load, OpenSession
    <3>5. QED BY <3>1, <3>2, <3>3, <3>4
  <2>2. row[r].status = "Queued" /\ row[r].claim = 0
    BY <2>1 DEF SameGeneration, IsUnclaimed
  <2>3. \A p \in received : p.grant # row[r].authorization
    BY <2>2, UnstartedIsUnsent
  <2>4. d.status # "Confirmed"
    BY <2>1
  <2>5. d.status # "Draft" => row[r].status # "Draft" /\ d.authorization = row[r].authorization
    BY <2>1, <2>2
  <2>6. QED BY <1>1, <1>2, <2>1, <2>3, <2>4, <2>5, HistoryStep
<1>5. QED BY <1>3, <1>4

\* Recovery and the claim leave the grant as it is.
LEMMA ClaimHistory ==
    ASSUME IInv, HistoryInv, NEW r \in Returns, RecoverExpiredClaim(r) \/ Claim(r)
    PROVE  HistoryInv'
<1>1. /\ row[r] \in Row
      /\ UNCHANGED <<received, snapshots, granted, released>>
      /\ row[r].status = "Queued"
  BY OneReturn DEF RecoverExpiredClaim, Claim, SameGeneration, history
<1>2. PICK now \in Nat : now = clock' /\ now = clock + 1
  BY OneReturn DEF RecoverExpiredClaim, Claim
<1>3. clock' \in Nat /\ clock <= clock'
  BY <1>2, OneReturn
<1>4. CASE RecoverExpiredClaim(r)
  <2> DEFINE d == ReleaseExpiredUnstartedClaim(row[r], now)
  <2>1. d \in Row /\ d.status = "Queued" /\ d.authorization = row[r].authorization
    BY <1>1, ReleaseFacts
  <2>2. row' = [row EXCEPT ![r] = d]
    BY <1>2, <1>4 DEF RecoverExpiredClaim, IInv, TypeOK
  <2> HIDE DEF d
  <2>3. task' = task /\ HeldClaim(r)'
    BY <1>4 DEF RecoverExpiredClaim, HeldClaim
  <2>4. d.status # "Draft" /\ d.status # "Confirmed" /\ row[r].status # "Draft"
    BY <1>1, <2>1
  <2>5. QED BY <1>1, <1>3, <2>1, <2>2, <2>3, <2>4, HistoryStep
<1>5. CASE Claim(r)
  <2> DEFINE d == TakeClaim(row[r], now)
  <2>1. d \in Row /\ d.status = "Queued" /\ d.authorization = row[r].authorization
        /\ d.claim = now
    BY <1>1, TakeClaimFacts
  <2>2. row' = [row EXCEPT ![r] = d]
    BY <1>2, <1>5 DEF Claim, IInv, TypeOK
  <2>3. /\ \A q \in Returns : q # r => task'[q] = task[q]
        /\ task'[r].token = now
    BY <1>2, <1>5 DEF Claim, IInv, TypeOK, Task
  <2> HIDE DEF d
  <2>4. HeldClaim(r)'
    BY <2>1, <2>2, <2>3 DEF HeldClaim, IInv, TypeOK
  <2>5. d.status # "Draft" /\ d.status # "Confirmed" /\ row[r].status # "Draft"
    BY <1>1, <2>1
  <2>6. QED BY <1>1, <1>3, <2>1, <2>2, <2>3, <2>4, <2>5, HistoryStep
<1>6. QED BY <1>4, <1>5

\* The mark before the upload keeps the claim, or the task ends.
LEMMA MarkPutStartedHistory ==
    ASSUME IInv, HistoryInv, NEW r \in Returns, MarkPutStarted(r)
    PROVE  HistoryInv'
<1>1. /\ row[r] \in Row /\ task[r] \in Task
      /\ UNCHANGED <<received, snapshots, granted, released, clock>>
      /\ clock' \in Nat /\ clock <= clock'
      /\ \A q \in Returns : q # r => task'[q] = task[q]
  BY OneReturn DEF MarkPutStarted, Stop, history, IInv, TypeOK
<1>2. CASE HoldsClaim(r)
  <2> DEFINE d == [row[r] EXCEPT !.putStarted = TRUE]
  <2>1. /\ d \in Row /\ d.status = "Queued" /\ d.authorization = row[r].authorization
        /\ d.claim = row[r].claim
    BY <1>1, <1>2 DEF Row, HoldsClaim
  <2>2. row' = [row EXCEPT ![r] = d]
    BY <1>2 DEF MarkPutStarted, IInv, TypeOK
  <2>3. task'[r].token = task[r].token
    BY <1>1, <1>2 DEF MarkPutStarted, IInv, TypeOK, Task
  <2> HIDE DEF d
  <2>4. HeldClaim(r)'
    BY <1>2, <2>1, <2>2, <2>3 DEF HeldClaim, HoldsClaim, IInv, TypeOK
  <2>5. d.status # "Draft" /\ d.status # "Confirmed" /\ row[r].status # "Draft"
    BY <1>2, <2>1 DEF HoldsClaim
  <2>6. QED BY <1>1, <2>1, <2>2, <2>4, <2>5, HistoryStep
<1>3. CASE ~HoldsClaim(r)
  <2>1. row' = row /\ task'[r].pc = "idle"
    BY <1>3 DEF MarkPutStarted, Stop, IdleTask, IInv, TypeOK
  <2>2. HeldClaim(r)'
    BY <2>1 DEF HeldClaim
  <2>3. QED BY <1>1, <2>1, <2>2, HistoryTaskStep
<1>4. QED BY <1>2, <1>3

\* The completion records the upload under its grant.
LEMMA PutEndsHistory ==
    ASSUME IInv, HistoryInv, NEW r \in Returns, PutSucceeded(r) \/ PutFailed(r)
    PROVE  HistoryInv'
<1>1. /\ UNCHANGED <<received, snapshots, granted, released, clock>>
      /\ clock' \in Nat /\ clock <= clock'
      /\ \A q \in Returns : q # r => task'[q] = task[q]
      /\ task'[r].pc = "idle"
  BY DEF PutSucceeded, PutFailed, Stop, IdleTask, history, IInv, TypeOK
<1>2. HeldClaim(r)'
  BY <1>1 DEF HeldClaim
<1>3. CASE row' = row
  BY <1>1, <1>2, <1>3, HistoryTaskStep
<1>4. CASE row' # row
  <2> DEFINE d == TransitionToSubmitted(task[r].copy, task[r].payload)
  <2>1. row' = [row EXCEPT ![r] = d] /\ HoldsClaim(r) /\ task[r].pc = "stored"
    BY <1>4 DEF PutSucceeded, PutFailed
  <2>2. ClaimedTask(r, task[r])
    BY <2>1, OneReturn DEF TaskInv
  <2>3. task[r].copy \in Row /\ task[r].payload \in Content
    BY <2>2, OneReturn DEF ClaimedTask, Row
  <2>4. d \in Row /\ d.status = "Submitted" /\ d.authorization = task[r].copy.authorization
    BY <2>3, SubmittedFacts
  <2> HIDE DEF d
  <2>5. row[r].status = "Queued" /\ d.authorization = row[r].authorization
    BY <2>1, <2>2, <2>4 DEF ClaimedTask, HoldsClaim
  <2>6. d.status # "Draft" /\ d.status # "Confirmed" /\ row[r].status # "Draft"
    BY <2>4, <2>5
  <2>7. QED BY <1>1, <1>2, <2>1, <2>4, <2>5, <2>6, HistoryStep
<1>5. QED BY <1>3, <1>4

\* An upload stands under its grant in its row, unless a human released its
\* claim before the file arrived.
LEMMA FileReceivedHistory ==
    ASSUME IInv, HistoryInv, NEW r \in Returns, FileReceived(r)
    PROVE  HistoryInv'
<1>0. PICK now \in Nat : now = clock' /\ now = clock + 1
  BY OneReturn DEF FileReceived
<1>p. PICK p, g : /\ p = [ret |-> r, grant |-> g, content |-> task[r].payload, at |-> now]
                  /\ g = task[r].copy.authorization
  OBVIOUS
<1>1. ClaimedTask(r, task[r]) /\ HeldClaim(r) /\ task[r] \in Task
  BY OneReturn DEF FileReceived, TaskInv, HistoryInv
<1>2. /\ received' = received \cup {p}
      /\ UNCHANGED <<row, snapshots, granted, released>>
      /\ \A q \in Returns : q # r => task'[q] = task[q]
      /\ task[r].pc = "putting"
  BY <1>0, <1>p DEF FileReceived, history, IInv, TypeOK
<1>3. task'[r].token = task[r].token /\ task'[r].copy = task[r].copy
  BY <1>1 DEF FileReceived, IInv, TypeOK, Task
<1>4. p.ret = r /\ p.grant = g /\ p.at = now
  BY <1>p
<1>5. g \in released \/ (row[r].authorization = g /\ row[r].status = "Queued")
  BY <1>p, <1>1, <1>2 DEF HeldClaim, ClaimedTask
<1>6. g \in Nat /\ \A h \in granted : h.grant \in Nat
  BY <1>p, OneReturn DEF Row, IInv, TypeOK, Grant
<1>7. Accounted(p)'
  BY <1>2, <1>4, <1>5 DEF Accounted
<1>8. Followed(p)'
  <2>1. LatestGrant(r) BY DEF HistoryInv
  <2>2. g \in released \/ \A h \in granted : h.ret = r => h.grant <= g
    BY <1>5, <2>1 DEF LatestGrant
  <2>3. \A h \in granted : h.ret = r /\ g < h.grant => g \in released
    BY <1>6, <2>2
  <2>4. QED BY <1>2, <1>4, <2>3 DEF Followed
<1>9. ASSUME NEW q \in Returns PROVE LatestGrant(q)' /\ HeldClaim(q)' /\ ReceiptFits(q)'
  <2>1. LatestGrant(q) /\ HeldClaim(q) /\ ReceiptFits(q)
    BY DEF HistoryInv
  <2>2. LatestGrant(q)'
    BY <1>2, <2>1 DEF LatestGrant
  <2>3. ReceiptFits(q)'
    BY <1>2, <2>1 DEF ReceiptFits
  <2>4. HeldClaim(q)'
    BY <1>2, <1>3, <2>1 DEF HeldClaim
  <2>5. QED BY <2>2, <2>3, <2>4
<1>10. ASSUME NEW o \in received PROVE o.at <= clock' /\ Accounted(o)' /\ Followed(o)'
  <2>1. o.at <= clock /\ Accounted(o) /\ Followed(o) /\ o.at \in Nat /\ clock \in Nat
    BY DEF HistoryInv, IInv, TypeOK, Upload
  <2>2. o.at <= clock' BY <1>0, <2>1
  <2>3. Accounted(o)' BY <1>2, <2>1 DEF Accounted
  <2>4. Followed(o)' BY <1>2, <2>1 DEF Followed
  <2>5. QED BY <2>2, <2>3, <2>4
<1>11. p.at <= clock'
  BY <1>0, <1>4
<1>12. \A o \in received' : o.at <= clock' /\ Accounted(o)' /\ Followed(o)'
  BY <1>2, <1>7, <1>8, <1>10, <1>11
<1>13. QED BY <1>9, <1>12 DEF HistoryInv

\* A dry run sends nothing.
LEMMA DryRunStoredHistory ==
    ASSUME IInv, HistoryInv, NEW r \in Returns, DryRunStored(r)
    PROVE  HistoryInv'
<1>1. /\ UNCHANGED <<row, received, snapshots, granted, released, clock>>
      /\ clock' \in Nat /\ clock <= clock'
      /\ \A q \in Returns : q # r => task'[q] = task[q]
      /\ task'[r].token = task[r].token /\ task'[r].copy = task[r].copy
      /\ task[r].pc = "putting"
  BY OneReturn DEF DryRunStored, history, IInv, TypeOK, Task
<1>2. HeldClaim(r)'
  BY <1>1 DEF HistoryInv, HeldClaim
<1>3. QED BY <1>1, <1>2, HistoryTaskStep

----------------------------------------------------------------------------
(* Receipts, time, crashes and the uploads *)

\* A receipt older than the standing grant, by more than the skew, confirms
\* nothing; a younger one is of an upload nobody released before.
LEMMA ConfirmHistory ==
    ASSUME IInv, HistoryInv, NEW r \in Returns, NEW p \in received, ConfirmFromReceipt(r, p)
    PROVE  HistoryInv'
<1> DEFINE d == TransitionToConfirmed(row[r], p.at)
<1>1. row[r] \in Row /\ p \in Upload
  BY OneReturn DEF IInv, TypeOK
<1>2. p.at \in Nat /\ p.grant \in Nat
  BY <1>1 DEF Upload
<1>3. /\ d \in Row /\ d.status = "Confirmed" /\ d.receipt = p.at
      /\ d.authorization = row[r].authorization /\ d.claim = row[r].claim
  BY <1>1, <1>2 DEF TransitionToConfirmed, Row, Status
<1>4. /\ row' = [row EXCEPT ![r] = d]
      /\ UNCHANGED <<task, received, snapshots, clock, granted, released>>
      /\ clock' \in Nat /\ clock <= clock'
      /\ row[r].status = "Submitted" /\ p.ret = r
      /\ ReceiptBelongsToThisGeneration(p.at, row[r].authorization)
  BY DEF ConfirmFromReceipt, history, IInv, TypeOK
<1> HIDE DEF d
<1>5. row'[r] = d
  BY <1>4 DEF IInv, TypeOK
<1>6. row[r].claim = 0
  BY <1>4, OneReturn DEF RowInv, FiledRow
<1>7. HeldClaim(r)'
  BY <1>4, <1>6, LostClaim
<1>8. \/ p.grant = row[r].authorization
      \/ p.grant \in released
      \/ p.at < row[r].authorization
  <2> DEFINE u == [ret |-> r, grant |-> row[r].authorization, content |-> row[r].content]
             o == [ret |-> p.ret, grant |-> p.grant, content |-> p.content]
  <2>1. u \in Delivered
    BY <1>4, OneReturn DEF RowInv, FiledRow
  <2>2. Delivered \subseteq granted
    BY DEF Delivered, IInv, UploadsInv, IsGranted
  <2>3. o \in granted
    BY DEF IInv, UploadsInv, IsGranted
  <2>4. u.ret = r /\ u.grant = row[r].authorization /\ o.ret = r /\ o.grant = p.grant
    BY <1>4
  <2> HIDE DEF u, o
  <2>5. p.grant <= row[r].authorization
    <3>1. LatestGrant(r) BY DEF HistoryInv
    <3>2. QED BY <1>4, <2>3, <2>4, <3>1 DEF LatestGrant
  <2>6. row[r].authorization \in Nat
    BY OneReturn
  <2>7. Followed(p)
    BY DEF HistoryInv
  <2>8. u \in granted /\ p.grant < row[r].authorization /\ row[r].authorization <= p.at
           => p.grant \in released
    BY <1>4, <2>4, <2>7 DEF Followed
  <2>9. QED BY <1>2, <2>1, <2>2, <2>5, <2>6, <2>8
<1>9. ReceiptFits(r)'
  BY <1>3, <1>4, <1>5, <1>8 DEF ReceiptFits
<1>10. d.status # "Draft" => row[r].status # "Draft" /\ d.authorization = row[r].authorization
  BY <1>3, <1>4
<1>11. QED BY <1>3, <1>4, <1>7, <1>9, <1>10, HistoryStep

\* The end of a backoff or a lease changes neither grant nor claim.
LEMMA TimeHistory ==
    ASSUME IInv, HistoryInv, NEW r \in Returns, RetryFallsDue(r) \/ LeaseExpires(r)
    PROVE  HistoryInv'
<1>1. row[r] \in Row
  BY OneReturn
<1>2. PICK d \in Row :
         /\ row' = [row EXCEPT ![r] = d]
         /\ d.status = row[r].status /\ d.authorization = row[r].authorization
         /\ d.claim = row[r].claim /\ d.receipt = row[r].receipt
  <2>1. CASE RetryFallsDue(r)
    <3> DEFINE d == [row[r] EXCEPT !.retryDue = TRUE]
    <3>1. /\ d \in Row
          /\ d.status = row[r].status /\ d.authorization = row[r].authorization
          /\ d.claim = row[r].claim /\ d.receipt = row[r].receipt
      BY <1>1 DEF Row
    <3>2. row' = [row EXCEPT ![r] = d]
      BY <2>1 DEF RetryFallsDue, IInv, TypeOK
    <3> HIDE DEF d
    <3>3. QED BY <3>1, <3>2
  <2>2. CASE LeaseExpires(r)
    <3> DEFINE d == [row[r] EXCEPT !.leaseOver = TRUE]
    <3>1. /\ d \in Row
          /\ d.status = row[r].status /\ d.authorization = row[r].authorization
          /\ d.claim = row[r].claim /\ d.receipt = row[r].receipt
      BY <1>1 DEF Row
    <3>2. row' = [row EXCEPT ![r] = d]
      BY <2>2 DEF LeaseExpires, IInv, TypeOK
    <3> HIDE DEF d
    <3>3. QED BY <3>1, <3>2
  <2>3. QED BY <2>1, <2>2
<1>3. /\ UNCHANGED <<task, received, snapshots, clock, granted, released>>
      /\ clock' \in Nat /\ clock <= clock'
  BY DEF RetryFallsDue, LeaseExpires, history, IInv, TypeOK
<1>4. HeldClaim(r)'
  BY <1>2, <1>3 DEF HistoryInv, HeldClaim, IInv, TypeOK
<1>5. QED BY <1>2, <1>3, <1>4, HistoryStep

\* The history holds before anything was uploaded.
LEMMA InitHistory == Init => HistoryInv
BY DEF Init, HistoryInv, LatestGrant, HeldClaim, ReceiptFits, BlankRow, IdleTask

\* A crash, a new day and a stuttering step touch neither rows nor uploads.
LEMMA IdleHistory ==
    ASSUME IInv, HistoryInv, DayTurns \/ Crash \/ UNCHANGED vars
    PROVE  HistoryInv'
<1>1. /\ UNCHANGED <<row, received, snapshots, granted, released>>
      /\ clock' = clock \/ clock' = clock + 1
      /\ \A r \in Returns : task'[r] = task[r] \/ task'[r].pc = "idle"
  BY DEF DayTurns, Crash, vars, history, IdleTask
<1>2. ASSUME NEW r \in Returns PROVE LatestGrant(r)' /\ HeldClaim(r)' /\ ReceiptFits(r)'
  BY <1>1 DEF HistoryInv, LatestGrant, HeldClaim, ReceiptFits
<1>3. ASSUME NEW p \in received PROVE p.at <= clock' /\ Accounted(p)' /\ Followed(p)'
  <2>1. p.at <= clock /\ Accounted(p) /\ Followed(p) /\ p.at \in Nat /\ clock \in Nat
    BY DEF HistoryInv, IInv, TypeOK, Upload
  <2>2. p.at <= clock'
    BY <1>1, <2>1
  <2>3. Accounted(p)' /\ Followed(p)'
    BY <1>1, <2>1 DEF Accounted, Followed
  <2>4. QED BY <2>2, <2>3
<1>4. QED BY <1>1, <1>2, <1>3 DEF HistoryInv

\* Every step keeps the history.
LEMMA NextHistory == IInv /\ HistoryInv /\ [Next]_vars => HistoryInv'
<1> SUFFICES ASSUME IInv, HistoryInv, [Next]_vars PROVE HistoryInv'
  OBVIOUS
<1>1. ASSUME NEW r \in Returns, UserStep(r) PROVE HistoryInv'
  BY <1>1, SaveDraftHistory, AmendFiledHistory, QueueHistory, WithdrawHistory, ReleaseHistory
     DEF UserStep, Cancel, RevertQueued
<1>2. ASSUME NEW r \in Returns, WorkerStep(r) PROVE HistoryInv'
  BY <1>2, UnclaimedHistory, ClaimHistory, MarkPutStartedHistory, DryRunStoredHistory,
     PutEndsHistory
     DEF WorkerStep, Connect, PutEnds
<1>3. ASSUME NEW r \in Returns, OutsideStep(r) PROVE HistoryInv'
  BY <1>3, FileReceivedHistory, ConfirmHistory, TimeHistory DEF OutsideStep
<1>4. QED
  BY <1>1, <1>2, <1>3, IdleHistory DEF Next

\* The uploads of every reachable state are accounted for: a claim is taken
\* from its task only by a human, and every upload stands in its row, is kept
\* for an amendment or was released as unfiled.
THEOREM HistoryInvariance == Spec => []FilingInv
<1>1. Init => HistoryInv
  BY InitHistory
<1>2. IInv /\ HistoryInv /\ [Next]_vars => HistoryInv'
  BY NextHistory
<1>3. IInv /\ HistoryInv => FilingInv
  BY DEF FilingInv
<1>4. QED BY <1>1, <1>2, <1>3, Invariance, PTL DEF Spec

\* BIR never gets a second original of a return whose form has the guard,
\* unless a human released the first as unfiled (amended_return_required).
THEOREM NoOriginalTwice == Spec => []NoSecondOriginal
<1>1. FilingInv => NoSecondOriginal
  <2> SUFFICES ASSUME IInv, HistoryInv, NEW p \in received, NEW q \in received,
                      p.ret = q.ret, p.ret \in Guarded, p.grant < q.grant,
                      ~q.content.amended
               PROVE  p.grant \in released
    BY DEF FilingInv, NoSecondOriginal
  <2> DEFINE h == [ret |-> q.ret, grant |-> q.grant, content |-> q.content]
  <2>1. h \in granted
    BY DEF IInv, UploadsInv, IsGranted
  <2>2. h.ret = p.ret /\ p.grant < h.grant /\ ~h.content.amended
    OBVIOUS
  <2> HIDE DEF h
  <2>3. QED BY <2>1, <2>2 DEF HistoryInv, Followed
<1>2. QED BY <1>1, HistoryInvariance, PTL

\* With any skew, the receipt that confirms a return is of its standing grant,
\* of an upload released as unfiled, or of a former generation whose file
\* arrived at most the skew before the return was authorized again
\* (receipt_belongs_to_this_generation).
THEOREM ReceiptsFit == Spec => []OldReceiptIsWithinSkew
<1>1. FilingInv => OldReceiptIsWithinSkew
  BY DEF FilingInv, HistoryInv, ReceiptFits, ReceiptBelongsToThisGeneration,
         OldReceiptIsWithinSkew
<1>2. QED BY <1>1, HistoryInvariance, PTL

----------------------------------------------------------------------------
(* The promise: every step of the queue is a step of FilingPromise or     *)
(* changes nothing it sees.                                                *)

\* The status and the authorization of a row are all the promise sees of it.
LEMMA Unseen ==
    ASSUME \A r \in Returns : /\ row'[r].status = row[r].status
                              /\ row'[r].authorization = row[r].authorization,
           UNCHANGED <<granted, received, simulated, withdrawn>>
    PROVE  UNCHANGED Promise!pvars
BY DEF Promise!pvars, Delivered

\* How the promise sees a step that rewrites one row.
LEMMA OneRowSeen ==
    ASSUME TypeOK, NEW r \in Returns, NEW d,
           row' = [row EXCEPT ![r] = d]
    PROVE  /\ row'[r].status = d.status
           /\ row'[r].authorization = d.authorization
           /\ \A q \in Returns : q # r => row'[q] = row[q]
BY DEF TypeOK

\* A row that keeps its authorization.
LEMMA SameStanding ==
    ASSUME TypeOK, NEW r \in Returns, NEW d,
           row' = [row EXCEPT ![r] = d], d.authorization = row[r].authorization
    PROVE  [q \in Returns |-> row'[q].authorization] = [q \in Returns |-> row[q].authorization]
BY DEF TypeOK

\* A row that goes back to Draft without a grant.
LEMMA SeenBackToDraft ==
    ASSUME NEW r \in Returns,
           row'[r].status = "Draft", row'[r].authorization = 0,
           \A q \in Returns : q # r => row'[q] = row[q],
           UNCHANGED <<granted, received, simulated>>
    PROVE  Promise!BackToDraft(r)
<1>1. [q \in Returns |-> row'[q].status] =
         [[q \in Returns |-> row[q].status] EXCEPT ![r] = "Draft"]
  OBVIOUS
<1>2. [q \in Returns |-> row'[q].authorization] =
         [[q \in Returns |-> row[q].authorization] EXCEPT ![r] = 0]
  OBVIOUS
<1>3. Delivered' = Delivered
  BY DEF Delivered
<1>4. QED
  BY <1>1, <1>2, <1>3 DEF Promise!BackToDraft

\* A queued row that goes back to Draft while its grant is not withdrawn.
LEMMA SeenAsGiveUp ==
    ASSUME TypeOK, NEW r \in Returns, NEW d,
           row' = [row EXCEPT ![r] = d],
           d.status = "Draft", d.authorization = 0, row[r].status = "Queued",
           UNCHANGED <<granted, received, simulated, withdrawn>>
    PROVE  Promise!GiveUp(r)
<1>1. /\ row'[r].status = "Draft" /\ row'[r].authorization = 0
      /\ \A q \in Returns : q # r => row'[q] = row[q]
  BY OneRowSeen
<1>2. Promise!BackToDraft(r)
  BY <1>1, SeenBackToDraft
<1>3. QED
  BY <1>2 DEF Promise!GiveUp

\* A row that keeps its status and its authorization.
LEMMA SeenAsNothing ==
    ASSUME TypeOK, NEW r \in Returns, NEW d,
           row' = [row EXCEPT ![r] = d],
           d.status = row[r].status, d.authorization = row[r].authorization,
           UNCHANGED <<granted, received, simulated, withdrawn>>
    PROVE  UNCHANGED Promise!pvars
<1>1. \A q \in Returns : /\ row'[q].status = row[q].status
                         /\ row'[q].authorization = row[q].authorization
  BY DEF TypeOK
<1>2. QED BY <1>1, Unseen

----------------------------------------------------------------------------
(* The user's steps, as the promise sees them *)

\* queue() approves the reviewed content under a grant never used before.
LEMMA QueueRefines ==
    ASSUME IInv, NEW r \in Returns, Queue(r)
    PROVE  Promise!Approve(r)
<1>0. PICK now \in Nat : now = clock'
  BY OneReturn DEF Queue
<1> DEFINE b == Refreshed(row[r])
<1>1. /\ b \in Row /\ b.content \in Content
  BY OneReturn, RefreshedType DEF IInv, Row
<1>2. PICK c \in Content : c = b.content
  BY <1>1
<1> DEFINE d == MarkQueued(b, now)
           g == [ret |-> r, grant |-> now, content |-> c]
<1>3. d.status = "Queued" /\ d.authorization = now
  BY <1>1, MarkQueuedFacts
<1>4. /\ row' = [row EXCEPT ![r] = d]
      /\ granted' = granted \cup {g}
      /\ UNCHANGED <<received, simulated, withdrawn>>
      /\ row[r].status = "Draft"
      /\ now = clock + 1
  BY <1>0, <1>2 DEF Queue
<1> HIDE DEF b, d
<1>5. /\ g.ret = r /\ g.grant = now /\ g.content \in Content
      /\ now # 0
      /\ \A h \in granted : h.grant # now
  <2>1. \A h \in granted : h.grant \in Nat /\ h.grant <= clock
    BY DEF IInv, TypeOK, StampsInv, Grant
  <2>2. clock \in Nat BY OneReturn
  <2>3. QED BY <1>4, <2>1, <2>2
<1> HIDE DEF g
<1>6. g \in granted' /\ g.grant # 0
  BY <1>4, <1>5
<1>7. /\ [q \in Returns |-> row'[q].status] =
            [[q \in Returns |-> row[q].status] EXCEPT ![r] = "Queued"]
      /\ [q \in Returns |-> row'[q].authorization] =
            [[q \in Returns |-> row[q].authorization] EXCEPT ![r] = g.grant]
  <2>1. TypeOK BY DEF IInv
  <2>2. d.status = "Queued" /\ d.authorization = g.grant BY <1>3, <1>5
  <2>3. row' = [row EXCEPT ![r] = d] BY <1>4
  <2>4. /\ row'[r].status = "Queued" /\ row'[r].authorization = g.grant
        /\ \A q \in Returns : q # r => row'[q] = row[q]
    BY <2>1, <2>2, <2>3, OneRowSeen
  <2>5. QED BY <2>4
<1>8. QED
  BY <1>4, <1>5, <1>6, <1>7 DEF Promise!Approve, Delivered

\* A withdrawn grant has not been uploaded.
LEMMA WithdrawRefines ==
    ASSUME IInv, NEW r \in Returns, Withdraw(r)
    PROVE  Promise!Revoke(r)
<1> DEFINE d == RevertToDraft(row[r])
<1>1. d.status = "Draft" /\ d.authorization = 0
  BY OneReturn, RevertFacts
<1>2. /\ row' = [row EXCEPT ![r] = d]
      /\ row[r].status = "Queued" /\ row[r].claim = 0
      /\ withdrawn' = withdrawn \cup {row[r].authorization}
      /\ UNCHANGED <<granted, received, simulated>>
  BY DEF Withdraw, IsUnclaimed
<1> HIDE DEF d
<1>3. NotUploaded(row[r].authorization)
  BY <1>2, OneReturn DEF RowInv, QueuedRow
<1>4. \A u \in Delivered : u.grant # row[r].authorization
  BY <1>3 DEF Delivered, NotUploaded
<1>5. /\ row'[r].status = "Draft" /\ row'[r].authorization = 0
      /\ \A q \in Returns : q # r => row'[q] = row[q]
  <2>1. TypeOK BY DEF IInv
  <2>2. QED BY <1>1, <1>2, <2>1, OneRowSeen
<1>6. Promise!BackToDraft(r)
  BY <1>2, <1>5, SeenBackToDraft
<1>7. QED
  BY <1>2, <1>4, <1>6 DEF Promise!Revoke

\* An amendment reopens a filed return.
LEMMA AmendFiledRefines ==
    ASSUME IInv, NEW r \in Returns, NEW e \in Edits, NEW a \in BOOLEAN, AmendFiled(r, e, a)
    PROVE  Promise!Reopen(r)
<1> DEFINE b == RevertToDraft(row[r])
           d == [b EXCEPT !.content = NewContent(e, a)]
<1>1. b \in Row /\ b.status = "Draft" /\ b.authorization = 0
  BY OneReturn, RevertFacts
<1>2. /\ row' = [row EXCEPT ![r] = d]
      /\ row[r].status \in {"Submitted", "Confirmed"}
      /\ UNCHANGED <<granted, received, simulated, withdrawn>>
  BY DEF AmendFiled, history
<1> HIDE DEF b
<1>3. d.status = "Draft" /\ d.authorization = 0
  BY <1>1 DEF Row
<1> HIDE DEF d
<1>4. /\ row'[r].status = "Draft" /\ row'[r].authorization = 0
      /\ \A q \in Returns : q # r => row'[q] = row[q]
  <2>1. TypeOK BY DEF IInv
  <2>2. QED BY <1>2, <1>3, <2>1, OneRowSeen
<1>5. Promise!BackToDraft(r)
  BY <1>2, <1>4, SeenBackToDraft
<1>6. QED
  BY <1>2, <1>5 DEF Promise!Reopen

\* Every step of the user is a step of the promise or unseen.
LEMMA UserRefines ==
    ASSUME IInv, NEW r \in Returns, UserStep(r)
    PROVE  Promise!Next \/ UNCHANGED Promise!pvars
<1>1. ASSUME NEW e \in Edits, NEW a \in BOOLEAN, SaveDraft(r, e, a)
      PROVE  UNCHANGED Promise!pvars
  <2> DEFINE d == [row[r] EXCEPT !.content = NewContent(e, a)]
  <2>1. d.status = row[r].status /\ d.authorization = row[r].authorization
    BY OneReturn DEF Row
  <2>2. /\ row' = [row EXCEPT ![r] = d]
        /\ UNCHANGED <<granted, received, simulated, withdrawn>>
    BY <1>1 DEF SaveDraft, history, IInv, TypeOK
  <2> HIDE DEF d
  <2>3. QED BY <2>1, <2>2, SeenAsNothing DEF IInv
<1>2. CASE ReleaseAbandonedClaim(r)
  <2> DEFINE d == RevertToDraft(row[r])
  <2>1. d.status = "Draft" /\ d.authorization = 0
    BY OneReturn, RevertFacts
  <2>2. /\ row' = [row EXCEPT ![r] = d] /\ row[r].status = "Queued"
        /\ UNCHANGED <<granted, received, simulated, withdrawn>>
    BY <1>2 DEF ReleaseAbandonedClaim
  <2> HIDE DEF d
  <2>3. Promise!GiveUp(r)
    BY <2>1, <2>2, SeenAsGiveUp DEF IInv
  <2>4. QED BY <2>3 DEF Promise!Next
<1>3. QED
  BY <1>1, <1>2, QueueRefines, WithdrawRefines, AmendFiledRefines
     DEF UserStep, Cancel, RevertQueued, Promise!Next

----------------------------------------------------------------------------
(* The worker's steps, as the promise sees them *)

\* A worker that writes its copy over the loaded generation gives the return
\* back or re-queues it under the same grant.
LEMMA FailSessionRefines ==
    ASSUME IInv, NEW r \in Returns, FailSession(r)
    PROVE  Promise!GiveUp(r) \/ UNCHANGED Promise!pvars
<1>0. PICK now \in Nat : now = clock'
  BY OneReturn DEF FailSession
<1> DEFINE copy == task[r].copy
           d == RecordSubmissionFailure(copy, now)
<1>1. LoadedTask(r, task[r])
  BY OneReturn DEF TaskInv, FailSession
<1>2. copy \in Row /\ copy.status = "Queued" /\ copy.attempts < MaxAttempts
  BY <1>1, OneReturn DEF LoadedTask
<1>3. \/ d.status = "Draft" /\ d.authorization = 0
      \/ d.status = "Queued" /\ d.authorization = copy.authorization
  BY <1>2, FailureFacts
<1>4. /\ \/ row' = row
         \/ row' = [row EXCEPT ![r] = d] /\ SameGeneration(row[r], copy)
      /\ UNCHANGED <<granted, received, simulated, withdrawn>>
  BY <1>0 DEF FailSession, Replace, history
<1> HIDE DEF d
<1>5. CASE row' = row
  BY <1>4, <1>5, Unseen
<1>6. CASE row' = [row EXCEPT ![r] = d] /\ SameGeneration(row[r], copy)
  <2>1. row[r].status = "Queued" /\ row[r].authorization = copy.authorization
    BY <1>1, <1>6 DEF SameGeneration, LoadedTask
  <2>2. CASE d.status = "Draft" /\ d.authorization = 0
    BY <1>4, <1>6, <2>1, <2>2, SeenAsGiveUp DEF IInv
  <2>3. CASE d.status = "Queued" /\ d.authorization = copy.authorization
    BY <1>4, <1>6, <2>1, <2>3, SeenAsNothing DEF IInv
  <2>4. QED BY <1>3, <2>2, <2>3
<1>7. QED BY <1>4, <1>5, <1>6

\* A stale return is given back or left alone.
LEMMA RejectStaleRefines ==
    ASSUME IInv, NEW r \in Returns, RejectStale(r)
    PROVE  Promise!GiveUp(r) \/ UNCHANGED Promise!pvars
<1> DEFINE d == RevertToDraft(task[r].copy)
<1>1. d.status = "Draft" /\ d.authorization = 0
  BY OneReturn, RevertFacts
<1>2. /\ row' = row \/ (row' = [row EXCEPT ![r] = d] /\ row[r].status = "Queued")
      /\ UNCHANGED <<granted, received, simulated, withdrawn>>
  BY DEF RejectStale, Replace, SameGeneration, history
<1> HIDE DEF d
<1>3. CASE row' = row
  BY <1>2, <1>3, Unseen
<1>4. CASE row' = [row EXCEPT ![r] = d] /\ row[r].status = "Queued"
  BY <1>1, <1>2, <1>4, SeenAsGiveUp DEF IInv
<1>5. QED BY <1>2, <1>3, <1>4

\* A refused claim gives the return back or leaves it alone.
LEMMA ClaimRefusedRefines ==
    ASSUME IInv, NEW r \in Returns, ClaimRefused(r)
    PROVE  Promise!GiveUp(r) \/ UNCHANGED Promise!pvars
<1> DEFINE b == Refreshed(row[r])
           d == RevertToDraft(b)
<1>1. b \in Row
  BY OneReturn, RefreshedType DEF IInv
<1>2. d.status = "Draft" /\ d.authorization = 0
  BY <1>1, RevertFacts
<1>3. /\ row' = row \/ (row' = [row EXCEPT ![r] = d] /\ row[r].status = "Queued")
      /\ UNCHANGED <<granted, received, simulated, withdrawn>>
  BY DEF ClaimRefused, Rejected, SameGeneration, history
<1> HIDE DEF d
<1>4. CASE row' = row
  BY <1>3, <1>4, Unseen
<1>5. CASE row' = [row EXCEPT ![r] = d] /\ row[r].status = "Queued"
  BY <1>2, <1>3, <1>5, SeenAsGiveUp DEF IInv
<1>6. QED BY <1>3, <1>4, <1>5

\* Recovery, the claim and the mark before the upload leave status and
\* authorization as they are.
LEMMA ClaimingRefines ==
    ASSUME IInv, NEW r \in Returns,
           RecoverExpiredClaim(r) \/ Claim(r) \/ MarkPutStarted(r)
    PROVE  UNCHANGED Promise!pvars
<1>0. PICK now \in Nat : now = clock'
  BY OneReturn DEF RecoverExpiredClaim, Claim, MarkPutStarted
<1>1. row[r] \in Row /\ UNCHANGED <<granted, received, simulated, withdrawn>>
  BY OneReturn DEF RecoverExpiredClaim, Claim, MarkPutStarted, history
<1>2. CASE RecoverExpiredClaim(r)
  <2> DEFINE d == ReleaseExpiredUnstartedClaim(row[r], now)
  <2>1. d.status = row[r].status /\ d.authorization = row[r].authorization
    BY <1>1, ReleaseFacts
  <2>2. row' = [row EXCEPT ![r] = d]
    BY <1>0, <1>2 DEF RecoverExpiredClaim, IInv, TypeOK
  <2> HIDE DEF d
  <2>3. QED BY <1>1, <2>1, <2>2, SeenAsNothing DEF IInv
<1>3. CASE Claim(r)
  <2> DEFINE d == TakeClaim(row[r], now)
  <2>1. d.status = row[r].status /\ d.authorization = row[r].authorization
    BY <1>1, TakeClaimFacts
  <2>2. row' = [row EXCEPT ![r] = d]
    BY <1>0, <1>3 DEF Claim, IInv, TypeOK
  <2> HIDE DEF d
  <2>3. QED BY <1>1, <2>1, <2>2, SeenAsNothing DEF IInv
<1>4. CASE MarkPutStarted(r)
  <2> DEFINE d == [row[r] EXCEPT !.putStarted = TRUE]
  <2>1. d.status = row[r].status /\ d.authorization = row[r].authorization
    BY <1>1 DEF Row
  <2>2. row' = [row EXCEPT ![r] = d] \/ row' = row
    BY <1>4 DEF MarkPutStarted, IInv, TypeOK
  <2> HIDE DEF d
  <2>3. QED BY <1>1, <2>1, <2>2, SeenAsNothing, Unseen DEF IInv
<1>5. QED BY <1>2, <1>3, <1>4

\* An upload carries out a grant that is neither withdrawn nor used.
LEMMA UploadRefines ==
    ASSUME IInv, NEW r \in Returns, FileReceived(r) \/ DryRunStored(r)
    PROVE  \E a \in granted : Promise!Upload(a)
<1> DEFINE a == [ret |-> r, grant |-> task[r].copy.authorization, content |-> task[r].payload]
<1>1. /\ ClaimedTask(r, task[r]) /\ NotUploaded(task[r].copy.authorization)
  BY OneReturn DEF FileReceived, DryRunStored, TaskInv
<1>2. a \in granted /\ a.grant = task[r].copy.authorization /\ a.grant \notin withdrawn
  BY <1>1 DEF ClaimedTask, IsGranted
<1>3. \A u \in Delivered : u.grant # a.grant
  BY <1>1 DEF Delivered, NotUploaded
<1>4. Delivered' = Delivered \cup {a}
  <2>1. CASE FileReceived(r)
    <3> DEFINE p == [ret |-> r, grant |-> task[r].copy.authorization,
                     content |-> task[r].payload, at |-> clock']
    <3>1. received' = received \cup {p} /\ simulated' = simulated
      BY <2>1 DEF FileReceived
    <3>2. [ret |-> p.ret, grant |-> p.grant, content |-> p.content] = a
      OBVIOUS
    <3> HIDE DEF p, a
    <3>3. QED BY <3>1, <3>2 DEF Delivered
  <2>2. CASE DryRunStored(r)
    BY <2>2 DEF DryRunStored, Delivered
  <2>3. QED BY <2>1, <2>2
<1>5. row' = row /\ granted' = granted /\ withdrawn' = withdrawn
  BY DEF FileReceived, DryRunStored, history
<1> HIDE DEF a
<1>6. Promise!Upload(a)
  BY <1>2, <1>3, <1>4, <1>5 DEF Promise!Upload
<1>7. QED BY <1>2, <1>6

\* finish_claimed_queueable_submission records the upload of the standing
\* grant.
LEMMA PutSucceededRefines ==
    ASSUME IInv, NEW r \in Returns, PutSucceeded(r)
    PROVE  Promise!Acknowledge(r) \/ UNCHANGED Promise!pvars
<1> DEFINE copy == task[r].copy
           d == TransitionToSubmitted(copy, task[r].payload)
           u == [ret |-> r, grant |-> copy.authorization, content |-> task[r].payload]
<1>1. ClaimedTask(r, task[r]) /\ u \in Delivered
  BY OneReturn DEF PutSucceeded, TaskInv
<1>2. copy \in Row /\ task[r].payload \in Content
  BY <1>1, OneReturn DEF ClaimedTask, Row
<1>3. d.status = "Submitted" /\ d.authorization = copy.authorization
  BY <1>2, SubmittedFacts
<1>4. /\ \/ row' = row
         \/ row' = [row EXCEPT ![r] = d] /\ row[r].claim = task[r].token /\ row[r].status = "Queued"
      /\ UNCHANGED <<granted, received, simulated, withdrawn>>
  BY DEF PutSucceeded, HoldsClaim, history
<1> HIDE DEF d
<1>5. CASE row' = row
  BY <1>4, <1>5, Unseen
<1>6. CASE /\ row' = [row EXCEPT ![r] = d]
           /\ row[r].claim = task[r].token /\ row[r].status = "Queued"
  <2>1. copy.authorization = row[r].authorization
    BY <1>1, <1>6 DEF ClaimedTask
  <2>2. /\ u.ret = r /\ u.grant = row[r].authorization
    BY <2>1
  <2> HIDE DEF u
  <2>3. [q \in Returns |-> row'[q].status] =
           [[q \in Returns |-> row[q].status] EXCEPT ![r] = "Submitted"]
    <3>1. TypeOK BY DEF IInv
    <3>2. row' = [row EXCEPT ![r] = d] BY <1>6
    <3>3. /\ row'[r].status = "Submitted"
          /\ \A q \in Returns : q # r => row'[q] = row[q]
      BY <1>3, <3>1, <3>2, OneRowSeen
    <3>4. QED BY <3>3
  <2>4. [q \in Returns |-> row'[q].authorization] = [q \in Returns |-> row[q].authorization]
    BY <1>3, <1>6, <2>1, SameStanding DEF IInv
  <2>5. Delivered' = Delivered
    BY <1>4 DEF Delivered
  <2>6. QED
    BY <1>1, <1>4, <1>6, <2>2, <2>3, <2>4, <2>5 DEF Promise!Acknowledge
<1>7. QED BY <1>4, <1>5, <1>6

\* Every step of the worker is a step of the promise or unseen.
LEMMA WorkerRefines ==
    ASSUME IInv, NEW r \in Returns, WorkerStep(r)
    PROVE  Promise!Next \/ UNCHANGED Promise!pvars
<1>1. CASE Load(r) \/ PutFailed(r) \/ \E s \in Sources : OpenSession(r, s)
  <2>1. row' = row /\ UNCHANGED <<granted, received, simulated, withdrawn>>
    BY <1>1 DEF Load, PutFailed, OpenSession, history
  <2>2. QED BY <2>1, Unseen
<1>2. QED
  BY <1>1, FailSessionRefines, RejectStaleRefines, ClaimRefusedRefines, ClaimingRefines,
     UploadRefines, PutSucceededRefines
     DEF WorkerStep, Connect, PutEnds, Promise!Next

----------------------------------------------------------------------------
(* Steps from outside, and the theorem *)

\* A receipt confirms, an upload carries out a grant, time is unseen.
LEMMA OutsideRefines ==
    ASSUME IInv, NEW r \in Returns, OutsideStep(r)
    PROVE  Promise!Next \/ UNCHANGED Promise!pvars
<1>1. ASSUME NEW p \in received, ConfirmFromReceipt(r, p)
      PROVE  Promise!Confirm(r)
  <2> DEFINE d == TransitionToConfirmed(row[r], p.at)
  <2>1. d.status = "Confirmed" /\ d.authorization = row[r].authorization
    BY OneReturn DEF TransitionToConfirmed, Row
  <2>2. /\ row' = [row EXCEPT ![r] = d] /\ row[r].status = "Submitted"
        /\ UNCHANGED <<granted, received, simulated, withdrawn>>
    BY <1>1 DEF ConfirmFromReceipt, history
  <2> HIDE DEF d
  <2>3. [q \in Returns |-> row'[q].status] =
           [[q \in Returns |-> row[q].status] EXCEPT ![r] = "Confirmed"]
    <3>1. TypeOK BY DEF IInv
    <3>2. row' = [row EXCEPT ![r] = d] BY <2>2
    <3>3. /\ row'[r].status = "Confirmed"
          /\ \A q \in Returns : q # r => row'[q] = row[q]
      BY <2>1, <3>1, <3>2, OneRowSeen
    <3>4. QED BY <3>3
  <2>4. [q \in Returns |-> row'[q].authorization] = [q \in Returns |-> row[q].authorization]
    BY <2>1, <2>2, SameStanding DEF IInv
  <2>5. Delivered' = Delivered
    BY <2>2 DEF Delivered
  <2>6. QED BY <2>2, <2>3, <2>4, <2>5 DEF Promise!Confirm
<1>2. ASSUME RetryFallsDue(r) \/ LeaseExpires(r)
      PROVE  UNCHANGED Promise!pvars
  <2>1. UNCHANGED <<granted, received, simulated, withdrawn>>
    BY <1>2 DEF RetryFallsDue, LeaseExpires, history
  <2>2. \A q \in Returns : /\ row'[q].status = row[q].status
                           /\ row'[q].authorization = row[q].authorization
    BY <1>2, OneReturn DEF RetryFallsDue, LeaseExpires, IInv, TypeOK, Row
  <2>3. QED BY <2>1, <2>2, Unseen
<1>3. QED
  BY <1>1, <1>2, UploadRefines DEF OutsideStep, Promise!Next

\* The promise starts where the queue starts.
LEMMA InitRefines == Init => Promise!Init
BY DEF Init, BlankRow, Promise!Init, Delivered

\* Every step of the queue is a step of the promise or unseen.
LEMMA NextRefines == IInv /\ [Next]_vars => [Promise!Next]_(Promise!pvars)
<1> SUFFICES ASSUME IInv, [Next]_vars
             PROVE  Promise!Next \/ UNCHANGED Promise!pvars
  OBVIOUS
<1>1. CASE UNCHANGED vars \/ DayTurns \/ Crash
  <2>1. row' = row /\ UNCHANGED <<granted, received, simulated, withdrawn>>
    BY <1>1 DEF vars, DayTurns, Crash, history
  <2>2. QED BY <2>1, Unseen
<1>2. QED
  BY <1>1, UserRefines, WorkerRefines, OutsideRefines DEF Next

\* The filing queue implements the promise made to the taxpayer: whatever
\* fails, crashes or is retried, a grant leads to at most one upload of the
\* content it was given for, a withdrawn one to none, and a return is filed
\* only under a grant that was carried out.
THEOREM QueueKeepsPromise == Spec => KeepsPromise
BY InitRefines, NextRefines, Invariance, PTL DEF Spec, KeepsPromise, Promise!Spec
=============================================================================
