-------------------------- MODULE ReceiptPollProofs --------------------------
(***************************************************************************)
(* Theorems about ReceiptPoll, for any finite number of returns, any users *)
(* and any number of failures and crashes.                                 *)
(***************************************************************************)
EXTENDS ReceiptPoll, FiniteSetTheorems, SequenceTheorems, TLAPS

USE ReturnsAssumption, LaggingAssumption, UserAssumption

----------------------------------------------------------------------------
(* The inductive invariant *)

\* Every job was made by a filing of its own, which is not still uploading.
JobsCounted ==
    \E made \in [DOMAIN jobs -> 1 .. MaxFilings] :
        /\ \A id \in DOMAIN jobs :
              /\ made[id] <= filing[jobs[id].ret]
              /\ status[jobs[id].ret] = "Uploading" => made[id] # filing[jobs[id].ret]
        /\ \A id, other \in DOMAIN jobs :
              id # other /\ jobs[id].ret = jobs[other].ret => made[id] # made[other]

\* The copies a tick works on are of jobs that are still there.
ListedInv == \A c \in listed : c.id \in DOMAIN jobs /\ jobs[c.id].ret = c.ret

\* A poll reads what the mailbox holds.
MailInv == \A x \in Pollers : poll[x].todo \subseteq mail

\* A receipt is of a filing that was made.
MailIsFiled == \A m \in mail : m.filing <= filing[m.ret]

\* A task is the task of a job, or of a window that the user opened.
TaskInv == \A x \in Pollers :
               poll[x].pc # "idle" => x \in DOMAIN jobs \/ (x = Window /\ checks # 0)

\* Job id is of return r, and will not archive itself on what its task read.
Polls(id, r) == /\ jobs[id].ret = r /\ Live(jobs[id])
                /\ poll[id].pc = "answered" /\ poll[id].ok => poll[id].pending

\* A Submitted return of the current year has a job of its own that goes on.
PollsOwn ==
    Undisturbed =>
        \A r \in Returns \ Lagging :
            status[r] = "Submitted" => \E id \in DOMAIN jobs : Polls(id, r)

\* A return that is uploading has been filed.
Uploaded == \A r \in Returns : status[r] = "Uploading" => filing[r] \in 1 .. MaxFilings

IInv == /\ TypeOK /\ JobsCounted /\ Uploaded /\ ListedInv /\ TaskInv
        /\ MailInv /\ MailIsFiled
        /\ ConfirmedWasAcknowledged /\ PollsOwn

----------------------------------------------------------------------------
(* The bounds *)

LEMMA MaxFilingsType ==
    MaxFilings \in 0 .. 3 /\ \A u \in Users : u.filings \in 0 .. MaxFilings
<1> DEFINE F == {u.filings : u \in Users}
<1>1. F \subseteq 0 .. 3 /\ F # {}
  OBVIOUS
<1>2. \E n \in F : \A k \in F : k <= n
  <2> HIDE DEF F
  <2>1. CASE 3 \in F
    BY <1>1, <2>1
  <2>2. CASE 3 \notin F /\ 2 \in F
    BY <1>1, <2>2
  <2>3. CASE 3 \notin F /\ 2 \notin F /\ 1 \in F
    BY <1>1, <2>3
  <2>4. CASE 3 \notin F /\ 2 \notin F /\ 1 \notin F
    <3>1. \A k \in F : k = 0
      BY <1>1, <2>4
    <3>2. PICK n \in F : TRUE
      BY <1>1
    <3> QED  BY <3>1, <3>2
  <2> QED  BY <2>1, <2>2, <2>3, <2>4
<1>3. \E n \in F : \A u \in Users : u.filings <= n
  BY <1>2
<1>4. MaxFilings \in F /\ \A u \in Users : u.filings <= MaxFilings
  BY <1>3 DEF MaxFilings
<1> QED  BY <1>1, <1>4

LEMMA UserType ==
    \A u \in Users : /\ u.checks \in Nat /\ u.archivals \in Nat
                       /\ u.failures \in Nat /\ u.crashes \in Nat
<1>1. \A u \in Users : /\ u.checks \in 0 .. 3 /\ u.archivals \in 0 .. 3
                        /\ u.failures \in 0 .. 3 /\ u.crashes \in 0 .. 3
  OBVIOUS
<1> QED  BY <1>1

LEMMA MaxJobsType == MaxJobs \in Nat /\ Window \in Pollers
BY MaxFilingsType, FS_CardinalityType DEF MaxJobs, Window, Pollers

\* There are no more jobs than filings, since no two are made by the same one.
LEMMA JobsFit ==
    ASSUME NEW q \in Seq(Job), NEW made \in [DOMAIN q -> 1 .. MaxFilings],
           \A id, other \in DOMAIN q :
              id # other /\ q[id].ret = q[other].ret => made[id] # made[other]
    PROVE  Len(q) <= MaxJobs
<1> DEFINE G == Returns \X (1 .. MaxFilings)
           f == [id \in 1 .. Len(q) |-> <<q[id].ret, made[id]>>]
<1>1. DOMAIN q = 1 .. Len(q) /\ Len(q) \in Nat /\ \A id \in 1 .. Len(q) : q[id] \in Job
  BY ElementOfSeq
<1>2. f \in [1 .. Len(q) -> G]
  <2> SUFFICES ASSUME NEW id \in 1 .. Len(q) PROVE <<q[id].ret, made[id]>> \in G
    OBVIOUS
  <2> QED  BY <1>1 DEF Job
<1>3. \A id, other \in 1 .. Len(q) : f[id] = f[other] => id = other
  BY <1>1
<1>4. f \in Injection(1 .. Len(q), G)
  BY <1>2, <1>3 DEF Injection, IsInjective
<1>5. IsFiniteSet(1 .. MaxFilings) /\ Cardinality(1 .. MaxFilings) = MaxFilings
  BY MaxFilingsType, FS_Interval
<1>6. IsFiniteSet(G) /\ Cardinality(G) = MaxJobs
  BY <1>5, FS_Product DEF MaxJobs
<1>7. Cardinality(1 .. Len(q)) = Len(q)
  <2>1. PICK n \in Nat : n = Len(q)
    BY <1>1
  <2>2. Cardinality(1 .. n) = n
    BY FS_Interval
  <2> QED  BY <2>1, <2>2
<1> HIDE DEF f, G
<1> QED  BY <1>4, <1>6, <1>7, FS_Injection

----------------------------------------------------------------------------
(* What a step does to the table and to the tasks *)

LEMMA JobIds ==
    ASSUME TypeOK
    PROVE  /\ DOMAIN jobs = 1 .. Len(jobs) /\ Len(jobs) \in Nat
           /\ DOMAIN jobs \subseteq 1 .. MaxJobs
           /\ DOMAIN jobs \subseteq Pollers \ {Window}
           /\ \A id \in DOMAIN jobs : jobs[id] \in Job
BY MaxJobsType, ElementOfSeq DEF TypeOK, Pollers, Window

LEMMA JobSet ==
    ASSUME TypeOK, NEW id \in DOMAIN jobs, NEW j \in Job, jobs' = [jobs EXCEPT ![id] = j]
    PROVE  /\ jobs' \in Seq(Job) /\ Len(jobs') = Len(jobs) /\ DOMAIN jobs' = DOMAIN jobs
           /\ jobs'[id] = j
           /\ \A k \in DOMAIN jobs \ {id} : jobs'[k] = jobs[k]
BY JobIds, ExceptSeq DEF TypeOK

LEMMA TaskSet ==
    ASSUME TypeOK, NEW x \in Pollers, NEW p \in Poll, poll' = [poll EXCEPT ![x] = p]
    PROVE  /\ poll' \in [Pollers -> Poll] /\ poll'[x] = p
           /\ \A y \in Pollers \ {x} : poll'[y] = poll[y]
BY DEF TypeOK

\* Steps that neither make jobs nor start an upload.
LEMMA CountStays ==
    ASSUME JobsCounted, DOMAIN jobs' = DOMAIN jobs,
           \A id \in DOMAIN jobs : jobs'[id].ret = jobs[id].ret,
           filing' = filing,
           \A id \in DOMAIN jobs : status'[jobs[id].ret] = "Uploading"
                                       => status[jobs[id].ret] = "Uploading"
    PROVE  JobsCounted'
BY DEF JobsCounted

\* Steps of the tick, the tasks and the windows: no return is filed.
\* They settle the invariant if they leave a Submitted return its job.
LEMMA PollStep ==
    ASSUME IInv, TypeOK', DOMAIN jobs' = DOMAIN jobs,
           \A id \in DOMAIN jobs : jobs'[id].ret = jobs[id].ret,
           ListedInv', TaskInv', \A x \in Pollers : poll'[x].todo \subseteq mail,
           UNCHANGED <<returns, user>>,
           Undisturbed' => Undisturbed,
           \A id \in DOMAIN jobs, r \in Returns \ Lagging :
               Undisturbed /\ status[r] = "Submitted" /\ Polls(id, r) => Polls(id, r)'
    PROVE  IInv'
<1>1. JobsCounted'
  BY CountStays DEF IInv, returns
<1>2. MailInv' /\ MailIsFiled' /\ ConfirmedWasAcknowledged' /\ Uploaded'
  BY DEF IInv, MailInv, MailIsFiled, ConfirmedWasAcknowledged, Uploaded, returns
<1>3. PollsOwn'
  BY DEF IInv, PollsOwn, returns
<1> QED  BY <1>1, <1>2, <1>3 DEF IInv

----------------------------------------------------------------------------
(* Filing and the mailbox *)

LEMMA StartUploadKeeps == ASSUME IInv, NEW r \in Returns, StartUpload(r) PROVE IInv'
<1>1. /\ status' = [status EXCEPT ![r] = "Uploading"]
      /\ filing' = [filing EXCEPT ![r] = @ + 1]
      /\ \E n \in floor[r] .. filing[r] + 1 : floor' = [floor EXCEPT ![r] = n]
      /\ UNCHANGED <<mail, saved, jobs, listed, poll, bounds>>
      /\ status[r] = "Draft" /\ filing[r] < user.filings /\ TypeOK
  BY DEF StartUpload, IInv
<1>2. filing[r] \in Nat /\ filing[r] + 1 \in 0 .. MaxFilings
  BY <1>1, MaxFilingsType DEF TypeOK
<1>3. filing' \in [Returns -> 0 .. MaxFilings]
      /\ filing'[r] = filing[r] + 1 /\ \A q \in Returns \ {r} : filing'[q] = filing[q]
  BY <1>1, <1>2 DEF TypeOK
<1>4. /\ status' \in [Returns -> {"Draft", "Uploading", "Submitted", "Confirmed"}]
      /\ status'[r] = "Uploading" /\ \A q \in Returns \ {r} : status'[q] = status[q]
  BY <1>1 DEF TypeOK
<1>f. floor' \in [Returns -> Nat] /\ \A q \in Returns \ {r} : floor'[q] = floor[q]
  <2>1. floor[r] \in Nat /\ floor \in [Returns -> Nat]
    BY <1>1 DEF TypeOK
  <2>2. PICK n \in floor[r] .. filing[r] + 1 : floor' = [floor EXCEPT ![r] = n]
    BY <1>1
  <2>3. n \in Nat
    BY <1>2, <2>1, <2>2
  <2> QED  BY <2>1, <2>2, <2>3
<1>5. TypeOK'
  BY <1>1, <1>3, <1>4, <1>f DEF TypeOK, bounds
<1>6. JobsCounted'
  <2>1. PICK made \in [DOMAIN jobs -> 1 .. MaxFilings] :
            /\ \A id \in DOMAIN jobs :
                  /\ made[id] <= filing[jobs[id].ret]
                  /\ status[jobs[id].ret] = "Uploading" => made[id] # filing[jobs[id].ret]
            /\ \A id, other \in DOMAIN jobs :
                  id # other /\ jobs[id].ret = jobs[other].ret => made[id] # made[other]
    BY DEF IInv, JobsCounted
  <2>2. ASSUME NEW id \in DOMAIN jobs
        PROVE  /\ made[id] <= filing'[jobs[id].ret]
               /\ status'[jobs[id].ret] = "Uploading" => made[id] # filing'[jobs[id].ret]
    <3>1. jobs[id].ret \in Returns /\ made[id] \in 1 .. MaxFilings
      BY <1>1, <2>1, JobIds DEF Job
    <3>2. made[id] <= filing[jobs[id].ret]
      BY <2>1
    <3>3. CASE jobs[id].ret = r
      BY <1>2, <1>3, <3>1, <3>2, <3>3, MaxFilingsType
    <3>4. CASE jobs[id].ret # r
      BY <1>3, <1>4, <2>1, <3>1, <3>4
    <3> QED  BY <3>3, <3>4
  <2> QED  BY <1>1, <2>1, <2>2 DEF JobsCounted
<1>7. ListedInv' /\ MailInv' /\ MailIsFiled' /\ TaskInv' /\ Uploaded'
  <2>1. filing'[r] \in 1 .. MaxFilings
    BY <1>2, <1>3, MaxFilingsType
  <2>2. MailIsFiled'
    <3> SUFFICES ASSUME NEW m \in mail PROVE m.filing <= filing'[m.ret]
      BY <1>1 DEF MailIsFiled
    <3>1. m.ret \in Returns /\ m.filing \in Nat /\ m.filing <= filing[m.ret]
      BY <1>1, MaxFilingsType DEF IInv, TypeOK, MailIsFiled, Receipt
    <3> QED  BY <1>2, <1>3, <3>1
  <2> QED  BY <1>1, <1>3, <1>4, <2>1, <2>2 DEF IInv, ListedInv, MailInv, TaskInv, Uploaded, bounds
<1>8. ConfirmedWasAcknowledged'
  BY <1>1, <1>3, <1>4, <1>f DEF IInv, ConfirmedWasAcknowledged
<1>9. Undisturbed' => Undisturbed
  BY <1>1, <1>2, <1>3 DEF Undisturbed, bounds
<1>10. PollsOwn'
  BY <1>1, <1>4, <1>9 DEF IInv, PollsOwn, Polls
<1> QED  BY <1>5, <1>6, <1>7, <1>8, <1>10 DEF IInv

\* The filing of a return that has just been submitted has not made a job.
LEMMA NoJobYet ==
    ASSUME IInv, Undisturbed, NEW r \in Returns, status[r] = "Uploading"
    PROVE  \A id \in DOMAIN jobs : jobs[id].ret # r
<1> SUFFICES ASSUME NEW id \in DOMAIN jobs, jobs[id].ret = r PROVE FALSE
  OBVIOUS
<1>1. PICK made \in [DOMAIN jobs -> 1 .. MaxFilings] :
          made[id] <= filing[r] /\ made[id] # filing[r]
  BY DEF IInv, JobsCounted
<1>2. made[id] \in 1 .. MaxFilings /\ filing[r] \in 0 .. MaxFilings /\ filing[r] <= 1
  BY DEF IInv, TypeOK, Undisturbed
<1> QED  BY <1>1, <1>2, MaxFilingsType

LEMMA SubmitKeeps == ASSUME IInv, NEW r \in Returns, Submit(r) PROVE IInv'
<1>1. /\ status' = [status EXCEPT ![r] = "Submitted"]
      /\ UNCHANGED <<filing, floor, mail, saved, listed, poll, bounds>>
      /\ status[r] = "Uploading" /\ TypeOK
  BY DEF Submit, IInv
<1>2. /\ status' \in [Returns -> {"Draft", "Uploading", "Submitted", "Confirmed"}]
      /\ status'[r] = "Submitted" /\ \A q \in Returns \ {r} : status'[q] = status[q]
  BY <1>1 DEF TypeOK
<1>3. ConfirmedWasAcknowledged' /\ MailInv' /\ MailIsFiled' /\ (Undisturbed' <=> Undisturbed) /\ Uploaded'
  BY <1>1, <1>2 DEF IInv, ConfirmedWasAcknowledged, MailInv, MailIsFiled, Undisturbed, Uploaded, bounds
<1>4. CASE jobs' = jobs /\ AlreadyPolled(r)
  <2>1. TypeOK'
    BY <1>1, <1>2, <1>4 DEF TypeOK, bounds
  <2>2. JobsCounted'
    BY <1>1, <1>2, <1>4, CountStays, JobIds DEF IInv, Job
  <2>3. ListedInv' /\ TaskInv'
    BY <1>1, <1>4 DEF IInv, ListedInv, TaskInv, bounds
  <2>4. ~Undisturbed
    BY <1>1, <1>4, NoJobYet DEF AlreadyPolled
  <2> QED  BY <1>3, <2>1, <2>2, <2>3, <2>4 DEF IInv, PollsOwn
<1>5. CASE jobs' = Append(jobs, NewJob(r))
  <2>1. NewJob(r) \in Job
    BY DEF NewJob, Job
  <2>2. PICK n \in Nat : n = Len(jobs)
    BY <1>1, JobIds
  <2>3. /\ jobs' \in Seq(Job) /\ Len(jobs') = n + 1
        /\ \A id \in 1 .. n : jobs'[id] = jobs[id]
        /\ jobs'[n + 1] = NewJob(r)
    BY <1>1, <1>5, <2>1, <2>2, AppendProperties DEF TypeOK
  <2>4. DOMAIN jobs = 1 .. n /\ DOMAIN jobs' = 1 .. (n + 1)
    BY <1>1, <2>2, <2>3, JobIds, ElementOfSeq
  <2>5. PICK made \in [DOMAIN jobs -> 1 .. MaxFilings] :
            /\ \A id \in DOMAIN jobs :
                  /\ made[id] <= filing[jobs[id].ret]
                  /\ status[jobs[id].ret] = "Uploading" => made[id] # filing[jobs[id].ret]
            /\ \A id, other \in DOMAIN jobs :
                  id # other /\ jobs[id].ret = jobs[other].ret => made[id] # made[other]
    BY DEF IInv, JobsCounted
  <2>6. filing[r] \in 1 .. MaxFilings
    BY <1>1 DEF IInv, Uploaded
  <2> DEFINE more == [id \in 1 .. (n + 1) |-> IF id = n + 1 THEN filing[r] ELSE made[id]]
  <2>7. more \in [DOMAIN jobs' -> 1 .. MaxFilings]
    BY <2>4, <2>5, <2>6
  <2>8. /\ more[n + 1] = filing[r] /\ \A id \in 1 .. n : more[id] = made[id]
        /\ \A id \in 1 .. (n + 1) : id \in 1 .. n \/ id = n + 1
    OBVIOUS
  <2> HIDE DEF more
  <2>9. \A id \in 1 .. n : jobs[id].ret \in Returns
    BY <1>1, <2>4, JobIds DEF Job
  <2>10. ASSUME NEW id \in 1 .. (n + 1)
         PROVE  /\ more[id] <= filing'[jobs'[id].ret]
                /\ status'[jobs'[id].ret] = "Uploading" => more[id] # filing'[jobs'[id].ret]
    <3>1. CASE id = n + 1
      BY <1>1, <1>2, <2>3, <2>6, <2>8, <3>1 DEF NewJob
    <3>2. CASE id \in 1 .. n
      BY <1>1, <1>2, <2>3, <2>4, <2>5, <2>8, <2>9, <3>2
    <3> QED  BY <2>8, <3>1, <3>2
  <2>11. ASSUME NEW id \in 1 .. (n + 1), NEW other \in 1 .. (n + 1),
                id # other, jobs'[id].ret = jobs'[other].ret
         PROVE  more[id] # more[other]
    <3>0. jobs'[n + 1].ret = r
      BY <2>3 DEF NewJob
    <3>a. ASSUME NEW k \in 1 .. n, jobs[k].ret = r PROVE made[k] # filing[r]
      BY <1>1, <2>4, <2>5, <3>a
    <3>1. CASE id \in 1 .. n /\ other \in 1 .. n
      BY <2>3, <2>4, <2>5, <2>8, <2>11, <3>1
    <3>2. CASE id = n + 1 /\ other \in 1 .. n
      <4>1. jobs[other].ret = r
        BY <2>3, <2>11, <3>0, <3>2
      <4> QED  BY <2>8, <3>a, <3>2, <4>1
    <3>3. CASE id \in 1 .. n /\ other = n + 1
      <4>1. jobs[id].ret = r
        BY <2>3, <2>11, <3>0, <3>3
      <4> QED  BY <2>8, <3>a, <3>3, <4>1
    <3> QED  BY <2>8, <2>11, <3>1, <3>2, <3>3
  <2>12. JobsCounted'
    BY <2>4, <2>7, <2>10, <2>11 DEF JobsCounted
  <2>13. Len(jobs') <= MaxJobs
    BY <2>3, <2>4, <2>7, <2>11, JobsFit
  <2>14. TypeOK'
    BY <1>1, <1>2, <2>3, <2>13 DEF TypeOK, bounds
  <2>15. DOMAIN jobs \subseteq DOMAIN jobs' /\ \A id \in DOMAIN jobs : jobs'[id] = jobs[id]
    BY <2>3, <2>4
  <2>16. ListedInv' /\ TaskInv'
    BY <1>1, <2>15 DEF IInv, ListedInv, TaskInv, bounds
  <2>17. PollsOwn'
    <3> SUFFICES ASSUME Undisturbed, NEW q \in Returns \ Lagging, status'[q] = "Submitted"
                 PROVE  \E id \in DOMAIN jobs' : Polls(id, q)'
      BY <1>3 DEF PollsOwn
    <3>1. CASE q = r
      <4>1. n + 1 \in Pollers /\ n + 1 \notin DOMAIN jobs /\ n + 1 # Window
        BY <2>3, <2>4, <2>13, MaxJobsType DEF Pollers, Window
      <4>2. poll[n + 1].pc = "idle"
        BY <4>1 DEF IInv, TaskInv
      <4> QED  BY <1>1, <2>3, <2>4, <3>1, <4>2 DEF Polls, NewJob, Live
    <3>2. CASE q # r
      <4>1. PICK id \in DOMAIN jobs : Polls(id, q)
        BY <1>2, <3>2 DEF IInv, PollsOwn
      <4> QED  BY <1>1, <2>15, <4>1 DEF Polls
    <3> QED  BY <3>1, <3>2
  <2> QED  BY <1>3, <2>12, <2>14, <2>16, <2>17 DEF IInv
<1> QED  BY <1>4, <1>5 DEF Submit

LEMMA AmendKeeps == ASSUME IInv, NEW r \in Returns, Amend(r) PROVE IInv'
<1>1. /\ status' = [status EXCEPT ![r] = "Draft"] /\ TypeOK
      /\ UNCHANGED <<filing, floor, mail, saved, jobs, listed, poll, bounds>>
  BY DEF Amend, IInv
<1>2. /\ status' \in [Returns -> {"Draft", "Uploading", "Submitted", "Confirmed"}]
      /\ status'[r] = "Draft" /\ \A q \in Returns \ {r} : status'[q] = status[q]
  BY <1>1 DEF TypeOK
<1>3. TypeOK'
  BY <1>1, <1>2 DEF TypeOK, bounds
<1>4. JobsCounted'
  BY <1>1, <1>2, CountStays, JobIds DEF IInv, Job
<1>5. ListedInv' /\ MailInv' /\ MailIsFiled' /\ TaskInv' /\ ConfirmedWasAcknowledged' /\ Uploaded'
  BY <1>1, <1>2 DEF IInv, Uploaded, ListedInv, MailInv, MailIsFiled, TaskInv, ConfirmedWasAcknowledged, bounds
<1>6. PollsOwn'
  BY <1>1, <1>2 DEF IInv, PollsOwn, Polls, Undisturbed, bounds
<1> QED  BY <1>3, <1>4, <1>5, <1>6 DEF IInv

LEMMA ReceiptArrivesKeeps == ASSUME IInv, NEW r \in Returns, ReceiptArrives(r) PROVE IInv'
<1>1. PICK n \in 1 .. filing[r] :
          /\ mail' = mail \cup {[ret |-> r, filing |-> n]}
          /\ UNCHANGED <<status, filing, floor, saved, jobs, listed, poll, bounds>>
  BY DEF ReceiptArrives
<1>2. n \in 1 .. MaxFilings
  <2>1. filing[r] \in 0 .. MaxFilings
    BY DEF IInv, TypeOK
  <2> QED  BY <1>1, <2>1, MaxFilingsType
<1>3. TypeOK'
  BY <1>1, <1>2 DEF IInv, TypeOK, Receipt, bounds
<1>4. JobsCounted' /\ ListedInv' /\ TaskInv' /\ Uploaded'
  BY <1>1 DEF IInv, JobsCounted, Uploaded, ListedInv, TaskInv, bounds
<1>5. MailInv' /\ MailIsFiled' /\ ConfirmedWasAcknowledged'
  BY <1>1 DEF IInv, MailInv, MailIsFiled, ConfirmedWasAcknowledged
<1>6. PollsOwn'
  BY <1>1 DEF IInv, PollsOwn, Polls, Undisturbed, bounds
<1> QED  BY <1>3, <1>4, <1>5, <1>6 DEF IInv

----------------------------------------------------------------------------
(* The tick, the tasks and the windows *)

\* While a return of the current year is Submitted, something is pending.
LEMMA Pending ==
    ASSUME NEW r \in Returns \ Lagging, status[r] = "Submitted"
    PROVE  StillPending
BY DEF StillPending

LEMMA JobFallsDueKeeps == ASSUME IInv, NEW id \in DOMAIN jobs, JobFallsDue(id) PROVE IInv'
<1>1. TypeOK /\ jobs[id] \in Job /\ UNCHANGED <<returns, listed, poll, bounds>>
  BY JobIds DEF IInv, JobFallsDue
<1>2. PICK j \in Job : j = [jobs[id] EXCEPT !.next = "due"]
  BY <1>1 DEF Job
<1>3. /\ jobs' \in Seq(Job) /\ Len(jobs') = Len(jobs) /\ DOMAIN jobs' = DOMAIN jobs
      /\ jobs'[id] = j /\ \A k \in DOMAIN jobs \ {id} : jobs'[k] = jobs[k]
  BY <1>1, <1>2, JobSet DEF JobFallsDue
<1>4. j.ret = jobs[id].ret /\ j.status = jobs[id].status
  BY <1>1, <1>2 DEF Job
<1>5. TypeOK'
  BY <1>1, <1>3 DEF TypeOK, returns, bounds
<1>6. ListedInv' /\ TaskInv' /\ (Undisturbed' => Undisturbed) /\ UNCHANGED user
      /\ \A x \in Pollers : poll'[x].todo \subseteq mail
  BY <1>1, <1>3, <1>4 DEF IInv, ListedInv, TaskInv, MailInv, MailIsFiled, Undisturbed, returns, bounds
<1>7. \A k \in DOMAIN jobs, r \in Returns : Polls(k, r) => Polls(k, r)'
  BY <1>1, <1>3, <1>4 DEF Polls, Live
<1> QED  BY <1>1, <1>3, <1>4, <1>5, <1>6, <1>7, PollStep

LEMMA FinishJobKeeps == ASSUME IInv, NEW id \in DOMAIN jobs, FinishJob(id) PROVE IInv'
<1>1. TypeOK /\ jobs[id] \in Job /\ id \in Pollers /\ UNCHANGED <<returns, listed, bounds>>
  BY JobIds DEF IInv, FinishJob
<1>2. PICK j \in Job : j = [jobs[id] EXCEPT !.status = StatusAfter(poll[id]), !.next = "ahead"]
  BY <1>1 DEF Job, StatusAfter
<1>3. jobs' = [jobs EXCEPT ![id] = j]
  BY <1>1, <1>2, JobIds DEF FinishJob, Job, TypeOK
<1>4. /\ jobs' \in Seq(Job) /\ Len(jobs') = Len(jobs) /\ DOMAIN jobs' = DOMAIN jobs
      /\ jobs'[id] = j /\ \A k \in DOMAIN jobs \ {id} : jobs'[k] = jobs[k]
  BY <1>1, <1>3, JobSet
<1>5. j.ret = jobs[id].ret /\ j.status = StatusAfter(poll[id])
  BY <1>1, <1>2 DEF Job
<1>6. IdlePoll \in Poll
  BY DEF IdlePoll, Poll
<1>7. /\ poll' \in [Pollers -> Poll] /\ poll'[id] = IdlePoll
      /\ \A y \in Pollers \ {id} : poll'[y] = poll[y]
  BY <1>1, <1>6, TaskSet DEF FinishJob
<1>8. TypeOK'
  BY <1>1, <1>4, <1>7 DEF TypeOK, returns, bounds
<1>9. ListedInv' /\ TaskInv' /\ (Undisturbed' => Undisturbed) /\ UNCHANGED user
      /\ \A x \in Pollers : poll'[x].todo \subseteq mail
  <2>1. \A k \in DOMAIN jobs : jobs'[k].ret = jobs[k].ret
    BY <1>4, <1>5
  <2>2. ListedInv'
    BY <1>1, <1>4, <2>1 DEF IInv, ListedInv
  <2>3. TaskInv'
    BY <1>1, <1>4, <1>7 DEF IInv, TaskInv, IdlePoll, bounds
  <2>4. \A x \in Pollers : poll'[x].todo \subseteq mail
    BY <1>7 DEF IInv, MailInv, MailIsFiled, IdlePoll
  <2> QED  BY <1>1, <2>2, <2>3, <2>4 DEF Undisturbed, returns, bounds
<1>10. ASSUME NEW k \in DOMAIN jobs, NEW r \in Returns, Polls(k, r) PROVE Polls(k, r)'
  <2>1. CASE k = id
    BY <1>4, <1>5, <1>7, <1>10, <2>1 DEF Polls, Live, IdlePoll, FinishJob, StatusAfter
  <2>2. CASE k # id
    BY <1>1, <1>4, <1>7, <1>10, <2>2, JobIds DEF Polls, Live
  <2> QED  BY <2>1, <2>2
<1> QED  BY <1>1, <1>4, <1>5, <1>8, <1>9, <1>10, PollStep

LEMMA ArchiveJobKeeps == ASSUME IInv, NEW id \in DOMAIN jobs, ArchiveJob(id) PROVE IInv'
<1>1. TypeOK /\ jobs[id] \in Job /\ archivals' = archivals + 1 /\ archivals < user.archivals
      /\ UNCHANGED <<returns, listed, poll, user, failures, crashes, checks>>
  BY JobIds DEF IInv, ArchiveJob
<1>2. PICK j \in Job : j = [jobs[id] EXCEPT !.status = "Archived"]
  BY <1>1 DEF Job
<1>3. /\ jobs' \in Seq(Job) /\ Len(jobs') = Len(jobs) /\ DOMAIN jobs' = DOMAIN jobs
      /\ jobs'[id] = j /\ \A k \in DOMAIN jobs \ {id} : jobs'[k] = jobs[k]
  BY <1>1, <1>2, JobSet DEF ArchiveJob
<1>4. j.ret = jobs[id].ret
  BY <1>1, <1>2 DEF Job
<1>5. archivals' \in 0 .. user.archivals /\ archivals' # 0
  <2>1. user.archivals \in Nat /\ archivals \in 0 .. user.archivals
    BY <1>1, UserType DEF TypeOK
  <2> QED  BY <1>1, <2>1
<1>6. TypeOK'
  BY <1>1, <1>3, <1>5 DEF TypeOK, returns
<1>7. ListedInv' /\ TaskInv' /\ ~Undisturbed'
      /\ \A x \in Pollers : poll'[x].todo \subseteq mail
  BY <1>1, <1>3, <1>4, <1>5 DEF IInv, ListedInv, TaskInv, MailInv, MailIsFiled, Undisturbed, returns
<1>8. JobsCounted'
  BY <1>1, <1>3, <1>4, CountStays DEF IInv, returns
<1>9. MailInv' /\ MailIsFiled' /\ ConfirmedWasAcknowledged' /\ Uploaded'
  BY <1>1, <1>7 DEF IInv, MailInv, MailIsFiled, ConfirmedWasAcknowledged, Uploaded, returns
<1> QED  BY <1>6, <1>7, <1>8, <1>9 DEF IInv, PollsOwn

LEMMA StartTickKeeps == ASSUME IInv, StartTick PROVE IInv'
<1>1. TypeOK /\ UNCHANGED <<returns, jobs, poll, bounds>>
  BY DEF IInv, StartTick
<1>2. \A c \in listed' : c \in [id: 1 .. MaxJobs, ret: Returns, run: BOOLEAN]
                         /\ c.id \in DOMAIN jobs /\ jobs[c.id].ret = c.ret
  <2>1. ASSUME NEW c \in listed'
        PROVE  \E id \in DOMAIN jobs :
                   c = [id |-> id, ret |-> jobs[id].ret, run |-> ShouldRun(jobs[id])]
    BY DEF StartTick
  <2>2. \A id \in DOMAIN jobs : id \in 1 .. MaxJobs /\ jobs[id].ret \in Returns
    BY <1>1, JobIds DEF Job
  <2>3. \A id \in DOMAIN jobs : ShouldRun(jobs[id]) \in BOOLEAN
    BY DEF ShouldRun
  <2> QED  BY <2>1, <2>2, <2>3
<1>3. TypeOK'
  BY <1>1, <1>2 DEF TypeOK, returns, bounds
<1>4. ListedInv' /\ TaskInv' /\ (Undisturbed' => Undisturbed) /\ UNCHANGED user
      /\ \A x \in Pollers : poll'[x].todo \subseteq mail
  BY <1>1, <1>2 DEF IInv, ListedInv, TaskInv, MailInv, MailIsFiled, Undisturbed, returns, bounds
<1>5. \A k \in DOMAIN jobs, r \in Returns : Polls(k, r) => Polls(k, r)'
  BY <1>1 DEF Polls, Live
<1> QED  BY <1>1, <1>3, <1>4, <1>5, PollStep

\* The tick saves its copy of a job as j, and leaves a task that is running
\* alone.
LEMMA SavedCopy ==
    ASSUME IInv, NEW c \in listed, NEW j \in Job, j.ret = c.ret, Live(j),
           jobs' = [jobs EXCEPT ![c.id] = j], listed' = listed \ {c},
           poll' \in [Pollers -> Poll], poll'[c.id].todo = poll[c.id].todo,
           \A x \in Pollers \ {c.id} : poll'[x] = poll[x],
           poll'[c.id] = poll[c.id] \/ poll'[c.id].pc = "planning",
           UNCHANGED <<returns, bounds>>
    PROVE  IInv'
<1>1. TypeOK /\ c.id \in DOMAIN jobs /\ c.id \in Pollers /\ jobs[c.id].ret = c.ret
  BY JobIds DEF IInv, ListedInv
<1>2. /\ jobs' \in Seq(Job) /\ Len(jobs') = Len(jobs) /\ DOMAIN jobs' = DOMAIN jobs
      /\ jobs'[c.id] = j /\ \A k \in DOMAIN jobs \ {c.id} : jobs'[k] = jobs[k]
  BY <1>1, JobSet
<1>3. TypeOK'
  BY <1>1, <1>2 DEF TypeOK, returns, bounds
<1>4. \A id \in DOMAIN jobs : jobs'[id].ret = jobs[id].ret
  BY <1>1, <1>2
<1>5. ListedInv' /\ TaskInv' /\ (Undisturbed' => Undisturbed) /\ UNCHANGED user
      /\ \A x \in Pollers : poll'[x].todo \subseteq mail
  <2>1. ListedInv'
    BY <1>2, <1>4 DEF IInv, ListedInv
  <2>2. TaskInv'
    BY <1>1, <1>2 DEF IInv, TaskInv, bounds
  <2> QED  BY <1>1, <2>1, <2>2 DEF IInv, MailInv, MailIsFiled, Undisturbed, returns, bounds
<1>6. ASSUME NEW k \in DOMAIN jobs, NEW r \in Returns, Polls(k, r) PROVE Polls(k, r)'
  <2>1. CASE k = c.id
    BY <1>1, <1>2, <1>6, <2>1 DEF Polls, Live
  <2>2. CASE k # c.id
    BY <1>1, <1>2, <1>6, <2>2, JobIds DEF Polls, Live
  <2> QED  BY <2>1, <2>2
<1> QED  BY <1>2, <1>3, <1>4, <1>5, <1>6, PollStep

LEMMA ScheduleJobKeeps == ASSUME IInv, NEW c \in listed, ScheduleJob(c) PROVE IInv'
<1>1. PICK j \in Job : j = [ret |-> c.ret, status |-> "Queued", next |-> "ahead"]
  BY DEF IInv, TypeOK, Job
<1> QED  BY <1>1, SavedCopy DEF ScheduleJob, IInv, TypeOK, Live

LEMMA RunJobKeeps == ASSUME IInv, NEW c \in listed, RunJob(c) PROVE IInv'
<1>1. PICK j \in Job : j = [ret |-> c.ret, status |-> "Running", next |-> "due"]
  BY DEF IInv, TypeOK, Job
<1>2. c.id \in Pollers /\ poll \in [Pollers -> Poll]
  BY JobIds DEF IInv, ListedInv, TypeOK
<1>3. /\ poll' \in [Pollers -> Poll] /\ poll'[c.id].todo = poll[c.id].todo
      /\ \A x \in Pollers \ {c.id} : poll'[x] = poll[x]
      /\ poll'[c.id] = poll[c.id] \/ poll'[c.id].pc = "planning"
  BY <1>2 DEF RunJob, Poll
<1> QED  BY <1>1, <1>3, SavedCopy DEF RunJob, Live

\* A task goes on to p, and does nothing else.
LEMMA TaskStep ==
    ASSUME IInv, NEW x \in Pollers, NEW p \in Poll, poll' = [poll EXCEPT ![x] = p],
           poll[x].pc # "idle", p.todo \subseteq mail,
           p.pc = "answered" /\ p.ok => (StillPending => p.pending),
           failures' \in 0 .. user.failures,
           UNCHANGED <<returns, jobs, listed, user, crashes, checks, archivals>>
    PROVE  IInv'
<1>1. TypeOK
  BY DEF IInv
<1>2. /\ poll' \in [Pollers -> Poll] /\ poll'[x] = p
      /\ \A y \in Pollers \ {x} : poll'[y] = poll[y]
  BY <1>1, TaskSet
<1>3. TypeOK'
  BY <1>1, <1>2 DEF TypeOK, returns
<1>4. ListedInv' /\ TaskInv' /\ (Undisturbed' => Undisturbed)
      /\ \A y \in Pollers : poll'[y].todo \subseteq mail
  BY <1>2 DEF IInv, ListedInv, TaskInv, MailInv, MailIsFiled, Undisturbed, returns
<1>5. ASSUME NEW k \in DOMAIN jobs, NEW r \in Returns \ Lagging, status[r] = "Submitted", Polls(k, r)
      PROVE  Polls(k, r)'
  <2>1. StillPending /\ k \in Pollers
    BY <1>1, <1>5, Pending, JobIds
  <2>2. CASE k = x
    BY <1>2, <1>5, <2>1, <2>2 DEF Polls
  <2>3. CASE k # x
    BY <1>2, <1>5, <2>1, <2>3 DEF Polls
  <2> QED  BY <2>2, <2>3
<1> QED  BY <1>3, <1>4, <1>5, PollStep

LEMMA PlanKeeps == ASSUME IInv, NEW x \in Pollers, Plan(x) PROVE IInv'
<1>1. poll \in [Pollers -> Poll] /\ poll[x] \in Poll /\ mail \subseteq Receipt
      /\ poll[x].todo \subseteq mail /\ failures \in 0 .. user.failures
  BY DEF IInv, TypeOK, MailInv
<1>2. CASE StillPending
  <2>1. PICK p \in Poll :
            p = [poll[x] EXCEPT !.pc = "fetching", !.todo = mail, !.pending = TRUE]
    BY <1>1 DEF Poll
  <2>2. p.pc = "fetching" /\ p.todo = mail
    BY <1>1, <2>1 DEF Poll
  <2> QED  BY <1>1, <1>2, <2>1, <2>2, TaskStep DEF Plan, bounds
<1>3. CASE ~StillPending
  <2>1. PICK p \in Poll :
            p = [poll[x] EXCEPT !.pc = "answered", !.ok = TRUE, !.pending = FALSE]
    BY <1>1 DEF Poll
  <2>2. p.todo = poll[x].todo
    BY <1>1, <2>1 DEF Poll
  <2> QED  BY <1>1, <1>3, <2>1, <2>2, TaskStep DEF Plan, bounds
<1> QED  BY <1>2, <1>3

LEMMA FetchSucceedsKeeps == ASSUME IInv, NEW x \in Pollers, FetchSucceeds(x) PROVE IInv'
<1>1. poll \in [Pollers -> Poll] /\ poll[x] \in Poll
      /\ poll[x].todo \subseteq mail /\ failures \in 0 .. user.failures
  BY DEF IInv, TypeOK, MailInv
<1>2. StillPending \in BOOLEAN
  BY DEF StillPending
<1>3. PICK p \in Poll :
          p = [poll[x] EXCEPT !.pc = "answered", !.ok = TRUE, !.pending = StillPending]
  BY <1>1, <1>2 DEF Poll
<1>4. p.todo = poll[x].todo /\ p.pending = StillPending
  BY <1>1, <1>3 DEF Poll
<1>5. poll' = [poll EXCEPT ![x] = p]
  BY <1>1, <1>3 DEF FetchSucceeds, Poll
<1> QED  BY <1>1, <1>4, <1>5, TaskStep DEF FetchSucceeds, bounds

LEMMA FetchFailsKeeps == ASSUME IInv, NEW x \in Pollers, FetchFails(x) PROVE IInv'
<1>1. poll \in [Pollers -> Poll] /\ poll[x] \in Poll /\ failures' \in 0 .. user.failures
  <2>1. failures \in 0 .. user.failures
    BY DEF IInv, TypeOK
  <2>2. user.failures \in Nat /\ failures < user.failures /\ failures' = failures + 1
    BY UserType DEF IInv, TypeOK, FetchFails
  <2> QED  BY <2>1, <2>2 DEF IInv, TypeOK
<1>2. PICK p \in Poll :
          p = [poll[x] EXCEPT !.pc = "answered", !.todo = {}, !.ok = FALSE]
  BY <1>1 DEF Poll
<1>3. p.todo = {} /\ p.ok = FALSE
  BY <1>1, <1>2 DEF Poll
<1>4. poll' = [poll EXCEPT ![x] = p]
  BY <1>1, <1>2 DEF FetchFails, Poll
<1> QED  BY <1>1, <1>3, <1>4, TaskStep DEF FetchFails

\* A message is a receipt that is in the mailbox, so what it confirms was
\* acknowledged.
LEMMA ProcessMessageKeeps ==
    ASSUME IInv, NEW x \in Pollers, NEW m \in poll[x].todo, ProcessMessage(x, m)
    PROVE  IInv'
<1>1. TypeOK /\ m \in mail /\ m \in Receipt /\ poll[x] \in Poll /\ poll[x].pc = "fetching"
  BY DEF IInv, TypeOK, MailInv, ProcessMessage
<1>2. m.ret \in Returns /\ m.filing \in 0 .. MaxFilings
      /\ m = [ret |-> m.ret, filing |-> m.filing]
  BY <1>1, MaxFilingsType DEF Receipt
<1>3. /\ UNCHANGED <<filing, floor, mail, jobs, listed, bounds>>
      /\ saved' = [saved EXCEPT ![m.ret] = m.filing]
      /\ status' = IF Confirms(m) THEN [status EXCEPT ![m.ret] = "Confirmed"] ELSE status
  BY DEF ProcessMessage
<1>4. PICK p \in Poll : p = [poll[x] EXCEPT !.todo = @ \ {m}]
  BY <1>1 DEF Poll
<1>5. p.todo \subseteq poll[x].todo /\ p.pc = "fetching"
  BY <1>1, <1>4 DEF Poll
<1>6. /\ poll' \in [Pollers -> Poll] /\ poll'[x] = p
      /\ \A y \in Pollers \ {x} : poll'[y] = poll[y]
  BY <1>1, <1>4, TaskSet DEF ProcessMessage
<1>7. /\ status' \in [Returns -> {"Draft", "Uploading", "Submitted", "Confirmed"}]
      /\ \A r \in Returns : \/ status'[r] = status[r]
                            \/ r = m.ret /\ m.filing >= floor[r] /\ status'[r] = "Confirmed"
  BY <1>1, <1>2, <1>3 DEF TypeOK, Confirms
<1>8. TypeOK'
  BY <1>1, <1>2, <1>3, <1>6, <1>7 DEF TypeOK, bounds
<1>9. JobsCounted'
  BY <1>1, <1>3, <1>7, CountStays, JobIds DEF IInv, Job
<1>10. ListedInv' /\ TaskInv' /\ MailInv' /\ MailIsFiled' /\ Uploaded'
  BY <1>1, <1>3, <1>5, <1>6, <1>7 DEF IInv, ListedInv, TaskInv, MailInv, MailIsFiled, Uploaded, bounds
<1>11. ConfirmedWasAcknowledged'
  <2> SUFFICES ASSUME NEW r \in Returns, status'[r] = "Confirmed"
               PROVE  \E n \in floor[r] .. filing[r] : [ret |-> r, filing |-> n] \in mail
    BY <1>3 DEF ConfirmedWasAcknowledged
  <2>1. CASE status'[r] = status[r]
    BY <2>1 DEF IInv, ConfirmedWasAcknowledged
  <2>2. CASE r = m.ret /\ m.filing >= floor[r]
    <3>1. floor[r] \in Nat /\ filing[r] \in Nat /\ m.filing <= filing[r]
      BY <1>1, <2>2, MaxFilingsType DEF IInv, TypeOK, MailIsFiled
    <3>2. m.filing \in floor[r] .. filing[r]
      BY <1>2, <2>2, <3>1, MaxFilingsType
    <3> QED  BY <1>1, <1>2, <2>2, <3>2
  <2> QED  BY <1>7, <2>1, <2>2
<1>12. ASSUME NEW k \in DOMAIN jobs, NEW r \in Returns, Polls(k, r) PROVE Polls(k, r)'
  <2>1. k \in Pollers
    BY <1>1, JobIds
  <2>2. CASE k = x
    BY <1>3, <1>5, <1>6, <1>12, <2>2 DEF Polls
  <2>3. CASE k # x
    BY <1>3, <1>6, <1>12, <2>1, <2>3 DEF Polls
  <2> QED  BY <2>2, <2>3
<1>13. PollsOwn'
  BY <1>3, <1>7, <1>12 DEF IInv, PollsOwn, Undisturbed, bounds
<1> QED  BY <1>8, <1>9, <1>10, <1>11, <1>13 DEF IInv

LEMMA CheckNowKeeps == ASSUME IInv, CheckNow PROVE IInv'
<1>1. TypeOK /\ checks' = checks + 1 /\ checks < user.checks /\ Window \in Pollers
      /\ UNCHANGED <<returns, jobs, listed, user, failures, crashes, archivals>>
  BY MaxJobsType DEF IInv, CheckNow
<1>2. checks' \in 0 .. user.checks /\ checks' # 0
  <2>1. user.checks \in Nat /\ checks \in 0 .. user.checks
    BY <1>1, UserType DEF TypeOK
  <2> QED  BY <1>1, <2>1
<1>3. /\ poll' \in [Pollers -> Poll] /\ poll'[Window].todo = poll[Window].todo
      /\ \A y \in Pollers \ {Window} : poll'[y] = poll[y]
  BY <1>1 DEF CheckNow, TypeOK, Poll
<1>4. TypeOK'
  BY <1>1, <1>2, <1>3 DEF TypeOK, returns
<1>5. ListedInv' /\ TaskInv' /\ ~Undisturbed'
      /\ \A x \in Pollers : poll'[x].todo \subseteq mail
  BY <1>1, <1>2, <1>3 DEF IInv, ListedInv, TaskInv, MailInv, MailIsFiled, Undisturbed
<1>6. JobsCounted' /\ MailInv' /\ MailIsFiled' /\ ConfirmedWasAcknowledged' /\ Uploaded'
  BY <1>1, <1>5 DEF IInv, JobsCounted, MailInv, MailIsFiled, ConfirmedWasAcknowledged, Uploaded, returns
<1> QED  BY <1>4, <1>5, <1>6 DEF IInv, PollsOwn

\* "Check now" settles the jobs of every return, so nothing is promised after it.
LEMMA FinishCheckKeeps == ASSUME IInv, FinishCheck PROVE IInv'
<1>1. TypeOK /\ Window \in Pollers /\ UNCHANGED <<returns, listed, bounds>>
      /\ poll' = [poll EXCEPT ![Window] = IdlePoll] /\ poll[Window].pc = "answered"
  BY MaxJobsType DEF IInv, FinishCheck
<1>2. checks # 0
  BY <1>1, JobIds DEF IInv, TaskInv
<1>3. DOMAIN jobs' = DOMAIN jobs /\ \A id \in DOMAIN jobs :
          jobs'[id] \in {jobs[id], [jobs[id] EXCEPT !.status = "Archived"],
                         [jobs[id] EXCEPT !.status = "Queued"]}
  BY DEF FinishCheck
<1>4. \A id \in DOMAIN jobs : jobs'[id] \in Job /\ jobs'[id].ret = jobs[id].ret
  BY <1>1, <1>3, JobIds DEF Job
<1>5. jobs' \in Seq(Job) /\ Len(jobs') = Len(jobs)
  <2>1. PICK n \in Nat : n = Len(jobs) /\ DOMAIN jobs = 1 .. n
    BY <1>1, JobIds
  <2>2. jobs' \in [1 .. n -> Job]
    BY <1>3, <1>4, <2>1 DEF FinishCheck
  <2>3. jobs' \in Seq(Job)
    BY <2>2, SeqDef
  <2> QED  BY <2>1, <2>2, <2>3
<1>6. IdlePoll \in Poll
  BY DEF IdlePoll, Poll
<1>7. /\ poll' \in [Pollers -> Poll] /\ poll'[Window] = IdlePoll
      /\ \A y \in Pollers \ {Window} : poll'[y] = poll[y]
  BY <1>1, <1>6, TaskSet
<1>8. TypeOK'
  BY <1>1, <1>5, <1>7 DEF TypeOK, returns, bounds
<1>9. JobsCounted'
  BY <1>1, <1>3, <1>4, CountStays DEF IInv, returns
<1>10. ListedInv' /\ TaskInv'
  BY <1>1, <1>3, <1>4, <1>7 DEF IInv, ListedInv, TaskInv, IdlePoll, bounds
<1>11. MailInv' /\ MailIsFiled' /\ ConfirmedWasAcknowledged' /\ Uploaded' /\ ~Undisturbed'
  BY <1>1, <1>2, <1>7
     DEF IInv, MailInv, MailIsFiled, ConfirmedWasAcknowledged, Uploaded, Undisturbed, IdlePoll, returns, bounds
<1> QED  BY <1>8, <1>9, <1>10, <1>11 DEF IInv, PollsOwn

LEMMA CrashKeeps == ASSUME IInv, Crash PROVE IInv'
<1>1. TypeOK /\ listed' = {} /\ poll' = [x \in Pollers |-> IdlePoll]
      /\ UNCHANGED <<returns, jobs, user, failures, checks, archivals>>
  BY DEF IInv, Crash
<1>2. IdlePoll \in Poll
  BY DEF IdlePoll, Poll
<1>3. poll' \in [Pollers -> Poll] /\ \A x \in Pollers : poll'[x] = IdlePoll
  BY <1>1, <1>2
<1>4. crashes' \in 0 .. user.crashes
  <2>1. crashes \in 0 .. user.crashes
    BY <1>1 DEF TypeOK
  <2>2. user.crashes \in Nat /\ crashes < user.crashes /\ crashes' = crashes + 1
    BY <1>1, UserType DEF TypeOK, Crash
  <2> QED  BY <2>1, <2>2
<1>5. TypeOK'
  BY <1>1, <1>3, <1>4 DEF TypeOK, returns
<1>6. ListedInv' /\ TaskInv' /\ (Undisturbed' => Undisturbed)
      /\ \A x \in Pollers : poll'[x].todo \subseteq mail
  BY <1>1, <1>3 DEF ListedInv, TaskInv, Undisturbed, IdlePoll, returns
<1>7. \A k \in DOMAIN jobs, r \in Returns : Polls(k, r) => Polls(k, r)'
  BY <1>1, <1>3, JobIds DEF Polls, Live, IdlePoll
<1> QED  BY <1>1, <1>5, <1>6, <1>7, PollStep

----------------------------------------------------------------------------
(* The theorems *)

LEMMA InitHolds == Init => IInv
<1> SUFFICES ASSUME Init PROVE IInv
  OBVIOUS
<1>1. IdlePoll \in Poll
  BY DEF IdlePoll, Poll
<1>2. poll \in [Pollers -> Poll] /\ \A x \in Pollers : poll[x] = IdlePoll
  BY <1>1 DEF Init
<1>3. jobs = <<>> /\ jobs \in Seq(Job) /\ Len(jobs) = 0 /\ DOMAIN jobs = {}
  BY DEF Init
<1>4. TypeOK
  <2>1. /\ failures \in 0 .. user.failures /\ crashes \in 0 .. user.crashes
        /\ checks \in 0 .. user.checks /\ archivals \in 0 .. user.archivals
    BY UserType DEF Init
  <2>2. filing \in [Returns -> 0 .. MaxFilings] /\ saved \in [Returns -> 0 .. MaxFilings]
    BY MaxFilingsType DEF Init
  <2>3. Len(jobs) <= MaxJobs
    BY <1>3, MaxJobsType
  <2>4. /\ status \in [Returns -> {"Draft", "Uploading", "Submitted", "Confirmed"}]
        /\ mail \subseteq Receipt /\ user \in Users
        /\ listed \subseteq [id: 1 .. MaxJobs, ret: Returns, run: BOOLEAN]
        /\ floor \in [Returns -> Nat]
    BY DEF Init
  <2> QED  BY <1>2, <1>3, <2>1, <2>2, <2>3, <2>4 DEF TypeOK
<1>5. JobsCounted
  <2>1. [id \in {} |-> 1] \in [{} -> 1 .. MaxFilings]
    OBVIOUS
  <2>2. \E made : made \in [DOMAIN jobs -> 1 .. MaxFilings]
    BY <1>3, <2>1
  <2> QED  BY <1>3, <2>2 DEF JobsCounted
<1> QED  BY <1>2, <1>4, <1>5
         DEF Init, IInv, Uploaded, ListedInv, MailInv, MailIsFiled, TaskInv, ConfirmedWasAcknowledged, PollsOwn,
             IdlePoll

LEMMA NextKeeps == IInv /\ [Next]_vars => IInv'
<1> SUFFICES ASSUME IInv, [Next]_vars PROVE IInv'
  OBVIOUS
<1>1. ASSUME NEW r \in Returns,
             StartUpload(r) \/ Submit(r) \/ Amend(r) \/ ReceiptArrives(r)
      PROVE  IInv'
  BY <1>1, StartUploadKeeps, SubmitKeeps, AmendKeeps, ReceiptArrivesKeeps
<1>2. ASSUME NEW id \in DOMAIN jobs, JobFallsDue(id) \/ FinishJob(id) \/ ArchiveJob(id)
      PROVE  IInv'
  BY <1>2, JobFallsDueKeeps, FinishJobKeeps, ArchiveJobKeeps
<1>3. CASE HandleListed
  BY <1>3, ScheduleJobKeeps, RunJobKeeps DEF HandleListed
<1>4. ASSUME NEW x \in Pollers, Plan(x) \/ ReadMailbox(x) \/ FetchFails(x) PROVE IInv'
  BY <1>4, PlanKeeps, ProcessMessageKeeps, FetchSucceedsKeeps, FetchFailsKeeps DEF ReadMailbox
<1>5. CASE UNCHANGED vars
  <2> USE <1>5 DEF vars
  <2>0. TypeOK /\ JobsCounted /\ Uploaded
    BY DEF IInv
  <2>1. TypeOK' /\ JobsCounted' /\ Uploaded'
    <3>1. TypeOK'
      BY <2>0 DEF TypeOK
    <3>2. JobsCounted'
      BY <2>0, CountStays
    <3>3. Uploaded'
      BY <2>0 DEF Uploaded
    <3> QED  BY <3>1, <3>2, <3>3
  <2>2. ListedInv' /\ MailInv' /\ MailIsFiled' /\ TaskInv' /\ ConfirmedWasAcknowledged'
    BY <1>5 DEF vars, IInv, ListedInv, MailInv, MailIsFiled, TaskInv, ConfirmedWasAcknowledged
  <2>3. PollsOwn'
    BY <1>5 DEF vars, IInv, PollsOwn, Polls, Live, Undisturbed
  <2> QED  BY <2>1, <2>2, <2>3 DEF IInv
<1> QED  BY <1>1, <1>2, <1>3, <1>4, <1>5, StartTickKeeps, CheckNowKeeps, FinishCheckKeeps,
            CrashKeeps DEF Next

\* Every job is of one filing and every copy, message and task of what it was
\* taken from; a Submitted return nobody disturbed has a job of its own.
THEOREM Invariance == Spec => []IInv
BY InitHolds, NextKeeps, PTL DEF Spec

\* Every variable keeps its type; job_queue never holds more jobs than filings
\* were made.
THEOREM TypeCorrect == Spec => []TypeOK
<1>1. IInv => TypeOK
  BY DEF IInv
<1> QED  BY <1>1, Invariance, PTL

\* A Confirmed return was acknowledged by BIR, for the filing it stands for or a
\* former one it was authorized within two minutes of, whatever polls read which
\* messages in which order (receipt_belongs_to_this_generation).
THEOREM ConfirmationIsReal == Spec => []ConfirmedWasAcknowledged
<1>1. IInv => ConfirmedWasAcknowledged
  BY DEF IInv
<1> QED  BY <1>1, Invariance, PTL

\* A return of the current year that waits for its receipt is polled for, until
\* it is filed again or the user presses "check now" or archives a job.
THEOREM WaitingIsPolled == Spec => []PendingIsPolled
<1>1. IInv => PendingIsPolled
  BY DEF IInv, PollsOwn, Polls, PendingIsPolled
<1> QED  BY <1>1, Invariance, PTL

=============================================================================
