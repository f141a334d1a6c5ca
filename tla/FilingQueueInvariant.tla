----------------------- MODULE FilingQueueInvariant ------------------------
(***************************************************************************)
(* The inductive invariant of FilingQueue: what holds between any two      *)
(* database transactions, from which its safety properties follow.         *)
(***************************************************************************)
EXTENDS FilingQueue

\* The user authorized content c of return r under grant g.
IsGranted(r, g, c) == [ret |-> r, grant |-> g, content |-> c] \in granted

\* Grant g has not been uploaded, live or dry.
NotUploaded(g) == /\ \A p \in received : p.grant # g
                  /\ \A p \in simulated : p.grant # g

\* Every stored timestamp was read off the clock.
StampsInv ==
    /\ \A r \in Returns : /\ row[r].authorization <= clock
                          /\ row[r].nextRetry <= clock
                          /\ row[r].claim <= clock
                          /\ task[r].token <= clock
                          /\ task[r].copy.nextRetry <= clock
    /\ \A g \in granted : g.grant # 0 /\ g.grant <= clock
    /\ \A g \in withdrawn : g <= clock

\* A grant names one return and one content.
GrantsInv == \A g, h \in granted : g.grant = h.grant => g = h

\* A Draft carries nothing of the queue.
DraftRow(d) == d.authorization = 0 /\ d.claim = 0 /\ ~d.putStarted

\* A queued row stands under a grant for its content that nobody took back,
\* and that has not been uploaded unless the PUT was marked as started.
QueuedRow(r, d) ==
    /\ d.authorization # 0
    /\ d.fingerprint = d.content
    /\ d.attempts < MaxAttempts
    /\ d.nextRetry # 0
    /\ IsGranted(r, d.authorization, d.content)
    /\ d.authorization \notin withdrawn
    /\ d.claim = 0 => ~d.putStarted
    /\ ~d.putStarted => NotUploaded(d.authorization)

\* A filed row was uploaded under its grant with its content.
FiledRow(r, d) ==
    /\ d.claim = 0
    /\ ~d.putStarted
    /\ d.authorization # 0
    /\ d.payload = d.content
    /\ [ret |-> r, grant |-> d.authorization, content |-> d.content] \in Delivered

RowInv(r) == /\ row[r].status = "Draft" => DraftRow(row[r])
             /\ row[r].status = "Queued" => QueuedRow(r, row[r])
             /\ row[r].status \in {"Submitted", "Confirmed"} => FiledRow(r, row[r])

\* A task that has loaded a queued return holds a copy of a generation; as
\* long as that generation is stored, its content and grant are the row's.
LoadedTask(r, t) ==
    /\ t.copy.status = "Queued"
    /\ t.copy.claim = 0
    /\ ~t.copy.putStarted
    /\ t.copy.fingerprint = t.copy.content
    /\ t.copy.attempts < MaxAttempts
    /\ t.payload = t.copy.content
    /\ t.copy.nextRetry # 0
    /\ row[r].status = "Queued" /\ row[r].nextRetry = t.copy.nextRetry =>
         /\ row[r].authorization = t.copy.authorization
         /\ row[r].content = t.copy.content

\* A task that took a claim prepared the content of a grant nobody took back
\* before, and the row stands under that grant only while it is claimed.
ClaimedTask(r, t) ==
    /\ t.token # 0
    /\ t.copy.status = "Queued"
    /\ t.payload = t.copy.content
    /\ IsGranted(r, t.copy.authorization, t.payload)
    /\ t.copy.authorization \notin withdrawn
    /\ row[r].status = "Queued" =>
         (row[r].authorization = t.copy.authorization <=> row[r].claim = t.token)
    /\ row[r].claim = t.token => row[r].status = "Queued"

TaskInv(r) ==
    /\ task[r].pc \in {"connecting", "session"} => LoadedTask(r, task[r])
    /\ task[r].pc \in {"claimed", "putting", "stored"} => ClaimedTask(r, task[r])
    /\ task[r].pc \in {"claimed", "putting"} => NotUploaded(task[r].copy.authorization)
    /\ task[r].pc \in {"putting", "stored"} /\ row[r].claim = task[r].token => row[r].putStarted
    /\ task[r].pc = "stored" =>
         [ret |-> r, grant |-> task[r].copy.authorization,
          content |-> task[r].payload] \in Delivered

\* An upload carried out one grant, as it was given and not taken back; no
\* two uploads share one.
UploadsInv ==
    /\ \A p \in received : IsGranted(p.ret, p.grant, p.content) /\ p.grant \notin withdrawn
    /\ \A p \in simulated : p \in granted /\ p.grant \notin withdrawn
    /\ \A p, q \in received : p.grant = q.grant => p = q
    /\ snapshots \subseteq Delivered

\* What all of FilingQueue's safety rests on: the rows, the tasks in flight
\* and the uploads agree on which grant stands for which content.
IInv == /\ TypeOK
        /\ StampsInv
        /\ GrantsInv
        /\ \A r \in Returns : RowInv(r) /\ TaskInv(r)
        /\ UploadsInv

----------------------------------------------------------------------------
(* What became of every upload, which the next filing and the receipts of  *)
(* BIR depend on.                                                          *)

\* A return that is queued or filed stands under its latest grant.
LatestGrant(r) ==
    row[r].status # "Draft" =>
        \A h \in granted : h.ret = r => h.grant <= row[r].authorization

\* A claim is taken from a task only by a human's release.
HeldClaim(r) ==
    task[r].pc \in {"claimed", "putting", "stored"} =>
        row[r].claim = task[r].token \/ task[r].copy.authorization \in released

\* A return is confirmed by a receipt of an upload of its own, which is of
\* the standing grant, was released as unfiled, or came within the skew.
ReceiptFits(r) ==
    row[r].status = "Confirmed" =>
        \E p \in received :
            /\ p.ret = r
            /\ p.at = row[r].receipt
            /\ ReceiptBelongsToThisGeneration(p.at, row[r].authorization)
            /\ \/ p.grant = row[r].authorization
               \/ p.grant \in released
               \/ p.at < row[r].authorization

\* An upload was released as unfiled, stands in its row, or was kept for the
\* amendment of its return.
Accounted(p) ==
    \/ p.grant \in released
    \/ p.grant = row[p.ret].authorization
    \/ \E s \in snapshots : s.ret = p.ret /\ s.grant = p.grant

\* A grant that followed an upload, for an original of a guarded form or
\* before the file arrived, followed a release of it.
Followed(p) ==
    \A h \in granted :
        /\ h.ret = p.ret
        /\ p.grant < h.grant
        /\ (p.ret \in Guarded /\ ~h.content.amended) \/ h.grant <= p.at
        => p.grant \in released

HistoryInv ==
    /\ \A r \in Returns : LatestGrant(r) /\ HeldClaim(r) /\ ReceiptFits(r)
    /\ \A p \in received : p.at <= clock /\ Accounted(p) /\ Followed(p)

\* The invariant of the runs: the rows, tasks and uploads agree, and every
\* upload is accounted for.
FilingInv == IInv /\ HistoryInv

=============================================================================
