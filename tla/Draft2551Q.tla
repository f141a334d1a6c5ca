----------------------------- MODULE Draft2551Q -----------------------------
(***************************************************************************)
(* The 2551Q returns of one individual taxpayer and one taxable year, from *)
(* the open form to the upload, with the year's income-tax election that   *)
(* they share: Item 13 of the initial quarter writes it, the later quarters*)
(* follow it (db/drafts.rs, forms/form_2551q.rs, forms/agent/draft_locks.rs*)
(* and the host verbs of bir-shell).                                       *)
(*                                                                         *)
(* Two desks edit the returns, each on a copy of its own: the form page,   *)
(* and the assistant; filings made on another device are picked up.  A host*)
(* verb holds the database lock throughout, so it is one step; the worker  *)
(* drops the lock while it connects and uploads.                           *)
(* Simplifications:                                                        *)
(*  - Schedule 1 is one of three: a NIL PT010 row, a PT010 row with an     *)
(*    amount, or rows of other ATCs with amounts.                          *)
(*  - The profile is the version that covers the quarters.  Its date of    *)
(*    commencement and its taxpayer type do not change.                    *)
(*  - Penalties are those of an overdue return, or none.                   *)
(*  - What a Draft keeps of the profile and of its penalties is left out:  *)
(*    every way into the queue computes both again first.                  *)
(*  - Submitted stands for Submitted, Confirmed and Paid; the claim of the *)
(*    worker and the grant of the assistant are those of FilingQueue.      *)
(*                                                                         *)
(* X_Slip is X with a plausible mistake, used only to show that a property *)
(* notices it.                                                             *)
(***************************************************************************)
EXTENDS Naturals

CONSTANTS
    Quarters,         \* the quarters of the year the taxpayer files, 1 first
    InitialQuarters,  \* what the profile may say of the commencement of business
    UnknownQuarter,   \* ... one of them: it says nothing
    Versions,         \* confirmed profile versions
    FirstVersion,     \* the one confirmed with the first queued return
    Unconfirmed,      \* the only version awaits that confirmation
    Unresolved,       \* no single confirmed version covers the quarters
    MaxTries,         \* failed connections that end an authorization (5 in the code)
    MaxEdits,         \* bound: forms opened, boxes changed, filings picked up
    MaxPresses,       \* bound: returns sent to the queue
    MaxTroubles,      \* bound: failures, crashes, cancels, releases, expired leases
    MaxChanges        \* bound: changes of the profile and deadlines that pass

ASSUME QuartersAssumption == Quarters \subseteq 1..4 /\ 1 \in Quarters
ASSUME InitialAssumption == InitialQuarters \subseteq Quarters \cup {UnknownQuarter}
ASSUME VersionsAssumption ==
    /\ FirstVersion \in Versions
    /\ Unconfirmed \notin Versions /\ Unresolved \notin Versions
    /\ Unconfirmed # Unresolved
ASSUME BoundsAssumption ==
    /\ MaxTries \in Nat \ {0} /\ MaxEdits \in Nat /\ MaxPresses \in Nat
    /\ MaxTroubles \in Nat /\ MaxChanges \in Nat

VARIABLES
    initial,    \* the initial quarter, as the commencement date gives it
    profile,    \* the version that covers the quarters
    ledger,     \* tax_elections of the year
    overdue,    \* quarters whose deadline has passed
    row,        \* row[q]: the form_drafts row
    original,   \* original[q]: amendment_snapshots holds a filed version
    desk,       \* desk[d]: the copy that is open there
    worker,     \* the submission job
    edits, presses, troubles, changes   \* for the bounds

vars == <<initial, profile, ledger, overdue, row, original, desk, worker,
          edits, presses, troubles, changes>>

Regimes == {"graduated", "eight_percent"}
Elections == Regimes \cup {"unrecorded", "conflicting"}
Items == Regimes \cup {"unanswered", "not_applicable"}
Works == {"nil PT010", "taxed PT010", "other"}
Desks == {"page", "assistant"}

Content == [item : Items, work : Works, filedQ1 : Items, amended : BOOLEAN]
\* gen: which press, and how often the worker put the return back since.
\* named: the stored JSON holds the id of its row.
Snapshot == [annual : Elections, facts : Versions, late : BOOLEAN, tries : Nat,
             gen : [press : Nat, turn : Nat], named : BOOLEAN]
NoSnapshot == [annual |-> "unrecorded", facts |-> FirstVersion, late |-> FALSE,
               tries |-> 0, gen |-> [press |-> 0, turn |-> 0], named |-> TRUE]
Row == [status : {"None", "Draft", "Queued", "Submitted"},
        claim : {"no", "claimed", "put"}, content : Content, snap : Snapshot]
\* base > 0: a new amendment of the return filed by that press; left: the copy is
\* of a return that has left Draft.
Copy == [open : {TRUE}, q : Quarters, content : Content,
         stored : BOOLEAN, dirty : BOOLEAN, left : BOOLEAN, base : Nat]
Closed == [open |-> FALSE]
Idle == [phase |-> "idle"]
\* What the job uploads, as it prepared it.
Payload == [content : Content, annual : Elections, facts : Versions, late : BOOLEAN]
\* seen: history, the election, the profile and the deadline at the job's last look
\* at them, when it claimed the return.
Job == [phase : {"connecting", "claimed", "put"}, q : Quarters,
        gen : [press : Nat, turn : Nat], payload : Payload,
        seen : [annual : Elections, facts : Versions \cup {Unconfirmed, Unresolved},
                overdue : BOOLEAN]]

Blank == [item |-> "unanswered", work |-> "nil PT010", filedQ1 |-> "unanswered",
          amended |-> FALSE]
DraftOf(c) == [status |-> "Draft", claim |-> "no", content |-> c, snap |-> NoSnapshot]

-----------------------------------------------------------------------------
(* Item 13.  Reconciling a return with the profile settles its answer, and *)
(* Validate checks it again.                                               *)

\* Whether Item 13 is asked on this return; unknown without a commencement date.
Applicable(q, work, start) ==
    IF work = "other" THEN "no"
    ELSE IF start = UnknownQuarter THEN (IF q = 1 THEN "yes" ELSE "unknown")
    ELSE IF q = start THEN "yes" ELSE "no"

LaterNeedsElection_Slip(q, work, start) == Applicable(q, work, start) = "unknown"

\* A later return with PT010 needs the election the year already has.
LaterNeedsElection(q, work, start) ==
    work # "other" /\ Applicable(q, work, start) # "yes"

\* The answer the filed Q1 of this application binds a later quarter to.
Bound(q, c) == q # 1 /\ c.filedQ1 # "unanswered"

SettledItem(q, c, elected, start) ==
    IF Bound(q, c) THEN c.filedQ1
    ELSE IF Applicable(q, c.work, start) = "yes"
    THEN IF elected \in Regimes THEN elected
         ELSE IF elected = "unrecorded" /\ c.item \in Regimes THEN c.item
         ELSE "unanswered"
    ELSE IF Applicable(q, c.work, start) = "unknown" THEN "unanswered"
    ELSE IF LaterNeedsElection(q, c.work, start) /\ elected \notin Regimes THEN "unanswered"
    ELSE "not_applicable"

Reconciled(q, c, elected, start) == [c EXCEPT !.item = SettledItem(q, c, elected, start)]

\* Item 13 agrees with its applicability and with the year's election.
AnswerStands(q, c, elected, start) ==
    IF Bound(q, c) THEN c.item = c.filedQ1
    ELSE CASE Applicable(q, c.work, start) = "yes" ->
                /\ c.item \in Regimes
                /\ elected \in Regimes => c.item = elected
           [] Applicable(q, c.work, start) = "no" -> c.item = "not_applicable"
           [] OTHER -> c.item # "unanswered"

\* An 8% answer leaves no amount on the return, an 8% year none on PT010.
NilWhereEightPercent(c, elected) ==
    /\ c.item = "eight_percent" => c.work = "nil PT010"
    /\ elected = "eight_percent" => c.work # "taxed PT010"

\* The errors of Validate that depend on the election.
Valid(q, c, elected, start) ==
    /\ elected # "conflicting"
    /\ elected = "unrecorded" => ~LaterNeedsElection(q, c.work, start)
    /\ AnswerStands(q, c, elected, start)
    /\ NilWhereEightPercent(c, elected)

\* Penalties as they are now; an 8% answer zeroes them.
Late(q, c) == q \in overdue /\ c.item # "eight_percent"

\* Item 13 as the Q1 return of this application filed it.
FiledQ1Item == IF row[1].status = "Submitted" THEN row[1].content.item ELSE "unanswered"

\* Opening an editable later quarter takes the filed Q1's answer.
Adopted(q, c) ==
    IF q = 1 THEN c
    ELSE [c EXCEPT !.filedQ1 = FiledQ1Item,
                   !.item = IF FiledQ1Item = "unanswered" THEN @ ELSE FiledQ1Item]

\* A new return; Item 13 takes the recorded election where it is asked.
NewContent(q) ==
    [Blank EXCEPT !.item = IF Applicable(q, "nil PT010", initial) = "yes" /\ ledger \in Regimes
                           THEN ledger ELSE "unanswered"]

-----------------------------------------------------------------------------
(* The desks.                                                              *)

LeftDraft(q) == row[q].status \in {"Queued", "Submitted"}
Loaded(q) == Adopted(q, IF row[q].status = "None" THEN NewContent(q) ELSE row[q].content)
CopyOf(q, c, stored) ==
    [open |-> TRUE, q |-> q, content |-> c, stored |-> stored, dirty |-> FALSE,
     left |-> FALSE, base |-> 0]

\* save_2551q_draft: only a Draft is replaced.
StoreDraft(q, c) ==
    /\ ~LeftDraft(q)
    /\ row' = [row EXCEPT ![q] = DraftOf(c)]

Editing == edits < MaxEdits /\ edits' = edits + 1
Elsewhere == <<initial, profile, ledger, overdue, worker, presses, troubles, changes>>

\* A form opens; a stored Draft whose profile boxes moved is saved at once.
PageOpens(q) ==
    /\ Editing
    /\ ~LeftDraft(q)
    /\ desk' = [desk EXCEPT !["page"] = CopyOf(q, Loaded(q), row[q].status = "Draft")]
    /\ \/ row' = row
       \/ row[q].status = "Draft" /\ StoreDraft(q, Loaded(q))
    /\ UNCHANGED <<Elsewhere, original>>

\* A new amended return, copied from the filed one; nothing is stored yet.
PageAmends(q) ==
    /\ Editing
    /\ row[q].status = "Submitted"
    /\ desk' = [desk EXCEPT !["page"] =
           [CopyOf(q, [row[q].content EXCEPT !.amended = TRUE], FALSE)
               EXCEPT !.base = row[q].snap.gen.press, !.dirty = TRUE]]
    /\ UNCHANGED <<Elsewhere, row, original>>

\* One box changes; Item 13 of a bound return is locked.
Changed(k) ==
    {[k.content EXCEPT !.work = w] : w \in Works} \cup
    (IF Bound(k.q, k.content) THEN {}
     ELSE {[k.content EXCEPT !.item = i] : i \in Items \ {"unanswered"}})

PageEdits ==
    /\ Editing
    /\ desk["page"].open
    /\ \E c \in Changed(desk["page"]) \ {desk["page"].content} :
           desk' = [desk EXCEPT !["page"].content = c, !["page"].dirty = TRUE]
    /\ UNCHANGED <<Elsewhere, row, original>>

PageSaved == desk' = [desk EXCEPT !["page"].stored = TRUE, !["page"].dirty = FALSE,
                                  !["page"].base = 0]

\* screen_form_save: over the Draft it was opened from, or as a new return.
PageSaves ==
    /\ desk["page"].open /\ desk["page"].base = 0
    /\ desk["page"].dirty \/ ~desk["page"].stored
    /\ desk["page"].stored <=> row[desk["page"].q].status # "None"
    /\ StoreDraft(desk["page"].q, desk["page"].content)
    /\ PageSaved
    /\ UNCHANGED <<Elsewhere, original, edits>>

\* The first save of an amendment: the filed return becomes its snapshot.
PageSavesAmendment ==
    LET k == desk["page"] IN
    /\ k.open /\ k.base > 0
    /\ row[k.q].status = "Submitted" /\ row[k.q].snap.gen.press = k.base
    /\ row' = [row EXCEPT ![k.q] = DraftOf(k.content)]
    /\ original' = [original EXCEPT ![k.q] = TRUE]
    /\ PageSaved
    /\ UNCHANGED <<Elsewhere, edits>>

\* filing.start: one return is open at a time, and may be opened again.  A Draft is
\* stored at once.
AssistantOpens(q) ==
    /\ Editing
    /\ desk["assistant"].open => desk["assistant"].q = q
    /\ \/ StoreDraft(q, Loaded(q))
          /\ desk' = [desk EXCEPT !["assistant"] = CopyOf(q, Loaded(q), TRUE)]
       \/ LeftDraft(q) /\ row' = row
          /\ desk' = [desk EXCEPT !["assistant"] =
                         [CopyOf(q, Blank, TRUE) EXCEPT !.left = TRUE]]
    /\ UNCHANGED <<Elsewhere, original>>

AssistantEdits == desk["assistant"].open /\ ~desk["assistant"].left

\* form.fill: a change the store refuses is not kept in the copy either.
AssistantFills ==
    /\ Editing
    /\ AssistantEdits
    /\ \E c \in Changed(desk["assistant"]) \ {desk["assistant"].content} :
         /\ StoreDraft(desk["assistant"].q, c)
         /\ desk' = [desk EXCEPT !["assistant"].content = c, !["assistant"].dirty = TRUE]
    /\ UNCHANGED <<Elsewhere, original>>

\* form.save_draft
AssistantSaves ==
    /\ AssistantEdits
    /\ StoreDraft(desk["assistant"].q, desk["assistant"].content)
    /\ desk' = [desk EXCEPT !["assistant"].dirty = FALSE]
    /\ UNCHANGED <<Elsewhere, original, edits>>

\* form.dismiss
AssistantDismisses ==
    /\ desk["assistant"].open /\ ~desk["assistant"].dirty
    /\ desk' = [desk EXCEPT !["assistant"] = Closed]
    /\ UNCHANGED <<Elsewhere, row, original, edits>>

-----------------------------------------------------------------------------
(* The way into the queue.                                                 *)

\* confirm_initial_profile_year.
ConfirmedProfile == IF profile = Unconfirmed THEN FirstVersion ELSE profile
ConfirmedStart ==
    IF profile = Unconfirmed /\ initial = UnknownQuarter THEN 1 ELSE initial

\* The election the return makes, or the one the year has.
AnnualOf(c) == IF ledger = "unrecorded" /\ c.item \in Regimes THEN c.item ELSE ledger

\* The election a queued return shows: its own answer, where Item 13 is asked of it.
ShownOn(q, c) ==
    IF Applicable(q, c.work, ConfirmedStart) = "yes" THEN AnnualOf(c) ELSE ledger

\* transition_to_queued finds no error in the reconciled return.
Transitions(q, c) ==
    /\ ConfirmedProfile \in Versions
    /\ Valid(q, c, ledger, ConfirmedStart)

OriginalFiled_Slip(q, c) == FALSE

\* Only an amended return follows a filed one.
OriginalFiled(q, c) == ~c.amended /\ original[q]

ReplacesOnlyDraft_Slip(q) == row[q].claim = "no"

ReplacesOnlyDraft(q) == ~LeftDraft(q)

\* save_queued_2551q_draft_and_election commits the return and the election.
Commits(q, c) ==
    /\ ~OriginalFiled(q, c)
    /\ ReplacesOnlyDraft(q)
    /\ c.item \in Regimes => ledger \in {"unrecorded", c.item}
    /\ ShownOn(q, c) = AnnualOf(c)
    /\ Valid(q, c, AnnualOf(c), ConfirmedStart)

\* named: c was read from the store, which gives it the id of its row.
Queued(q, c, named) ==
    [status |-> "Queued", claim |-> "no", content |-> c,
     snap |-> [annual |-> ShownOn(q, c), facts |-> ConfirmedProfile,
               late |-> Late(q, c), tries |-> 0,
               gen |-> [press |-> presses + 1, turn |-> 0], named |-> named]]

Press ==
    /\ presses < MaxPresses /\ presses' = presses + 1
    /\ initial' = ConfirmedStart /\ profile' = ConfirmedProfile
    /\ UNCHANGED <<overdue, original, worker, troubles, changes>>

Enqueue(q, c, named) ==
    /\ Transitions(q, c) /\ Commits(q, c)
    /\ row' = [row EXCEPT ![q] = Queued(q, c, named)]
    /\ ledger' = AnnualOf(c)

\* queue_form_draft: the stored return, reconciled, whatever the page shows.
QueueFromPage ==
    LET q == desk["page"].q
        c == Reconciled(q, row[q].content, ledger, ConfirmedStart)
    IN  /\ edits' = edits
        /\ desk["page"].open /\ desk["page"].stored /\ ~desk["page"].dirty
        /\ row[q].status = "Draft"
        /\ Press
        /\ \/ Enqueue(q, c, TRUE) /\ desk' = [desk EXCEPT !["page"] = Closed]
           \/ ~(Transitions(q, c) /\ Commits(q, c)) /\ UNCHANGED <<row, ledger, desk>>

\* send_draft reconciles the copy it is given; without a profile version that
\* also clears Item 13.
ForSending(q, c) ==
    IF ConfirmedProfile \in Versions THEN Reconciled(q, c, ledger, ConfirmedStart)
    ELSE [c EXCEPT !.item = "unanswered"]

\* A copy that fails Validate is saved; one the store refuses is not.
NotSent(q, c) ==
    /\ ledger' = ledger
    /\ \/ ~Transitions(q, c) /\ StoreDraft(q, c)
       \/ /\ Transitions(q, c) => ~Commits(q, c)
          /\ Transitions(q, c) \/ LeftDraft(q)
          /\ row' = row

\* form.send: the assistant's own copy, whatever is stored.
SendFromAssistant ==
    LET q == desk["assistant"].q
        c == ForSending(q, desk["assistant"].content)
    IN  /\ edits' = edits
        /\ AssistantEdits
        /\ Press
        /\ \/ /\ Enqueue(q, c, TRUE)
              /\ desk' = [desk EXCEPT !["assistant"].left = TRUE,
                                      !["assistant"].content = Blank]
           \/ /\ NotSent(q, c)
              /\ desk' = IF Transitions(q, c) THEN desk
                         ELSE [desk EXCEPT !["assistant"].content = c]

\* A filing made on another device: the stored or a new return, filled and sent.
FileFromPickup(q) ==
    /\ Editing
    /\ ~LeftDraft(q)
    /\ Press
    /\ \E work \in Works, item \in Items :
         LET filled == [Loaded(q) EXCEPT !.work = work, !.item = item]
             c == ForSending(q, filled)
         IN  /\ item # Loaded(q).item => ~Bound(q, Loaded(q)) /\ item # "unanswered"
             /\ Enqueue(q, c, row[q].status = "Draft") \/ NotSent(q, c)
    /\ desk' = desk

-----------------------------------------------------------------------------
(* The way out of it: the worker, and those who take a return back.        *)

Trouble == troubles < MaxTroubles /\ troubles' = troubles + 1
QueueFrame == <<initial, profile, overdue, original, desk, edits, presses, changes>>

Reverted_Slip(q) ==
    row' = [row EXCEPT ![q] = [DraftOf(row[q].content) EXCEPT !.claim = row[q].claim]]

\* revert_to_draft keeps what the filer entered, and nothing of the queue.
Reverted(q) == row' = [row EXCEPT ![q] = DraftOf(row[q].content)]

\* cancel_queued_2551q_submission compares the stored JSON with that of the return
\* as it was loaded, which names its row.
MayCancel(q) == row[q].snap.named

Cancel_Slip(q) ==
    /\ Trouble
    /\ row[q].status = "Queued" /\ row[q].claim = "no" /\ MayCancel(q)
    /\ Reverted(q)
    /\ ledger' = IF row[q].content.item = ledger THEN "unrecorded" ELSE ledger
    /\ UNCHANGED <<QueueFrame, worker>>

\* A queued return is taken back; the election it made stays recorded.
Cancel(q) ==
    /\ Trouble
    /\ row[q].status = "Queued" /\ row[q].claim = "no" /\ MayCancel(q)
    /\ Reverted(q)
    /\ UNCHANGED <<QueueFrame, ledger, worker>>

\* Reconciled with the profile as it is now, nothing the filer reviewed differs.
StillCurrent(q) ==
    /\ row[q].snap.annual = ledger /\ row[q].snap.facts = profile
    /\ row[q].snap.late = Late(q, row[q].content)

\* The XML of a return, which shows what was reviewed.
PayloadOf(q) ==
    [content |-> row[q].content, annual |-> row[q].snap.annual,
     facts |-> row[q].snap.facts, late |-> row[q].snap.late]

SeenNow(q) == [annual |-> ledger, facts |-> profile, overdue |-> q \in overdue]

\* The file to upload is made before the job connects.
Prepare(q) ==
    /\ worker = Idle
    /\ row[q].status = "Queued" /\ row[q].claim = "no"
    /\ \/ StillCurrent(q) /\ row' = row
          /\ worker' = [phase |-> "connecting", q |-> q, gen |-> row[q].snap.gen,
                        payload |-> PayloadOf(q), seen |-> SeenNow(q)]
       \/ ~StillCurrent(q) /\ Reverted(q) /\ worker' = Idle
    /\ UNCHANGED <<QueueFrame, ledger, troubles>>

SameGeneration_Slip == row[worker.q].status = "Queued" /\ row[worker.q].claim = "no"

\* The row is still the generation the worker prepared, and unclaimed.
SameGeneration ==
    /\ row[worker.q].status = "Queued" /\ row[worker.q].claim = "no"
    /\ row[worker.q].snap.gen = worker.gen

\* No session: one try less, unless the return was replaced meanwhile, or its
\* penalties changed (then the failure is not recorded).
ConnectFails ==
    /\ worker.phase = "connecting" /\ Trouble
    /\ LET q == worker.q IN
       IF ~SameGeneration THEN row' = row
       ELSE IF row[q].snap.tries + 1 >= MaxTries THEN Reverted(q)
       ELSE IF row[q].snap.late # Late(q, row[q].content) THEN row' = row
       ELSE row' = [row EXCEPT ![q].snap.tries = @ + 1,
                               ![q].snap.gen.turn = @ + 1, ![q].snap.named = TRUE]
    /\ worker' = Idle
    /\ UNCHANGED <<QueueFrame, ledger>>

ClaimChecks_Slip(q) == TRUE

\* claim_queued_2551q_submission checks again what the job checked.
ClaimChecks(q) == StillCurrent(q)

\* The job takes over the claimed row, not its payload.
Claim ==
    /\ worker.phase = "connecting"
    /\ \/ SameGeneration /\ ClaimChecks(worker.q)
          /\ row' = [row EXCEPT ![worker.q].claim = "claimed"]
          /\ worker' = [worker EXCEPT !.phase = "claimed", !.seen = SeenNow(worker.q),
                                      !.gen = row[worker.q].snap.gen]
       \/ SameGeneration /\ ~ClaimChecks(worker.q)
          /\ Reverted(worker.q) /\ worker' = Idle
       \/ ~SameGeneration /\ row' = row /\ worker' = Idle
    /\ UNCHANGED <<QueueFrame, ledger, troubles>>

\* The claim is still this worker's.
Owns == row[worker.q].claim # "no" /\ row[worker.q].snap.gen = worker.gen

MarkPut ==
    /\ worker.phase = "claimed"
    /\ \/ Owns /\ row' = [row EXCEPT ![worker.q].claim = "put"]
          /\ worker' = [worker EXCEPT !.phase = "put"]
       \/ ~Owns /\ row' = row /\ worker' = Idle
    /\ UNCHANGED <<QueueFrame, ledger, troubles>>

Finish ==
    /\ worker.phase = "put"
    /\ row' = IF Owns THEN [row EXCEPT ![worker.q].status = "Submitted",
                                       ![worker.q].claim = "no"]
              ELSE row
    /\ worker' = Idle
    /\ UNCHANGED <<QueueFrame, ledger, troubles>>

\* The upload fails, or the process dies: what is stored stays as it is.
WorkerStops ==
    /\ worker # Idle /\ Trouble
    /\ worker' = Idle
    /\ UNCHANGED <<QueueFrame, ledger, row>>

\* recover_expired_unstarted_2551q_claim.
RecoverExpired(q) ==
    /\ Trouble
    /\ row[q].claim = "claimed"
    /\ row' = [row EXCEPT ![q].claim = "no", ![q].snap.gen.turn = @ + 1]
    /\ UNCHANGED <<QueueFrame, ledger, worker>>

\* release_abandoned_claimed_2551q_submission, by a person.
Release(q) ==
    /\ Trouble
    /\ row[q].claim # "no"
    /\ Reverted(q)
    /\ UNCHANGED <<QueueFrame, ledger, worker>>

EditProfile ==
    /\ changes < MaxChanges /\ changes' = changes + 1
    /\ profile' \in (Versions \cup {Unresolved}) \ {profile}
    /\ UNCHANGED <<initial, ledger, overdue, row, original, desk, worker,
                   edits, presses, troubles>>

DeadlinePasses(q) ==
    /\ changes < MaxChanges /\ changes' = changes + 1
    /\ q \notin overdue
    /\ overdue' = overdue \cup {q}
    /\ UNCHANGED <<initial, profile, ledger, row, original, desk, worker,
                   edits, presses, troubles>>

-----------------------------------------------------------------------------

Init ==
    /\ initial \in InitialQuarters
    /\ profile \in {Unconfirmed, FirstVersion}
    /\ ledger \in Elections
    /\ overdue = {}
    /\ row = [q \in Quarters |-> [DraftOf(Blank) EXCEPT !.status = "None"]]
    /\ original = [q \in Quarters |-> FALSE]
    /\ desk = [d \in Desks |-> Closed]
    /\ worker = Idle
    /\ edits = 0 /\ presses = 0 /\ troubles = 0 /\ changes = 0

Next ==
    \/ \E q \in Quarters :
          \/ PageOpens(q) \/ PageAmends(q) \/ AssistantOpens(q)
          \/ FileFromPickup(q) \/ Cancel(q) \/ Prepare(q) \/ RecoverExpired(q) \/ Release(q)
          \/ DeadlinePasses(q)
    \/ PageEdits \/ PageSaves \/ PageSavesAmendment
    \/ AssistantFills \/ AssistantSaves \/ AssistantDismisses
    \/ QueueFromPage \/ SendFromAssistant
    \/ ConnectFails \/ Claim \/ MarkPut \/ Finish \/ WorkerStops
    \/ EditProfile

Spec == Init /\ [][Next]_vars

-----------------------------------------------------------------------------
(* Properties.                                                             *)

TypeOK ==
    /\ initial \in InitialQuarters \cup {1}
    /\ profile \in Versions \cup {Unconfirmed, Unresolved}
    /\ ledger \in Elections
    /\ overdue \subseteq Quarters
    /\ row \in [Quarters -> Row]
    /\ \A q \in Quarters : row[q].status # "Queued" => row[q].claim = "no"
    /\ original \in [Quarters -> BOOLEAN]
    /\ desk \in [Desks -> Copy \cup {Closed}]
    /\ worker \in Job \cup {Idle}
    /\ edits \in 0..MaxEdits /\ presses \in 0..MaxPresses
    /\ troubles \in 0..MaxTroubles /\ changes \in 0..MaxChanges

HasPT010(q) == row[q].content.work # "other"

\* A return with PT010 that is queued or filed shows an election, and it is the
\* one the year has: no later step (another quarter queued or taken back, an
\* amendment, a changed profile) leaves it filed under an election the year's
\* ledger does not hold.
RegimeStands ==
    \A q \in Quarters : LeftDraft(q) /\ HasPT010(q) =>
        row[q].snap.annual \in Regimes /\ row[q].snap.annual = ledger

\* In a year of the 8% option no queued or filed return taxes PT010: also not one
\* queued before the return that made the election.
EightPercentYearIsNil ==
    ledger = "eight_percent" =>
        \A q \in Quarters : LeftDraft(q) => row[q].content.work # "taxed PT010"

\* Once a filed version is kept for an amendment, only an amended return of that
\* quarter is queued or filed: also when a desk still has the copy from before.
OriginalOnce ==
    \A q \in Quarters : LeftDraft(q) /\ original[q] => row[q].content.amended

\* From the press to the filed return, nothing the filer reviewed changes; to
\* change it, the return goes back to Draft first, whatever another desk holds.
FrozenFromReview ==
    [][\A q \in Quarters : LeftDraft(q) /\ LeftDraft(q)' =>
          /\ row'[q].content = row[q].content
          /\ row'[q].snap.annual = row[q].snap.annual
          /\ row'[q].snap.facts = row[q].snap.facts
          /\ row'[q].snap.late = row[q].snap.late]_vars

\* What goes to BIR was made before the job connected, and the profile, the year's
\* election, the deadline and the return itself may change meanwhile: it agrees with
\* all of them as they are at the claim, and with the row that is filed for it.
UploadedIsCurrent ==
    worker.phase = "put" =>
        LET sent == worker.payload
        IN  /\ sent.annual = worker.seen.annual /\ sent.facts = worker.seen.facts
            /\ sent.late <=> worker.seen.overdue /\ sent.content.item # "eight_percent"
            /\ row[worker.q].claim = "put" => sent = PayloadOf(worker.q)

\* bir_module.rs, cancel_queued: "Cancel an unclaimed queued submission back to
\* Draft".
QueuedCanBeCancelled ==
    \A q \in Quarters : row[q].status = "Queued" /\ row[q].claim = "no" => MayCancel(q)

\* form_2551q.rs: "A later quarter whose filed Q1 is in this app files Q1's answer".
LaterQuarterFilesQ1Answer ==
    [][\A q \in Quarters \ {1} :
          ~LeftDraft(q) /\ LeftDraft(q)' /\ FiledQ1Item # "unanswered" =>
              row'[q].content.item = FiledQ1Item]_vars

=============================================================================
