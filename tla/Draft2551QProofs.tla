-------------------------- MODULE Draft2551QProofs --------------------------
(***************************************************************************)
(* Proofs about Draft2551Q for any quarters, profile versions, desks' edits*)
(* and failures: the returns in the queue and those that were filed agree  *)
(* with the election of the year and stay as they were reviewed.           *)
(***************************************************************************)
EXTENDS Draft2551Q, TLAPS

----------------------------------------------------------------------------
(* Contents *)

LEMMA Members ==
    /\ Regimes \subseteq Elections /\ Regimes \subseteq Items
    /\ "unrecorded" \in Elections /\ "unrecorded" \notin Regimes
    /\ "conflicting" \in Elections /\ "conflicting" \notin Regimes
    /\ "unanswered" \in Items /\ "not_applicable" \in Items
    /\ "eight_percent" \in Regimes /\ "graduated" \in Regimes
    /\ Blank \in Content
    /\ NoSnapshot \in Snapshot
BY VersionsAssumption DEF Regimes, Elections, Items, Works, Blank, Content, NoSnapshot, Snapshot

LEMMA ContentFields == \A c \in Content : c.item \in Items /\ c.work \in Works
                                          /\ c.filedQ1 \in Items /\ c.amended \in BOOLEAN
BY DEF Content

LEMMA SettledType ==
    ASSUME NEW q, NEW c \in Content, NEW elected \in Elections, NEW start
    PROVE  SettledItem(q, c, elected, start) \in Items
BY Members, ContentFields DEF SettledItem

\* Reconciling changes the answer to Item 13 only.
LEMMA ReconciledType ==
    ASSUME NEW q, NEW c \in Content, NEW elected \in Elections, NEW start
    PROVE  Reconciled(q, c, elected, start) \in Content
<1>1. SettledItem(q, c, elected, start) \in Items
  BY SettledType
<1>2. QED BY <1>1 DEF Reconciled, Content

\* What IndType needs of the state: the parts of TypeOK that the rows rest on.
LEMMA RowFacts ==
    ASSUME TypeOK, NEW q \in Quarters
    PROVE  /\ row[q] \in Row /\ row[q].content \in Content /\ row[q].snap \in Snapshot
           /\ row[q].snap.annual \in Elections
           /\ row[q].snap.tries \in Nat
           /\ row[q].snap.gen.press \in Nat /\ row[q].snap.gen.turn \in Nat
           /\ ledger \in Elections
BY DEF TypeOK, Row, Snapshot

LEMMA FiledQ1Type == ASSUME TypeOK PROVE FiledQ1Item \in Items
<1>1. row[1].content \in Content
  BY QuartersAssumption, RowFacts
<1>2. row[1].content.item \in Items
  BY <1>1, ContentFields
<1>3. QED BY <1>2, Members DEF FiledQ1Item

LEMMA NewContentType == ASSUME TypeOK, NEW q \in Quarters PROVE NewContent(q) \in Content
<1> DEFINE item == IF Applicable(q, "nil PT010", initial) = "yes" /\ ledger \in Regimes
                   THEN ledger ELSE "unanswered"
<1>1. item \in Items
  BY Members
<1>2. NewContent(q) = [Blank EXCEPT !.item = item]
  BY DEF NewContent
<1>3. QED BY <1>1, <1>2, Members DEF Content

LEMMA LoadedType == ASSUME TypeOK, NEW q \in Quarters PROVE Loaded(q) \in Content
<1> DEFINE stored == IF row[q].status = "None" THEN NewContent(q) ELSE row[q].content
<1>1. stored \in Content
  BY NewContentType, RowFacts
<1>2. ASSUME NEW c \in Content PROVE Adopted(q, c) \in Content
  <2> DEFINE item == IF FiledQ1Item = "unanswered" THEN c.item ELSE FiledQ1Item
  <2>1. item \in Items /\ FiledQ1Item \in Items
    BY FiledQ1Type, ContentFields
  <2>2. Adopted(q, c) = IF q = 1 THEN c ELSE [c EXCEPT !.filedQ1 = FiledQ1Item, !.item = item]
    BY DEF Adopted
  <2>3. QED BY <2>1, <2>2 DEF Content
<1>3. QED BY <1>1, <1>2 DEF Loaded

LEMMA DraftOfType == ASSUME NEW c \in Content
                     PROVE  DraftOf(c) \in Row /\ DraftOf(c).status = "Draft"
                            /\ DraftOf(c).claim = "no" /\ DraftOf(c).content = c
                            /\ DraftOf(c).snap = NoSnapshot
BY Members DEF DraftOf, Row

----------------------------------------------------------------------------
(* What a step does to the returns *)

\* A return enters the queue; its election is that of the year from then on.
Enqueued(q) ==
    /\ ~LeftDraft(q)
    /\ \E c \in Content, named \in BOOLEAN :
          /\ Transitions(q, c) /\ Commits(q, c)
          /\ row'[q] = Queued(q, c, named)
          /\ ledger' = AnnualOf(c)
    /\ presses' = presses + 1

\* A return moves on in the queue, or out of it to Submitted, as it was reviewed.
Advanced(q) ==
    /\ row[q].status = "Queued" /\ LeftDraft(q)'
    /\ row'[q].content = row[q].content
    /\ row'[q].snap.annual = row[q].snap.annual
    /\ row'[q].snap.facts = row[q].snap.facts
    /\ row'[q].snap.late = row[q].snap.late
    /\ row'[q].snap.gen.press = row[q].snap.gen.press
    /\ row'[q].claim = "put" => row[q].claim = "put" \/ worker.phase = "claimed"

\* At most one return changes, in one of three ways.
RowEffect(q) ==
    /\ row' \in [Quarters -> Row]
    /\ row'[q].status # "Queued" => row'[q].claim = "no"
    /\ \A p \in Quarters \ {q} : row'[p] = row[p]
    /\ \/ row'[q] = row[q] /\ ledger' = ledger
       \/ Enqueued(q)
       \/ row'[q].status = "Draft" /\ row'[q].snap = NoSnapshot /\ ledger' = ledger
       \/ Advanced(q) /\ ledger' = ledger

\* A row of type Row is put in place of another.
LEMMA RowUpdate ==
    ASSUME TypeOK, NEW q \in Quarters, NEW r \in Row, row' = [row EXCEPT ![q] = r]
    PROVE  /\ row' \in [Quarters -> Row] /\ row'[q] = r
           /\ \A p \in Quarters \ {q} : row'[p] = row[p]
BY DEF TypeOK

LEMMA NoRowEffect ==
    ASSUME TypeOK, row' = row, ledger' = ledger, NEW q \in Quarters PROVE RowEffect(q)
BY DEF TypeOK, RowEffect

LEMMA DraftEffect ==
    ASSUME TypeOK, NEW q \in Quarters, NEW c \in Content,
           row' = [row EXCEPT ![q] = DraftOf(c)], ledger' = ledger
    PROVE  RowEffect(q)
<1>1. /\ row' \in [Quarters -> Row] /\ row'[q] = DraftOf(c)
      /\ \A p \in Quarters \ {q} : row'[p] = row[p]
  BY DraftOfType, RowUpdate
<1>2. QED BY <1>1, DraftOfType DEF RowEffect

LEMMA StoreEffect ==
    ASSUME TypeOK, NEW q \in Quarters, NEW c \in Content, StoreDraft(q, c), ledger' = ledger
    PROVE  RowEffect(q)
BY DraftEffect DEF StoreDraft

LEMMA RevertEffect ==
    ASSUME TypeOK, NEW q \in Quarters, Reverted(q), ledger' = ledger
    PROVE  RowEffect(q)
BY DraftEffect, RowFacts DEF Reverted

LEMMA ShownType == ASSUME TypeOK, NEW q, NEW c \in Content
                   PROVE  ShownOn(q, c) \in Elections /\ AnnualOf(c) \in Elections
<1>1. ledger \in Elections
  BY DEF TypeOK
<1>2. QED BY <1>1, Members DEF ShownOn, AnnualOf

\* A queued return carries the content it was queued with.
LEMMA QueuedFacts ==
    ASSUME TypeOK, NEW q \in Quarters, NEW c \in Content, NEW named \in BOOLEAN,
           Transitions(q, c)
    PROVE  /\ Queued(q, c, named) \in Row
           /\ Queued(q, c, named).status = "Queued" /\ Queued(q, c, named).claim = "no"
           /\ Queued(q, c, named).content = c
           /\ Queued(q, c, named).snap.annual = ShownOn(q, c)
           /\ Queued(q, c, named).snap.gen.press = presses + 1
<1> DEFINE gen == [press |-> presses + 1, turn |-> 0]
           snap == [annual |-> ShownOn(q, c), facts |-> ConfirmedProfile,
                    late |-> Late(q, c), tries |-> 0, gen |-> gen, named |-> named]
<1>1. presses + 1 \in Nat
  BY DEF TypeOK
<1>2. gen \in [press : Nat, turn : Nat]
  BY <1>1
<1>3. Late(q, c) \in BOOLEAN
  BY DEF Late
<1>4. ConfirmedProfile \in Versions
  BY DEF Transitions
<1>5. snap \in Snapshot
  BY <1>2, <1>3, <1>4, ShownType DEF Snapshot
<1>6. Queued(q, c, named) = [status |-> "Queued", claim |-> "no", content |-> c, snap |-> snap]
  BY DEF Queued
<1>7. QED BY <1>5, <1>6 DEF Row

LEMMA EnqueueEffect ==
    ASSUME TypeOK, NEW q \in Quarters, NEW c \in Content, NEW named \in BOOLEAN,
           Enqueue(q, c, named), presses' = presses + 1
    PROVE  RowEffect(q)
<1>1. /\ Transitions(q, c) /\ Commits(q, c) /\ ledger' = AnnualOf(c)
      /\ row' = [row EXCEPT ![q] = Queued(q, c, named)]
  BY DEF Enqueue
<1>2. /\ row' \in [Quarters -> Row] /\ row'[q] = Queued(q, c, named)
      /\ \A p \in Quarters \ {q} : row'[p] = row[p]
  BY <1>1, QueuedFacts, RowUpdate
<1>3. row'[q].status = "Queued" /\ row'[q].claim = "no"
  BY <1>1, <1>2, QueuedFacts
<1>4. ~LeftDraft(q)
  BY <1>1 DEF Commits, ReplacesOnlyDraft
<1>5. Enqueued(q)
  BY <1>1, <1>2, <1>4 DEF Enqueued
<1>6. QED BY <1>2, <1>3, <1>5 DEF RowEffect

\* A row that keeps what was reviewed.
LEMMA AdvanceEffect ==
    ASSUME TypeOK, NEW q \in Quarters, NEW r \in Row, row' = [row EXCEPT ![q] = r],
           ledger' = ledger, row[q].status = "Queued", r.status \in {"Queued", "Submitted"},
           r.status = "Submitted" => r.claim = "no",
           r.content = row[q].content, r.snap.annual = row[q].snap.annual,
           r.snap.facts = row[q].snap.facts, r.snap.late = row[q].snap.late,
           r.snap.gen.press = row[q].snap.gen.press,
           r.claim = "put" => row[q].claim = "put" \/ worker.phase = "claimed"
    PROVE  RowEffect(q)
<1>1. /\ row' \in [Quarters -> Row] /\ row'[q] = r
      /\ \A p \in Quarters \ {q} : row'[p] = row[p]
  BY RowUpdate
<1>2. LeftDraft(q)'
  BY <1>1 DEF LeftDraft
<1>3. Advanced(q)
  BY <1>1, <1>2 DEF Advanced
<1>4. QED BY <1>1, <1>3 DEF RowEffect

----------------------------------------------------------------------------
(* Every step *)

LEMMA OpenCopy ==
    ASSUME TypeOK, NEW d \in Desks, desk[d].open
    PROVE  /\ desk[d] \in Copy /\ desk[d].q \in Quarters /\ desk[d].content \in Content
<1>1. desk[d] \in Copy \cup {Closed}
  BY DEF TypeOK
<1>2. desk[d] # Closed
  BY DEF Closed
<1>3. QED BY <1>1, <1>2 DEF Copy

LEMMA TheDesks == "page" \in Desks /\ "assistant" \in Desks
BY DEF Desks

LEMMA ChangedType ==
    ASSUME NEW k \in Copy, NEW c \in Changed(k)
    PROVE  c \in Content
<1>1. k.content \in Content
  BY DEF Copy
<1>2. \A w \in Works : [k.content EXCEPT !.work = w] \in Content
  BY <1>1 DEF Content
<1>3. \A i \in Items : [k.content EXCEPT !.item = i] \in Content
  BY <1>1 DEF Content
<1>4. QED BY <1>2, <1>3 DEF Changed

LEMMA ForSendingType ==
    ASSUME TypeOK, NEW q \in Quarters, NEW c \in Content
    PROVE  ForSending(q, c) \in Content
<1>1. ledger \in Elections
  BY DEF TypeOK
<1>2. Reconciled(q, c, ledger, ConfirmedStart) \in Content
  BY <1>1, ReconciledType
<1>3. [c EXCEPT !.item = "unanswered"] \in Content
  BY Members DEF Content
<1>4. QED BY <1>2, <1>3 DEF ForSending

LEMMA AssistantCopy ==
    ASSUME TypeOK, AssistantEdits
    PROVE  /\ desk["assistant"] \in Copy /\ desk["assistant"].q \in Quarters
           /\ desk["assistant"].content \in Content
BY OpenCopy, TheDesks DEF AssistantEdits

LEMMA NotSentEffect ==
    ASSUME TypeOK, NEW q \in Quarters, NEW c \in Content, NotSent(q, c)
    PROVE  RowEffect(q)
BY StoreEffect, NoRowEffect DEF NotSent

LEMMA DeskEffect ==
    ASSUME TypeOK, NEW q \in Quarters,
           PageOpens(q) \/ PageAmends(q) \/ AssistantOpens(q) \/ FileFromPickup(q)
    PROVE  RowEffect(q)
<1>1. Loaded(q) \in Content
  BY LoadedType
<1>2. CASE PageOpens(q)
  BY <1>1, <1>2, StoreEffect, NoRowEffect DEF PageOpens, Elsewhere
<1>3. CASE PageAmends(q)
  BY <1>3, NoRowEffect DEF PageAmends, Elsewhere
<1>4. CASE AssistantOpens(q)
  BY <1>1, <1>4, StoreEffect, NoRowEffect DEF AssistantOpens, Elsewhere
<1>5. CASE FileFromPickup(q)
  <2>1. PICK work \in Works, item \in Items :
          LET c == ForSending(q, [Loaded(q) EXCEPT !.work = work, !.item = item])
          IN  Enqueue(q, c, row[q].status = "Draft") \/ NotSent(q, c)
    BY <1>5 DEF FileFromPickup
  <2> DEFINE filled == [Loaded(q) EXCEPT !.work = work, !.item = item]
             c == ForSending(q, filled)
  <2>2. filled \in Content
    BY <1>1 DEF Content
  <2>3. c \in Content
    BY <2>2, ForSendingType
  <2>4. (row[q].status = "Draft") \in BOOLEAN
    OBVIOUS
  <2>5. Enqueue(q, c, row[q].status = "Draft") \/ NotSent(q, c)
    BY <2>1
  <2>7. presses' = presses + 1
    BY <1>5 DEF FileFromPickup, Press
  <2> HIDE DEF c
  <2>6. QED BY <2>3, <2>4, <2>5, <2>7, EnqueueEffect, NotSentEffect
<1>6. QED BY <1>2, <1>3, <1>4, <1>5

LEMMA CopyEffect ==
    ASSUME TypeOK, \/ PageEdits \/ PageSaves \/ PageSavesAmendment
                   \/ AssistantFills \/ AssistantSaves \/ AssistantDismisses
    PROVE  \E q \in Quarters : RowEffect(q)
<1>1. CASE PageEdits \/ AssistantDismisses
  BY <1>1, NoRowEffect, QuartersAssumption DEF PageEdits, AssistantDismisses, Elsewhere
<1>2. CASE PageSaves
  BY <1>2, OpenCopy, TheDesks, StoreEffect DEF PageSaves, Elsewhere
<1>3. CASE PageSavesAmendment
  BY <1>3, OpenCopy, TheDesks, DraftEffect DEF PageSavesAmendment, Elsewhere
<1>4. CASE AssistantFills
  <2>1. AssistantEdits /\ ledger' = ledger
    BY <1>4 DEF AssistantFills, Elsewhere
  <2>2. PICK c \in Changed(desk["assistant"]) : StoreDraft(desk["assistant"].q, c)
    BY <1>4 DEF AssistantFills
  <2>3. QED BY <2>1, <2>2, AssistantCopy, ChangedType, StoreEffect
<1>5. CASE AssistantSaves
  BY <1>5, AssistantCopy, StoreEffect DEF AssistantSaves, Elsewhere
<1>6. QED BY <1>1, <1>2, <1>3, <1>4, <1>5

LEMMA PressEffect ==
    ASSUME TypeOK, QueueFromPage \/ SendFromAssistant
    PROVE  \E q \in Quarters : RowEffect(q)
<1>1. CASE QueueFromPage
  <2> DEFINE q == desk["page"].q
             c == Reconciled(q, row[q].content, ledger, ConfirmedStart)
  <2>1. q \in Quarters
    BY <1>1, OpenCopy, TheDesks DEF QueueFromPage
  <2>2. row[q].content \in Content /\ ledger \in Elections
    BY <2>1, RowFacts
  <2>3. c \in Content
    BY <2>2, ReconciledType
  <2>4. Enqueue(q, c, TRUE) \/ (row' = row /\ ledger' = ledger)
    BY <1>1 DEF QueueFromPage
  <2>6. presses' = presses + 1
    BY <1>1 DEF QueueFromPage, Press
  <2> HIDE DEF q, c
  <2>5. QED BY <2>1, <2>3, <2>4, <2>6, EnqueueEffect, NoRowEffect
<1>2. CASE SendFromAssistant
  <2> DEFINE q == desk["assistant"].q
             c == ForSending(q, desk["assistant"].content)
  <2>1. q \in Quarters /\ desk["assistant"].content \in Content
    BY <1>2, AssistantCopy DEF SendFromAssistant
  <2>2. c \in Content
    BY <2>1, ForSendingType
  <2>3. Enqueue(q, c, TRUE) \/ NotSent(q, c)
    BY <1>2 DEF SendFromAssistant
  <2>5. presses' = presses + 1
    BY <1>2 DEF SendFromAssistant, Press
  <2> HIDE DEF q, c
  <2>4. QED BY <2>1, <2>2, <2>3, <2>5, EnqueueEffect, NotSentEffect
<1>3. QED BY <1>1, <1>2

LEMMA ClaimedIsQueued ==
    ASSUME TypeOK, NEW q \in Quarters, row[q].claim # "no"
    PROVE  row[q].status = "Queued"
BY DEF TypeOK

\* The worker's quarter while it works.
LEMMA WorkersQuarter ==
    ASSUME TypeOK, worker # Idle
    PROVE  worker \in Job /\ worker.q \in Quarters
<1>1. worker \in Job
  BY DEF TypeOK
<1>2. QED BY <1>1 DEF Job

\* Another try of the same queued return: its reviewed part stays.
LEMMA RetryEffect ==
    ASSUME TypeOK, NEW q \in Quarters, row[q].status = "Queued", ledger' = ledger,
           row' = [row EXCEPT ![q].snap.tries = @ + 1,
                              ![q].snap.gen.turn = @ + 1, ![q].snap.named = TRUE]
    PROVE  RowEffect(q)
<1> DEFINE gen == [row[q].snap.gen EXCEPT !.turn = @ + 1]
           snap == [row[q].snap EXCEPT !.tries = @ + 1, !.gen = gen, !.named = TRUE]
           r == [row[q] EXCEPT !.snap = snap]
<1>1. row[q] \in Row /\ row[q].snap \in Snapshot /\ row[q].snap.gen \in [press : Nat, turn : Nat]
  BY RowFacts DEF Snapshot
<1>2. gen \in [press : Nat, turn : Nat]
  BY <1>1
<1>3. /\ snap \in Snapshot /\ snap.annual = row[q].snap.annual
      /\ snap.facts = row[q].snap.facts /\ snap.late = row[q].snap.late
      /\ snap.gen.press = row[q].snap.gen.press
  <2>1. row[q].snap.tries + 1 \in Nat
    BY <1>1 DEF Snapshot
  <2>2. QED BY <1>1, <1>2, <2>1 DEF Snapshot
<1>4. /\ r \in Row /\ r.status = "Queued" /\ r.claim = row[q].claim
      /\ r.content = row[q].content /\ r.snap = snap
  BY <1>1, <1>3 DEF Row
<1>5. row' = [row EXCEPT ![q] = r]
  BY <1>1 DEF Row, Snapshot
<1> HIDE DEF r, snap
<1>6. QED BY <1>3, <1>4, <1>5, AdvanceEffect

\* An expired claim is given back.
LEMMA TurnEffect ==
    ASSUME TypeOK, NEW q \in Quarters, row[q].status = "Queued", ledger' = ledger,
           row' = [row EXCEPT ![q].claim = "no", ![q].snap.gen.turn = @ + 1]
    PROVE  RowEffect(q)
<1> DEFINE gen == [row[q].snap.gen EXCEPT !.turn = @ + 1]
           snap == [row[q].snap EXCEPT !.gen = gen]
           r == [row[q] EXCEPT !.claim = "no", !.snap = snap]
<1>1. row[q] \in Row /\ row[q].snap \in Snapshot /\ row[q].snap.gen \in [press : Nat, turn : Nat]
  BY RowFacts DEF Snapshot
<1>2. gen \in [press : Nat, turn : Nat]
  BY <1>1
<1>3. /\ snap \in Snapshot /\ snap.annual = row[q].snap.annual
      /\ snap.facts = row[q].snap.facts /\ snap.late = row[q].snap.late
      /\ snap.gen.press = row[q].snap.gen.press
  BY <1>1, <1>2 DEF Snapshot
<1>4. /\ r \in Row /\ r.status = "Queued" /\ r.claim = "no"
      /\ r.content = row[q].content /\ r.snap = snap
  BY <1>1, <1>3 DEF Row
<1>5. row' = [row EXCEPT ![q] = r]
  BY <1>1 DEF Row, Snapshot
<1> HIDE DEF r, snap
<1>6. QED BY <1>3, <1>4, <1>5, AdvanceEffect

\* A claim, its PUT, and the end of the upload.
LEMMA ClaimEffect ==
    ASSUME TypeOK, NEW q \in Quarters, row[q].status = "Queued", ledger' = ledger,
           NEW claim \in {"no", "claimed", "put"}, NEW status \in {"Queued", "Submitted"},
           status = "Submitted" => claim = "no",
           claim = "put" => worker.phase = "claimed",
           row' = [row EXCEPT ![q] = [row[q] EXCEPT !.status = status, !.claim = claim]]
    PROVE  RowEffect(q)
<1> DEFINE r == [row[q] EXCEPT !.status = status, !.claim = claim]
<1>1. row[q] \in Row
  BY RowFacts
<1>2. /\ r \in Row /\ r.status = status /\ r.claim = claim
      /\ r.content = row[q].content /\ r.snap = row[q].snap
  BY <1>1 DEF Row
<1>3. row' = [row EXCEPT ![q] = r]
  OBVIOUS
<1> HIDE DEF r
<1>4. QED BY <1>2, <1>3, AdvanceEffect

LEMMA TakenBackEffect ==
    ASSUME TypeOK, NEW q \in Quarters,
           Cancel(q) \/ Prepare(q) \/ RecoverExpired(q) \/ Release(q) \/ DeadlinePasses(q)
    PROVE  RowEffect(q)
<1>1. CASE Cancel(q)
  BY <1>1, RevertEffect DEF Cancel
<1>2. CASE Prepare(q)
  BY <1>2, RevertEffect, NoRowEffect DEF Prepare
<1>3. CASE RecoverExpired(q)
  BY <1>3, TurnEffect, ClaimedIsQueued DEF RecoverExpired
<1>4. CASE Release(q)
  BY <1>4, RevertEffect DEF Release
<1>5. CASE DeadlinePasses(q)
  BY <1>5, NoRowEffect DEF DeadlinePasses
<1>6. QED BY <1>1, <1>2, <1>3, <1>4, <1>5

LEMMA WorkerEffect ==
    ASSUME TypeOK, ConnectFails \/ Claim \/ MarkPut \/ Finish \/ WorkerStops \/ EditProfile
    PROVE  \E q \in Quarters : RowEffect(q)
<1>1. CASE EditProfile \/ WorkerStops
  BY <1>1, NoRowEffect, QuartersAssumption DEF EditProfile, WorkerStops
<1>2. CASE ConnectFails
  <2>1. worker # Idle
    BY <1>2 DEF ConnectFails, Idle
  <2> DEFINE q == worker.q
  <2>2. q \in Quarters
    BY <2>1, WorkersQuarter
  <2>3. ledger' = ledger
    BY <1>2 DEF ConnectFails
  <2>4. \/ row' = row
        \/ Reverted(q)
        \/ /\ row[q].status = "Queued"
           /\ row' = [row EXCEPT ![q].snap.tries = @ + 1,
                                 ![q].snap.gen.turn = @ + 1, ![q].snap.named = TRUE]
    BY <1>2, Zenon DEF ConnectFails, SameGeneration
  <2> HIDE DEF q
  <2>5. QED BY <2>2, <2>3, <2>4, NoRowEffect, RevertEffect, RetryEffect
<1>3. CASE Claim
  <2>1. worker # Idle
    BY <1>3 DEF Claim, Idle
  <2> DEFINE q == worker.q
  <2>2. q \in Quarters
    BY <2>1, WorkersQuarter
  <2>3. ledger' = ledger
    BY <1>3 DEF Claim
  <2>4. \/ row' = row
        \/ Reverted(q)
        \/ /\ row[q].status = "Queued"
           /\ row' = [row EXCEPT ![q].claim = "claimed"]
    BY <1>3, Zenon DEF Claim, SameGeneration
  <2> HIDE DEF q
  <2>5. CASE /\ row[q].status = "Queued"
             /\ row' = [row EXCEPT ![q].claim = "claimed"]
    <3>1. row[q] \in Row /\ row \in [Quarters -> Row]
      BY <2>2, RowFacts DEF TypeOK
    <3>2. row' = [row EXCEPT ![q] = [row[q] EXCEPT !.status = "Queued", !.claim = "claimed"]]
      BY <2>2, <2>5, <3>1 DEF Row
    <3>3. QED BY <2>2, <2>3, <2>5, <3>2, ClaimEffect
  <2>6. QED BY <2>2, <2>3, <2>4, <2>5, NoRowEffect, RevertEffect
<1>4. CASE MarkPut
  <2>1. worker # Idle
    BY <1>4 DEF MarkPut, Idle
  <2> DEFINE q == worker.q
  <2>2. q \in Quarters
    BY <2>1, WorkersQuarter
  <2>3. ledger' = ledger
    BY <1>4 DEF MarkPut
  <2>4. \/ row' = row
        \/ row[q].claim # "no" /\ row' = [row EXCEPT ![q].claim = "put"]
    BY <1>4, Zenon DEF MarkPut, Owns
  <2>7. worker.phase = "claimed"
    BY <1>4 DEF MarkPut
  <2> HIDE DEF q
  <2>5. CASE row[q].claim # "no" /\ row' = [row EXCEPT ![q].claim = "put"]
    <3>1. row[q] \in Row /\ row \in [Quarters -> Row] /\ row[q].status = "Queued"
      BY <2>2, <2>5, RowFacts, ClaimedIsQueued DEF TypeOK
    <3>2. row' = [row EXCEPT ![q] = [row[q] EXCEPT !.status = "Queued", !.claim = "put"]]
      BY <2>2, <2>5, <3>1 DEF Row
    <3>3. QED BY <2>2, <2>3, <2>7, <3>1, <3>2, ClaimEffect
  <2>6. QED BY <2>2, <2>3, <2>4, <2>5, NoRowEffect
<1>5. CASE Finish
  <2>1. worker # Idle
    BY <1>5 DEF Finish, Idle
  <2> DEFINE q == worker.q
  <2>2. q \in Quarters
    BY <2>1, WorkersQuarter
  <2>3. ledger' = ledger
    BY <1>5 DEF Finish
  <2>4. \/ row' = row
        \/ /\ row[q].claim # "no"
           /\ row' = [row EXCEPT ![q].status = "Submitted", ![q].claim = "no"]
    BY <1>5, Zenon DEF Finish, Owns
  <2> HIDE DEF q
  <2>5. CASE /\ row[q].claim # "no"
             /\ row' = [row EXCEPT ![q].status = "Submitted", ![q].claim = "no"]
    <3>1. row[q] \in Row /\ row \in [Quarters -> Row] /\ row[q].status = "Queued"
      BY <2>2, <2>5, RowFacts, ClaimedIsQueued DEF TypeOK
    <3>2. row' = [row EXCEPT ![q] = [row[q] EXCEPT !.status = "Submitted", !.claim = "no"]]
      BY <2>2, <2>5, <3>1 DEF Row
    <3>3. QED BY <2>2, <2>3, <3>1, <3>2, ClaimEffect
  <2>6. QED BY <2>2, <2>3, <2>4, <2>5, NoRowEffect
<1>6. QED BY <1>1, <1>2, <1>3, <1>4, <1>5

\* Every step changes at most one return, and in one of the three ways.
LEMMA StepEffect ==
    ASSUME TypeOK, Next
    PROVE  \E q \in Quarters : RowEffect(q)
BY DeskEffect, CopyEffect, PressEffect, TakenBackEffect, WorkerEffect DEF Next

----------------------------------------------------------------------------
(* Types *)

LEMMA RowTypeKept ==
    ASSUME TypeOK, NEW q \in Quarters, RowEffect(q)
    PROVE  /\ row' \in [Quarters -> Row] /\ ledger' \in Elections
           /\ \A p \in Quarters : row'[p].status # "Queued" => row'[p].claim = "no"
<1>1. row' \in [Quarters -> Row]
  BY DEF RowEffect
<1>2. \A p \in Quarters : row'[p].status # "Queued" => row'[p].claim = "no"
  BY DEF RowEffect, TypeOK
<1>3. ledger' \in Elections
  BY ShownType DEF RowEffect, Enqueued, TypeOK
<1>4. QED BY <1>1, <1>2, <1>3

LEMMA DeskUpdate ==
    ASSUME TypeOK, NEW d \in Desks, NEW k \in Copy \cup {Closed},
           desk' = [desk EXCEPT ![d] = k]
    PROVE  desk' \in [Desks -> Copy \cup {Closed}]
BY DEF TypeOK

LEMMA CopyOfType ==
    ASSUME NEW q \in Quarters, NEW c \in Content, NEW stored \in BOOLEAN
    PROVE  /\ CopyOf(q, c, stored) \in Copy
           /\ [CopyOf(q, c, stored) EXCEPT !.left = TRUE] \in Copy
           /\ \A n \in Nat : [CopyOf(q, c, stored) EXCEPT !.base = n, !.dirty = TRUE] \in Copy
BY DEF CopyOf, Copy

LEMMA CopyEdited ==
    ASSUME TypeOK, NEW d \in Desks, desk[d] \in Copy, NEW c \in Content
    PROVE  /\ desk' = [desk EXCEPT ![d].content = c, ![d].dirty = TRUE] =>
                desk' \in [Desks -> Copy \cup {Closed}]
           /\ desk' = [desk EXCEPT ![d].content = c] => desk' \in [Desks -> Copy \cup {Closed}]
           /\ desk' = [desk EXCEPT ![d].dirty = FALSE] => desk' \in [Desks -> Copy \cup {Closed}]
           /\ desk' = [desk EXCEPT ![d].left = TRUE, ![d].content = c] =>
                desk' \in [Desks -> Copy \cup {Closed}]
           /\ desk' = [desk EXCEPT ![d].stored = TRUE, ![d].dirty = FALSE, ![d].base = 0] =>
                desk' \in [Desks -> Copy \cup {Closed}]
<1>1. desk \in [Desks -> Copy \cup {Closed}]
  BY DEF TypeOK
<1>2. /\ [desk[d] EXCEPT !.content = c, !.dirty = TRUE] \in Copy
      /\ [desk[d] EXCEPT !.content = c] \in Copy
      /\ [desk[d] EXCEPT !.dirty = FALSE] \in Copy
      /\ [desk[d] EXCEPT !.left = TRUE, !.content = c] \in Copy
      /\ [desk[d] EXCEPT !.stored = TRUE, !.dirty = FALSE, !.base = 0] \in Copy
  BY DEF Copy
<1> HIDE DEF Copy
<1>3. \A k \in Copy : [desk EXCEPT ![d] = k] \in [Desks -> Copy \cup {Closed}]
  BY <1>1
<1>4. /\ [desk EXCEPT ![d].content = c, ![d].dirty = TRUE]
           = [desk EXCEPT ![d] = [desk[d] EXCEPT !.content = c, !.dirty = TRUE]]
      /\ [desk EXCEPT ![d].content = c] = [desk EXCEPT ![d] = [desk[d] EXCEPT !.content = c]]
      /\ [desk EXCEPT ![d].dirty = FALSE] = [desk EXCEPT ![d] = [desk[d] EXCEPT !.dirty = FALSE]]
  BY <1>1
<1>5. [desk EXCEPT ![d].left = TRUE, ![d].content = c]
          = [desk EXCEPT ![d] = [desk[d] EXCEPT !.left = TRUE, !.content = c]]
  BY <1>1
<1>6. [desk EXCEPT ![d].stored = TRUE, ![d].dirty = FALSE, ![d].base = 0]
          = [desk EXCEPT ![d] = [desk[d] EXCEPT !.stored = TRUE, !.dirty = FALSE, !.base = 0]]
  BY <1>1
<1>7. /\ [desk EXCEPT ![d].content = c, ![d].dirty = TRUE] \in [Desks -> Copy \cup {Closed}]
      /\ [desk EXCEPT ![d].content = c] \in [Desks -> Copy \cup {Closed}]
      /\ [desk EXCEPT ![d].dirty = FALSE] \in [Desks -> Copy \cup {Closed}]
  BY <1>2, <1>3, <1>4
<1>8. [desk EXCEPT ![d].left = TRUE, ![d].content = c] \in [Desks -> Copy \cup {Closed}]
  BY <1>2, <1>3, <1>5
<1>9. [desk EXCEPT ![d].stored = TRUE, ![d].dirty = FALSE, ![d].base = 0]
          \in [Desks -> Copy \cup {Closed}]
  BY <1>2, <1>3, <1>6
<1>10. QED BY <1>7, <1>8, <1>9, Zenon

LEMMA OpeningKeepsDesks ==
    ASSUME TypeOK, NEW q \in Quarters,
           PageOpens(q) \/ PageAmends(q) \/ AssistantOpens(q) \/ FileFromPickup(q)
    PROVE  desk' \in [Desks -> Copy \cup {Closed}]
<1>1. Loaded(q) \in Content /\ "page" \in Desks /\ "assistant" \in Desks
  BY LoadedType, TheDesks
<1>2. CASE PageOpens(q)
  <2>1. (row[q].status = "Draft") \in BOOLEAN
    OBVIOUS
  <2>2. desk' = [desk EXCEPT !["page"] = CopyOf(q, Loaded(q), row[q].status = "Draft")]
    BY <1>2 DEF PageOpens
  <2>3. CopyOf(q, Loaded(q), row[q].status = "Draft") \in Copy
    BY <1>1, <2>1, CopyOfType
  <2>4. QED BY <1>1, <2>2, <2>3, DeskUpdate
<1>3. CASE PageAmends(q)
  <2> DEFINE c == [row[q].content EXCEPT !.amended = TRUE]
  <2>1. row[q].content \in Content /\ row[q].snap.gen.press \in Nat
    BY RowFacts
  <2>2. c \in Content
    BY <2>1 DEF Content
  <2> DEFINE k == [CopyOf(q, c, FALSE) EXCEPT !.base = row[q].snap.gen.press, !.dirty = TRUE]
  <2>3. desk' = [desk EXCEPT !["page"] = k]
    BY <1>3 DEF PageAmends
  <2>4. k \in Copy
    BY <2>1, <2>2, CopyOfType
  <2> HIDE DEF k
  <2>5. QED BY <1>1, <2>3, <2>4, DeskUpdate
<1>4. CASE AssistantOpens(q)
  <2>1. \/ desk' = [desk EXCEPT !["assistant"] = CopyOf(q, Loaded(q), TRUE)]
        \/ desk' = [desk EXCEPT !["assistant"] =
                       [CopyOf(q, Blank, TRUE) EXCEPT !.left = TRUE]]
    BY <1>4 DEF AssistantOpens
  <2>2. /\ CopyOf(q, Loaded(q), TRUE) \in Copy
        /\ [CopyOf(q, Blank, TRUE) EXCEPT !.left = TRUE] \in Copy
    BY <1>1, Members, CopyOfType
  <2>3. QED BY <1>1, <2>1, <2>2, DeskUpdate
<1>5. CASE FileFromPickup(q)
  BY <1>5 DEF FileFromPickup, TypeOK
<1>6. QED BY <1>2, <1>3, <1>4, <1>5

LEMMA EditingKeepsDesks ==
    ASSUME TypeOK, \/ PageEdits \/ PageSaves \/ PageSavesAmendment
                   \/ AssistantFills \/ AssistantSaves \/ AssistantDismisses
    PROVE  desk' \in [Desks -> Copy \cup {Closed}]
<1>1. CASE PageEdits
  <2>1. desk["page"] \in Copy
    BY <1>1, OpenCopy, TheDesks DEF PageEdits
  <2>2. PICK c \in Changed(desk["page"]) :
           desk' = [desk EXCEPT !["page"].content = c, !["page"].dirty = TRUE]
    BY <1>1 DEF PageEdits
  <2>3. QED BY <2>1, <2>2, ChangedType, TheDesks, CopyEdited
<1>2. CASE PageSaves \/ PageSavesAmendment
  <2>1. desk["page"] \in Copy /\ PageSaved
    BY <1>2, OpenCopy, TheDesks DEF PageSaves, PageSavesAmendment
  <2>2. QED BY <2>1, TheDesks, Members, CopyEdited DEF PageSaved
<1>3. CASE AssistantFills
  <2>1. desk["assistant"] \in Copy
    BY <1>3, AssistantCopy DEF AssistantFills
  <2>2. PICK c \in Changed(desk["assistant"]) :
           desk' = [desk EXCEPT !["assistant"].content = c, !["assistant"].dirty = TRUE]
    BY <1>3 DEF AssistantFills
  <2>3. QED BY <2>1, <2>2, ChangedType, TheDesks, CopyEdited
<1>4. CASE AssistantSaves
  <2>1. desk["assistant"] \in Copy
    BY <1>4, AssistantCopy DEF AssistantSaves
  <2>2. desk' = [desk EXCEPT !["assistant"].dirty = FALSE]
    BY <1>4 DEF AssistantSaves
  <2>3. QED BY <2>1, <2>2, Members, TheDesks, CopyEdited
<1>5. CASE AssistantDismisses
  BY <1>5, DeskUpdate, TheDesks DEF AssistantDismisses
<1>6. QED BY <1>1, <1>2, <1>3, <1>4, <1>5

LEMMA PressingKeepsDesks ==
    ASSUME TypeOK, QueueFromPage \/ SendFromAssistant
    PROVE  desk' \in [Desks -> Copy \cup {Closed}]
<1>1. CASE QueueFromPage
  <2>1. desk' = desk \/ desk' = [desk EXCEPT !["page"] = Closed]
    BY <1>1 DEF QueueFromPage
  <2>2. QED BY <2>1, DeskUpdate, TheDesks DEF TypeOK
<1>2. CASE SendFromAssistant
  <2> DEFINE q == desk["assistant"].q
             c == ForSending(q, desk["assistant"].content)
  <2>1. /\ q \in Quarters /\ desk["assistant"].content \in Content
        /\ desk["assistant"] \in Copy
    BY <1>2, AssistantCopy DEF SendFromAssistant
  <2>2. c \in Content
    BY <2>1, ForSendingType
  <2>3. \/ desk' = desk
        \/ desk' = [desk EXCEPT !["assistant"].left = TRUE, !["assistant"].content = Blank]
        \/ desk' = [desk EXCEPT !["assistant"].content = c]
    BY <1>2 DEF SendFromAssistant
  <2> HIDE DEF q, c
  <2>4. QED BY <2>1, <2>2, <2>3, Members, TheDesks, CopyEdited DEF TypeOK
<1>3. QED BY <1>1, <1>2

LEMMA QueueKeepsDesks ==
    ASSUME TypeOK,
           \/ ConnectFails \/ Claim \/ MarkPut \/ Finish \/ WorkerStops \/ EditProfile
           \/ \E q \in Quarters : \/ Cancel(q) \/ Prepare(q) \/ RecoverExpired(q)
                                  \/ Release(q) \/ DeadlinePasses(q)
    PROVE  desk' \in [Desks -> Copy \cup {Closed}]
<1>1. desk' = desk
  BY DEF ConnectFails, Claim, MarkPut, Finish, WorkerStops, EditProfile, Cancel, Prepare,
         RecoverExpired, Release, DeadlinePasses, QueueFrame
<1>2. QED BY <1>1 DEF TypeOK

LEMMA DeskTypeKept ==
    ASSUME TypeOK, Next
    PROVE  desk' \in [Desks -> Copy \cup {Closed}]
BY OpeningKeepsDesks, EditingKeepsDesks, PressingKeepsDesks, QueueKeepsDesks DEF Next

\* The kept originals and the worker.
LEMMA OriginalSteps ==
    ASSUME TypeOK, Next
    PROVE  \/ original' = original
           \/ /\ PageSavesAmendment
              /\ \E q \in Quarters : /\ original' = [original EXCEPT ![q] = TRUE]
                                     /\ row'[q].status = "Draft"
<1>1. CASE PageSavesAmendment
  <2> DEFINE q == desk["page"].q
  <2>1. q \in Quarters /\ desk["page"].content \in Content
    BY <1>1, OpenCopy, TheDesks DEF PageSavesAmendment
  <2>2. /\ row' = [row EXCEPT ![q] = DraftOf(desk["page"].content)]
        /\ original' = [original EXCEPT ![q] = TRUE]
    BY <1>1 DEF PageSavesAmendment
  <2>3. row'[q].status = "Draft"
    BY <2>1, <2>2, DraftOfType DEF TypeOK
  <2> HIDE DEF q
  <2>4. QED BY <1>1, <2>1, <2>2, <2>3
<1>2. CASE ~PageSavesAmendment
  <2>1. \/ original' = original
    BY <1>2, Zenon DEF Next, PageOpens, PageAmends, AssistantOpens, FileFromPickup, Press,
       Cancel, Prepare, RecoverExpired, Release, DeadlinePasses, PageEdits, PageSaves,
       AssistantFills, AssistantSaves, AssistantDismisses, QueueFromPage, SendFromAssistant,
       ConnectFails, Claim, MarkPut, Finish, WorkerStops, EditProfile, QueueFrame
  <2>2. QED BY <2>1
<1>3. QED BY <1>1, <1>2

Steps ==
    /\ edits' = edits \/ Editing
    /\ \/ presses' = presses /\ initial' = initial /\ profile' = profile
       \/ Press
    /\ troubles' = troubles \/ Trouble
    /\ changes' = changes /\ overdue' = overdue

\* What a step may do to the counters, the profile and the deadlines.
LEMMA CounterSteps ==
    ASSUME Next
    PROVE  \/ Steps
           \/ EditProfile
           \/ \E q \in Quarters : DeadlinePasses(q)
<1>1. ASSUME NEW q \in Quarters, PageOpens(q) \/ PageAmends(q) \/ AssistantOpens(q)
      PROVE  Steps
  BY <1>1 DEF Steps, PageOpens, PageAmends, AssistantOpens, Elsewhere
<1>2. ASSUME NEW q \in Quarters, FileFromPickup(q) PROVE Steps
  BY <1>2 DEF Steps, FileFromPickup, Press
<1>3. ASSUME NEW q \in Quarters, Cancel(q) \/ Prepare(q) \/ RecoverExpired(q) \/ Release(q)
      PROVE  Steps
  BY <1>3 DEF Steps, Cancel, Prepare, RecoverExpired, Release, QueueFrame
<1>4. ASSUME PageEdits \/ PageSaves \/ PageSavesAmendment PROVE Steps
  BY <1>4 DEF Steps, PageEdits, PageSaves, PageSavesAmendment, Elsewhere
<1>5. ASSUME AssistantFills \/ AssistantSaves \/ AssistantDismisses PROVE Steps
  BY <1>5 DEF Steps, AssistantFills, AssistantSaves, AssistantDismisses, Elsewhere
<1>6. ASSUME QueueFromPage \/ SendFromAssistant PROVE Steps
  BY <1>6 DEF Steps, QueueFromPage, SendFromAssistant, Press
<1>7. ASSUME ConnectFails \/ Claim \/ MarkPut \/ Finish \/ WorkerStops PROVE Steps
  BY <1>7 DEF Steps, ConnectFails, Claim, MarkPut, Finish, WorkerStops, QueueFrame
<1>8. QED BY <1>1, <1>2, <1>3, <1>4, <1>5, <1>6, <1>7 DEF Next

LEMMA CounterTypeKept ==
    ASSUME TypeOK, Next
    PROVE  /\ initial' \in InitialQuarters \cup {1}
           /\ profile' \in Versions \cup {Unconfirmed, Unresolved}
           /\ overdue' \subseteq Quarters
           /\ edits' \in 0..MaxEdits /\ presses' \in 0..MaxPresses
           /\ troubles' \in 0..MaxTroubles /\ changes' \in 0..MaxChanges
<1>1. CASE Steps
  <2>1. /\ edits' \in 0..MaxEdits /\ troubles' \in 0..MaxTroubles
        /\ changes' \in 0..MaxChanges /\ overdue' \subseteq Quarters
    BY <1>1, BoundsAssumption DEF TypeOK, Steps, Editing, Trouble
  <2>2. presses' \in 0..MaxPresses
    BY <1>1, BoundsAssumption DEF TypeOK, Steps, Press
  <2>3. /\ initial' \in InitialQuarters \cup {1}
        /\ profile' \in Versions \cup {Unconfirmed, Unresolved}
    BY <1>1, VersionsAssumption DEF TypeOK, Steps, Press, ConfirmedStart, ConfirmedProfile
  <2>4. QED BY <2>1, <2>2, <2>3
<1>2. CASE EditProfile
  BY <1>2, BoundsAssumption DEF TypeOK, EditProfile
<1>3. CASE \E q \in Quarters : DeadlinePasses(q)
  BY <1>3, BoundsAssumption DEF TypeOK, DeadlinePasses
<1>4. QED BY <1>1, <1>2, <1>3, CounterSteps

\* The worker changes in its own steps only.
LEMMA WorkerSteps ==
    ASSUME Next
    PROVE  \/ worker' = worker \/ worker' = Idle
           \/ Claim \/ MarkPut
           \/ \E q \in Quarters : Prepare(q)
<1>1. ASSUME NEW q \in Quarters, \/ PageOpens(q) \/ PageAmends(q) \/ AssistantOpens(q)
                                 \/ FileFromPickup(q) \/ DeadlinePasses(q)
                                 \/ Cancel(q) \/ RecoverExpired(q) \/ Release(q)
      PROVE  worker' = worker
  BY <1>1 DEF PageOpens, PageAmends, AssistantOpens, Elsewhere, FileFromPickup, Press,
     DeadlinePasses, Cancel, RecoverExpired, Release
<1>2. ASSUME \/ PageEdits \/ PageSaves \/ PageSavesAmendment \/ EditProfile
             \/ AssistantFills \/ AssistantSaves \/ AssistantDismisses
      PROVE  worker' = worker
  BY <1>2 DEF PageEdits, PageSaves, PageSavesAmendment, AssistantFills, AssistantSaves,
     AssistantDismisses, Elsewhere, EditProfile
<1>3. ASSUME QueueFromPage \/ SendFromAssistant PROVE worker' = worker
  BY <1>3 DEF QueueFromPage, SendFromAssistant, Press
<1>4. ASSUME ConnectFails \/ Finish \/ WorkerStops PROVE worker' = Idle
  BY <1>4 DEF ConnectFails, Finish, WorkerStops
<1>5. QED BY <1>1, <1>2, <1>3, <1>4 DEF Next

LEMMA WorkerTypeKept ==
    ASSUME TypeOK, Next
    PROVE  worker' \in Job \cup {Idle}
<1>0. \A q \in Quarters :
         /\ row[q].snap.gen \in [press : Nat, turn : Nat]
         /\ PayloadOf(q) \in Payload
         /\ SeenNow(q) \in [annual : Elections, facts : Versions \cup {Unconfirmed, Unresolved},
                            overdue : BOOLEAN]
  <2> SUFFICES ASSUME NEW q \in Quarters
               PROVE  /\ row[q].snap.gen \in [press : Nat, turn : Nat]
                      /\ PayloadOf(q) \in Payload
                      /\ SeenNow(q) \in [annual : Elections, overdue : BOOLEAN,
                                         facts : Versions \cup {Unconfirmed, Unresolved}]
    OBVIOUS
  <2>1. row[q].content \in Content /\ row[q].snap \in Snapshot
    BY RowFacts
  <2>2. PayloadOf(q) \in Payload
    BY <2>1 DEF PayloadOf, Payload, Snapshot
  <2>3. SeenNow(q) \in [annual : Elections, overdue : BOOLEAN,
                       facts : Versions \cup {Unconfirmed, Unresolved}]
    BY DEF SeenNow, TypeOK
  <2>4. QED BY <2>1, <2>2, <2>3 DEF Snapshot
<1>1. CASE worker' = worker \/ worker' = Idle
  BY <1>1 DEF TypeOK
<1>2. CASE Claim \/ MarkPut
  <2>1. worker \in Job /\ worker.q \in Quarters
    BY <1>2, WorkersQuarter DEF Claim, MarkPut, Idle
  <2>2. \/ worker' = [worker EXCEPT !.phase = "claimed", !.seen = SeenNow(worker.q),
                                    !.gen = row[worker.q].snap.gen]
        \/ worker' = [worker EXCEPT !.phase = "put"]
        \/ worker' = Idle
    BY <1>2 DEF Claim, MarkPut
  <2>3. QED BY <1>0, <2>1, <2>2 DEF Job
<1>3. CASE \E q \in Quarters : Prepare(q)
  <2>1. PICK q \in Quarters : Prepare(q)
    BY <1>3
  <2>2. \/ worker' = [phase |-> "connecting", q |-> q, gen |-> row[q].snap.gen,
                      payload |-> PayloadOf(q), seen |-> SeenNow(q)]
        \/ worker' = Idle
    BY <2>1 DEF Prepare
  <2>3. QED BY <1>0, <2>2 DEF Job
<1>4. QED BY <1>1, <1>2, <1>3, WorkerSteps

LEMMA StartTyped == Init => TypeOK
<1> SUFFICES ASSUME Init PROVE TypeOK
  OBVIOUS
<1> DEFINE none == [DraftOf(Blank) EXCEPT !.status = "None"]
<1>1. none \in Row /\ none.claim = "no"
  BY Members DEF DraftOf, Row
<1>2. row \in [Quarters -> Row] /\ \A q \in Quarters : row[q].claim = "no"
  BY <1>1 DEF Init
<1>3. /\ original \in [Quarters -> BOOLEAN] /\ desk \in [Desks -> Copy \cup {Closed}]
      /\ overdue \subseteq Quarters
  BY DEF Init
<1>4. /\ edits \in 0..MaxEdits /\ presses \in 0..MaxPresses
      /\ troubles \in 0..MaxTroubles /\ changes \in 0..MaxChanges
  BY BoundsAssumption DEF Init
<1>5. /\ initial \in InitialQuarters \cup {1}
      /\ profile \in Versions \cup {Unconfirmed, Unresolved}
      /\ ledger \in Elections /\ worker = Idle
  BY VersionsAssumption DEF Init
<1>6. QED BY <1>2, <1>3, <1>4, <1>5 DEF TypeOK

LEMMA StepTyped ==
    ASSUME TypeOK, Next
    PROVE  TypeOK'
<1>1. PICK q \in Quarters : RowEffect(q)
  BY StepEffect
<1>2. /\ row' \in [Quarters -> Row] /\ ledger' \in Elections
      /\ \A p \in Quarters : row'[p].status # "Queued" => row'[p].claim = "no"
  BY <1>1, RowTypeKept
<1>3. original' \in [Quarters -> BOOLEAN]
  BY OriginalSteps DEF TypeOK
<1>4. desk' \in [Desks -> Copy \cup {Closed}]
  BY DeskTypeKept
<1>5. worker' \in Job \cup {Idle}
  BY WorkerTypeKept
<1>6. /\ initial' \in InitialQuarters \cup {1}
      /\ profile' \in Versions \cup {Unconfirmed, Unresolved}
      /\ overdue' \subseteq Quarters
      /\ edits' \in 0..MaxEdits /\ presses' \in 0..MaxPresses
      /\ troubles' \in 0..MaxTroubles /\ changes' \in 0..MaxChanges
  BY CounterTypeKept
<1>7. QED BY <1>2, <1>3, <1>4, <1>5, <1>6 DEF TypeOK

\* Every state has the types that TypeOK gives the returns, the copies on the desks
\* and the job.
THEOREM TypeCorrect == Spec => []TypeOK
<1>1. Init => TypeOK
  BY StartTyped
<1>2. TypeOK /\ [Next]_vars => TypeOK'
  <2>1. CASE Next
    BY <2>1, StepTyped
  <2>2. CASE UNCHANGED vars
    BY <2>2 DEF vars, TypeOK
  <2>3. QED BY <2>1, <2>2
<1>3. QED BY <1>1, <1>2, PTL DEF Spec

----------------------------------------------------------------------------
(* What was reviewed stays, and what is claimed is current *)

\* From the press to the filed return nothing that was reviewed changes.
THEOREM ReviewedStays == Spec => FrozenFromReview
<1>1. ASSUME TypeOK, Next, NEW q \in Quarters, LeftDraft(q), LeftDraft(q)'
      PROVE  /\ row'[q].content = row[q].content
             /\ row'[q].snap.annual = row[q].snap.annual
             /\ row'[q].snap.facts = row[q].snap.facts
             /\ row'[q].snap.late = row[q].snap.late
  <2>1. PICK p \in Quarters : RowEffect(p)
    BY <1>1, StepEffect
  <2>2. CASE p # q
    BY <2>1, <2>2 DEF RowEffect
  <2>3. CASE p = q
    BY <1>1, <2>1, <2>3 DEF RowEffect, Enqueued, Advanced, LeftDraft
  <2>4. QED BY <2>2, <2>3
<1> DEFINE Kept == \A q \in Quarters : LeftDraft(q) /\ LeftDraft(q)' =>
                       /\ row'[q].content = row[q].content
                       /\ row'[q].snap.annual = row[q].snap.annual
                       /\ row'[q].snap.facts = row[q].snap.facts
                       /\ row'[q].snap.late = row[q].snap.late
<1>2. TypeOK /\ [Next]_vars => [Kept]_vars
  BY <1>1
<1>3. QED BY <1>2, TypeCorrect, PTL DEF Spec, FrozenFromReview

\* No press is later than the last, and the payload of the job is that of the press it
\* prepared, which was current when the job claimed the return.
PressesInOrder ==
    /\ \A q \in Quarters : row[q].snap.gen.press <= presses
    /\ worker # Idle => worker.gen.press <= presses

SentWasSeen(w) ==
    /\ w.payload.annual = w.seen.annual /\ w.payload.facts = w.seen.facts
    /\ w.payload.late <=> w.seen.overdue /\ w.payload.content.item # "eight_percent"

PayloadInv ==
    /\ PressesInOrder
    /\ worker # Idle =>
          /\ row[worker.q].status = "Queued" /\ row[worker.q].snap.gen.press = worker.gen.press
                => PayloadOf(worker.q) = worker.payload
          /\ worker.phase # "connecting" => SentWasSeen(worker)
          /\ worker.phase = "put" /\ row[worker.q].claim = "put"
                => PayloadOf(worker.q) = worker.payload

LEMMA PressesGrow ==
    ASSUME TypeOK, Next
    PROVE  presses \in Nat /\ presses' \in Nat /\ presses <= presses'
<1>1. presses' = presses \/ presses' = presses + 1
  BY CounterSteps DEF Steps, Press, EditProfile, DeadlinePasses
<1>2. presses \in Nat
  BY DEF TypeOK
<1>3. QED BY <1>1, <1>2

\* The payload that the row of a quarter gives after the step.
PayloadAfter(q) ==
    [content |-> row'[q].content, annual |-> row'[q].snap.annual,
     facts |-> row'[q].snap.facts, late |-> row'[q].snap.late]

\* What a step does to the row that a job prepared.
LEMMA PreparedRow ==
    ASSUME TypeOK, Next, NEW q \in Quarters, row[q].snap.gen.press <= presses
    PROVE  /\ row'[q].snap.gen.press <= presses'
           /\ \/ row'[q] = row[q]
              \/ row'[q].snap.gen.press = presses + 1 /\ row'[q].claim = "no"
              \/ row'[q].status = "Draft" /\ row'[q].claim = "no"
              \/ /\ Advanced(q) /\ PayloadAfter(q) = PayloadOf(q)
                 /\ row'[q].snap.gen.press = row[q].snap.gen.press
<1>1. PICK p \in Quarters : RowEffect(p)
  BY StepEffect
<1>2. presses \in Nat /\ presses' \in Nat /\ presses <= presses' /\ row[q].snap.gen.press \in Nat
  BY PressesGrow, RowFacts
<1>3. CASE row'[q] = row[q]
  BY <1>2, <1>3
<1>4. CASE Enqueued(q)
  <2>1. PICK c \in Content, named \in BOOLEAN :
           Transitions(q, c) /\ row'[q] = Queued(q, c, named)
    BY <1>4 DEF Enqueued
  <2>2. row'[q].snap.gen.press = presses + 1 /\ row'[q].claim = "no"
    BY <2>1, QueuedFacts
  <2>3. presses' = presses + 1
    BY <1>4 DEF Enqueued
  <2>4. QED BY <1>2, <2>2, <2>3
<1>5. CASE p = q /\ row'[q].status = "Draft" /\ row'[q].snap = NoSnapshot
  <2>1. row'[q].snap.gen.press = 0
    BY <1>5 DEF NoSnapshot
  <2>2. row'[q].claim = "no"
    BY <1>1, <1>5 DEF RowEffect
  <2>3. QED BY <1>2, <1>5, <2>1, <2>2
<1>6. CASE Advanced(q)
  <2>1. row'[q].snap.gen.press = row[q].snap.gen.press
    BY <1>6 DEF Advanced
  <2>2. PayloadAfter(q) = PayloadOf(q)
    BY <1>6 DEF Advanced, PayloadOf, PayloadAfter
  <2>3. QED BY <1>2, <1>6, <2>1, <2>2
<1>7. QED BY <1>1, <1>3, <1>4, <1>5, <1>6 DEF RowEffect

LEMMA PressesStay ==
    ASSUME TypeOK, PressesInOrder, Next
    PROVE  PressesInOrder'
<1>1. \A q \in Quarters : row'[q].snap.gen.press <= presses'
  BY PreparedRow DEF PressesInOrder
<1>2. ASSUME worker' # Idle PROVE worker'.gen.press <= presses'
  <2>1. presses \in Nat /\ presses' \in Nat /\ presses <= presses'
    BY PressesGrow
  <2>2. CASE worker' = worker
    BY <1>2, <2>1, <2>2, WorkersQuarter DEF PressesInOrder, Job
  <2>3. CASE Claim \/ MarkPut
    <3>1. worker \in Job /\ worker.q \in Quarters /\ worker # Idle
      BY <2>3, WorkersQuarter DEF Claim, MarkPut, Idle
    <3>2. worker'.gen = worker.gen \/ worker'.gen = row[worker.q].snap.gen
      BY <1>2, <2>3, <3>1 DEF Claim, MarkPut, Job
    <3>3. worker.gen.press \in Nat /\ row[worker.q].snap.gen.press \in Nat
      BY <3>1, RowFacts DEF Job
    <3>4. worker.gen.press <= presses /\ row[worker.q].snap.gen.press <= presses
      BY <3>1 DEF PressesInOrder
    <3>5. QED BY <2>1, <3>2, <3>3, <3>4
  <2>4. CASE \E q \in Quarters : Prepare(q)
    <3>1. PICK q \in Quarters : Prepare(q)
      BY <2>4
    <3>2. worker'.gen = row[q].snap.gen
      BY <1>2, <3>1 DEF Prepare
    <3>3. row[q].snap.gen.press \in Nat /\ row[q].snap.gen.press <= presses
      BY RowFacts DEF PressesInOrder
    <3>4. QED BY <2>1, <3>2, <3>3
  <2>5. QED BY <1>2, <2>2, <2>3, <2>4, WorkerSteps
<1>3. QED BY <1>1, <1>2 DEF PressesInOrder

\* The job does nothing, or the process dies.
LEMMA JobWaits ==
    ASSUME TypeOK, PayloadInv, Next, worker' = worker, worker # Idle
    PROVE  /\ row'[worker.q].status = "Queued"
                 /\ row'[worker.q].snap.gen.press = worker.gen.press
               => PayloadAfter(worker.q) = worker.payload
           /\ worker.phase = "put" /\ row'[worker.q].claim = "put"
               => PayloadAfter(worker.q) = worker.payload
<1> DEFINE q == worker.q
<1>1. worker \in Job /\ q \in Quarters
  BY WorkersQuarter
<1>2. /\ row[q].snap.gen.press <= presses /\ worker.gen.press <= presses
      /\ worker.gen.press \in Nat /\ presses \in Nat
  BY <1>1, PressesGrow DEF PayloadInv, PressesInOrder, Job
<1>3. /\ row[q].status = "Queued" /\ row[q].snap.gen.press = worker.gen.press
            => PayloadOf(q) = worker.payload
      /\ worker.phase = "put" /\ row[q].claim = "put" => PayloadOf(q) = worker.payload
  BY DEF PayloadInv
<1>4. \/ row'[q] = row[q]
      \/ row'[q].snap.gen.press = presses + 1 /\ row'[q].claim = "no"
      \/ row'[q].status = "Draft" /\ row'[q].claim = "no"
      \/ /\ Advanced(q) /\ PayloadAfter(q) = PayloadOf(q)
         /\ row'[q].snap.gen.press = row[q].snap.gen.press
  BY <1>1, <1>2, PreparedRow
<1>5. CASE row'[q] = row[q]
  <2>1. PayloadAfter(q) = PayloadOf(q)
    BY <1>5 DEF PayloadOf, PayloadAfter
  <2>2. QED BY <1>3, <1>5, <2>1
<1>6. CASE row'[q].snap.gen.press = presses + 1 /\ row'[q].claim = "no"
  BY <1>2, <1>6
<1>7. CASE row'[q].status = "Draft" /\ row'[q].claim = "no"
  BY <1>7
<1>8. CASE /\ Advanced(q) /\ PayloadAfter(q) = PayloadOf(q)
           /\ row'[q].snap.gen.press = row[q].snap.gen.press
  <2>1. row'[q].status = "Queued" => row[q].status = "Queued"
    BY <1>8 DEF Advanced
  <2>2. worker.phase = "put" /\ row'[q].claim = "put" => row[q].claim = "put"
    BY <1>8 DEF Advanced
  <2>3. QED BY <1>3, <1>8, <2>1, <2>2
<1>9. QED BY <1>4, <1>5, <1>6, <1>7, <1>8

LEMMA JobPrepares ==
    ASSUME TypeOK, NEW q \in Quarters, Prepare(q), worker' # Idle
    PROVE  /\ worker'.q = q /\ worker'.phase = "connecting"
           /\ worker'.payload = PayloadAfter(q)
<1>1. worker' = [phase |-> "connecting", q |-> q, gen |-> row[q].snap.gen,
                 payload |-> PayloadOf(q), seen |-> SeenNow(q)] /\ row' = row
  BY DEF Prepare
<1>2. PayloadAfter(q) = PayloadOf(q)
  BY <1>1 DEF PayloadOf, PayloadAfter
<1>3. QED BY <1>1, <1>2

\* The claim finds the row as the job prepared it, and current.
LEMMA JobClaims ==
    ASSUME TypeOK, PayloadInv, Claim, worker' # Idle
    PROVE  /\ worker'.q = worker.q /\ worker'.phase = "claimed"
           /\ worker'.payload = PayloadAfter(worker.q)
           /\ SentWasSeen(worker')
<1> DEFINE q == worker.q
<1>1. worker \in Job /\ q \in Quarters /\ worker # Idle
  BY WorkersQuarter DEF Claim, Idle
<1>2. /\ SameGeneration /\ StillCurrent(q)
      /\ row' = [row EXCEPT ![q].claim = "claimed"]
      /\ worker' = [worker EXCEPT !.phase = "claimed", !.seen = SeenNow(q),
                                  !.gen = row[q].snap.gen]
  BY DEF Claim, ClaimChecks
<1>3. PayloadOf(q) = worker.payload
  BY <1>1, <1>2 DEF PayloadInv, SameGeneration
<1>4. row[q] \in Row /\ row \in [Quarters -> Row]
  BY <1>1, RowFacts DEF TypeOK
<1>5. PayloadAfter(q) = PayloadOf(q)
  BY <1>1, <1>2, <1>4 DEF PayloadOf, PayloadAfter, Row
<1>6. /\ worker'.q = q /\ worker'.phase = "claimed" /\ worker'.payload = worker.payload
      /\ worker'.seen = SeenNow(q)
  BY <1>1, <1>2 DEF Job
<1>7. SentWasSeen(worker')
  <2>1. /\ worker'.payload.annual = row[q].snap.annual
        /\ worker'.payload.facts = row[q].snap.facts
        /\ worker'.payload.late = row[q].snap.late
        /\ worker'.payload.content = row[q].content
    BY <1>3, <1>6 DEF PayloadOf
  <2>2. /\ worker'.seen.annual = ledger /\ worker'.seen.facts = profile
        /\ worker'.seen.overdue = (q \in overdue)
    BY <1>6 DEF SeenNow
  <2>3. /\ row[q].snap.annual = ledger /\ row[q].snap.facts = profile
        /\ row[q].snap.late = (q \in overdue /\ row[q].content.item # "eight_percent")
    BY <1>2 DEF StillCurrent, Late
  <2> HIDE DEF q
  <2>4. QED BY <2>1, <2>2, <2>3 DEF SentWasSeen
<1>8. QED BY <1>3, <1>5, <1>6, <1>7

\* The mark is set on the row that was claimed.
LEMMA JobPuts ==
    ASSUME TypeOK, PayloadInv, MarkPut, worker' # Idle
    PROVE  /\ worker'.q = worker.q /\ worker'.payload = PayloadAfter(worker.q)
           /\ SentWasSeen(worker')
<1> DEFINE q == worker.q
<1>1. worker \in Job /\ q \in Quarters /\ worker # Idle
  BY WorkersQuarter DEF MarkPut, Idle
<1>2. /\ Owns /\ row' = [row EXCEPT ![q].claim = "put"]
      /\ worker' = [worker EXCEPT !.phase = "put"] /\ worker.phase = "claimed"
  BY DEF MarkPut
<1>3. row[q].status = "Queued"
  BY <1>1, <1>2, ClaimedIsQueued DEF Owns
<1>4. PayloadOf(q) = worker.payload
  BY <1>1, <1>2, <1>3 DEF PayloadInv, Owns
<1>5. row[q] \in Row /\ row \in [Quarters -> Row]
  BY <1>1, RowFacts DEF TypeOK
<1>6. PayloadAfter(q) = PayloadOf(q)
  BY <1>1, <1>2, <1>5 DEF PayloadOf, PayloadAfter, Row
<1>7. /\ worker'.q = q /\ worker'.payload = worker.payload /\ worker'.seen = worker.seen
  BY <1>1, <1>2 DEF Job
<1>8. SentWasSeen(worker)
  BY <1>1, <1>2 DEF PayloadInv
<1>9. QED BY <1>4, <1>6, <1>7, <1>8 DEF SentWasSeen

LEMMA PayloadStep ==
    ASSUME TypeOK, PayloadInv, Next
    PROVE  PayloadInv'
<1>1. PressesInOrder'
  BY PressesStay DEF PayloadInv
<1>2. SUFFICES ASSUME worker' # Idle
               PROVE  /\ row'[worker'.q].status = "Queued"
                            /\ row'[worker'.q].snap.gen.press = worker'.gen.press
                          => PayloadAfter(worker'.q) = worker'.payload
                      /\ worker'.phase # "connecting" => SentWasSeen(worker')
                      /\ worker'.phase = "put" /\ row'[worker'.q].claim = "put"
                          => PayloadAfter(worker'.q) = worker'.payload
  BY <1>1 DEF PayloadInv, PayloadOf, PayloadAfter, SentWasSeen
<1>3. CASE worker' = worker
  <2>1. worker.phase # "connecting" => SentWasSeen(worker)
    BY <1>2, <1>3 DEF PayloadInv
  <2>2. /\ row'[worker.q].status = "Queued"
              /\ row'[worker.q].snap.gen.press = worker.gen.press
            => PayloadAfter(worker.q) = worker.payload
        /\ worker.phase = "put" /\ row'[worker.q].claim = "put"
            => PayloadAfter(worker.q) = worker.payload
    BY <1>2, <1>3, JobWaits
  <2>3. QED BY <1>3, <2>1, <2>2
<1>4. CASE \E q \in Quarters : Prepare(q)
  <2>1. PICK q \in Quarters : Prepare(q)
    BY <1>4
  <2>2. /\ worker'.q = q /\ worker'.phase = "connecting"
        /\ worker'.payload = PayloadAfter(q)
    BY <1>2, <2>1, JobPrepares
  <2>3. QED BY <2>2
<1>5. CASE Claim \/ MarkPut
  <2>1. /\ worker'.q = worker.q /\ worker'.payload = PayloadAfter(worker.q)
        /\ SentWasSeen(worker')
    BY <1>2, <1>5, JobClaims, JobPuts
  <2>2. QED BY <2>1
<1>6. QED BY <1>2, <1>3, <1>4, <1>5, WorkerSteps

\* What is uploaded is what the filer reviewed, agrees with the profile, the election
\* and the deadline at the claim, and is the content of the row it is filed under,
\* whatever changes while the job connects and uploads.
THEOREM UploadsAreCurrent == Spec => []UploadedIsCurrent
<1>1. Init => PayloadInv
  <2>0. [DraftOf(Blank) EXCEPT !.status = "None"].snap.gen.press = 0
    BY DEF DraftOf, NoSnapshot
  <2>1. Init => /\ \A q \in Quarters : row[q].snap.gen.press = 0
                /\ presses = 0
    BY <2>0 DEF Init
  <2>2. Init => worker = Idle
    BY DEF Init
  <2>3. QED BY <2>1, <2>2 DEF PayloadInv, PressesInOrder
<1>2. TypeOK /\ PayloadInv /\ [Next]_vars => PayloadInv'
  <2>1. CASE Next
    BY <2>1, PayloadStep
  <2>2. CASE UNCHANGED vars
    BY <2>2 DEF vars, PayloadInv, PressesInOrder, PayloadOf, SentWasSeen
  <2>3. QED BY <2>1, <2>2
<1>3. PayloadInv => UploadedIsCurrent
  <2>1. SUFFICES ASSUME PayloadInv, worker.phase = "put" PROVE UploadedIsCurrent
    BY DEF UploadedIsCurrent
  <2>2. worker # Idle
    BY <2>1 DEF Idle
  <2>3. QED BY <2>1, <2>2 DEF PayloadInv, SentWasSeen, UploadedIsCurrent
<1>4. QED BY <1>1, <1>2, <1>3, TypeCorrect, PTL DEF Spec

\* Once a filed version is kept for an amendment, only an amended return of that
\* quarter is queued or filed.
THEOREM OriginalIsFiledOnce == Spec => []OriginalOnce
<1>1. Init => OriginalOnce
  BY DEF Init, OriginalOnce
<1>2. ASSUME TypeOK, OriginalOnce, Next PROVE OriginalOnce'
  <2>1. PICK p \in Quarters : RowEffect(p)
    BY <1>2, StepEffect
  <2>2. SUFFICES ASSUME NEW q \in Quarters, LeftDraft(q)', original'[q]
                 PROVE  row'[q].content.amended
    BY DEF OriginalOnce
  <2>3. original[q]
    BY <1>2, <2>2, OriginalSteps DEF LeftDraft, TypeOK
  <2>4. CASE p # q
    BY <1>2, <2>1, <2>2, <2>3, <2>4 DEF RowEffect, OriginalOnce, LeftDraft
  <2>5. CASE p = q
    <3>1. CASE Enqueued(p)
      <4>1. PICK c \in Content, named \in BOOLEAN :
               Transitions(q, c) /\ Commits(q, c) /\ row'[q] = Queued(q, c, named)
        BY <2>5, <3>1 DEF Enqueued
      <4>2. row'[q].content = c
        BY <1>2, <4>1, QueuedFacts
      <4>3. QED BY <2>3, <4>1, <4>2 DEF Commits, OriginalFiled
    <3>2. CASE Advanced(p)
      BY <1>2, <2>3, <2>5, <3>2 DEF Advanced, OriginalOnce, LeftDraft
    <3>3. CASE row'[p] = row[p]
      BY <1>2, <2>2, <2>3, <2>5, <3>3 DEF OriginalOnce, LeftDraft
    <3>4. CASE row'[p].status = "Draft"
      BY <2>2, <2>5, <3>4 DEF LeftDraft
    <3>5. QED BY <2>1, <3>1, <3>2, <3>3, <3>4 DEF RowEffect
  <2>6. QED BY <2>4, <2>5
<1>3. TypeOK /\ OriginalOnce /\ [Next]_vars => OriginalOnce'
  <2>1. CASE UNCHANGED vars
    BY <2>1 DEF vars, OriginalOnce, LeftDraft
  <2>2. QED BY <1>2, <2>1
<1>4. QED BY <1>1, <1>3, TypeCorrect, PTL DEF Spec

----------------------------------------------------------------------------
(* The election of the year.  The profile starts the business in the first *)
(* quarter or does not say: after a start in a later quarter a filed Q1    *)
(* return, of which Item 13 was not asked, still binds that quarter.       *)

BusinessFromQ1 == InitialQuarters \subseteq {UnknownQuarter, 1}

\* A return with PT010 enters the queue under an election.
LEMMA QueuedUnderElection ==
    ASSUME TypeOK, BusinessFromQ1, NEW q \in Quarters, NEW c \in Content,
           Commits(q, c), c.work # "other"
    PROVE  AnnualOf(c) \in Regimes /\ ShownOn(q, c) = AnnualOf(c)
<1>1. /\ ShownOn(q, c) = AnnualOf(c)
      /\ Valid(q, c, AnnualOf(c), ConfirmedStart)
  BY DEF Commits
<1>2. ConfirmedStart \in {UnknownQuarter, 1}
  BY DEF TypeOK, BusinessFromQ1, ConfirmedStart
<1>3. AnnualOf(c) \in Elections /\ AnnualOf(c) # "conflicting"
  BY <1>1, ShownType DEF Valid
<1>4. ASSUME AnnualOf(c) = "unrecorded" PROVE FALSE
  <2>1. Applicable(q, c.work, ConfirmedStart) = "yes"
    BY <1>1, <1>4 DEF Valid, LaterNeedsElection
  <2>2. q = 1
    BY <1>2, <2>1 DEF Applicable
  <2>3. c.item \in Regimes
    BY <1>1, <2>1, <2>2 DEF Valid, AnswerStands, Bound
  <2>4. QED BY <1>4, <2>3, Members DEF AnnualOf
<1>5. QED BY <1>1, <1>3, <1>4 DEF Elections

\* A recorded election is not replaced.
LEMMA ElectionKept ==
    ASSUME TypeOK, NEW q \in Quarters, RowEffect(q), ledger \in Regimes
    PROVE  ledger' = ledger
BY Members DEF RowEffect, Enqueued, AnnualOf

\* A return that is queued or filed after a step was so before, or has just been
\* queued.
LEMMA LeftDraftBefore ==
    ASSUME TypeOK, NEW p \in Quarters, RowEffect(p), NEW q \in Quarters, LeftDraft(q)'
    PROVE  \/ /\ LeftDraft(q) /\ row'[q].content = row[q].content
              /\ row'[q].snap.annual = row[q].snap.annual
           \/ /\ q = p
              /\ \E c \in Content :
                    /\ Commits(q, c) /\ ledger' = AnnualOf(c)
                    /\ row'[q].content = c /\ row'[q].snap.annual = ShownOn(q, c)
<1>1. CASE p # q
  BY <1>1 DEF RowEffect, LeftDraft
<1>2. CASE p = q
  <2>1. CASE Enqueued(p)
    <3>1. PICK c \in Content, named \in BOOLEAN :
             /\ Transitions(q, c) /\ Commits(q, c) /\ ledger' = AnnualOf(c)
             /\ row'[q] = Queued(q, c, named)
      BY <1>2, <2>1 DEF Enqueued
    <3>2. row'[q].content = c /\ row'[q].snap.annual = ShownOn(q, c)
      BY <3>1, QueuedFacts
    <3>3. QED BY <1>2, <3>1, <3>2
  <2>2. CASE row'[p].status = "Draft"
    BY <1>2, <2>2 DEF LeftDraft
  <2>3. CASE row'[p] = row[p] \/ Advanced(p)
    BY <1>2, <2>3 DEF Advanced, LeftDraft
  <2>4. QED BY <2>1, <2>2, <2>3 DEF RowEffect
<1>3. QED BY <1>1, <1>2

LEMMA RegimeStep ==
    ASSUME TypeOK, BusinessFromQ1, RegimeStands, Next
    PROVE  RegimeStands'
<1>1. PICK p \in Quarters : RowEffect(p)
  BY StepEffect
<1>2. SUFFICES ASSUME NEW q \in Quarters, LeftDraft(q)', row'[q].content.work # "other"
               PROVE  row'[q].snap.annual \in Regimes /\ row'[q].snap.annual = ledger'
  BY DEF RegimeStands, HasPT010
<1>3. CASE LeftDraft(q) /\ row'[q].content = row[q].content
           /\ row'[q].snap.annual = row[q].snap.annual
  <2>1. row[q].snap.annual \in Regimes /\ row[q].snap.annual = ledger
    BY <1>2, <1>3 DEF RegimeStands, HasPT010
  <2>2. ledger' = ledger
    BY <1>1, <2>1, ElectionKept
  <2>3. QED BY <1>3, <2>1, <2>2
<1>4. CASE \E c \in Content : /\ Commits(q, c) /\ ledger' = AnnualOf(c)
                              /\ row'[q].content = c
                              /\ row'[q].snap.annual = ShownOn(q, c)
  BY <1>2, <1>4, QueuedUnderElection
<1>5. QED BY <1>1, <1>2, <1>3, <1>4, LeftDraftBefore

LEMMA NilStep ==
    ASSUME TypeOK, RegimeStands, EightPercentYearIsNil, Next
    PROVE  EightPercentYearIsNil'
<1>1. PICK p \in Quarters : RowEffect(p)
  BY StepEffect
<1>2. SUFFICES ASSUME ledger' = "eight_percent", NEW q \in Quarters, LeftDraft(q)'
               PROVE  row'[q].content.work # "taxed PT010"
  BY DEF EightPercentYearIsNil
<1>3. CASE LeftDraft(q) /\ row'[q].content = row[q].content
  <2>1. SUFFICES ASSUME row[q].content.work = "taxed PT010" PROVE FALSE
    BY <1>3
  <2>2. ledger \in Regimes
    BY <1>3, <2>1 DEF RegimeStands, HasPT010
  <2>3. ledger = "eight_percent"
    BY <1>1, <1>2, <2>2, ElectionKept
  <2>4. QED BY <1>3, <2>1, <2>3 DEF EightPercentYearIsNil
<1>4. CASE \E c \in Content : /\ Commits(q, c) /\ ledger' = AnnualOf(c)
                              /\ row'[q].content = c
                              /\ row'[q].snap.annual = ShownOn(q, c)
  BY <1>2, <1>4 DEF Commits, Valid, NilWhereEightPercent
<1>5. QED BY <1>1, <1>2, <1>3, <1>4, LeftDraftBefore

LEMMA StutterKeepsElection ==
    ASSUME UNCHANGED vars
    PROVE  /\ RegimeStands => RegimeStands'
           /\ EightPercentYearIsNil => EightPercentYearIsNil'
BY DEF vars, RegimeStands, EightPercentYearIsNil, LeftDraft, HasPT010

\* Every queued or filed return with PT010 shows the election that the year has,
\* unless the business started in a later quarter.
THEOREM FiledUnderTheYearsElection ==
    ASSUME BusinessFromQ1
    PROVE  Spec => []RegimeStands
<1>1. Init => RegimeStands
  BY DEF Init, RegimeStands, LeftDraft, DraftOf
<1>2. TypeOK /\ RegimeStands /\ [Next]_vars => RegimeStands'
  BY RegimeStep, StutterKeepsElection
<1>3. QED BY <1>1, <1>2, TypeCorrect, PTL DEF Spec

\* In a year of the 8% option no queued or filed return taxes PT010: one that was
\* queued before the election either shows it, or holds no PT010.
THEOREM NoPT010TaxInAnEightPercentYear ==
    ASSUME BusinessFromQ1
    PROVE  Spec => []EightPercentYearIsNil
<1>1. Init => EightPercentYearIsNil
  BY DEF Init, EightPercentYearIsNil, LeftDraft, DraftOf
<1>2. TypeOK /\ RegimeStands /\ EightPercentYearIsNil /\ [Next]_vars => EightPercentYearIsNil'
  BY NilStep, StutterKeepsElection
<1>3. Spec => []RegimeStands
  BY FiledUnderTheYearsElection
<1>4. QED BY <1>1, <1>2, <1>3, TypeCorrect, PTL DEF Spec

=============================================================================
