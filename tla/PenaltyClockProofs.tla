------------------------- MODULE PenaltyClockProofs -------------------------
(***************************************************************************)
(* What holds of the penalty clock for all forms, releases, profiles,      *)
(* dates and bounds.                                                       *)
(***************************************************************************)
EXTENDS PenaltyClock, FiniteSetTheorems, SequenceTheorems, WellFoundedInduction, TLAPS

----------------------------------------------------------------------------
(* The steps of a return *)

FilerStep(f) ==
    \/ OpenPage(f) \/ AmendOnPage(f) \/ Fill(f) \/ Save(f) \/ QueuePage(f) \/ CancelQueue(f)
    \/ AssistantOpens(f) \/ AssistantSaves(f) \/ AssistantSends(f) \/ AssistantDismisses(f)

WorkerStep(f) == Prepare(f) \/ FailSession(f) \/ Claim(f) \/ Upload(f)

\* What a return goes through changes neither the holidays nor the profile.
LEMMA ReturnKeepsCalendar ==
    ASSUME NEW f, FilerStep(f) \/ WorkerStep(f)
    PROVE  UNCHANGED <<calendar, profile>>
  BY DEF FilerStep, WorkerStep, OpenPage, AmendOnPage, Fill, Save, QueuePage, CancelQueue,
         AssistantOpens, AssistantSaves, AssistantSends, AssistantDismisses,
         Prepare, FailSession, Claim, Upload, calendar

LEMMA NextCases ==
    ASSUME [Next]_vars
    PROVE  \/ Upgrade \/ (\E e \in stored : RemoveOverride(e)) \/ EditProfile \/ NextDay
           \/ (\E f \in Returns : FilerStep(f) \/ WorkerStep(f)) \/ UNCHANGED vars
  BY DEF Next, FilerStep, WorkerStep

\* Only an upgrade and a removal change the holidays and their overrides.
LEMMA CalendarCases ==
    ASSUME [Next]_vars
    PROVE  Upgrade \/ (\E e \in stored : RemoveOverride(e)) \/ UNCHANGED calendar
  <1>1. ASSUME EditProfile \/ NextDay \/ UNCHANGED vars PROVE UNCHANGED calendar
    BY <1>1 DEF EditProfile, NextDay, vars
  <1>2. ASSUME NEW f \in Returns, FilerStep(f) \/ WorkerStep(f) PROVE UNCHANGED calendar
    BY <1>2, ReturnKeepsCalendar
  <1>. QED  BY <1>1, <1>2, NextCases

----------------------------------------------------------------------------
(* Computing, drafting and queueing keep a return's fields *)

Full(r) == {"status", "due", "small", "penalties", "gen"} \subseteq DOMAIN r

LEMMA ComputedPenalties ==
    ASSUME NEW f, NEW r, NEW day, Full(r)
    PROVE  /\ Computed(f, r, day).penalties = Penalties(f, r.small, r.due, day)
           /\ Computed(f, r, day).status = r.status
           /\ Full(Computed(f, r, day))
  BY DEF Computed, Full

LEMMA FinishedIsFull ==
    ASSUME NEW f, NEW r, Full(r)
    PROVE  Full(Finished(f, r)) /\ Finished(f, r).status = r.status
  <1>1. Full(Reapplied(f, r)) /\ Reapplied(f, r).status = r.status
    BY DEF Reapplied, Full
  <1>. QED  BY <1>1, ComputedPenalties DEF Finished

LEMMA DraftedIsFull ==
    ASSUME NEW r, Full(r)
    PROVE  Full(Drafted(r)) /\ Drafted(r).status = "Draft"
  BY DEF Drafted, Full

LEMMA EnqueuedIsFull ==
    ASSUME NEW r, Full(r)
    PROVE  /\ Full(Enqueued(r)) /\ Enqueued(r).status = "Queued"
           /\ Enqueued(r).gen = queues + 1
  BY DEF Enqueued, Full

----------------------------------------------------------------------------
(* What reaches BIR *)

\* A stored return, and a copy of one, has its fields; a queued one has the
\* number of its generation.
RowsFull ==
    /\ queues \in Nat /\ DOMAIN row = Returns
    /\ \A f \in Returns :
          /\ row[f] = None \/ (Full(row[f]) /\ row[f].status # "None")
          /\ row[f].status = "Queued" => row[f].gen \in Nat /\ row[f].gen <= queues

IsPage(p) == p = Closed \/ (/\ {"from", "copy"} \subseteq DOMAIN p
                            /\ p.from \in {"None", "Draft", "Submitted"}
                            /\ Full(p.copy) /\ p.copy.status = "Draft")
PagesFull == DOMAIN page = Returns /\ \A f \in Returns : IsPage(page[f])

IsCopy(d) == d = None \/ (Full(d) /\ d.status = "Draft")
DesksFull == DOMAIN desk = Returns /\ \A f \in Returns : IsCopy(desk[f])

Shape == RowsFull /\ PagesFull /\ DesksFull

\* While the worker connects, the generation it prepared, if it still stands,
\* has the penalties of the payload.
ConnectingFits ==
    worker.phase = "connecting" =>
        /\ worker.form \in Returns /\ worker.gen \in Nat /\ worker.gen <= queues
        /\ SameGeneration(worker.form) => worker.payload = row[worker.form].penalties

\* What the worker claimed is still queued, and its payload has the penalties
\* of the day of the claim.
ClaimFits ==
    worker.phase = "claimed" =>
        /\ worker.form \in Returns /\ row[worker.form].status = "Queued"
        /\ worker.payload = Penalties(worker.form, worker.small, worker.due, worker.day)

LEMMA RowReplaced ==
    ASSUME RowsFull, NEW f \in Returns, NEW r, row' = [row EXCEPT ![f] = r],
           queues' \in Nat, queues <= queues', Full(r), r.status # "None",
           r.status = "Queued" => r.gen \in Nat /\ r.gen <= queues'
    PROVE  RowsFull'
  <1>1. DOMAIN row' = Returns /\ \A g \in Returns : row'[g] = r \/ row'[g] = row[g]
    BY Zenon DEF RowsFull
  <1>2. ASSUME NEW g \in Returns
        PROVE  /\ row'[g] = None \/ (Full(row'[g]) /\ row'[g].status # "None")
               /\ row'[g].status = "Queued" => row'[g].gen \in Nat /\ row'[g].gen <= queues'
    <2>1. CASE row'[g] = r
      BY <2>1
    <2>2. CASE row'[g] = row[g]
      <3>1. queues \in Nat /\ (row[g].status = "Queued" => row[g].gen \in Nat /\ row[g].gen <= queues)
        BY DEF RowsFull
      <3>2. row[g] = None \/ (Full(row[g]) /\ row[g].status # "None")
        BY DEF RowsFull
      <3>. QED  BY <2>2, <3>1, <3>2
    <2>. QED  BY <1>1, <2>1, <2>2
  <1>. QED  BY <1>1, <1>2, Zenon DEF RowsFull, None

LEMMA PageReplaced ==
    ASSUME PagesFull, NEW f \in Returns, NEW p, IsPage(p), page' = [page EXCEPT ![f] = p]
    PROVE  PagesFull'
  <1>1. DOMAIN page' = Returns /\ \A g \in Returns : page'[g] = p \/ page'[g] = page[g]
    BY Zenon DEF PagesFull
  <1>. QED  BY <1>1, Zenon DEF PagesFull

LEMMA CopyReplaced ==
    ASSUME DesksFull, NEW f \in Returns, NEW d, IsCopy(d), desk' = [desk EXCEPT ![f] = d]
    PROVE  DesksFull'
  <1>1. DOMAIN desk' = Returns /\ \A g \in Returns : desk'[g] = d \/ desk'[g] = desk[g]
    BY Zenon DEF DesksFull
  <1>. QED  BY <1>1, Zenon DEF DesksFull

\* What a step on one return leaves.
LEMMA DraftStored ==
    ASSUME RowsFull, NEW f \in Returns, NEW r, row' = [row EXCEPT ![f] = r],
           UNCHANGED queues, Full(r), r.status = "Draft"
    PROVE  RowsFull'
  <1>1. queues \in Nat
    BY DEF RowsFull
  <1>2. queues' \in Nat /\ queues <= queues' /\ r.status # "None" /\ r.status # "Queued"
    BY <1>1
  <1>. QED  BY <1>2, RowReplaced, Zenon

LEMMA QueuedStored ==
    ASSUME RowsFull, NEW f \in Returns, NEW r, row' = [row EXCEPT ![f] = Enqueued(r)],
           queues' = queues + 1, Full(r)
    PROVE  RowsFull'
  <1>1. queues \in Nat
    BY DEF RowsFull
  <1>2. /\ Full(Enqueued(r)) /\ Enqueued(r).status = "Queued"
        /\ Enqueued(r).gen = queues + 1
    BY EnqueuedIsFull
  <1>3. queues' \in Nat /\ queues <= queues' /\ Enqueued(r).status # "None"
        /\ Enqueued(r).gen \in Nat /\ Enqueued(r).gen <= queues'
    BY <1>1, <1>2
  <1>. QED  BY <1>2, <1>3, RowReplaced, Zenon

LEMMA LoadedIsFull ==
    ASSUME RowsFull, NEW f \in Returns, row[f].status \in {"None", "Draft"}
    PROVE  Full(Finished(f, Loaded(f))) /\ Finished(f, Loaded(f)).status = "Draft"
  <1>1. Full(NewReturn(f)) /\ NewReturn(f).status = "Draft"
    BY DEF NewReturn, Full
  <1>2. row[f] # None => Full(row[f]) /\ row[f].status = "Draft"
    BY DEF RowsFull
  <1>3. Full(Loaded(f)) /\ Loaded(f).status = "Draft"
    BY <1>1, <1>2 DEF Loaded
  <1>. QED  BY <1>3, FinishedIsFull

LEMMA StoredIsFull ==
    ASSUME RowsFull, NEW f \in Returns, row[f].status # "None"
    PROVE  Full(row[f])
  BY DEF RowsFull, None

LEMMA ShapeInit == Init => Shape /\ ConnectingFits /\ ClaimFits
  BY DEF Init, Shape, RowsFull, PagesFull, DesksFull, IsPage, IsCopy, ConnectingFits, ClaimFits,
         None, Idle

\* A step of the filer or the assistant on the rows, pages and copies.
LEMMA FilerKeepsShape ==
    ASSUME Shape, NEW f \in Returns, FilerStep(f)
    PROVE  Shape'
  <1>0. /\ RowsFull /\ PagesFull /\ DesksFull
        /\ page[f] # Closed => Full(page[f].copy) /\ page[f].copy.status = "Draft"
        /\ desk[f] # None => Full(desk[f]) /\ desk[f].status = "Draft"
    BY DEF Shape, PagesFull, DesksFull, IsPage, IsCopy
  <1>. IsPage(Closed) /\ IsCopy(None)
    BY DEF IsPage, IsCopy
  <1>a. ASSUME UNCHANGED <<row, queues>> PROVE RowsFull'
    BY <1>0, <1>a DEF RowsFull, None
  <1>b. ASSUME UNCHANGED page PROVE PagesFull'
    BY <1>0, <1>b DEF PagesFull
  <1>c. ASSUME UNCHANGED desk PROVE DesksFull'
    BY <1>0, <1>c DEF DesksFull
  <1>1. CASE OpenPage(f)
    <2>. DEFINE r == Finished(f, Loaded(f))
                p == [from |-> row[f].status, copy |-> r]
    <2>1. Full(r) /\ r.status = "Draft"
      BY <1>0, <1>1, LoadedIsFull DEF OpenPage
    <2>2. row[f].status \in {"None", "Draft", "Submitted"}
      BY <1>1 DEF OpenPage
    <2>3. page' = [page EXCEPT ![f] = p] /\ UNCHANGED <<row, desk, queues>>
      BY <1>1, Zenon DEF OpenPage
    <2>4. IsPage(p)
      <3>. HIDE DEF r
      <3>. QED  BY <2>1, <2>2 DEF IsPage
    <2>5. PagesFull'
      <3>. HIDE DEF p
      <3>. QED  BY <1>0, <2>3, <2>4, PageReplaced
    <2>. QED  BY <1>a, <1>c, <2>3, <2>5 DEF Shape
  <1>2. CASE AmendOnPage(f)
    <2>. DEFINE r == Drafted(row[f])
                p == [from |-> "Submitted", copy |-> r]
    <2>1. Full(r) /\ r.status = "Draft"
      BY <1>0, <1>2, StoredIsFull, DraftedIsFull DEF AmendOnPage
    <2>2. "Submitted" \in {"None", "Draft", "Submitted"}
      BY <1>2 DEF AmendOnPage
    <2>3. page' = [page EXCEPT ![f] = p] /\ UNCHANGED <<row, desk, queues>>
      BY <1>2, Zenon DEF AmendOnPage
    <2>4. IsPage(p)
      <3>. HIDE DEF r
      <3>. QED  BY <2>1, <2>2 DEF IsPage
    <2>5. PagesFull'
      <3>. HIDE DEF p
      <3>. QED  BY <1>0, <2>3, <2>4, PageReplaced
    <2>. QED  BY <1>a, <1>c, <2>3, <2>5 DEF Shape
  <1>3. CASE Fill(f)
    <2>. DEFINE r == Computed(f, page[f].copy, today)
                p == [page[f] EXCEPT !.copy = r]
    <2>1. Full(r) /\ r.status = "Draft"
      BY <1>0, <1>3, ComputedPenalties DEF Fill
    <2>2. page' = [page EXCEPT ![f] = p] /\ UNCHANGED <<row, desk, queues>>
      BY <1>3, Zenon DEF Fill
    <2>3. IsPage(page[f]) /\ page[f] # Closed
      BY <1>3 DEF Fill, Shape, PagesFull
    <2>4. IsPage(p)
      <3>1. /\ p.copy = r /\ p.from = page[f].from /\ {"from", "copy"} \subseteq DOMAIN p
            /\ page[f].from \in {"None", "Draft", "Submitted"}
        BY <2>3 DEF IsPage
      <3>. QED  BY <2>1, <3>1, Zenon DEF IsPage
    <2>5. PagesFull'
      <3>. HIDE DEF p
      <3>. QED  BY <1>0, <2>2, <2>4, PageReplaced
    <2>. QED  BY <1>a, <1>c, <2>2, <2>5 DEF Shape
  <1>4. CASE Save(f)
    <2>. DEFINE r == Finished(f, page[f].copy)
                p == [from |-> "Draft", copy |-> r]
    <2>1. Full(r) /\ r.status = "Draft"
      BY <1>0, <1>4, FinishedIsFull DEF Save
    <2>2. /\ row' = [row EXCEPT ![f] = r] /\ page' = [page EXCEPT ![f] = p]
          /\ UNCHANGED <<desk, queues>>
      BY <1>4, Zenon DEF Save
    <2>. HIDE DEF r
    <2>3. IsPage(p)
      BY <2>1 DEF IsPage
    <2>. QED  BY <1>0, <1>c, <2>1, <2>2, <2>3, DraftStored, PageReplaced DEF Shape
  <1>5. CASE QueuePage(f)
    <2>. DEFINE r == Finished(f, page[f].copy)
    <2>1. page[f] # Closed
      BY <1>5 DEF QueuePage, Closed
    <2>2. Full(r)
      BY <1>0, <2>1, FinishedIsFull
    <2>3. /\ row' = [row EXCEPT ![f] = Enqueued(r)] /\ page' = [page EXCEPT ![f] = Closed]
          /\ queues' = queues + 1 /\ UNCHANGED desk
      BY <1>5, Zenon DEF QueuePage
    <2>. HIDE DEF r
    <2>. QED  BY <1>0, <1>c, <2>2, <2>3, QueuedStored, PageReplaced DEF Shape
  <1>6. CASE CancelQueue(f)
    <2>. DEFINE r == Drafted(row[f])
    <2>1. Full(r) /\ r.status = "Draft"
      BY <1>0, <1>6, StoredIsFull, DraftedIsFull DEF CancelQueue
    <2>2. /\ row' = [row EXCEPT ![f] = r] /\ page' = [page EXCEPT ![f] = Closed]
          /\ UNCHANGED <<desk, queues>>
      BY <1>6, Zenon DEF CancelQueue
    <2>. HIDE DEF r
    <2>. QED  BY <1>0, <1>c, <2>1, <2>2, DraftStored, PageReplaced DEF Shape
  <1>7. CASE AssistantOpens(f)
    <2>. DEFINE r == Finished(f, Loaded(f))
    <2>1. Full(r) /\ r.status = "Draft"
      BY <1>0, <1>7, LoadedIsFull DEF AssistantOpens
    <2>2. /\ row' = [row EXCEPT ![f] = r] /\ desk' = [desk EXCEPT ![f] = r]
          /\ UNCHANGED <<page, queues>>
      BY <1>7, Zenon DEF AssistantOpens
    <2>. HIDE DEF r
    <2>3. IsCopy(r)
      BY <2>1 DEF IsCopy
    <2>. QED  BY <1>0, <1>b, <2>1, <2>2, <2>3, DraftStored, CopyReplaced DEF Shape
  <1>8. CASE AssistantSaves(f)
    <2>. DEFINE r == Computed(f, desk[f], today)
    <2>1. Full(r) /\ r.status = "Draft"
      BY <1>0, <1>8, ComputedPenalties DEF AssistantSaves
    <2>2. /\ row' = [row EXCEPT ![f] = r] /\ desk' = [desk EXCEPT ![f] = r]
          /\ UNCHANGED <<page, queues>>
      BY <1>8, Zenon DEF AssistantSaves
    <2>. HIDE DEF r
    <2>3. IsCopy(r)
      BY <2>1 DEF IsCopy
    <2>. QED  BY <1>0, <1>b, <2>1, <2>2, <2>3, DraftStored, CopyReplaced DEF Shape
  <1>9. CASE AssistantSends(f)
    <2>. DEFINE r == Computed(f, desk[f], today)
    <2>1. Full(r)
      BY <1>0, <1>9, ComputedPenalties DEF AssistantSends
    <2>2. /\ row' = [row EXCEPT ![f] = Enqueued(r)] /\ desk' = [desk EXCEPT ![f] = None]
          /\ queues' = queues + 1 /\ UNCHANGED page
      BY <1>9, Zenon DEF AssistantSends
    <2>. HIDE DEF r
    <2>. QED  BY <1>0, <1>b, <2>1, <2>2, QueuedStored, CopyReplaced DEF Shape
  <1>10. CASE AssistantDismisses(f)
    <2>1. desk' = [desk EXCEPT ![f] = None] /\ UNCHANGED <<row, page, queues>>
      BY <1>10, Zenon DEF AssistantDismisses
    <2>. QED  BY <1>0, <1>a, <1>b, <2>1, CopyReplaced DEF Shape
  <1>. QED
    BY <1>1, <1>2, <1>3, <1>4, <1>5, <1>6, <1>7, <1>8, <1>9, <1>10 DEF FilerStep

\* Steps of the filer leave alone what the worker holds: they queue under a new
\* number only, and never take back a claimed return.
LEMMA FilerOnQueue ==
    ASSUME Shape, NEW f \in Returns, FilerStep(f), NEW g \in Returns
    PROVE  /\ UNCHANGED <<worker, received>> /\ queues <= queues' /\ queues' \in Nat
           /\ row'[g] = row[g] \/ row'[g].status # "Queued" \/ row'[g].gen = queues + 1
           /\ Claimed(g) /\ row[g].status = "Queued" => row'[g] = row[g]
  <1>0. /\ queues \in Nat /\ DOMAIN row = Returns
        /\ IsPage(page[f]) /\ IsCopy(desk[f])
        /\ RowsFull
    BY DEF Shape, RowsFull, PagesFull, DesksFull
  <1>1. CASE UNCHANGED <<row, worker, received, queues>>
    BY <1>0, <1>1
  <1>2. CASE /\ UNCHANGED <<worker, received, queues>>
             /\ ~(Claimed(f) /\ row[f].status = "Queued")
             /\ \E r : row' = [row EXCEPT ![f] = r] /\ r.status = "Draft"
    BY <1>0, <1>2
  <1>3. CASE /\ UNCHANGED <<worker, received>> /\ queues' = queues + 1
             /\ row[f].status = "Draft"
             /\ \E r : row' = [row EXCEPT ![f] = r] /\ r.gen = queues + 1
    BY <1>0, <1>3
  <1>4. CASE OpenPage(f) \/ AmendOnPage(f) \/ Fill(f) \/ AssistantDismisses(f)
    BY <1>1, <1>4 DEF OpenPage, AmendOnPage, Fill, AssistantDismisses
  <1>5. CASE Save(f)
    <2>. DEFINE r == Finished(f, page[f].copy)
    <2>1. Full(page[f].copy) /\ page[f].copy.status = "Draft" /\ row[f].status # "Queued"
      BY <1>0, <1>5 DEF Save, IsPage
    <2>2. r.status = "Draft"
      BY <2>1, FinishedIsFull
    <2>3. row' = [row EXCEPT ![f] = r] /\ UNCHANGED <<worker, received, queues>>
      BY <1>5, Zenon DEF Save
    <2>. HIDE DEF r
    <2>. QED  BY <1>2, <2>1, <2>2, <2>3
  <1>6. CASE QueuePage(f)
    <2>. DEFINE r == Finished(f, page[f].copy)
    <2>1. Full(r)
      BY <1>0, <1>6, FinishedIsFull DEF QueuePage, IsPage, Closed
    <2>2. Enqueued(r).gen = queues + 1
      BY <2>1, EnqueuedIsFull
    <2>3. /\ row' = [row EXCEPT ![f] = Enqueued(r)] /\ row[f].status = "Draft"
          /\ queues' = queues + 1 /\ UNCHANGED <<worker, received>>
      BY <1>6, Zenon DEF QueuePage
    <2>. HIDE DEF r
    <2>. QED  BY <1>3, <2>2, <2>3
  <1>7. CASE CancelQueue(f)
    <2>1. Drafted(row[f]).status = "Draft"
      BY <1>0, <1>7, StoredIsFull, DraftedIsFull DEF CancelQueue
    <2>2. /\ row' = [row EXCEPT ![f] = Drafted(row[f])] /\ ~Claimed(f)
          /\ UNCHANGED <<worker, received, queues>>
      BY <1>7, Zenon DEF CancelQueue
    <2>. QED  BY <1>2, <2>1, <2>2
  <1>8. CASE AssistantOpens(f)
    <2>. DEFINE r == Finished(f, Loaded(f))
    <2>1. r.status = "Draft" /\ row[f].status # "Queued"
      BY <1>0, <1>8, LoadedIsFull DEF AssistantOpens
    <2>2. row' = [row EXCEPT ![f] = r] /\ UNCHANGED <<worker, received, queues>>
      BY <1>8, Zenon DEF AssistantOpens
    <2>. HIDE DEF r
    <2>3. \E x : row' = [row EXCEPT ![f] = x] /\ x.status = "Draft"
      BY <2>1, <2>2, Zenon
    <2>. QED  BY <1>2, <2>1, <2>2, <2>3
  <1>9. CASE AssistantSaves(f)
    <2>. DEFINE r == Computed(f, desk[f], today)
    <2>1. r.status = "Draft" /\ row[f].status # "Queued"
      BY <1>0, <1>9, ComputedPenalties DEF AssistantSaves, IsCopy
    <2>2. row' = [row EXCEPT ![f] = r] /\ UNCHANGED <<worker, received, queues>>
      BY <1>9, Zenon DEF AssistantSaves
    <2>. HIDE DEF r
    <2>3. \E x : row' = [row EXCEPT ![f] = x] /\ x.status = "Draft"
      BY <2>1, <2>2, Zenon
    <2>. QED  BY <1>2, <2>1, <2>2, <2>3
  <1>10. CASE AssistantSends(f)
    <2>. DEFINE r == Computed(f, desk[f], today)
    <2>1. Full(r)
      BY <1>0, <1>10, ComputedPenalties DEF AssistantSends, IsCopy
    <2>2. Enqueued(r).gen = queues + 1
      BY <2>1, EnqueuedIsFull
    <2>3. /\ row' = [row EXCEPT ![f] = Enqueued(r)] /\ row[f].status = "Draft"
          /\ queues' = queues + 1 /\ UNCHANGED <<worker, received>>
      BY <1>10, Zenon DEF AssistantSends
    <2>. HIDE DEF r
    <2>. QED  BY <1>3, <2>2, <2>3
  <1>. QED
    BY <1>4, <1>5, <1>6, <1>7, <1>8, <1>9, <1>10 DEF FilerStep

\* What the worker does to the rows.
LEMMA WorkerKeepsShape ==
    ASSUME Shape, ClaimFits, NEW f \in Returns, WorkerStep(f)
    PROVE  Shape'
  <1>0. /\ RowsFull /\ PagesFull /\ DesksFull /\ queues \in Nat
        /\ UNCHANGED <<page, desk>>
    BY DEF Shape, RowsFull, WorkerStep, Prepare, FailSession, Claim, Upload, copies
  <1>1. ASSUME UNCHANGED <<row, queues>> PROVE RowsFull'
    BY <1>0, <1>1 DEF RowsFull, None
  <1>2. ASSUME row[f].status = "Queued", SentBack(f), UNCHANGED queues PROVE RowsFull'
    <2>. DEFINE r == Drafted(Computed(f, row[f], today))
    <2>1. Full(r) /\ r.status = "Draft"
      BY <1>0, <1>2, StoredIsFull, ComputedPenalties, DraftedIsFull
    <2>2. row' = [row EXCEPT ![f] = r]
      BY <1>2, Zenon DEF SentBack
    <2>. HIDE DEF r
    <2>. QED  BY <1>0, <1>2, <2>1, <2>2, DraftStored, Zenon
  <1>3. ASSUME row[f].status = "Queued", queues' = queues + 1,
               row' = [row EXCEPT ![f] = Enqueued(row[f])]
        PROVE  RowsFull'
    <2>1. Full(row[f])
      BY <1>0, <1>3, StoredIsFull
    <2>. QED  BY <1>0, <1>3, <2>1, QueuedStored, Zenon
  <1>4. ASSUME Upload(f) PROVE RowsFull'
    <2>. DEFINE r == [row[f] EXCEPT !.status = "Submitted"]
    <2>1. Full(row[f])
      BY <1>0, <1>4, StoredIsFull DEF Upload, Claimed, ClaimFits
    <2>2. Full(r) /\ r.status = "Submitted"
      BY <2>1 DEF Full
    <2>3. row' = [row EXCEPT ![f] = r] /\ queues' = queues
      BY <1>4 DEF Upload
    <2>. HIDE DEF r
    <2>4. queues' \in Nat /\ queues <= queues' /\ r.status # "None" /\ r.status # "Queued"
      BY <1>0, <2>2, <2>3
    <2>. QED  BY <1>0, <2>2, <2>3, <2>4, RowReplaced, Zenon
  <1>5. ASSUME Prepare(f) \/ Claim(f) PROVE RowsFull'
    <2>1. UNCHANGED queues
      BY <1>5 DEF Prepare, Claim
    <2>2. UNCHANGED row \/ (row[f].status = "Queued" /\ SentBack(f))
      BY <1>5, Zenon DEF Prepare, Claim, SameGeneration
    <2>. QED  BY <1>1, <1>2, <2>1, <2>2
  <1>6. ASSUME FailSession(f) PROVE RowsFull'
    <2>1. \/ UNCHANGED <<row, queues>>
          \/ /\ row[f].status = "Queued" /\ queues' = queues + 1
             /\ row' = [row EXCEPT ![f] = Enqueued(row[f])]
      BY <1>6, Zenon DEF FailSession, SameGeneration
    <2>. QED  BY <1>1, <1>3, <2>1, Zenon
  <1>7. RowsFull'
    BY <1>4, <1>5, <1>6 DEF WorkerStep
  <1>. QED  BY <1>0, <1>7 DEF Shape, PagesFull, DesksFull

LEMMA ShapeStep == Shape /\ ClaimFits /\ [Next]_vars => Shape'
  <1>. SUFFICES ASSUME Shape, ClaimFits, [Next]_vars PROVE Shape'
    OBVIOUS
  <1>1. CASE Upgrade
    BY <1>1 DEF Upgrade, Shape, RowsFull, PagesFull, DesksFull, IsPage, IsCopy, None, Closed
  <1>2. CASE \/ \E e \in stored : RemoveOverride(e)
             \/ EditProfile \/ NextDay \/ UNCHANGED vars
    <2>1. UNCHANGED <<row, page, desk, queues>>
      BY <1>2 DEF RemoveOverride, EditProfile, NextDay, copies, vars
    <2>. QED  BY <2>1 DEF Shape, RowsFull, PagesFull, DesksFull, None
  <1>. QED
    BY <1>1, <1>2, FilerKeepsShape, WorkerKeepsShape, NextCases

LEMMA FitsStep ==
    Shape /\ ConnectingFits /\ ClaimFits /\ [Next]_vars => ConnectingFits' /\ ClaimFits'
  <1>. SUFFICES ASSUME Shape, ConnectingFits, ClaimFits, [Next]_vars
                PROVE  ConnectingFits' /\ ClaimFits'
    OBVIOUS
  <1>1. CASE \/ Upgrade \/ (\E e \in stored : RemoveOverride(e))
             \/ EditProfile \/ NextDay \/ UNCHANGED vars
    <2>1. UNCHANGED <<row, queues>> /\ (worker' = worker \/ worker' = Idle)
      BY <1>1 DEF Upgrade, RemoveOverride, EditProfile, NextDay, copies, vars
    <2>. QED  BY <2>1 DEF ConnectingFits, ClaimFits, SameGeneration, Idle
  <1>2. ASSUME NEW f \in Returns, FilerStep(f) PROVE ConnectingFits' /\ ClaimFits'
    <2>1. queues \in Nat
      BY DEF Shape, RowsFull
    <2>2. UNCHANGED worker /\ queues <= queues' /\ queues' \in Nat
      BY <1>2, FilerOnQueue
    <2>3. ASSUME worker.phase = "claimed" PROVE ClaimFits'
      <3>1. /\ worker.form \in Returns /\ row[worker.form].status = "Queued"
            /\ Claimed(worker.form)
        BY <2>3 DEF ClaimFits, Claimed
      <3>2. row'[worker.form] = row[worker.form]
        BY <1>2, <3>1, FilerOnQueue
      <3>. QED  BY <2>2, <3>1, <3>2 DEF ClaimFits
    <2>4. ASSUME worker.phase = "connecting" PROVE ConnectingFits'
      <3>. DEFINE w == worker.form
      <3>1. w \in Returns /\ worker.gen \in Nat /\ worker.gen <= queues
        BY <2>4 DEF ConnectingFits
      <3>2. row'[w] = row[w] \/ row'[w].status # "Queued" \/ row'[w].gen # worker.gen
        BY <1>2, <2>1, <3>1, FilerOnQueue
      <3>3. row'[w].status = "Queued" /\ row'[w].gen = worker.gen
            => worker.payload = row'[w].penalties
        BY <2>4, <3>2 DEF ConnectingFits, SameGeneration
      <3>. QED  BY <2>1, <2>2, <3>1, <3>3 DEF ConnectingFits, SameGeneration
    <2>. QED  BY <2>2, <2>3, <2>4 DEF ConnectingFits, ClaimFits
  <1>3. ASSUME NEW f \in Returns, Prepare(f) PROVE ConnectingFits' /\ ClaimFits'
    <2>1. CASE worker' = worker
      BY <1>3, <2>1 DEF Prepare, ConnectingFits, ClaimFits, Idle
    <2>2. CASE /\ worker' = [phase |-> "connecting", form |-> f, gen |-> row[f].gen,
                             payload |-> row[f].penalties]
               /\ UNCHANGED <<row, queues>>
      <3>1. row[f].gen \in Nat /\ row[f].gen <= queues
        BY <1>3 DEF Prepare, Shape, RowsFull
      <3>. QED  BY <2>2, <3>1 DEF ConnectingFits, ClaimFits, SameGeneration
    <2>. QED  BY <1>3, <2>1, <2>2 DEF Prepare
  <1>4. ASSUME NEW f \in Returns, FailSession(f) \/ Upload(f) PROVE ConnectingFits' /\ ClaimFits'
    BY <1>4 DEF FailSession, Upload, ConnectingFits, ClaimFits, Idle
  <1>5. ASSUME NEW f \in Returns, Claim(f) PROVE ConnectingFits' /\ ClaimFits'
    <2>1. CASE worker' = Idle
      BY <2>1 DEF ConnectingFits, ClaimFits, Idle
    <2>2. CASE /\ SameGeneration(f) /\ ~Stale(f)
               /\ worker' = [phase |-> "claimed", form |-> f, gen |-> worker.gen,
                             payload |-> worker.payload, due |-> row[f].due,
                             small |-> row[f].small, day |-> today]
               /\ UNCHANGED row
      <3>1. worker.phase = "connecting" /\ worker.form = f
        BY <1>5 DEF Claim
      <3>2. row[f].status = "Queued" /\ worker.payload = row[f].penalties
        BY <2>2, <3>1 DEF ConnectingFits, SameGeneration
      <3>3. Full(row[f])
        BY <3>2, StoredIsFull DEF Shape
      <3>4. row[f].penalties = Penalties(f, row[f].small, row[f].due, today)
        BY <2>2, <3>3, ComputedPenalties DEF Stale
      <3>. QED  BY <2>2, <3>2, <3>4 DEF ConnectingFits, ClaimFits
    <2>. QED  BY <1>5, <2>1, <2>2 DEF Claim
  <1>. QED
    BY <1>1, <1>2, <1>3, <1>4, <1>5, NextCases DEF WorkerStep

\* What is filed carries the penalties of its own day.
LEMMA FiledStep ==
    ClaimFits /\ Shape /\ FiledPenaltyIsOfItsDay /\ [Next]_vars => FiledPenaltyIsOfItsDay'
  <1>. SUFFICES ASSUME ClaimFits, Shape, FiledPenaltyIsOfItsDay, [Next]_vars
                PROVE  FiledPenaltyIsOfItsDay'
    OBVIOUS
  <1>1. ASSUME NEW f \in Returns, Upload(f) PROVE FiledPenaltyIsOfItsDay'
    <2>. DEFINE new == [form |-> f, day |-> worker.day, due |-> worker.due,
                        small |-> worker.small, penalties |-> worker.payload]
    <2>1. new.penalties = Penalties(new.form, new.small, new.due, new.day)
      BY <1>1 DEF Upload, Claimed, ClaimFits
    <2>2. received' = received \cup {new}
      BY <1>1, Zenon DEF Upload
    <2>. QED  BY <2>1, <2>2, Zenon DEF FiledPenaltyIsOfItsDay
  <1>2. CASE UNCHANGED received
    BY <1>2 DEF FiledPenaltyIsOfItsDay
  <1>3. CASE \/ Upgrade \/ (\E e \in stored : RemoveOverride(e)) \/ EditProfile \/ NextDay
             \/ UNCHANGED vars
    BY <1>2, <1>3 DEF Upgrade, RemoveOverride, EditProfile, NextDay, vars
  <1>4. ASSUME NEW f \in Returns, FilerStep(f) PROVE UNCHANGED received
    BY <1>4, FilerOnQueue
  <1>5. ASSUME NEW f \in Returns, Prepare(f) \/ FailSession(f) \/ Claim(f)
        PROVE  UNCHANGED received
    BY <1>5 DEF Prepare, FailSession, Claim
  <1>. QED
    BY <1>1, <1>2, <1>3, <1>4, <1>5, NextCases DEF WorkerStep

\* The payload of every return BIR received carries the penalties of the day
\* the return was claimed on, from the deadline and class of what was claimed,
\* whatever happened between its preparation and the claim
\* (process_queued_queueable, claim_queued_queueable).
THEOREM FiledPenalty == Spec => []FiledPenaltyIsOfItsDay
  <1>1. Init => Shape /\ ConnectingFits /\ ClaimFits /\ FiledPenaltyIsOfItsDay
    BY ShapeInit DEF Init, FiledPenaltyIsOfItsDay
  <1>. QED
    BY <1>1, ShapeStep, FitsStep, FiledStep, PTL DEF Spec

----------------------------------------------------------------------------
(* Removed overrides *)

RemovedWasOffered == removed \subseteq ledger

LEMMA OfferedStep == RemovedWasOffered /\ [Next]_vars => RemovedWasOffered'
  <1>. SUFFICES ASSUME RemovedWasOffered, [Next]_vars PROVE RemovedWasOffered'
    OBVIOUS
  <1>1. CASE Upgrade
    <2>1. removed' = removed /\ ledger \subseteq ledger'
      BY <1>1 DEF Upgrade, AfterSeeding
    <2>. QED  BY <2>1 DEF RemovedWasOffered
  <1>2. ASSUME NEW e \in stored, RemoveOverride(e) PROVE RemovedWasOffered'
    BY <1>2 DEF RemoveOverride, RemovedWasOffered
  <1>3. CASE UNCHANGED calendar
    <2>1. removed' = removed /\ ledger' = ledger
      BY <1>3 DEF calendar
    <2>. QED  BY <2>1 DEF RemovedWasOffered
  <1>. QED
    BY <1>1, <1>2, <1>3, CalendarCases

\* A seed covers no pair that was offered before.
LEMMA SeedsAreNew ==
    ASSUME NEW r, NEW entries, NEW pairs, NEW e \in Seeds(r, entries, pairs),
           NEW f \in e.codes, f \in Forms
    PROVE  <<e.day, f>> \notin pairs
  <1>1. PICK d : e = [since |-> r, day |-> d, to |-> NextWorkingDay(d, Releases[r].holidays),
                      codes |-> SeededCodes(r, entries, pairs, d)]
    BY Zenon DEF Seeds
  <1>2. e.day = d /\ e.codes = SeededCodes(r, entries, pairs, d)
    BY <1>1
  <1>. QED
    BY <1>2, Zenon DEF SeededCodes, Offered

LEMMA InSeq ==
    ASSUME NEW S, NEW q \in Seq(S), NEW i \in DOMAIN q
    PROVE  q[i] \in S
  OBVIOUS

LEMMA SeededForms ==
    ASSUME NEW r \in DOMAIN Releases, NEW entries, NEW pairs,
           NEW e \in Seeds(r, entries, pairs)
    PROVE  e.codes \subseteq Forms
  <1>1. PICK d : e = [since |-> r, day |-> d, to |-> NextWorkingDay(d, Releases[r].holidays),
                      codes |-> SeededCodes(r, entries, pairs, d)]
    BY Zenon DEF Seeds
  <1>2. e.codes \subseteq Releases[r].codes
    BY <1>1 DEF SeededCodes
  <1>3. Releases[r] \in [holidays: SUBSET Nat, codes: SUBSET Forms]
    BY ReleasesAssumption, InSeq, Zenon
  <1>. QED
    BY <1>2, <1>3

ReleaseIsShipped == release \in Nat \ {0}

LEMMA ReleaseStep == ReleaseIsShipped /\ [Next]_vars => ReleaseIsShipped'
  BY CalendarCases DEF ReleaseIsShipped, Upgrade, RemoveOverride, calendar

LEMMA RemovedStep ==
    ASSUME RemovedWasOffered, ReleaseIsShipped, [Next]_vars
    PROVE  \A e \in stored' \ stored : \A f \in e.codes : <<e.day, f>> \notin removed
  <1>1. CASE Upgrade
    <2>. SUFFICES ASSUME NEW e \in stored' \ stored, NEW f \in e.codes
                  PROVE  <<e.day, f>> \notin removed
      OBVIOUS
    <2>1. e \in Seeds(release + 1, stored, ledger)
      BY <1>1 DEF Upgrade
    <2>2. release + 1 \in DOMAIN Releases
      BY <1>1, ReleasesAssumption DEF Upgrade, ReleaseIsShipped
    <2>3. f \in Forms
      BY <2>1, <2>2, SeededForms
    <2>. QED
      BY <2>1, <2>3, SeedsAreNew DEF RemovedWasOffered
  <1>2. CASE (\E e \in stored : RemoveOverride(e)) \/ UNCHANGED calendar
    <2>1. stored' \subseteq stored
      BY <1>2 DEF RemoveOverride, calendar
    <2>. QED  BY <2>1
  <1>. QED
    BY <1>1, <1>2, CalendarCases

\* No release brings back a holiday whose override was removed after it was
\* offered (seed_holidays_from's ledger).
THEOREM RemovedStay == Spec => RemovedStaysRemoved
  <1>1. Init => RemovedWasOffered /\ ReleaseIsShipped
    BY DEF Init, RemovedWasOffered, ReleaseIsShipped
  <1>2. /\ RemovedWasOffered /\ ReleaseIsShipped /\ [Next]_vars
        => [\A e \in stored' \ stored : \A f \in e.codes : <<e.day, f>> \notin removed]_vars
    BY RemovedStep
  <1>. QED
    BY <1>1, <1>2, OfferedStep, ReleaseStep, PTL DEF Spec, RemovedStaysRemoved

----------------------------------------------------------------------------
(* The holidays of a release and the overrides they become *)

\* While an override was not removed, every day a release ships is covered for
\* every form it ships it for.
EveryHolidayIsCovered ==
    \A d \in Releases[release].holidays, f \in Releases[release].codes :
        f \in Covered(stored, d) \/ <<d, f>> \in removed

\* An entry that was not saved by the retired desktop moves a holiday of the
\* release that appended it, to the next day that release had no reason to skip.
SeedsMoveHolidays ==
    \A e \in stored \ Saved :
        /\ e.since \in 1 .. release /\ e.day \in Releases[e.since].holidays
        /\ e.to = NextWorkingDay(e.day, Releases[e.since].holidays)

\* What was offered is covered until its override is removed.
OffersStand ==
    /\ release \in DOMAIN Releases
    /\ Releases[release].holidays \X Releases[release].codes \subseteq ledger
    /\ \A d \in Nat, f \in Forms :
          <<d, f>> \in ledger => f \in Covered(stored, d) \/ <<d, f>> \in removed

LEMMA ShippedType ==
    ASSUME NEW r \in DOMAIN Releases
    PROVE  Releases[r].holidays \subseteq Nat /\ Releases[r].codes \subseteq Forms
<1>1. Releases[r] \in [holidays: SUBSET Nat, codes: SUBSET Forms]
  BY ReleasesAssumption, InSeq, Zenon
<1> QED  BY <1>1

LEMMA InCovered ==
    ASSUME NEW entries, NEW d, NEW f
    PROVE  f \in Covered(entries, d) <=> \E e \in entries : e.day = d /\ f \in e.codes
BY DEF Covered

\* A pair that a release ships is covered when it has been seeded.
LEMMA SeedsCover ==
    ASSUME NEW r \in DOMAIN Releases, NEW entries, NEW pairs,
           NEW d \in Releases[r].holidays, NEW f \in Releases[r].codes, <<d, f>> \notin pairs
    PROVE  f \in Covered(entries \cup Seeds(r, entries, pairs), d)
<1> DEFINE e == [since |-> r, day |-> d, to |-> NextWorkingDay(d, Releases[r].holidays),
                 codes |-> SeededCodes(r, entries, pairs, d)]
<1>1. CASE f \in Covered(entries, d)
  BY <1>1, InCovered
<1>2. CASE f \notin Covered(entries, d)
  <2>1. f \in SeededCodes(r, entries, pairs, d)
    BY <1>2 DEF SeededCodes, Offered
  <2>2. e \in Seeds(r, entries, pairs)
    BY <2>1 DEF Seeds
  <2>3. e.day = d /\ f \in e.codes
    BY <2>1
  <2> HIDE DEF e
  <2> QED  BY <2>2, <2>3, InCovered
<1> QED  BY <1>1, <1>2

LEMMA SeedsAreMoves ==
    ASSUME NEW r, NEW entries, NEW pairs, NEW e \in Seeds(r, entries, pairs)
    PROVE  /\ e.since = r /\ e.day \in Releases[r].holidays
           /\ e.to = NextWorkingDay(e.day, Releases[r].holidays)
<1>1. PICK d \in Releases[r].holidays :
          e = [since |-> r, day |-> d, to |-> NextWorkingDay(d, Releases[r].holidays),
               codes |-> SeededCodes(r, entries, pairs, d)]
  BY Zenon DEF Seeds
<1> QED  BY <1>1

\* Seeding release r, from a state of the calendar in which what was offered
\* stands.
LEMMA Seeding ==
    ASSUME NEW r \in DOMAIN Releases, NEW entries, NEW pairs, NEW gone,
           \A d \in Nat, f \in Forms :
               <<d, f>> \in pairs => f \in Covered(entries, d) \/ <<d, f>> \in gone
    PROVE  \A d \in Nat, f \in Forms :
               <<d, f>> \in AfterSeeding(r, pairs) =>
                   f \in Covered(entries \cup Seeds(r, entries, pairs), d) \/ <<d, f>> \in gone
<1> SUFFICES ASSUME NEW d \in Nat, NEW f \in Forms, <<d, f>> \in AfterSeeding(r, pairs)
             PROVE  f \in Covered(entries \cup Seeds(r, entries, pairs), d) \/ <<d, f>> \in gone
  OBVIOUS
<1>1. CASE <<d, f>> \in pairs
  BY <1>1, InCovered
<1>2. CASE <<d, f>> \notin pairs
  <2>1. d \in Releases[r].holidays /\ f \in Releases[r].codes
    BY <1>2 DEF AfterSeeding
  <2> QED  BY <1>2, <2>1, SeedsCover
<1> QED  BY <1>1, <1>2

LEMMA OffersInit == Init => OffersStand /\ SeedsMoveHolidays
<1> SUFFICES ASSUME Init PROVE OffersStand /\ SeedsMoveHolidays
  OBVIOUS
<1>1. 1 \in DOMAIN Releases
  BY ReleasesAssumption
<1>2. \A d \in Nat, f \in Forms :
          <<d, f>> \in {} => f \in Covered(Saved, d) \/ <<d, f>> \in removed
  OBVIOUS
<1>3. OffersStand
  <2>1. \A d \in Nat, f \in Forms :
            <<d, f>> \in AfterSeeding(1, {}) =>
                f \in Covered(Saved \cup Seeds(1, Saved, {}), d) \/ <<d, f>> \in removed
    BY <1>1, <1>2, Seeding
  <2> QED  BY <1>1, <2>1 DEF Init, OffersStand, AfterSeeding
<1>4. SeedsMoveHolidays
  BY SeedsAreMoves DEF Init, SeedsMoveHolidays
<1> QED  BY <1>3, <1>4

LEMMA OffersStep ==
    ASSUME OffersStand, SeedsMoveHolidays, [Next]_vars
    PROVE  OffersStand' /\ SeedsMoveHolidays'
<1>0. release \in Nat \ {0} /\ \A r \in DOMAIN Releases : r \in Nat \ {0}
  BY ReleasesAssumption DEF OffersStand
<1>1. CASE Upgrade
  <2>1. release + 1 \in DOMAIN Releases
    BY <1>0, <1>1, ReleasesAssumption DEF Upgrade
  <2>2. /\ release' = release + 1 /\ removed' = removed
        /\ stored' = stored \cup Seeds(release + 1, stored, ledger)
        /\ ledger' = AfterSeeding(release + 1, ledger)
    BY <1>1 DEF Upgrade
  <2>3. OffersStand'
    <3>1. \A d \in Nat, f \in Forms :
              <<d, f>> \in AfterSeeding(release + 1, ledger) =>
                  \/ f \in Covered(stored \cup Seeds(release + 1, stored, ledger), d)
                  \/ <<d, f>> \in removed
      BY <2>1, Seeding DEF OffersStand
    <3> QED  BY <2>1, <2>2, <3>1 DEF OffersStand, AfterSeeding
  <2>4. SeedsMoveHolidays'
    <3>1. ASSUME NEW e \in stored \ Saved
          PROVE  /\ e.since \in 1 .. release' /\ e.day \in Releases[e.since].holidays
                 /\ e.to = NextWorkingDay(e.day, Releases[e.since].holidays)
      BY <1>0, <2>2, <3>1 DEF SeedsMoveHolidays
    <3>2. ASSUME NEW e \in Seeds(release + 1, stored, ledger)
          PROVE  /\ e.since \in 1 .. release' /\ e.day \in Releases[e.since].holidays
                 /\ e.to = NextWorkingDay(e.day, Releases[e.since].holidays)
      <4>1. e.since = release'
        BY <2>2, <3>2, SeedsAreMoves
      <4> QED  BY <1>0, <2>2, <3>2, <4>1, SeedsAreMoves
    <3> QED  BY <2>2, <3>1, <3>2 DEF SeedsMoveHolidays
  <2> QED  BY <2>3, <2>4
<1>2. ASSUME NEW e \in stored, RemoveOverride(e) PROVE OffersStand' /\ SeedsMoveHolidays'
  <2>1. /\ stored' = stored \ {e} /\ UNCHANGED <<release, ledger>>
        /\ removed' = removed \cup (({e.day} \X e.codes) \cap ledger)
    BY <1>2 DEF RemoveOverride
  <2>2. ASSUME NEW d \in Nat, NEW f \in Forms, <<d, f>> \in ledger
        PROVE  f \in Covered(stored', d) \/ <<d, f>> \in removed'
    <3>1. CASE e.day = d /\ f \in e.codes
      BY <2>1, <2>2, <3>1
    <3>2. CASE <<d, f>> \in removed
      BY <2>1, <3>2
    <3>3. CASE ~(e.day = d /\ f \in e.codes) /\ <<d, f>> \notin removed
      <4>1. f \in Covered(stored, d)
        BY <2>2, <3>3 DEF OffersStand
      <4>2. PICK x \in stored : x.day = d /\ f \in x.codes
        BY <4>1, InCovered
      <4>3. x \in stored'
        BY <2>1, <3>3, <4>2
      <4> QED  BY <4>2, <4>3 DEF Covered
    <3> QED  BY <3>1, <3>2, <3>3
  <2> QED  BY <2>1, <2>2 DEF OffersStand, SeedsMoveHolidays
<1>3. CASE UNCHANGED calendar
  <2> QED  BY <1>3 DEF OffersStand, SeedsMoveHolidays, Covered, calendar
<1> QED  BY <1>1, <1>2, <1>3, CalendarCases

\* Every holiday the installed release ships for a form has an override, seeded
\* or saved before, unless the user removed it; and a seeded one carries the
\* deadline to the next working day of the release that shipped it, whatever
\* days and forms each release added (seed_holidays_from).
THEOREM HolidaysBecomeOverrides == Spec => [](EveryHolidayIsCovered /\ SeedsMoveHolidays)
<1>1. OffersStand => EveryHolidayIsCovered
  <2> SUFFICES ASSUME OffersStand, NEW d \in Releases[release].holidays,
                      NEW f \in Releases[release].codes
               PROVE  f \in Covered(stored, d) \/ <<d, f>> \in removed
    BY DEF EveryHolidayIsCovered
  <2>1. d \in Nat /\ f \in Forms
    BY ShippedType DEF OffersStand
  <2> QED  BY <2>1 DEF OffersStand
<1> QED  BY <1>1, OffersInit, OffersStep, PTL DEF Spec

----------------------------------------------------------------------------
(* Numbers *)

LEMMA Least ==
    ASSUME NEW T \in SUBSET Nat, T # {}
    PROVE  \E n \in T : \A m \in T : n <= m
<1>1. PICK n \in T : \A m \in T : ~(<<m, n>> \in OpToRel(<, Nat))
  BY NatLessThanWellFounded, WFMin
<1>2. \A m \in T : ~(m < n)
  BY <1>1 DEF OpToRel
<1> QED  BY <1>2

\* Induction up to n, for a property that is given as a set.
LEMMA CountUp ==
    ASSUME NEW n \in Nat, NEW S, 0 \in S, \A k \in 0 .. n - 1 : k \in S => k + 1 \in S
    PROVE  0 .. n \subseteq S
<1> DEFINE Rest == {k \in 0 .. n : k \notin S}
<1> SUFFICES ASSUME Rest # {} PROVE FALSE
  OBVIOUS
<1>1. Rest \in SUBSET Nat
  OBVIOUS
<1>2. PICK k \in Rest : \A m \in Rest : k <= m
  <2> HIDE DEF Rest
  <2> QED  BY <1>1, Least
<1>3. k - 1 \in 0 .. n - 1 /\ k - 1 \in S
  BY <1>2
<1> QED  BY <1>2, <1>3

\* A function defined by recursion over 1 .. n exists.
LEMMA Recursion ==
    ASSUME NEW n \in Nat, NEW a \in Nat, NEW step \in [1 .. n -> [Nat -> Nat]]
    PROVE  \E g \in [0 .. n -> Nat] : g[0] = a /\ \A i \in 1 .. n : g[i] = step[i][g[i - 1]]
<1> DEFINE P(k) == \E g \in [0 .. k -> Nat] : g[0] = a /\ \A i \in 1 .. k : g[i] = step[i][g[i - 1]]
           Good == {k \in 0 .. n : P(k)}
<1>1. P(0)
  <2> DEFINE g == [i \in 0 .. 0 |-> a]
  <2>1. g \in [0 .. 0 -> Nat] /\ g[0] = a /\ \A i \in 1 .. 0 : FALSE
    OBVIOUS
  <2> HIDE DEF g
  <2> QED  BY <2>1
<1>2. ASSUME NEW k \in 0 .. n, k # n, P(k) PROVE P(k + 1)
  <2>1. PICK g \in [0 .. k -> Nat] : g[0] = a /\ \A i \in 1 .. k : g[i] = step[i][g[i - 1]]
    BY <1>2
  <2>2. k + 1 \in 1 .. n /\ g[k] \in Nat /\ k + 1 \in Nat
    BY <1>2
  <2>3. PICK last \in Nat : last = step[k + 1][g[k]]
    BY <2>2
  <2> DEFINE h == [i \in 0 .. k + 1 |-> IF i = k + 1 THEN last ELSE g[i]]
  <2>4. h \in [0 .. k + 1 -> Nat]
    BY <2>2
  <2>5. h[0] = a
    BY <2>1, <2>2
  <2>6. ASSUME NEW i \in 1 .. k + 1 PROVE h[i] = step[i][h[i - 1]]
    <3>1. CASE i = k + 1
      <4>1. h[i] = last /\ h[i - 1] = g[k]
        BY <2>2, <3>1
      <4> QED  BY <2>3, <3>1, <4>1
    <3>2. CASE i # k + 1
      <4>1. i \in 1 .. k /\ h[i] = g[i] /\ h[i - 1] = g[i - 1]
        BY <2>2, <3>2
      <4> QED  BY <2>1, <4>1
    <3> QED  BY <3>1, <3>2
  <2> HIDE DEF h
  <2> QED  BY <2>4, <2>5, <2>6
<1> HIDE DEF P
<1>3. 0 .. n \subseteq Good
  <2>1. 0 \in Good /\ \A k \in 0 .. n - 1 : k \in Good => k + 1 \in Good
    BY <1>1, <1>2
  <2> HIDE DEF Good
  <2> QED  BY <2>1, CountUp
<1>4. P(n)
  BY <1>3
<1> QED  BY <1>4 DEF P

----------------------------------------------------------------------------
(* The list of overrides *)

\* The entries of a set that can be listed: no two in the same place.
Listable(entries) ==
    /\ IsFiniteSet(entries)
    /\ \A e \in entries : e.since \in Nat /\ e.day \in Nat
    /\ \A e, x \in entries : e.since = x.since /\ e.day = x.day => e = x

\* Every entry has its place in the list, which is in the order of releases.
LEMMA Sorted ==
    ASSUME NEW S, Listable(S)
    PROVE  /\ InOrder(S) \in Seq(S)
           /\ \A e \in S : \E i \in 1 .. Len(InOrder(S)) : InOrder(S)[i] = e
           /\ \A i, j \in 1 .. Len(InOrder(S)) :
                 i < j => InOrder(S)[i].since <= InOrder(S)[j].since
<1> DEFINE n == Cardinality(S)
           before(e) == {x \in S : x = e \/ Earlier(x, e)}
           place(e) == Cardinality(before(e))
           list == [i \in 1 .. n |-> CHOOSE e \in S : place(e) = i]
<1>1. n \in Nat /\ IsFiniteSet(1 .. n) /\ Cardinality(1 .. n) = n
  <2>1. n \in Nat
    BY FS_CardinalityType DEF Listable
  <2> HIDE DEF n
  <2> QED  BY <2>1, FS_Interval
<1>2. ASSUME NEW e \in S
      PROVE  IsFiniteSet(before(e)) /\ place(e) \in 1 .. n
  <2>1. /\ IsFiniteSet(before(e)) /\ place(e) <= n
        /\ place(e) \in Nat
    BY FS_Subset, FS_CardinalityType DEF Listable
  <2>2. e \in before(e)
    OBVIOUS
  <2> HIDE DEF before
  <2>3. place(e) # 0
    BY <2>1, <2>2, FS_EmptySet
  <2> HIDE DEF place
  <2> QED  BY <1>1, <2>1, <2>3
<1>3. ASSUME NEW e \in S, NEW x \in S, Earlier(e, x)
      PROVE  place(e) < place(x)
  <2>1. before(e) \subseteq before(x)
    BY <1>3 DEF Earlier, Listable
  <2>2. x \in before(x) /\ x \notin before(e)
    BY <1>3 DEF Earlier, Listable
  <2>3. IsFiniteSet(before(x)) /\ place(e) \in 1 .. n /\ place(x) \in 1 .. n
    BY <1>2
  <2> HIDE DEF before
  <2>4. place(e) <= place(x) /\ (place(x) = place(e) => before(x) = before(e))
    BY <2>1, <2>3, FS_Subset
  <2> HIDE DEF place
  <2> QED  BY <1>1, <2>2, <2>3, <2>4
<1>4. ASSUME NEW e \in S, NEW x \in S, e # x
      PROVE  Earlier(e, x) \/ Earlier(x, e)
  BY <1>4 DEF Earlier, Listable
<1>5. InOrder(S) = list
  BY DEF InOrder
<1> HIDE DEF before, place, n
<1>6. ASSUME NEW e \in S, NEW x \in S, place(e) = place(x)
      PROVE  e = x
  <2> SUFFICES ASSUME e # x PROVE FALSE
    OBVIOUS
  <2>1. place(e) < place(x) \/ place(x) < place(e)
    BY <1>3, <1>4
  <2>2. place(e) \in Nat
    BY <1>1, <1>2
  <2> QED  BY <1>6, <2>1, <2>2
<1> DEFINE f == [e \in S |-> place(e)]
<1>7. f \in Injection(S, 1 .. n)
  BY <1>2, <1>6 DEF Injection, IsInjective
<1>8. f \in Surjection(S, 1 .. n)
  <2> HIDE DEF f
  <2>1. Cardinality(S) = Cardinality(1 .. n)
    BY <1>1 DEF n
  <2> QED  BY <1>1, <1>7, <2>1, FS_Injection
<1>9. ASSUME NEW i \in 1 .. n
      PROVE  list[i] \in S /\ place(list[i]) = i
  <2>1. \E e \in S : place(e) = i
    BY <1>8 DEF Surjection
  <2> QED  BY <2>1
<1>10. list \in Seq(S) /\ Len(list) = n
  <2>1. list \in [1 .. n -> S]
    BY <1>9
  <2>2. DOMAIN list = 1 .. n
    OBVIOUS
  <2> HIDE DEF list
  <2> QED  BY <1>1, <2>1, <2>2, SeqDef
<1> HIDE DEF list
<1>11. \A e \in S : place(e) \in 1 .. n /\ list[place(e)] = e
  BY <1>2, <1>6, <1>9
<1>12. \A i, j \in 1 .. n : i < j => list[i].since <= list[j].since
  <2> SUFFICES ASSUME NEW i \in 1 .. n, NEW j \in 1 .. n, i < j
               PROVE  list[i].since <= list[j].since
    OBVIOUS
  <2>1. list[i] \in S /\ list[j] \in S /\ place(list[i]) = i /\ place(list[j]) = j
    BY <1>9
  <2>2. ~Earlier(list[j], list[i]) /\ list[i] # list[j]
    BY <1>1, <1>3, <2>1
  <2>3. Earlier(list[i], list[j])
    BY <1>4, <2>1, <2>2
  <2> QED  BY <2>1, <2>3 DEF Earlier, Listable
<1> QED  BY <1>5, <1>10, <1>11, <1>12

LEMMA SeedsAreListable ==
    ASSUME NEW r \in DOMAIN Releases, NEW entries, NEW pairs
    PROVE  /\ Listable(Seeds(r, entries, pairs))
           /\ \A e \in Seeds(r, entries, pairs) : e.since = r
<1> DEFINE S == Seeds(r, entries, pairs)
           day == [e \in S |-> e.day]
<1>1. Releases[r].holidays \subseteq Nat /\ IsFiniteSet(Releases[r].holidays) /\ r \in Nat
  BY ShippedType, ReleasesAssumption
<1>2. \A e \in S : e.since = r /\ e.day \in Releases[r].holidays
  BY SeedsAreMoves
<1>3. \A e, x \in S : e.day = x.day => e = x
  <2> DEFINE seed(d) == [since |-> r, day |-> d, to |-> NextWorkingDay(d, Releases[r].holidays),
                         codes |-> SeededCodes(r, entries, pairs, d)]
  <2>1. \A d : seed(d).day = d
    OBVIOUS
  <2>2. \A e \in S : \E d : e = seed(d)
    BY Zenon DEF Seeds
  <2> HIDE DEF seed, S
  <2>3. \A e \in S : e = seed(e.day)
    BY <2>1, <2>2
  <2> QED  BY <2>3
<1> HIDE DEF S
<1>4. day \in Injection(S, Releases[r].holidays)
  BY <1>2, <1>3 DEF Injection, IsInjective
<1>5. IsFiniteSet(S)
  <2> HIDE DEF day
  <2> QED  BY <1>1, <1>4, FS_Injection
<1> QED  BY <1>1, <1>2, <1>3, <1>5 DEF Listable, S

LEMMA SeededIsListable ==
    ASSUME NEW r \in DOMAIN Releases, NEW entries, NEW pairs,
           Listable(entries), \A e \in entries : e.since < r
    PROVE  Listable(entries \cup Seeds(r, entries, pairs))
<1>1. IsFiniteSet(entries \cup Seeds(r, entries, pairs))
  BY SeedsAreListable, FS_Union DEF Listable
<1> QED  BY <1>1, SeedsAreListable, ReleasesAssumption DEF Listable

\* The entries are in the order of the releases that appended them.
Ordered == Listable(stored) /\ \A e \in stored : e.since \in 0 .. release

LEMMA OrderedInit == Init => Ordered
<1> SUFFICES ASSUME Init PROVE Ordered
  OBVIOUS
<1>1. Listable(Saved) /\ \A e \in Saved : e.since = 0
  BY SavedAssumption DEF Listable, Entry
<1>2. 1 \in DOMAIN Releases /\ \A e \in Saved : e.since < 1
  BY <1>1, ReleasesAssumption
<1>3. stored = Saved \cup Seeds(1, Saved, {}) /\ release = 1
  BY DEF Init
<1> QED  BY <1>1, <1>2, <1>3, SeededIsListable, SeedsAreListable DEF Ordered

LEMMA OrderedStep == OffersStand /\ Ordered /\ [Next]_vars => Ordered'
<1> SUFFICES ASSUME OffersStand, Ordered, [Next]_vars PROVE Ordered'
  OBVIOUS
<1>0. release \in Nat \ {0}
  BY ReleasesAssumption DEF OffersStand
<1>1. CASE Upgrade
  <2>1. /\ release' = release + 1 /\ release + 1 \in DOMAIN Releases
        /\ stored' = stored \cup Seeds(release + 1, stored, ledger)
    BY <1>0, <1>1, ReleasesAssumption DEF Upgrade
  <2>2. \A e \in stored : e.since < release + 1
    BY <1>0 DEF Ordered
  <2>3. Listable(stored')
    BY <2>1, <2>2, SeededIsListable DEF Ordered
  <2>4. \A e \in stored' : e.since \in 0 .. release + 1
    BY <1>0, <2>1, SeedsAreListable DEF Ordered
  <2> QED  BY <2>1, <2>3, <2>4 DEF Ordered
<1>2. ASSUME NEW e \in stored, RemoveOverride(e) PROVE Ordered'
  <2>1. stored' \in SUBSET stored /\ release' = release
    BY <1>2 DEF RemoveOverride
  <2>2. IsFiniteSet(stored')
    BY <2>1, FS_Subset DEF Ordered, Listable
  <2> QED  BY <2>1, <2>2 DEF Ordered, Listable
<1>3. CASE UNCHANGED calendar
  <2> QED  BY <1>3 DEF Ordered, Listable, calendar
<1> QED  BY <1>1, <1>2, <1>3, CalendarCases

----------------------------------------------------------------------------
(* The Calendar's deadline *)

\* Nowhere are more than MaxClosed days in a row closed.
OpensAgain ==
    \A r \in DOMAIN Releases, d \in Nat :
        \E n \in d .. d + MaxClosed : WorkingDay(n, Releases[r].holidays)

LEMMA OnlyFirst ==
    ASSUME NEW d \in Nat, NEW h, NEW n \in d .. d + MaxClosed, WorkingDay(n, h),
           \A m \in d .. n - 1 : ~WorkingDay(m, h)
    PROVE  OnOrAfter(d, h) = n
<1>1. ASSUME NEW k \in d .. d + MaxClosed, WorkingDay(k, h),
             \A m \in d .. k - 1 : ~WorkingDay(m, h)
      PROVE  k = n
  <2>1. ~(k \in d .. n - 1) /\ ~(n \in d .. k - 1)
    BY <1>1
  <2> QED  BY <2>1 DEF MaxClosed
<1> QED  BY <1>1 DEF OnOrAfter

LEMMA FirstWorkingDay ==
    ASSUME NEW d \in Nat, NEW h, NEW n \in d .. d + MaxClosed, WorkingDay(n, h)
    PROVE  /\ OnOrAfter(d, h) \in Nat /\ OnOrAfter(d, h) >= d
           /\ WorkingDay(OnOrAfter(d, h), h)
           /\ \A m \in d .. OnOrAfter(d, h) - 1 : ~WorkingDay(m, h)
<1> DEFINE T == {k \in d .. d + MaxClosed : WorkingDay(k, h)}
<1>1. T \in SUBSET Nat /\ n \in T
  BY DEF MaxClosed
<1>2. PICK k \in T : \A m \in T : k <= m
  <2> HIDE DEF T
  <2> QED  BY <1>1, Least
<1>3. k \in d .. d + MaxClosed /\ WorkingDay(k, h) /\ k \in Nat /\ k >= d
  BY DEF MaxClosed
<1>4. \A m \in d .. k - 1 : ~WorkingDay(m, h)
  <2> SUFFICES ASSUME NEW m \in d .. k - 1, WorkingDay(m, h) PROVE FALSE
    OBVIOUS
  <2>1. m \in T
    BY <1>3 DEF MaxClosed
  <2> QED  BY <1>2, <1>3, <2>1
<1>5. OnOrAfter(d, h) = k
  BY <1>3, <1>4, OnlyFirst
<1> QED  BY <1>3, <1>4, <1>5

\* The standard rule never passes a working day.
LEMMA OffWeekendStops ==
    ASSUME OpensAgain, NEW r \in DOMAIN Releases, NEW d \in Nat
    PROVE  /\ OffWeekend(d) \in Nat /\ OffWeekend(d) >= d
           /\ OffWeekend(d) \notin Weekend
           /\ \A m \in d .. OffWeekend(d) - 1 : m \in Weekend
           /\ d \notin Weekend => OffWeekend(d) = d
<1>1. PICK n \in d .. d + MaxClosed : WorkingDay(n, Releases[r].holidays)
  BY DEF OpensAgain
<1>2. WorkingDay(n, {})
  BY <1>1 DEF WorkingDay
<1>3. d \notin Weekend => OffWeekend(d) = d
  <2> SUFFICES ASSUME d \notin Weekend PROVE OffWeekend(d) = d
    OBVIOUS
  <2>1. d \in d .. d + MaxClosed /\ WorkingDay(d, {}) /\ \A m \in d .. d - 1 : FALSE
    BY DEF WorkingDay, MaxClosed
  <2> QED  BY <2>1, OnlyFirst DEF OffWeekend
<1> QED  BY <1>2, <1>3, FirstWorkingDay DEF OffWeekend, WorkingDay

LEMMA HolidaysGrow ==
    ASSUME NEW i \in DOMAIN Releases, NEW j \in DOMAIN Releases, i <= j
    PROVE  Releases[i].holidays \subseteq Releases[j].holidays
BY ReleasesAssumption

\* What an override seeded for a holiday does to a deadline.
LEMMA SeedCarries ==
    ASSUME OpensAgain, NEW r \in DOMAIN Releases, NEW e, e.day \in Nat,
           e.to = NextWorkingDay(e.day, Releases[r].holidays)
    PROVE  /\ OffWeekend(e.to) \in Nat /\ OffWeekend(e.to) > e.day
           /\ WorkingDay(OffWeekend(e.to), Releases[r].holidays)
           /\ \A m \in e.day + 1 .. OffWeekend(e.to) - 1 :
                  ~WorkingDay(m, Releases[r].holidays)
<1>1. PICK n \in e.day + 1 .. e.day + 1 + MaxClosed : WorkingDay(n, Releases[r].holidays)
  <2>1. e.day + 1 \in Nat
    OBVIOUS
  <2> QED  BY <2>1 DEF OpensAgain
<1>2. /\ e.to \in Nat /\ e.to >= e.day + 1
      /\ WorkingDay(e.to, Releases[r].holidays)
      /\ \A m \in e.day + 1 .. e.to - 1 : ~WorkingDay(m, Releases[r].holidays)
  <2>1. e.day + 1 \in Nat
    OBVIOUS
  <2> QED  BY <1>1, <2>1, FirstWorkingDay DEF NextWorkingDay
<1>3. OffWeekend(e.to) = e.to
  BY <1>2, OffWeekendStops DEF WorkingDay
<1> QED  BY <1>2, <1>3

\* A deadline is what the entries, one after the other, make of it.
LEMMA DeadlineIsFold ==
    ASSUME OpensAgain, Ordered, OffersStand, SeedsMoveHolidays, profile.extensions = <<>>,
           NEW f \in Forms, \A e \in Saved : f \notin e.codes, NEW d \in Nat
    PROVE  LET list == InOrder(stored)
           IN  \E final :
                  /\ Deadline(f, d) = final[Len(list)]
                  /\ final[0] = OffWeekend(d)
                  /\ \A i \in 1 .. Len(list) :
                        final[i] = IF Moves(list[i], f, d, final[i - 1])
                                   THEN OffWeekend(list[i].to) ELSE final[i - 1]
<1> DEFINE list == InOrder(stored)
           n == Len(list)
           F(g) == [i \in 0 .. n |->
                       IF i = 0 THEN OffWeekend(d)
                       ELSE IF Moves(list[i], f, d, g[i - 1]) THEN OffWeekend(list[i].to)
                       ELSE g[i - 1]]
<1>1. list \in Seq(stored) /\ n \in Nat
  <2>1. list \in Seq(stored)
    BY Sorted DEF Ordered
  <2> HIDE DEF list
  <2> QED  BY <2>1
<1>2. Overrides = list
  <2> HIDE DEF list
  <2>1. list \o <<>> = list
    BY <1>1, ConcatEmptySeq
  <2> QED  BY <2>1 DEF Overrides, list
<1>3. Deadline(f, d) = (CHOOSE g : g = F(g))[n]
  BY <1>2, Zenon DEF Deadline
<1>4. \E g \in [0 .. n -> Nat] : g = F(g)
  <2> DEFINE step == [i \in 1 .. n |-> [x \in Nat |->
                         IF Moves(list[i], f, d, x) THEN OffWeekend(list[i].to) ELSE x]]
  <2>0. PICK r \in DOMAIN Releases : TRUE
    BY DEF OffersStand
  <2> HIDE DEF list, n
  <2>1. ASSUME NEW i \in 1 .. n, f \in list[i].codes
        PROVE  OffWeekend(list[i].to) \in Nat
    <3>1. list[i] \in stored
      BY <1>1, <2>1 DEF n
    <3>2. list[i] \in stored \ Saved /\ list[i].day \in Nat
      BY <2>1, <3>1 DEF Ordered, Listable
    <3>3. list[i].since \in DOMAIN Releases
      BY <3>2, ReleasesAssumption DEF SeedsMoveHolidays, OffersStand
    <3> QED  BY <3>2, <3>3, SeedCarries DEF SeedsMoveHolidays
  <2>2. step \in [1 .. n -> [Nat -> Nat]]
    BY <2>1 DEF Moves
  <2>3. OffWeekend(d) \in Nat
    BY <2>0, OffWeekendStops
  <2>4. PICK g \in [0 .. n -> Nat] :
            g[0] = OffWeekend(d) /\ \A i \in 1 .. n : g[i] = step[i][g[i - 1]]
    <3>1. \A a \in Nat, s \in [1 .. n -> [Nat -> Nat]] :
              \E g \in [0 .. n -> Nat] : g[0] = a /\ \A i \in 1 .. n : g[i] = s[i][g[i - 1]]
      BY <1>1, Recursion
    <3> HIDE DEF step
    <3> QED  BY <2>2, <2>3, <3>1
  <2>5. ASSUME NEW i \in 1 .. n
        PROVE  g[i] = IF Moves(list[i], f, d, g[i - 1])
                      THEN OffWeekend(list[i].to) ELSE g[i - 1]
    <3>1. g[i - 1] \in Nat
      BY <1>1
    <3> QED  BY <2>4, <3>1
  <2> HIDE DEF step
  <2>6. \A i \in 0 .. n : g[i] = F(g)[i]
    BY <1>1, <2>4, <2>5
  <2>7. g = F(g)
    BY <2>6
  <2> HIDE DEF F
  <2> QED  BY <2>7
<1> DEFINE final == CHOOSE g : g = F(g)
<1>5. final = F(final)
  <2> HIDE DEF F
  <2> QED  BY <1>4
<1>6. \A i \in 0 .. n : final[i] = F(final)[i]
  <2> HIDE DEF F, final
  <2> QED  BY <1>5
<1>7. Deadline(f, d) = final[n]
  BY <1>3
<1> HIDE DEF final, list
<1>8. final[0] = OffWeekend(d)
  BY <1>1, <1>6
<1>9. ASSUME NEW i \in 1 .. n
      PROVE  final[i] = IF Moves(list[i], f, d, final[i - 1])
                        THEN OffWeekend(list[i].to) ELSE final[i - 1]
  BY <1>1, <1>6
<1> QED  BY <1>7, <1>8, <1>9 DEF list

LEMMA DeadlineIsFirst ==
    ASSUME OpensAgain, Ordered, OffersStand, SeedsMoveHolidays, removed = {},
           profile.extensions = <<>>, NEW f \in Releases[release].codes,
           \A e \in Saved : f \notin e.codes, NEW d \in Nat
    PROVE  Deadline(f, d) = OnOrAfter(d, Releases[release].holidays)
<1> DEFINE H == Releases[release].holidays
           list == InOrder(stored)
           n == Len(list)
<1>1. release \in DOMAIN Releases /\ H \subseteq Nat /\ f \in Forms
  BY ShippedType DEF OffersStand
<1>2. /\ list \in Seq(stored)
      /\ \A e \in stored : \E i \in 1 .. n : list[i] = e
      /\ \A i, j \in 1 .. n : i < j => list[i].since <= list[j].since
  BY Sorted DEF Ordered
<1>3. PICK final :
          /\ Deadline(f, d) = final[n]
          /\ final[0] = OffWeekend(d)
          /\ \A i \in 1 .. n : final[i] = IF Moves(list[i], f, d, final[i - 1])
                                          THEN OffWeekend(list[i].to) ELSE final[i - 1]
  BY <1>1, DeadlineIsFold
<1> HIDE DEF list
<1>4. n \in Nat /\ \A i \in 1 .. n : list[i] \in stored
  BY <1>2
<1> DEFINE Since(i) == Releases[list[i].since].holidays
\* The entries for the form were all seeded by a release.
<1>5. ASSUME NEW i \in 1 .. n, f \in list[i].codes
      PROVE  /\ list[i].since \in DOMAIN Releases
             /\ list[i].day \in Nat /\ list[i].day \in Since(i) /\ Since(i) \subseteq H
             /\ list[i].to = NextWorkingDay(list[i].day, Since(i))
  <2>1. list[i] \in stored \ Saved /\ list[i].day \in Nat
    BY <1>4, <1>5 DEF Ordered, Listable
  <2>2. list[i].since \in DOMAIN Releases /\ list[i].since <= release
    BY <1>1, <2>1, ReleasesAssumption DEF SeedsMoveHolidays
  <2> QED  BY <1>1, <2>1, <2>2, HolidaysGrow DEF SeedsMoveHolidays
\* After i entries the deadline is past closed days only, and no entry so far
\* names the day it has come to.
<1> DEFINE Stands(i) ==
              /\ final[i] \in Nat /\ final[i] >= d /\ final[i] \notin Weekend
              /\ \A m \in d .. final[i] - 1 : ~WorkingDay(m, H)
              /\ \A k \in 1 .. i : f \in list[k].codes => list[k].day # final[i]
<1>6. Stands(0)
  BY <1>1, <1>3, OffWeekendStops DEF WorkingDay
<1>7. ASSUME NEW i \in 0 .. n - 1, Stands(i)
      PROVE  Stands(i + 1)
  <2> DEFINE e == list[i + 1]
  <2>1. i + 1 \in 1 .. n /\ (i + 1) - 1 = i
    BY <1>4
  <2>2. CASE Moves(e, f, d, final[i])
    <3>1. f \in e.codes /\ e.day \in {d, final[i]} /\ final[i + 1] = OffWeekend(e.to)
      BY <1>3, <2>1, <2>2 DEF Moves
    <3>2. /\ e.since \in DOMAIN Releases /\ e.day \in Nat /\ e.day \in Since(i + 1)
          /\ Since(i + 1) \subseteq H /\ e.to = NextWorkingDay(e.day, Since(i + 1))
      BY <1>5, <2>1, <3>1
    <3>3. /\ final[i + 1] \in Nat /\ final[i + 1] > e.day
          /\ WorkingDay(final[i + 1], Since(i + 1))
          /\ \A m \in e.day + 1 .. final[i + 1] - 1 : ~WorkingDay(m, Since(i + 1))
      BY <3>1, <3>2, SeedCarries
    <3>4. ASSUME NEW m \in d .. final[i + 1] - 1
          PROVE  ~WorkingDay(m, H)
      <4>1. CASE m < e.day
        <5>1. m \in d .. final[i] - 1
          BY <1>7, <3>1, <4>1
        <5> QED  BY <1>7, <5>1
      <4>2. CASE m = e.day
        BY <3>2, <4>2 DEF WorkingDay
      <4>3. CASE m > e.day
        <5>1. ~WorkingDay(m, Since(i + 1))
          BY <3>2, <3>3, <4>3
        <5> QED  BY <3>2, <5>1 DEF WorkingDay
      <4> QED  BY <3>2, <4>1, <4>2, <4>3
    <3>5. ASSUME NEW k \in 1 .. i + 1, f \in list[k].codes
          PROVE  list[k].day # final[i + 1]
      <4>1. k \in 1 .. n /\ list[k].since <= e.since
        <5>1. CASE k = i + 1
          BY <2>1, <3>2, <5>1, ReleasesAssumption
        <5>2. CASE k # i + 1
          <6>1. k \in 1 .. n /\ k < i + 1
            BY <1>4, <2>1, <5>2
          <6> QED  BY <1>2, <2>1, <6>1
        <5> QED  BY <2>1, <5>1, <5>2
      <4>2. list[k].since \in DOMAIN Releases /\ list[k].day \in Since(k)
        BY <1>5, <3>5, <4>1
      <4>3. Since(k) \subseteq Since(i + 1)
        BY <3>2, <4>1, <4>2, HolidaysGrow
      <4> QED  BY <3>3, <4>2, <4>3 DEF WorkingDay
    <3>6. final[i + 1] >= d
      BY <1>7, <3>1, <3>2, <3>3
    <3> QED  BY <3>3, <3>4, <3>5, <3>6 DEF WorkingDay
  <2>3. CASE ~Moves(e, f, d, final[i])
    <3>1. final[i + 1] = final[i]
      BY <1>3, <2>1, <2>3
    <3>2. ASSUME NEW k \in 1 .. i + 1, f \in list[k].codes
          PROVE  list[k].day # final[i + 1]
      BY <1>7, <2>3, <3>1, <3>2 DEF Moves
    <3> QED  BY <1>7, <3>1, <3>2
  <2> QED  BY <2>2, <2>3
<1> DEFINE Standing == {i \in 0 .. n : Stands(i)}
<1>8. Stands(n)
  <2> HIDE DEF Stands
  <2>1. \A i \in 0 .. n - 1 : i \in Standing => i + 1 \in Standing
    BY <1>4, <1>7
  <2>2. 0 \in Standing
    BY <1>4, <1>6
  <2>3. 0 .. n \subseteq Standing
    <3> HIDE DEF Standing
    <3> QED  BY <1>4, <2>1, <2>2, CountUp
  <2> QED  BY <1>4, <2>3
\* Every holiday has an entry for the form.
<1>9. final[n] \notin H
  <2> SUFFICES ASSUME final[n] \in H PROVE FALSE
    OBVIOUS
  <2>1. <<final[n], f>> \in ledger
    BY DEF OffersStand
  <2>2. f \in Covered(stored, final[n])
    BY <1>1, <1>8, <2>1 DEF OffersStand
  <2>3. PICK e \in stored : e.day = final[n] /\ f \in e.codes
    BY <2>2, InCovered
  <2> QED  BY <1>2, <1>8, <2>3
<1>10. WorkingDay(final[n], H)
  BY <1>8, <1>9 DEF WorkingDay
<1>11. final[n] \in d .. d + MaxClosed
  <2>1. PICK k \in d .. d + MaxClosed : WorkingDay(k, H)
    BY <1>1 DEF OpensAgain
  <2> QED  BY <1>8, <2>1 DEF MaxClosed
<1> QED  BY <1>3, <1>8, <1>10, <1>11, OnlyFirst

\* While no override was removed and the profile extends nothing, the Calendar
\* shows for every date the first working day of the installed release from it
\* on, whatever each release shipped (seed_holidays_from, apply_overrides).
THEOREM DeadlinesAreWorkingDays == OpensAgain /\ Spec => []DeadlineIsAWorkingDay
<1> SUFFICES ASSUME OpensAgain PROVE Spec => []DeadlineIsAWorkingDay
  OBVIOUS
<1>1. Ordered /\ OffersStand /\ SeedsMoveHolidays => DeadlineIsAWorkingDay
  BY DeadlineIsFirst, DaysAssumption DEF DeadlineIsAWorkingDay
<1> QED  BY <1>1, OrderedInit, OrderedStep, OffersInit, OffersStep, PTL DEF Spec

----------------------------------------------------------------------------
(* The penalty engine *)

AtMost(p, q) ==
    /\ p.surcharge <= q.surcharge
    /\ p.interest <= q.interest
    /\ p.compromise <= q.compromise

LEMMA TierIsAnAmount ==
    ASSUME NEW tiers, NEW beyond \in Nat, NEW amount,
           DOMAIN tiers \subseteq 1 .. 8, \A i \in DOMAIN tiers : tiers[i][2] \in Nat
    PROVE  Tier(tiers, beyond, amount) \in Nat
  <1>. DEFINE fits == {i \in DOMAIN tiers : amount <= tiers[i][1]}
  <1>1. CASE fits = {}
    BY <1>1 DEF Tier
  <1>2. CASE fits # {}
    <2>1. \E i \in fits : \A j \in fits : i <= j
      BY <1>2, Least
    <2>2. (CHOOSE i \in fits : \A j \in fits : i <= j) \in DOMAIN tiers
      BY <2>1
    <2>. QED  BY <1>2, <2>2 DEF Tier
  <1>. QED  BY <1>1, <1>2

LEMMA CompromiseIsAnAmount ==
    ASSUME NEW f \in Returns
    PROVE  Compromise(f) \in Nat
  <1>1. /\ DOMAIN TaxDueTiers \subseteq 1 .. 8
        /\ \A i \in DOMAIN TaxDueTiers : TaxDueTiers[i][2] \in Nat
    BY DEF TaxDueTiers
  <1>2. /\ DOMAIN NoTaxTiers \subseteq 1 .. 8
        /\ \A i \in DOMAIN NoTaxTiers : NoTaxTiers[i][2] \in Nat
    BY DEF NoTaxTiers
  <1>3. Tier(TaxDueTiers, 50000, Tax[f]) \in Nat
    BY <1>1, TierIsAnAmount
  <1>4. Tier(NoTaxTiers, 25000, Gross[f]) \in Nat
    BY <1>2, TierIsAnAmount
  <1>. QED  BY <1>3, <1>4 DEF Compromise

LEMMA TimesMore ==
    ASSUME NEW n \in Nat, NEW a \in Int, NEW b \in Int, a <= b
    PROVE  n * a <= n * b
  OBVIOUS

LEMMA InterestGrows ==
    ASSUME NEW small \in BOOLEAN, NEW due \in Nat, NEW later \in Nat, NEW day \in Nat, NEW next \in Nat,
           due <= later, day <= next
    PROVE  /\ Interest(small, later, day) \in Nat
           /\ Interest(small, due, next) \in Nat
           /\ Interest(small, later, day) <= Interest(small, due, next)
  BY DaysAssumption DEF Interest, Reduced, Sooner, Later

\* A deadline moved later, by a holiday or an extension, and a day gained
\* never cost more (calculate_interest, is_micro_or_small_reduction_applicable):
\* across the change of the interest rate and of the small taxpayer's rates.
THEOREM LaterDeadlineCostsNoMore ==
    ASSUME NEW f \in Returns, NEW small \in BOOLEAN, NEW due \in Nat, NEW later \in Nat,
           NEW day \in Nat, NEW next \in Nat,
           due <= later, day <= next
    PROVE  AtMost(Penalties(f, small, later, day), Penalties(f, small, due, next))
  <1>. DEFINE rate(d) == IF Reduced(small, d) THEN 10 ELSE 25
              half(d) == IF Reduced(small, d) THEN 1 ELSE 2
              full(d, n) == [surcharge |-> Tax[f] * rate(d), interest |-> Tax[f] * Interest(small, d, n),
                             compromise |-> Compromise(f) * half(d)]
  <1>1. Tax[f] \in Nat /\ Compromise(f) \in Nat
    BY CompromiseIsAnAmount, FormsAssumption
  <1>2. rate(later) <= rate(due) /\ half(later) <= half(due)
    BY DaysAssumption DEF Reduced
  <1>3. /\ Interest(small, later, day) \in Nat
        /\ Interest(small, due, next) \in Nat
        /\ Interest(small, later, day) <= Interest(small, due, next)
    BY InterestGrows
  <1>4. /\ Tax[f] * rate(later) <= Tax[f] * rate(due)
        /\ Tax[f] * Interest(small, later, day) <= Tax[f] * Interest(small, due, next)
        /\ Compromise(f) * half(later) <= Compromise(f) * half(due)
    BY <1>1, <1>2, <1>3, TimesMore
  <1>5. AtMost(full(later, day), full(due, next))
    BY <1>4 DEF AtMost
  <1>6. 0 <= Tax[f] * rate(due) /\ 0 <= Tax[f] * Interest(small, due, next) /\ 0 <= Compromise(f) * half(due)
    BY <1>1, <1>3, TimesMore
  <1>7. AtMost(NoPenalties, full(due, next)) /\ AtMost(NoPenalties, NoPenalties)
    BY <1>6 DEF AtMost, NoPenalties
  <1>. HIDE DEF full
  <1>8. Penalties(f, small, later, day) =
          IF day <= later \/ (Tax[f] = 0 /\ Gross[f] = NoGross) THEN NoPenalties ELSE full(later, day)
    BY DEF Penalties, full
  <1>9. Penalties(f, small, due, next) =
          IF next <= due \/ (Tax[f] = 0 /\ Gross[f] = NoGross) THEN NoPenalties ELSE full(due, next)
    BY DEF Penalties, full
  <1>. QED  BY <1>5, <1>7, <1>8, <1>9

=============================================================================
