---------------------------- MODULE PenaltyClock ----------------------------
(***************************************************************************)
(* What a late return costs: the holidays the application ships and the    *)
(* deadline overrides they become (official_holidays.rs, db/mod.rs), the   *)
(* Calendar's deadline of a return (calendar_rules.rs), the penalties      *)
(* measured from it (penalties/, forms/penalty_items.rs) and the return    *)
(* that carries them from the page, or from the assistant's own copy       *)
(* (agent/session.rs), to BIR (forms/queueable.rs, background_cron.rs).    *)
(*                                                                         *)
(* Simplifications:                                                        *)
(*  - A form has one return, of one period; its tax and gross sales do not *)
(*    change and no penalty item is overridden by hand.                    *)
(*  - The stored list of overrides is a set: `since` is the release that   *)
(*    appended an entry, and the list is in the order of `since` and day.  *)
(*  - Amounts are exact: a surcharge is in hundredths of a peso, interest  *)
(*    in pesos times percent times days, a compromise in half pesos.       *)
(*  - Entries that do not parse or cite no source, and the ledger's format *)
(*    of dates alone, are left out.                                        *)
(*  - A return that left Draft can only be looked at: a page, or a copy of *)
(*    the assistant's, that shows one is taken as closed.                  *)
(*  - What may go wrong with an upload, and a claim that it leaves behind, *)
(*    are FilingQueue's: here an upload arrives and a restart frees the    *)
(*    claim.                                                               *)
(*                                                                         *)
(* A definition named X_Slip is X with a mistake one could make in that    *)
(* code; nothing uses it but the runs that show a property notices it.     *)
(***************************************************************************)
EXTENDS Integers, Sequences, FiniteSets

CONSTANTS
    Forms,        \* form codes
    Returns,      \* those with a return
    Due,          \* Due[f]: the statutory deadline of f's return
    Tax, Gross,   \* Tax[f], Gross[f]: pesos; NoGross where a form has none
    Weekend,      \* the Saturdays and Sundays
    TrainStart,   \* train_interest_effective_date
    EoptStart,    \* eopt_micro_small_effective_date
    Releases,     \* what each release of the application ships
    Saved,        \* overrides the retired desktop left in the database
    Profiles,     \* what a profile may say
    FirstDay, LastDay,   \* bound: the days on which something happens
    MaxEdits,     \* bound: how often the profile is edited, overrides removed
                  \* and the return amended
    MaxQueues     \* bound: how often the return is queued or put off

NoGross == -1

MaxClosed == 10   \* bound: how many days in a row are not working days

ASSUME FormsAssumption ==
    /\ Returns \subseteq Forms
    /\ Due \in [Returns -> Nat] /\ Tax \in [Returns -> Nat]
    /\ Gross \in [Returns -> Nat \cup {NoGross}]
ASSUME DaysAssumption ==
    /\ FirstDay \in Nat /\ LastDay \in Nat /\ FirstDay <= LastDay
    /\ Weekend \subseteq Nat
    /\ TrainStart \in Nat /\ EoptStart \in Nat
ASSUME BoundsAssumption == MaxEdits \in Nat /\ MaxQueues \in Nat

Entry == [since: Nat, day: Nat, to: Nat, codes: SUBSET Forms]

\* Years are added, and days of a year when they are proclaimed.
ASSUME ReleasesAssumption ==
    /\ Releases \in Seq([holidays: SUBSET Nat, codes: SUBSET Forms]) /\ Releases # <<>>
    /\ \A i \in DOMAIN Releases : IsFiniteSet(Releases[i].holidays)
    /\ \A i \in DOMAIN Releases, j \in DOMAIN Releases :
          i <= j => /\ Releases[i].holidays \subseteq Releases[j].holidays
                    /\ Releases[i].codes \subseteq Releases[j].codes
\* One a day, so that their order is that of their days.
ASSUME SavedAssumption ==
    /\ Saved \subseteq Entry /\ IsFiniteSet(Saved)
    /\ \A e \in Saved : e.since = 0
    /\ \A e, x \in Saved : e.day = x.day => e = x
ASSUME ProfilesAssumption ==
    Profiles \subseteq [extensions: Seq(Entry), small: BOOLEAN] /\ Profiles # {}

VARIABLES
    release,     \* the installed release
    stored,      \* the setting deadline_overrides
    ledger,      \* the setting official_holidays_seeded: pairs of day and code
    removed,     \* history: the offered pairs whose entry was removed
    profile,     \* the deadline overrides and the EOPT class of the profile
    today,
    row,         \* row[f]: the stored return, or None
    page,        \* page[f]: the Draft on its open page, and what it was opened from
    desk,        \* desk[f]: the assistant's copy (AgentSession.open), or None
    worker,      \* what the submission worker holds while it connects and uploads
    received,    \* external: the returns at BIR
    queues,      \* counts next_retry_at, which tells queue generations apart
    edits

calendar == <<release, stored, ledger, removed>>
copies == <<page, desk>>
vars == <<calendar, profile, today, row, copies, worker, received, queues, edits>>

----------------------------------------------------------------------------
(* Working days *)

WorkingDay(d, holidays) == d \notin Weekend /\ d \notin holidays

OnOrAfter(d, holidays) ==
    CHOOSE n \in d .. d + MaxClosed :
        WorkingDay(n, holidays) /\ \A m \in d .. n - 1 : ~WorkingDay(m, holidays)

NextWorkingDay(d, holidays) == OnOrAfter(d + 1, holidays)

\* adjust_to_next_business_day of the default calendar, which has no holidays.
OffWeekend(d) == OnOrAfter(d, {})

----------------------------------------------------------------------------
(* The overrides the shipped holidays seed: seed_holidays_from *)

Covered(entries, d) == UNION {e.codes : e \in {x \in entries : x.day = d}}

Offered(pairs, d) == {f \in Forms : <<d, f>> \in pairs}

SeededCodes_NoLedger(r, entries, pairs, d) == Releases[r].codes \ Covered(entries, d)

\* Neither an entry covers the form on that day, nor was it offered before.
SeededCodes(r, entries, pairs, d) ==
    Releases[r].codes \ (Covered(entries, d) \cup Offered(pairs, d))

Seeds(r, entries, pairs) ==
    {[since |-> r, day |-> d, to |-> NextWorkingDay(d, Releases[r].holidays),
      codes |-> SeededCodes(r, entries, pairs, d)] :
        d \in {x \in Releases[r].holidays : SeededCodes(r, entries, pairs, x) # {}}}

\* Everything the release ships is recorded as offered, covered or not.
AfterSeeding(r, pairs) == pairs \cup (Releases[r].holidays \X Releases[r].codes)

----------------------------------------------------------------------------
(* The Calendar's deadline: apply_overrides *)

Earlier_NewestFirst(e, x) == e.since > x.since \/ (e.since = x.since /\ e.day < x.day)

Earlier(e, x) == e.since < x.since \/ (e.since = x.since /\ e.day < x.day)

\* The stored list: each entry has as many before it as are earlier.
InOrder(entries) ==
    LET place(e) == Cardinality({x \in entries : x = e \/ Earlier(x, e)})
    IN [i \in 1 .. Cardinality(entries) |-> CHOOSE e \in entries : place(e) = i]

\* periodic_overrides: the stored entries in their order, then the profile's.
Overrides == InOrder(stored) \o profile.extensions

\* apply_override: an entry moves the deadline it names or finds it moved to.
Moves(e, f, original, final) == f \in e.codes /\ e.day \in {original, final}

Deadline(f, original) ==
    LET list == Overrides
        final[i \in 0 .. Len(list)] ==
            IF i = 0 THEN OffWeekend(original)
            ELSE IF Moves(list[i], f, original, final[i - 1]) THEN OffWeekend(list[i].to)
            ELSE final[i - 1]
    IN final[Len(list)]

----------------------------------------------------------------------------
(* The penalty engine *)

Later(a, b) == IF a >= b THEN a ELSE b
Sooner(a, b) == IF a <= b THEN a ELSE b

\* is_micro_or_small_reduction_applicable
Reduced(small, due) == small /\ due >= EoptStart

\* calculate_interest, per peso: 20% a year until TRAIN, then 12% or 6%.
Interest(small, due, day) ==
    IF day <= due THEN 0
    ELSE (IF due < TrainStart THEN 20 * (Sooner(day, TrainStart) - due) ELSE 0)
         + (IF day > TrainStart
            THEN (IF Reduced(small, due) THEN 6 ELSE 12) * (day - Later(due, TrainStart))
            ELSE 0)

\* RMO 7-2015 Annex A: the amount up to each limit, and beyond the last.
TaxDueTiers == << <<5000, 1000>>, <<10000, 3000>>, <<20000, 5000>>, <<50000, 10000>>,
                  <<100000, 15000>>, <<500000, 20000>>, <<1000000, 30000>>, <<5000000, 40000>> >>
NoTaxTiers == << <<50000, 1000>>, <<100000, 3000>>, <<500000, 5000>>, <<5000000, 10000>>,
                 <<10000000, 15000>>, <<25000000, 20000>> >>

Tier(tiers, beyond, amount) ==
    LET fits == {i \in DOMAIN tiers : amount <= tiers[i][1]}
    IN IF fits = {} THEN beyond ELSE tiers[CHOOSE i \in fits : \A j \in fits : i <= j][2]

Compromise(f) == IF Tax[f] > 0 THEN Tier(TaxDueTiers, 50000, Tax[f])
                 ELSE Tier(NoTaxTiers, 25000, Gross[f])

NoPenalties == [surcharge |-> 0, interest |-> 0, compromise |-> 0]

\* PenaltyEngine::calculate for a return filed and paid on one day.  A timely
\* original is not recorded, so no amended return is waived.
Penalties(f, small, due, day) ==
    IF day <= due \/ (Tax[f] = 0 /\ Gross[f] = NoGross) THEN NoPenalties
    ELSE [surcharge  |-> Tax[f] * (IF Reduced(small, due) THEN 10 ELSE 25),
          interest   |-> Tax[f] * Interest(small, due, day),
          compromise |-> Compromise(f) * (IF Reduced(small, due) THEN 1 ELSE 2)]

----------------------------------------------------------------------------
(* A return *)

None == [status |-> "None"]
Closed == [from |-> "nothing", copy |-> None]
Idle == [phase |-> "idle"]

\* apply_profile: a Draft takes the Calendar's deadline and the profile's class.
Reapplied(f, r) == [r EXCEPT !.due = Deadline(f, Due[f]), !.small = profile.small]

\* The compute chain as of a day.
Computed(f, r, day) == [r EXCEPT !.penalties = Penalties(f, r.small, r.due, day)]

\* finish: a Draft opens with today's penalties from the Calendar's deadline.
Finished(f, r) == Computed(f, Reapplied(f, r), today)

NewReturn(f) == [status |-> "Draft", due |-> OffWeekend(Due[f]), small |-> FALSE,
                 penalties |-> NoPenalties, gen |-> 0]

\* load_draft: the stored return or, when there is none, a new one.
Loaded(f) == IF row[f] = None THEN NewReturn(f) ELSE row[f]

Drafted(r) == [r EXCEPT !.status = "Draft", !.gen = 0]
Enqueued(r) == [r EXCEPT !.status = "Queued", !.gen = queues + 1]

Claimed(f) == worker.phase = "claimed" /\ worker.form = f

Stale_Frozen(f) == FALSE

\* revalidate_queued_before_submission: today's penalties are not the reviewed.
Stale(f) == Computed(f, row[f], today).penalties # row[f].penalties

\* The return goes back to its filer with today's penalties.
SentBack(f) == row' = [row EXCEPT ![f] = Drafted(Computed(f, row[f], today))]

SameGeneration_Slip(f) == row[f].status = "Queued"

\* The row is the queue generation the worker prepared.
SameGeneration(f) == row[f].status = "Queued" /\ row[f].gen = worker.gen

Init ==
    /\ release = 1
    /\ stored = Saved \cup Seeds(1, Saved, {})
    /\ ledger = AfterSeeding(1, {})
    /\ removed = {}
    /\ profile \in Profiles
    /\ today = FirstDay
    /\ row = [f \in Returns |-> None]
    /\ page = [f \in Returns |-> Closed]
    /\ desk = [f \in Returns |-> None]
    /\ worker = Idle
    /\ received = {}
    /\ queues = 0
    /\ edits = 0

----------------------------------------------------------------------------
(* The calendar's side *)

\* A newer release starts: seed_official_holidays as the database opens.
Upgrade ==
    /\ release < Len(Releases)
    /\ release' = release + 1
    /\ stored' = stored \cup Seeds(release', stored, ledger)
    /\ ledger' = AfterSeeding(release', ledger)
    /\ page' = [f \in Returns |-> Closed]
    /\ desk' = [f \in Returns |-> None]
    /\ worker' = Idle
    /\ UNCHANGED <<removed, profile, today, row, received, queues, edits>>

\* set_deadline_overrides without one entry: no shipped window calls it yet.
RemoveOverride(e) ==
    /\ e \in stored
    /\ edits < MaxEdits
    /\ edits' = edits + 1
    /\ stored' = stored \ {e}
    /\ removed' = removed \cup (({e.day} \X e.codes) \cap ledger)
    /\ UNCHANGED <<release, ledger, profile, today, row, copies, worker, received, queues>>

EditProfile ==
    /\ edits < MaxEdits
    /\ edits' = edits + 1
    /\ profile' \in Profiles \ {profile}
    /\ UNCHANGED <<calendar, today, row, copies, worker, received, queues>>

NextDay ==
    /\ today < LastDay
    /\ today' = today + 1
    /\ UNCHANGED <<calendar, profile, row, copies, worker, received, queues, edits>>

----------------------------------------------------------------------------
(* The page *)

OpenPage(f) ==
    /\ row[f].status \in {"None", "Draft"}
    /\ page' = [page EXCEPT ![f] = [from |-> row[f].status, copy |-> Finished(f, Loaded(f))]]
    /\ UNCHANGED <<calendar, profile, today, row, desk, worker, received, queues, edits>>

\* screen_form_amend: a Draft copied from the filed return.
AmendOnPage(f) ==
    /\ row[f].status = "Submitted"
    /\ edits < MaxEdits
    /\ edits' = edits + 1
    /\ page' = [page EXCEPT ![f] = [from |-> "Submitted", copy |-> Drafted(row[f])]]
    /\ UNCHANGED <<calendar, profile, today, row, desk, worker, received, queues>>

\* A fill computes with the deadline the page has.
Fill(f) ==
    /\ page[f] # Closed
    /\ page' = [page EXCEPT ![f].copy = Computed(f, @, today)]
    /\ UNCHANGED <<calendar, profile, today, row, desk, worker, received, queues, edits>>

\* Only over what the page was opened from; the first save of an amendment
\* replaces the filed return.
Save(f) ==
    /\ page[f] # Closed /\ page[f].from = row[f].status
    /\ LET r == Finished(f, page[f].copy)
       IN /\ row' = [row EXCEPT ![f] = r]
          /\ page' = [page EXCEPT ![f] = [from |-> "Draft", copy |-> r]]
    /\ UNCHANGED <<calendar, profile, today, desk, worker, received, queues, edits>>

\* screen_form_queue of a return that is stored.
QueuePage(f) ==
    /\ page[f].from = "Draft" /\ row[f].status = "Draft"
    /\ queues < MaxQueues
    /\ queues' = queues + 1
    /\ row' = [row EXCEPT ![f] = Enqueued(Finished(f, page[f].copy))]
    /\ page' = [page EXCEPT ![f] = Closed]
    /\ UNCHANGED <<calendar, profile, today, desk, worker, received, edits>>

\* Only an unclaimed return whose penalties are still those reviewed.
CancelQueue(f) ==
    /\ row[f].status = "Queued"
    /\ ~Claimed(f) /\ ~Stale(f)
    /\ row' = [row EXCEPT ![f] = Drafted(@)]
    /\ page' = [page EXCEPT ![f] = Closed]
    /\ UNCHANGED <<calendar, profile, today, desk, worker, received, queues, edits>>

----------------------------------------------------------------------------
(* The assistant: one copy of its own, and the deadline it was opened with *)

\* form_open stores a Draft at once.
AssistantOpens(f) ==
    /\ row[f].status \in {"None", "Draft"}
    /\ \A g \in Returns \ {f} : desk[g] = None
    /\ LET r == Finished(f, Loaded(f))
       IN row' = [row EXCEPT ![f] = r] /\ desk' = [desk EXCEPT ![f] = r]
    /\ UNCHANGED <<calendar, profile, today, page, worker, received, queues, edits>>

\* form_fill, form_save_draft and form_submit: over a Draft, whoever saved it.
AssistantSaves(f) ==
    /\ desk[f] # None /\ row[f].status = "Draft"
    /\ LET r == Computed(f, desk[f], today)
       IN row' = [row EXCEPT ![f] = r] /\ desk' = [desk EXCEPT ![f] = r]
    /\ UNCHANGED <<calendar, profile, today, page, worker, received, queues, edits>>

\* form_send queues the assistant's own copy.
AssistantSends(f) ==
    /\ desk[f] # None /\ row[f].status = "Draft"
    /\ queues < MaxQueues
    /\ queues' = queues + 1
    /\ row' = [row EXCEPT ![f] = Enqueued(Computed(f, desk[f], today))]
    /\ desk' = [desk EXCEPT ![f] = None]
    /\ UNCHANGED <<calendar, profile, today, page, worker, received, edits>>

AssistantDismisses(f) ==
    /\ desk[f] # None
    /\ desk' = [desk EXCEPT ![f] = None]
    /\ UNCHANGED <<calendar, profile, today, row, page, worker, received, queues, edits>>

----------------------------------------------------------------------------
(* The submission worker: process_queued_queueable *)

\* The payload is made of the penalties as reviewed, which are still today's.
Prepare(f) ==
    /\ worker = Idle
    /\ row[f].status = "Queued"
    /\ \/ Stale(f) /\ SentBack(f) /\ UNCHANGED worker
       \/ /\ ~Stale(f)
          /\ worker' = [phase |-> "connecting", form |-> f, gen |-> row[f].gen,
                        payload |-> row[f].penalties]
          /\ UNCHANGED row
    /\ UNCHANGED <<calendar, profile, today, copies, received, queues, edits>>

\* No session: the generation is put off, if its penalties are still today's.
FailSession(f) ==
    /\ worker.phase = "connecting" /\ worker.form = f
    /\ worker' = Idle
    /\ IF SameGeneration(f) /\ ~Stale(f)
       THEN /\ queues < MaxQueues
            /\ queues' = queues + 1
            /\ row' = [row EXCEPT ![f] = Enqueued(@)]
       ELSE UNCHANGED <<row, queues>>
    /\ UNCHANGED <<calendar, profile, today, copies, received, edits>>

\* claim_queued_queueable: superseded, rejected or claimed.
Claim(f) ==
    /\ worker.phase = "connecting" /\ worker.form = f
    /\ \/ ~SameGeneration(f) /\ worker' = Idle /\ UNCHANGED row
       \/ SameGeneration(f) /\ Stale(f) /\ worker' = Idle /\ SentBack(f)
       \/ /\ SameGeneration(f) /\ ~Stale(f)
          /\ worker' = [phase |-> "claimed", form |-> f, gen |-> worker.gen,
                        payload |-> worker.payload, due |-> row[f].due,
                        small |-> row[f].small, day |-> today]
          /\ UNCHANGED row
    /\ UNCHANGED <<calendar, profile, today, copies, received, queues, edits>>

\* The payload of the preparation goes out under the claim, perhaps after
\* midnight.
Upload(f) ==
    /\ Claimed(f)
    /\ received' = received \cup {[form |-> f, day |-> worker.day, due |-> worker.due,
                                   small |-> worker.small, penalties |-> worker.payload]}
    /\ row' = [row EXCEPT ![f].status = "Submitted"]
    /\ worker' = Idle
    /\ UNCHANGED <<calendar, profile, today, copies, queues, edits>>

Next == \/ Upgrade
        \/ \E e \in stored : RemoveOverride(e)
        \/ EditProfile
        \/ NextDay
        \/ \E f \in Returns : \/ OpenPage(f) \/ AmendOnPage(f) \/ Fill(f) \/ Save(f)
                              \/ QueuePage(f) \/ CancelQueue(f)
                              \/ AssistantOpens(f) \/ AssistantSaves(f)
                              \/ AssistantSends(f) \/ AssistantDismisses(f)
                              \/ Prepare(f) \/ FailSession(f) \/ Claim(f) \/ Upload(f)

Spec == Init /\ [][Next]_vars

----------------------------------------------------------------------------
(* What a filer may rely on *)

\* Whatever the order in which releases shipped the holidays, and whichever
\* forms and days each added, every deadline of a form without saved or
\* profile overrides falls on the first working day from its statutory date
\* on (seed_holidays_from, apply_overrides).
DeadlineIsAWorkingDay ==
    removed = {} /\ profile.extensions = <<>> =>
        \A f \in Releases[release].codes :
            (\A e \in Saved : f \notin e.codes) =>
                \A d \in FirstDay .. LastDay :
                    Deadline(f, d) = OnOrAfter(d, Releases[release].holidays)

\* A holiday that was offered for a form, and whose override, seeded or the
\* user's own, was removed since, is not brought back by any later release
\* (seed_holidays_from's ledger).
RemovedStaysRemoved ==
    [][\A e \in stored' \ stored : \A f \in e.codes : <<e.day, f>> \notin removed]_vars

\* The payload made when a return is prepared carries, when it reaches BIR
\* after a connection, the penalties of the day the return was claimed on,
\* measured from the deadline and the class of the claimed return: although
\* midnight passes, and the return is cancelled, changed and queued again, on
\* the page or by the assistant, while the worker connects
\* (process_queued_queueable, claim_queued_queueable).
FiledPenaltyIsOfItsDay ==
    \A r \in received : r.penalties = Penalties(r.form, r.small, r.due, r.day)

=============================================================================
