# A verification project for buwiz-forms

buwiz-forms (eBIRForms) is an offline-first desktop application that prepares
Philippine tax returns, queues them, uploads them to the tax authority (BIR)
over SFTP and follows them until BIR's receipt arrives by email.  Filing a
return is irreversible and is done by a background worker that can fail, crash
and retry while the user keeps editing.  This directory holds TLA+ models of
the parts of the program where an order nobody tested could file the wrong
thing, file it twice, or lose it.

## Inventory of the system

| Component | Source (`src/crates/...`) | State it keeps | Operations | Hard part |
|---|---|---|---|---|
| Filing queue | `bir-core/src/{filing_queue,forms/queueable,db/queueable}.rs`, `db/drafts.rs` | one `form_drafts` row per return: status, reviewed fingerprint, authorization, retry time, attempts, claim, lease, put-started stamp, sent payload | save, queue, cancel, revert, amend, claim, mark put started, finish, recover, confirm, release | several writers that drop the lock between reading and writing; crash at any step; an upload whose result is unknown |
| Cron loop | `bir-core/src/background_cron.rs` | the `ACTIVE_JOBS` set, wake channel, shutdown and pause flags, `job_queue` rows | tick every 60 s or on a wake; spawn one task per return or job | tasks outlive ticks; stale copies of job rows |
| Inbox polling | `bir-core/src/email/*.rs`, `db/jobs.rs`, `db/receipts.rs` | poll jobs, `submission_receipts` | schedule, poll, save a receipt, confirm, archive | a poll that decides it is done while another return is filed |
| Amendments | `bir-core/src/db/{amendment_snapshots,legacy_amendment}.rs` | `amendment_snapshots` | keep what BIR received, require the amended answer | reading back what was sent, not what would be sent today |
| Calendar sync | `bir-core/src/google_calendar.rs`, `db/google_calendar.rs` | a request flag, the last sync time, the events known of each calendar | request, sync | deadlines and events are read under the lock and used after it; lost answers |
| Account session | `bir-core/src/cloud_account.rs`, `bir-shell/src/{cloud_account,account_gate}.rs`, `bir-mcp/src/{signin,license}.rs` | one stored session shared by two processes; the gate flag; the adapter's copy of the tokens | sign in, refresh, sign out, check, persist | two processes rotate one refresh token; a sign-out during a refresh |
| Sign-in limiter | `bir-shell/src/auth_limiter.rs` | failures and a waiting time per account | guarded check | boundary counts |
| MCP adapter | `bir-mcp/src/*.rs` | the selected application | JSON-RPC tools | little state |
| 2551Q returns of a year | `bir-core/src/db/drafts.rs`, `forms/form_2551q.rs`, `bir-shell/src/{screen_form_module,bir_module,agent/session}.rs` | four rows, the election of the year, the copies open at two desks | open, edit, save, queue, pick up, cancel, claim, finish | Item 13 of one quarter binds the others; stale copies |
| Draft stores, profiles | `bir-core/src/db/{drafts,taxpayers,profiles}.rs` | drafts and profiles | save, load, adopt | re-keying of a draft |
| Penalties, deadlines | `bir-core/src/penalties`, `calendar_rules.rs`, `official_holidays.rs`, `forms/penalty_items.rs` | stored deadline overrides, the ledger of offered holidays, the deadline and class a return was reviewed with | seed, resolve, compute, revalidate | releases that ship holidays in any order; midnight in the queue |
| Updater | `bir-shell/src/updater.rs`, `app/shell/update.js` | its state, the cached assets, the installed application and the one moved aside | check, download, verify, offer, install | a crash between two renames; the handle of the database |
| Forms and rules | `bir-core/src/forms`, `bir-rules*` | none | arithmetic, mostly generated | volume |
| Shell, print, migrations | `bir-shell`, `bir-print`, `db/migrations.rs` | windows | drawing, I/O | none a model would show |

The components meet in the database.  The application and its worker share one
connection behind a mutex, an exclusive file lock keeps a second worker away,
and every method of `Database` is one critical section.  What is *not* atomic
is a task: it loads a row, drops the lock, prepares and connects, and takes the
lock again for each later step.

What makes each component correct is listed in `PROJECT.json` under `hazards`,
each at the line where it bites, with the property that watches it.

## The filing queue

### Modules

| Module | Role |
|---|---|
| `FilingQueue` | the detailed model: rows, worker tasks, BIR, time, crashes |
| `FilingPromise` | what the taxpayer is promised, in five variables |
| `FilingQueueInvariant` | the inductive invariants `IInv` and `FilingInv` |
| `FilingQueueProofs` | theorems about `FilingQueue`, checked by TLAPS, and that it implements `FilingPromise` |
| `MCFilingQueue` | the module TLC runs |

### State and actions

`row[r]` is the lifecycle of one return (`SubmissionLifecycle`) with its
content; `task[r]` is the worker task that holds the job key of `r` in
`ACTIVE_JOBS` (its `pc` is `idle` when no task holds it, which is what
`JobCleanup` restores), with the copy of the row it loaded, the payload it
prepared and the claim it took.  `received` is BIR's server and `simulated` the
uploads of dry runs.  `granted`, `withdrawn` and `released` are history
variables that no action reads: what the user authorized, what was taken
back before a claim, and which held claims a human gave back.

| Action | Code |
|---|---|
| `SaveDraft`, `Queue` | `save_queueable_draft`; `queue` with `save_queued_queueable` |
| `Cancel`, `RevertQueued`, `AmendFiled` | `cancel_queued_queueable`; `revert_queueable_inner` on a queued and on a filed row, with the first save of the amendment |
| `ReleaseAbandonedClaim` | `release_abandoned_claimed_queueable`, an operation of the library that no window calls yet |
| `Load`, `RecoverExpiredClaim`, `RejectStale`, `OpenSession`, `FailSession`, `Claim`, `ClaimRefused`, `MarkPutStarted`, `DryRunStored`, `PutSucceeded`, `PutFailed` | the steps of `process_queued_queueable` between which the lock is free |
| `FileReceived` | external: BIR has the file, whether or not the call returns |
| `ConfirmFromReceipt` | `confirm_queueable_from_receipt` for any receipt BIR ever issued, as every poll reads all mail of 30 days again |
| `RetryFallsDue`, `LeaseExpires`, `DayTurns` | time |
| `Crash` | the process dies or its runtime is dropped: tasks are lost, rows stay |

The specialised 2551Q and 1601-C paths (`background_cron.rs`, `db/drafts.rs`)
repeat the protocol with their own functions.  One difference does not matter
for the properties: after a recovery the 2551Q path waits for the next tick.

### Abstractions

* A timestamp is a reading of a clock that advances whenever a timestamp is
  written.  The code writes RFC 3339 times with nanoseconds, so two writes
  differ.  Waiting (for a retry, for the end of a lease) is a flag that time
  may raise at any later moment: a superset of the real timings.
* A return's fields are a user edit, the "Amended Return?" answer and an
  accrual: the amounts (surcharge, interest) the engine computes for a day.
  `DayTurns` changes the accrual of every recomputation, which is what can make
  a reviewed return differ from a prepared one.
* A fingerprint is the field map it was taken from: SHA-256 is assumed not to
  collide.
* The build is a release build: Dev Mode's automatic confirmation is a no-op.
* A cancel or amendment from a stale window is refused by the same
  compare-and-set as a worker's; it changes nothing and is a stutter.

### Properties

Safety (`FilingQueue.cfg`): `AtMostOnePut`, `PutAsGranted`,
`WithdrawnNeverPut`, `FiledMeansReceived`, `NoSecondOriginal`,
`OldReceiptIsWithinSkew`, and the inductive invariant `FilingInv`.  Action
property: `FailClosed`.  Refinement: `KeepsPromise`.  Liveness: `QueuedMovesOn`.
Each is stated in a comment above its definition.

`NoSecondOriginal` is about the returns of `Guarded`: the forms whose "Amended
Return?" answer the code reads.  For the others (`amended_return_answer()` is
`None`, the default of the trait) `amended_return_required` asks for nothing, so a
second original of such a form is not refused.

`QueuedMovesOn` does not promise that a return leaves the queue once its upload
has started: the code holds such a row for a human on purpose, because nobody
can know whether BIR has the file.

### Runs and bounds

| Run | Bounds | Distinct states | What it shows |
|---|---|---|---|
| `filing_queue` | one return of a guarded form, live and dry-run sessions, 2 grants, 2 crashes, 1 change of day, retry limit 3, a receipt skew of one tick, fair | 702,246 | all properties |
| `older_receipt` | the smallest that shows it | stops at the counterexample | the finding below |

Two grants are needed for anything that confuses generations (cancel and queue
again, amend and file again) and enough for it, as every hazard relates two
generations at most.  Two crashes separate any two steps of a task, and strike the
recovery from the first as well.  One return is enough for TLC because rows meet
only in a crash, which takes every task; the proofs are for any set of returns.
The retry limit 3 makes a retry, a second one and the give-up happen.  One change
of day falls between any two steps.  A return's versions differ in the amended
answer and in the accrual; a second user edit would add a third difference that
nothing distinguishes from these.  A skew of one tick is enough for a receipt that
is older than the grant it confirms, and too little for the older ones, which must
be ignored.

### Fairness

The run assumes weak fairness of the worker's steps (the cron loop
ticks every 60 seconds, tokio runs a ready task, a network call ends) and of the
two clocks.  That a network call ends is an assumption: the SFTP session sets no
timeout of its own, so the code relies on the server or the network to answer or
to break the connection.  Nothing is assumed of the user, and of BIR only that.
Crashes are bounded: a process that always dies files nothing.

### Proofs

`FilingQueueProofs` proves `Spec => []IInv` (`Invariance`) for every set of
returns and edits, every bound, and every skew, and from it `TypeCorrect`,
`OnePut`, `PutsAreGranted`, `WithdrawnStaysUnput`, `FiledWasReceived`,
`PutFailsClosed` and the refinement `QueueKeepsPromise`.  `HistoryInvariance` adds
what became of every upload (`HistoryInv`), from which `NoOriginalTwice` and
`ReceiptsFit` follow.

The safety properties are not inductive: nothing in `AtMostOnePut` prevents a
task from holding a claim on a row that was already uploaded.  `IInv` adds what
the code relies on without writing it down:

* every timestamp in the state is at most the clock, and a claim's token is
  unique, so a task whose row carries its token is the only one;
* a task past its claim carries a copy that was granted and unchanged since;
* a grant that has been uploaded stands on a row that is held, filed, or was
  released, so it can never be claimed again;
* a withdrawn grant is no row's authorization and no claimed task's.

The proof goes action by action.  Frame lemmas (`QuietStep`, `RowStep`,
`TaskStep`, `StopStep`, ...) cover what an action leaves alone, so that each
action only argues about what it changes.  The assumptions are the ones
`FilingQueue` names: a non-empty set of edits, a positive retry limit, natural
bounds, and that "no content" is not a content.

`HistoryInv` is what `NoSecondOriginal` and `OldReceiptIsWithinSkew` need beyond it:

* a return that is queued or filed stands under its latest grant (`LatestGrant`),
  and only a human's release takes a claim from its task (`HeldClaim`);
* every upload was released as unfiled, stands in its row, or is kept for the
  amendment (`Accounted`), so a later grant that is not an amendment, or that was
  given before the file arrived, followed a release of it (`Followed`);
* a return is confirmed by a receipt of its standing grant, of an upload that was
  released, or so young that the skew explains it (`ReceiptFits`).

`ReceiptsFit` holds for every skew.  That an older receipt is ignored, as a comment
of the code says, does not (see "Findings").  Only `QueuedMovesOn` is model-checked
alone: liveness is out of the prover's reach.

## Receipt polling

### Modules

`ReceiptPoll` models how a Submitted return becomes Confirmed; `MCReceiptPoll` is
the module TLC runs and `ReceiptPollProofs` holds the theorems.  It takes over where
`FilingQueue` records an upload.  There, confirmation is one action that may read any
receipt; here it is what the poll jobs of `job_queue`, the tick and the mailbox make
of it.

### State and actions

`status[r]` and `filing[r]` are a return reduced to its status and the number of
its filing.  The code compares the time of a receipt with the time the return was
authorized and allows two minutes for clocks that differ; what this makes of the
receipts of former filings is `floor[r]`, the first filing whose receipt confirms
the return as it stands.  An amendment sets it to any filing so far, since the
model does not say how long ago each was.  `mail` is the mailbox and `saved[r]` the row of `submission_receipts`.
`jobs` is the table `job_queue`; `listed` is what the running tick still has to
handle, with the copies `list_jobs` gave it; `poll[id]` is the task of a job and
`poll[0]` the window in which the user presses "check now".

| Action | Code |
|---|---|
| `StartUpload`, `Submit`, `Amend` | the worker's upload, with `schedule_email_poll` under the lock that records it; the amendment |
| `ReceiptArrives` | external: a receipt of any filing, in any order, at any time |
| `StartTick`, `ScheduleJob`, `RunJob` | `process_generic_jobs`: list, then one lock per job |
| `Plan`, `ProcessMessage`, `FetchSucceeds`, `FetchFails` | `fetch_and_process_emails_for_address`: look for pending returns, read each message, look again |
| `FinishJob` | the task saves its copy of the job, archived or queued again |
| `CheckNow`, `FinishCheck`, `ArchiveJob` | `check_inbox_now_run`, `archive_background_job` |
| `JobFallsDue`, `Crash` | time, and the loss of every task |

The application runs tokio's multi-threaded runtime (`bir_module.rs:88`), so the
tasks of two jobs, or of a job and a return, do run at the same time.

### Properties, runs and bounds

| Run | Bounds | Distinct states | What it shows |
|---|---|---|---|
| `receipts_confirm` | three users, one failed poll, one crash, fair | 498,710 | `ConfirmedWasAcknowledged`, `PendingIsPolled`, `ReceiptConfirms`, types |

`user`, chosen in `Init`, says what is filed and pressed: two returns filed once
each and left alone; or one return filed, amended and filed again, with one
"check now" or with one job archived.  Two returns on one mailbox are the least
with which one return's poll confirms another and a job decides it is done while
another return is filed; two filings are the least with which a receipt of
another filing is read.

`ConfirmedWasAcknowledged` holds of all three.  `PendingIsPolled` and
`ReceiptConfirms` promise something as long as the mailbox is `Undisturbed`
(nothing was filed twice, checked by hand or archived), because the code does not
keep them otherwise ("Known deviations").

Fairness: the tick is run again and again and handles what it listed, a task
that can run runs, the mailbox read ends, time passes.  The read has no timeout
in the code, so that it ends is an assumption.  Nothing is assumed of the
worker, the user or BIR; failures and crashes are bounded.

Simplifications: one mailbox, with its credentials; messages do not age out of
the 30 days the search covers; the year does not change during a run (a
constant, `Lagging`, says which returns are of an earlier one: none in the run).

### Proofs

`ReceiptPollProofs` proves the three safety properties for any finite number of
returns and any users, failures and crashes.  `ConfirmedWasAcknowledged` needs
only that a poll reads what the mailbox holds (`MailInv`); it allows for the skew,
as `FilingQueue` does.  `PendingIsPolled` is
strengthened to `PollsOwn`: as long as the mailbox is undisturbed, a Submitted
return has a job *of its own*, and a task that is about to archive that job has
seen the return pending.  The job of another return, which may find nothing
pending and archive itself while this one is filed, then does not matter.
`JobsCounted` bounds the table: no two jobs are made by one filing, so there are
at most as many as returns times filings.  `ReceiptConfirms` is liveness and
stays with TLC.

## The cron loop

`CronLoop` models when the worker ticks; `MCCronLoop` is the module TLC runs and
`CronLoopProofs` holds the theorems.
What a tick does is reduced to reading the queue.

### State and actions

`unlocked`, `paused` and `shutdown` are the three atomics, and every read and
write of one is a step of its own.  `messages` is the wake channel, which holds
one message and does not exist before the worker has entered its loop.  `loop`
is where the worker is; `thread[t]` is where the window (thread 0), or a thread
that refreshes the account, is in a call that sets a flag.

| Action | Code |
|---|---|
| `SetUnlocked`, `ReadGate`, `SetPaused` | `account_gate::set_unlocked`, then `set_submission_paused` |
| `StartWorker` | `start_submission_worker`, once per process |
| `QueueReturn`, `WakeWorker` | a host verb that queues a return, and `wake` |
| `RequestShutdown` | `request_shutdown` |
| `EnterLoop`, `CheckShutdown`, `CheckPaused`, `ListQueue`, `FinishTick`, `ReceiveWake`, `MinutePasses` | the loop of `start_cron_jobs` |

### Properties, runs and bounds

| Run | Bounds | Distinct states | What it shows |
|---|---|---|---|
| `cron_wakes` | the window and one other thread, 4 changes of the gate, 3 queued returns, fair | 32,194 | `QueuedIsRead`, `ShutdownEndsLoop`, `PausedIsLocked` |

Three returns put one before, one during and one after a tick, with the channel
empty and full; four changes of the gate lock and open it twice.  The other thread
is a refresh of the account (`bir-shell/src/cloud_account.rs`), which locks the
gate when it is refused, at any moment of the window's own call.

`raced` says that the latest call of `set_unlocked` began inside another thread's:
two such calls may leave the pause apart from the gate ("Known deviations").
`PausedIsLocked` is therefore about the moments when no thread is in a call and the
latest one ran by itself.  It says that a call brings the two together again
whatever earlier calls left behind, and `QueuedIsRead` does not count on a tick
after a race.  `PauseFollowsGate` proves `PausedIsLocked` for any number of threads
and calls.

Fairness: the worker, the window and a thread in a call go on, and an unlocked
application opens its database.  `MinutePasses` is left out on purpose: a wake
that is lost is repaired by the 60-second timer, so the run asks for what must
hold without it.

## The account session

`AccountSession` models the account one computer keeps: the application, the
page in its window and running copies of `bir-mcp` load it, use it over the
network and write it back or clear it, with no lock in between.
`MCAccountSession` is the module TLC runs and `AccountSessionProofs` holds the
theorems.

### State and actions

`store` is the stored account, reduced to its pair of tokens; `client[c]` is how
far a client is in a call, with the pair it has in memory.  A token is the
number under which the server issued it.  `session`, `usable` and `renewable`
are the server: which sign-in a token descends from, and which tokens it
accepts.  `kept` (the sign-in whose session the person holds), `overtaken` (a
client of a former sign-in has written or cleared the store since) and `unsaved` (a
launch could not save the account) are history variables.

| Action | Code |
|---|---|
| `Launch`, `Refresh` | `restore_saved_session`, `refresh_account` |
| `CheckProfile`, `RefreshTokens`, `ConfirmProfile` | the three requests of `refresh_session` |
| `SaveAccount`, `DropAccount` | what its callers do with the outcome, and with an error of `save_stored_account` |
| `Touch`, `Save`, `SaveFails`, `Clear` | `save_stored_account`, `clear_stored_account`: with the fault `unwritable` the account is stored or not, and the caller sees an error; a file that cannot be removed stays |
| `BeginSignIn`, `FinishSignIn`, `SaveSignIn`, `OpenSession` | the device flow, `finish_sign_in`, `session_opened` |
| `SignOut`, `Revoke`, `ClearAccount` | `sign_out` |
| `StartAdapter`, `ToolRefused`, `ExchangeRefresh`, `PersistRefresh`, `Recheck`, `ClearDesktopSession` | `ensure_fresh` at the start of `bir-mcp`, and `License::allow` of each tool call |
| `ServerEnds`, `AccessExpires`, and the server's part of every request | external |
| `Quit`, `StopAdapter` | the end of a process; in the middle of a request with the fault `killed` |

A client decides by its clock whether to check its access token or to renew it; the
model lets it do either.  Whether the server replaces a refresh token at each use is
its own affair (`refresh_tokens` takes both answers).  `world`, chosen in `Init`,
says so, and which faults, adapters and pages there are.  That a logout ends the
whole session at the server is an assumption.

### Properties, runs and bounds

| Run | Bounds | Distinct states | What it shows |
|---|---|---|---|
| `account_session` | 4 tokens, one restart, in three worlds (below) | 2,746,250 | `SessionSurvives`, `GateReturnsForCause`, types |

The worlds: one sign-in, one adapter and every fault, a store that cannot be
written included; tokens that rotate, two sign-ins and a server that may be
unreachable; two sign-ins beside an adapter.  Four tokens let the application and
the adapter renew three times in any order, across a restart; two sign-ins are the
least with which a client has the tokens of a former one.

With tokens that rotate, an adapter and the application take each other's refresh
token away, a lost answer loses it for everybody, and so does an error of the
server, an error of the store, or the end of the process, between the renewal and
the save; the second world therefore leaves these out.

Both properties name what the code does not keep: after a client of a former sign-in
has written or cleared the store (`overtaken`), the session may be gone, and the gate
is locked after a launch that could not save what the server had confirmed
(`unsaved`); see "Known deviations".

### Proofs

`AccountSessionProofs` proves `TypeCorrect` for all constants, and `SessionIsKept`
and `GateStaysOpen` for any number of sign-ins, adapters, tokens and restarts, under
one hypothesis, `SafeWorlds`: a server that rotates tokens may be unreachable, but
no answer is lost, nothing fails or is killed between the renewal and the save, and
no adapter runs.  Outside it the code does not keep the session ("Known
deviations"); where the server does not rotate tokens, every fault and any adapters
are allowed.

The invariant (`IInv`) speaks of the tokens of the latest sign-in (`Own`).  While
the server keeps the session that the person holds or is about to hold (`Alive`),
no client that has such tokens is about to drop the account; they still renew the
session and the access token it relies on is usable (`Keeps`); and, unless the store
was overtaken, what renews the session is stored or on the way to the store
(`Recoverable`).  `GateHolds` ties the gate to the sign-in in hand.

## The calendar sync

`CalendarSync` models how the filing deadlines of every profile get into its
Google calendar; `MCCalendarSync` is the module TLC runs, `CalendarSyncProofs`
holds the theorems.

### State and actions

`want[p]` is what the deadlines of a profile call for, `events[p]` its rows of
`profile_calendar_events`, `google` what the calendars show.  `requested` and
`due` are the request flag and the six-hour timer.  `sync` is the running sync
with the snapshot it works from.  `removed`, `torn` and `late` are history: the
events a person deleted, those a call changed without a record, and the profiles
written after the running sync read them.

| Action | Code |
|---|---|
| `Write`, `Rename` | any write that changes deadlines, with a request or, as the selection of forms, without; `migrate_profile_tin_references` |
| `StartSync`, `SnapshotProfile`, `ProfileMoved`, `FinishProfile`, `FinishSync` | `process_google_calendar_sync`, `sync_profile_calendar` |
| `UpdateEvent`, `UpdateMissingEvent`, `CreateEvent`, `DeleteEvent`, `CallFails` | the calls of `sync_snapshot`, each of which may be refused, fail, or take effect and lose its answer |
| `SaveMapping`, `MappingRefused`, `ForgetMapping`, `ForgetNothing` | the lock taken again to record an event; the foreign key refuses a TIN no profile has any more |
| `SixHoursPass`, `DeleteInCalendar`, `Crash` | time, a person in Google Calendar, the end of the process |

| Run | Bounds | Distinct states | What it shows |
|---|---|---|---|
| `calendar_sync` | two profiles, a deadline each, two contents, 3 writes or faults, 6 events, fair | 858,761 | `EveryEventIsKnown`, `SettledAgrees`, `CalendarCatchesUp`, types |

Three writes put one before, one during and one after a sync; three faults let a
lost answer meet a crash and a rename; the theorems have no such bound.  Fairness:
the worker ticks, a call to Google times out (its client has a timeout), six hours
pass.

The properties name the exceptions the code has.  A lost answer to a creation, or
a rename while an event is created, leaves one event nobody knows (and the next
sync makes another), so `EveryEventIsKnown` allows one for each such fault.  A
lost answer to an update whose content is then changed back leaves the event as
the call made it (`torn`), since the row already says what is wanted.  An event a
person deletes is made again only when its content changes.

`EventsAreKnown` and `SettledCalendars` prove `EveryEventIsKnown` and
`SettledAgrees` for any profiles, keys, contents and bounds.  The first needs an
invariant about the step in hand (`IInv`): between a call to Google and its record
the event belongs to the key in hand, and the event the row names is that one or
gone; the snapshot agrees with the rows while the profile keeps its TIN; and a
rename during the sync of its profile pays for the one event that profile may
leave behind.  The second adds (`SettledInv`) that no two rows name one event, that
a row says what the calendar shows, and that a profile nobody has written since its
snapshot is synced as soon as the sync has left it without a failure.

Not modelled: making, unlinking and deleting a calendar and connecting the
account, which no shipped screen calls.  A calendar deleted at Google makes every
later sync of its profile fail.  Only the answer 404 counts as "not found"
(`google_calendar.rs:891`), and the model's Google gives it for an event that is
gone; should it answer 410, as it may for an event deleted before, the code would
take it for an error, and `CalendarCatchesUp` says nothing of that.

## The updater

`Updater` models how the application replaces itself by swapping directories (a
macOS bundle or a Linux tree); `MCUpdater` is the module TLC runs and
`UpdaterProofs` holds the theorems.

### State and actions

`state` is `STATE` of `updater.rs`, `check` the check on the service thread,
`shown` the banner the page last polled, `install` the installation on the UI
thread; `files` is the cache, `bundle` and `previous` the installed application
and the one moved aside; `lock` and `holders` are the database owner lock and who
holds the handle.

| Action | Code |
|---|---|
| `StartCheck`, `DropCheck`, `FetchFails`, `UnusableFeed`, `NotNewer`, `OfferVerified`, `Announce`, `StartDownload` | `run_check` up to the download |
| `Download`, `Reject`, `DownloadFails`, `RejectDownload`, `RemoveOldAsset`, `FinishDownload`, `RenameFails` | `download_verified` |
| `PollUpdateStatus`, `Later`, `CheckNow`, `SetAutoDownload` | the page and its buttons |
| `StartTask`, `EndTask` | a host function that holds the database |
| `PressInstall`, `Prepare`, `PrepareFails`, `WorkerStops`, `ReleaseDatabase`, `RefuseInstall`, `MoveAside`, `Replace`, `ReplaceFails`, `Place`, `PlaceFails`, `Relaunch`, `RelaunchFails`, `FailInstall`, `Leave` | `install_ready_update`, `shutdown_for_quit`, `commit_macos`, `commit_linux_tree`, `relaunch` |
| `Launch`, `Crash`, `FeedMoves` | a person, a fault, GitHub |

| Run | Bounds | Distinct states | What it shows |
|---|---|---|---|
| `updater` | 3 versions, 2 faults, the feed moves once, one waiting check, fair | 479,714 | `AppSurvives`, `ClosedBeforeReplaced`, `OfferIsInstallable`, `NewerIsOffered`, types |
| `shutdown_closes` | the smallest that shows it | stops at the counterexample | the finding below |

Two newer releases are the least with which a download of one meets an offer of
the other; two faults are a failed rename and a crash while it is undone.
Fairness: the service thread's timer expires and its requests time out, and an
installation that was started goes on.

### Proofs

`UpdaterProofs` proves the four safety properties for every number of versions
and every bound.  None is inductive.  `IndInv` adds what each stage has in hand:
a check that downloads has a newer release, only verified bytes get an asset's
name, nothing is offered while a check is on its way, and which application lies
where at each stage of an installation (`BundleInv`).

Not modelled: the hand-off to a system installer (Windows, deb, rpm, Arch), the
parsing of versions, the choice of an asset.  Assumed: the process that was
replaced ends its cleanup before its successor installs in turn.

## The 2551Q returns of a year

`Draft2551Q` models the quarters of one individual taxpayer and year with what
they share: the income-tax election of the year, which Item 13 of the initial
quarter writes and the later quarters follow.  `MCDraft2551Q` is the module TLC
runs and `Draft2551QProofs` holds the theorems.

### State and actions

`row[q]` is the stored return with its snapshot of what was reviewed, `ledger`
the election of the year, `desk[d]` the copy open on the page or with the
assistant, `worker` the submission job with the copy it prepared.  `original[q]`
says that a filed version is kept for an amendment.

| Action | Code |
|---|---|
| `PageOpens`, `PageAmends`, `PageEdits`, `PageSaves`, `PageSavesAmendment` | `screen_form_open`, `screen_form_amend`, the page's `edit`, `screen_form_save` |
| `AssistantOpens`, `AssistantFills`, `AssistantSaves`, `AssistantDismisses` | `form_open`, `form_fill`, `form_save_draft`, `form_dismiss` |
| `QueueFromPage`, `SendFromAssistant`, `FileFromPickup` | `queue_form_draft`, `form_send`, `accept_device_filing`, each through `save_queued_2551q_draft_and_election` |
| `Cancel`, `Release`, `RecoverExpired` | the three ways back that are not the worker's own |
| `Prepare`, `ConnectFails`, `Claim`, `MarkPut`, `Finish`, `WorkerStops` | the worker, which makes the file to upload before it connects and drops the lock between each two |
| `EditProfile`, `DeadlinePasses` | another version of the profile; penalties begin |

| Run | Bounds | Distinct states | What it shows |
|---|---|---|---|
| `draft_2551q` | two quarters, 3 edits, 2 presses, 1 fault, 1 change, retry limit 2 | 3,609,825 | `RegimeStands`, `EightPercentYearIsNil`, `OriginalOnce`, `FrozenFromReview`, `UploadedIsCurrent`, types |
| `later_quarter_item13`, `pickup_cancel` | the smallest that show each | stop at the counterexample | the findings below |

Two quarters are the initial and a later one; a third would be a second later
one, which meets the first only through the election.  Two presses queue both
quarters or one of them twice.  With one fault the give-up branch of
`ConnectFails` is not reached; `filing_queue` reaches its like.  The initial quarter
is unknown or the first: with a later one `RegimeStands` does not hold (below).

`UploadedIsCurrent` is about the payload the worker holds from its claim on.  It was
made when the job prepared the return, before the connection; meanwhile the return
may have been cancelled, edited and queued again, the profile changed and the
deadline passed.  The property says that it still shows what the claimed row shows,
and what the profile, the election and the deadline were at the claim (`seen`, a
history field).  After the claim the profile may change: the code does not look
again before the upload ends.

### Proofs

The theorems hold for any quarters, versions and bounds.  `RowEffect`, the lemma
they rest on, says that a step changes at most one return, and in one of three
ways: it stays outside the queue, it is queued as `Commits` allows, or it stays
in the queue and keeps what was reviewed.  `UploadsAreCurrent` rests on `PayloadInv`: a row of the generation a job prepared
still shows what the job's payload shows, because every queueing and every change
of the retry time makes another generation.  `RegimeStands` and
`EightPercentYearIsNil` are proved for a taxpayer in business from the first
quarter (`BusinessFromQ1`), which is what the run has too: with a later initial
quarter the filed first quarter still binds the others (below).

## Deadlines and penalties

`PenaltyClock` models what a late return costs and when it is late;
`MCPenaltyClock` is the module TLC runs and `PenaltyClockProofs` holds the
theorems.

### State and actions

`stored` is the setting `deadline_overrides`, `ledger` the setting
`official_holidays_seeded`; `row[f]`, `page[f]` and `desk[f]` are the stored return,
the copy on its page and the assistant's copy, with the deadline and class each was
measured with; `worker` is the submission job with the payload it made; `received`
is what BIR has.

| Definition | Code |
|---|---|
| `Seeds`, `AfterSeeding`, `NextWorkingDay` | `holiday_overrides`, `seed_holidays_from`, `next_working_day` |
| `Overrides`, `Moves`, `Deadline` | `periodic_overrides`, `apply_override`, `apply_overrides` |
| `Interest`, `Compromise`, `Penalties` | `calculate_interest`, `lookup_compromise`, `PenaltyEngine::calculate` |
| `Reapplied`, `Computed`, `Finished`, `Loaded` | `apply_profile`, `compute_on`, `finish`, `load_draft` |
| `Upgrade`, `RemoveOverride`, `EditProfile`, `NextDay` | `seed_official_holidays` as the database opens, `set_deadline_overrides` (which no shipped window calls yet), a profile edit, midnight |
| `OpenPage`, `AmendOnPage`, `Fill`, `Save`, `QueuePage`, `CancelQueue` | `screen_form_open`, `_amend`, `_fill`, `_save`, `_queue`, `_cancel_queue` |
| `AssistantOpens`, `AssistantSaves`, `AssistantSends`, `AssistantDismisses` | `form_open`, which stores the return with the Calendar's deadline of that moment; `form_save_draft` and `form_send`, which keep that deadline; `form_dismiss` |
| `Prepare`, `FailSession`, `Claim`, `Upload` | the steps of `process_queued_queueable` between which the lock is free |

| Run | Bounds | Distinct states | What it shows |
|---|---|---|---|
| `penalty_clock` | 3 releases, two form codes, one return, 7 days, 2 edits, 2 queueings | 727,744 | `DeadlineIsAWorkingDay`, `RemovedStaysRemoved`, `FiledPenaltyIsOfItsDay` |

The releases ship a Friday, then the Monday after it and another form, then the
Thursday before: a deadline that is moved by the first has to be moved on by the
second and met by the third, whose seed is stored last although its day is the
first.  `DeadlineIsAWorkingDay` compares the fold over the stored list with the
first working day by the calendar of the installed release, for every date.  The
seven days cross the effective dates of both changes of rates.  Releases only add
days and codes, as every one so far has; `DeadlineIsAWorkingDay` rests on it.

`FiledPenaltyIsOfItsDay` follows one payload: it is made of the penalties of the
review when the return is prepared, and goes out after a connection, under a claim
that checks the row and not the payload.  In between, midnight passes, and the
return is taken back, changed, and queued again with another deadline, class or
amount, on the page or by the assistant.  What holds it together is that the claim
insists on the generation that was prepared and that the penalties of that row are
still those of the day: without either the property fails.  The upload itself may
end after midnight; the penalties are those of the claim.  Two queueings are the
least with which a claim meets another generation.

Simplifications: a copy of a return that has left Draft is of no further use; a
restart frees the claim (the recovery of claims, and failed uploads, are in
`FilingQueue`); the assistant has one return open at a time.

### Proofs

`FiledPenalty` follows the payload from step to step: while the worker connects, a
row of the generation it prepared has the penalties of its payload
(`ConnectingFits`), since only a queueing gives a generation and its number is new;
and while it holds a claim, the payload is what the claimed deadline, class and day
give (`ClaimFits`).  `Shape` says that every copy is a whole return.
`RemovedStay` needs that what was removed had been offered (`removed \subseteq
ledger`).  `LaterDeadlineCostsNoMore` is about the engine alone: for all amounts
and dates, a later deadline and an earlier day never cost more, across the start
of the TRAIN interest and of the small taxpayer's rates.

`HolidaysBecomeOverrides` says of the seeding, for any releases, that every
holiday the installed release ships for a form has an override unless the user
removed it, and that a seeded override moves its day to the next working day of
the release that shipped it; it needs that what was offered stays covered until it
is removed (`OffersStand`).

`DeadlinesAreWorkingDays` proves `DeadlineIsAWorkingDay` from this, for any
releases, forms and dates.  That the stored entries can be listed in the order of
the releases (`Ordered`, `Sorted`) is an invariant of its own.  Along the list, the
deadline has passed closed days only, and no entry so far names the day it has come
to: an entry comes after those of all earlier releases, whose holidays its own
release ships too, so the day it moves to was open to all of them.  At the end of
the list every holiday has had its entry, so the day is open.  The induction over
the list is by the least counterexample (`Least`, `CountUp`, `Recursion`), for which
the library's theorem on minimal elements is enough.  The hypothesis `OpensAgain`
says that no more than `MaxClosed` days in a row are closed, which bounds the search
of the model; the code's loops go on until they find an open day.

## Findings

`older_receipt`: `receipt_belongs_to_this_generation` accepts a receipt up to two
minutes older than the authorization it confirms (`filing_queue.rs:231-233`), so the
receipt of a filing confirms the amendment of it that was authorized within two
minutes; its comment (221-222) says that "an older receipt stays ignored".
`OldReceiptIsWithinSkew` and `ReceiptsFit` say what does hold.

`shutdown_closes`: `release_database` closes the database only if the UI thread
has the last handle, and the shipped application gives one to the log retention
thread, which never ends.  The owner lock is therefore never free, and "Install
now" ends the application without installing the update it had prepared.  The
comment of `shutdown_for_quit` says that the thread "checkpoints and closes".

`later_quarter_item13`: a later quarter whose first quarter is filed in this
application "files Q1's answer" (`form_2551q.rs:1848`), but only opening a form
looks the filed first quarter up.  One that was stored before is queued with its
own answer.

`pickup_cancel`: a filing from another device is stored with `"id":null`, and
`cancel_queued` compares the stored JSON with the return it loaded, which has its
id.  Such a return cannot be taken out of the queue.

## Known deviations

Where the code does not do what a comment says, or a person expects, and no run
of the project is about it.  The ones marked * were found by TLC with bounds or
constants other than those of the runs.

Filing and receipts:

* \* A poll looks for Submitted returns of the current calendar year
  (`email/inbox.rs:110`), the worker uploads those of any year.  A return filed
  in the year after its own stays Submitted until a return of the current year is
  polled through its mailbox.
* \* A return that becomes Submitted between a poll's last look and the lock in
  which its job is archived (or, in `check_inbox_now_run`, every job of the
  mailbox) is left without a job when it counted on that one: a return that is
  filed again does, and so does any return when the user presses "check now".
* A job row is written back from a copy made earlier
  (`background_cron.rs:2028`); receipts older than 30 days are not read
  (`fetcher.rs:162`); neither the mailbox nor SFTP sets a timeout of its own
  (`fetcher.rs:138`, `transport.rs:735`).

Session and gate:

* \* `set_unlocked` (`account_gate.rs:50`) stores the gate, reads it back and
  stores the pause flag, without a lock: a refresh that is refused while the
  person signs in can leave filing paused behind an open gate, or going on behind
  a locked one, until the gate is set again (`raced` in `CronLoop`).
* A launch that cannot save what the server has just confirmed leaves the gate
  locked (`bir-shell/src/cloud_account.rs:255`), although the person did not sign
  out and the server did not refuse; the comment of `gate_after_refresh`
  (`bir-core/src/cloud_account.rs:336`) names only these two causes.  The next
  launch that can write opens it (`unsaved` in `AccountSession`).
* \* Nobody who saves a refreshed session looks whether it is still the stored
  one (`signin.rs:117`, `bir-shell/src/cloud_account.rs:194`): a refresh that was
  under way when the person signed out stores the account again.
* \* An adapter keeps the tokens it was started with; after a sign-out and a new
  sign-in it is refused and clears the new account (`license.rs:153`), or stores its
  own again (`overtaken` in `AccountSession`).
* A refresh whose answer is lost, or that is followed by an error of the server,
  loses the session if the server replaced the refresh token
  (`bir-core/src/cloud_account.rs:673`, `687`).

Updater:

* An announced release overwrites `version` while `asset` stays the older one,
  and an automatic check that fails hides a verified asset until the next one
  that succeeds.  "Later" puts off the release of the state, which may be newer
  than the one on the banner; it hides it until a manual check, where a comment
  (`bir_module.rs:2608`) says "until the next check".  The agent session keeps a
  handle of the database as the retention thread does (`agent/mod.rs:181`).

2551Q:

* A later quarter with PT010 whose first quarter is not filed here cannot be
  queued: reconciling resets its answer, or validation asks for an election that
  no screen can record (against `draft_locks.rs:1144`, `form_2551q.rs:836`).
* A later quarter bound to the 8% of a filed first quarter must have every row
  NIL, of whatever ATC (`form_2551q.rs:1979`, `2147`), where the comments speak
  of PT010.
* Cancelling the initial quarter leaves its election recorded; queueing it makes
  a queued later quarter without PT010 stale, so the claim sends that one back.
* With two desks the last save wins, and the page's Queue sends what is stored.
* With an initial quarter after the first, a filed first quarter still binds.
* After filling and sending, the assistant can neither save nor dismiss its copy.

Deadlines:

* The penalties of 2551Q run from the 25th as it is (`form_2551q.rs:1112`), while
  the Calendar moves that deadline off weekends and holidays.
* An extension of the profile that lands on a shipped holiday stays there: the
  seeds are applied before it.
* `queue_form_draft` of 1601C queues a return with the deadline and class it was
  stored with, and the assistant's send with those it was opened with; only the
  page resolves them again.
* An override removed before its day was offered is followed by the seed when a
  release ships that day.
* A return claimed before midnight may reach BIR after it, with the penalties of
  the day before; nothing looks at the clock between the claim and the upload.
* The waiver for an amended return is never given, as a timely original is not
  recorded (`assessment.rs:194`).

The README of the application also names a `Paid` status that no shipped code
path sets for a queued return.

## What is proved

| Module | Theorems | From |
|---|---|---|
| `FilingQueueProofs` | `Invariance`, `TypeCorrect`, `OnePut`, `PutsAreGranted`, `WithdrawnStaysUnput`, `FiledWasReceived`, `PutFailsClosed`, `QueueKeepsPromise` | the inductive `IInv` |
| | `HistoryInvariance`, `NoOriginalTwice`, `ReceiptsFit` | `IInv` and `HistoryInv` |
| `ReceiptPollProofs` | `Invariance`, `TypeCorrect`, `ConfirmationIsReal`, `WaitingIsPolled` | the inductive `IInv`; finitely many returns |
| `AccountSessionProofs` | `TypeCorrect`, `Invariance`, `SessionIsKept`, `GateStaysOpen` | the inductive `IInv`; all but the first from `SafeWorlds` |
| `UpdaterProofs` | `TypeCorrect`, `ApplicationSurvives`, `DatabaseIsClosedFirst`, `OffersAreInstallable` | the inductive `IndInv` |
| `Draft2551QProofs` | `TypeCorrect`, `ReviewedStays`, `UploadsAreCurrent`, `OriginalIsFiledOnce`, `FiledUnderTheYearsElection`, `NoPT010TaxInAnEightPercentYear` | `TypeOK` and `RowEffect`; `PayloadInv` for the uploads; the last two from `BusinessFromQ1` |
| `PenaltyClockProofs` | `FiledPenalty`, `RemovedStay`, `HolidaysBecomeOverrides`, `DeadlinesAreWorkingDays`, `LaterDeadlineCostsNoMore` | `Shape`, `ConnectingFits` and `ClaimFits`; `removed \subseteq ledger`; `OffersStand`; `Ordered` and `OpensAgain`; the assumptions on the constants |
| `CalendarSyncProofs` | `Invariance`, `TypeCorrect`, `EventsAreKnown` | the inductive `IInv`; finite sets for the events left behind |
| | `SettledCalendars` | `IInv` and the inductive `SettledInv` |
| `CronLoopProofs` | `TypeCorrect`, `PauseFollowsGate` | `PauseInv`, for any threads |

Every safety and action property that a run checks is proved, some under the
hypotheses the table names.  Only model-checked are the liveness properties
`QueuedMovesOn`, `ReceiptConfirms`, `QueuedIsRead`, `ShutdownEndsLoop`,
`CalendarCatchesUp` and `NewerIsOffered`: fairness and `ENABLED` are out of the
prover's reach.

## What could come next

In the order of what it would add: the 1601C store as an instance of the protocol
of `FilingQueue`; a composition of `FilingQueue` with `ReceiptPoll` over one
mailbox; re-keyed drafts (`move_rekeyed_draft`).

## Not modelled

Most of the repository's lines are rule tables that are generated from BIR's
forms, the arithmetic of some forty returns, the drawing of screens and printed
pages, and tests.  They are sequential functions of one return: what could go
wrong in them is a wrong figure, which the repository compares with BIR's own
program by example, and a model of them would be a second copy.  The modules here
cover the parts whose difficulty is an order of steps; that is a small share of
the lines, and modelling the rest would not make it a better one.

Also left out: migrations, imports and profiles; the SFTP protocol and
encryption; the transfer of a draft to another TIN or period; the sign-in
limiter, a counter behind one mutex that its tests cover; the sign-in, sign-out
and status commands of `bir-mcp`; alerts and notifications, which no other
component reads back.
