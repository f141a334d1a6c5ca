---------------------------- MODULE CalendarSync ----------------------------
(***************************************************************************)
(* Filing deadlines kept in step with Google calendars: the request flag,  *)
(* the worker's sync, and what it knows of the events it created           *)
(* (google_calendar.rs, db/google_calendar.rs, background_cron.rs).        *)
(*                                                                         *)
(* The sync decides and snapshots under the database lock, calls Google    *)
(* without it, and takes the lock again to record each event.  Meanwhile   *)
(* the user writes.  Simplifications:                                      *)
(*  - Every profile has a calendar, and the Google account stays connected:*)
(*    the application offers no way to change either.                      *)
(*  - An event is reduced to its obligation key and its content; a profile *)
(*    is known by its TIN, which a rename replaces.                        *)
(*  - Database statements do not fail, except for the foreign key of an    *)
(*    event whose TIN no profile has any more.                             *)
(*                                                                         *)
(* X_Slip is X with a plausible mistake, used only to show that a property *)
(* notices it.                                                             *)
(***************************************************************************)
EXTENDS Naturals, FiniteSetsExt

CONSTANTS
    Profiles,
    Keys,          \* obligation keys, in their order
    KeysOf,        \* KeysOf[p]: those the Forms Set of p can lead to
    Contents,      \* what an event may say
    NoContent,     \* no event
    MaxDisturbances,  \* bound: writes of the user; calls to Google that fail or lose
                      \* their answer, deaths of the process, TINs replaced, and
                      \* events deleted in the calendar
    MaxEvents         \* bound: events created at Google

ASSUME KeysAssumption == Keys \subseteq Nat /\ KeysOf \in [Profiles -> SUBSET Keys]
ASSUME ContentsAssumption == NoContent \notin Contents
ASSUME BoundsAssumption == MaxDisturbances \in Nat /\ MaxEvents \in Nat

VARIABLES
    want,       \* want[p][k]: the event the deadlines of p call for
    tin,        \* tin[p]: how often the TIN of p was replaced
    events,     \* events[p][k]: the row of profile_calendar_events
    requested,  \* google_calendar_sync_requested
    due,        \* have six hours passed since google_calendar_last_sync_unix?
    sync,       \* the running sync, or Idle
    google,     \* external: google[id], the event the calendar shows
    created,    \* external: how many events were created
    removed,    \* history: events a person deleted in the calendar
    torn,       \* history: events changed at Google by a call that was not recorded
    late,       \* history: late[p], p was written after the running sync read it
    writes, troubles

vars == <<want, tin, events, requested, due, sync, google, created, removed,
          torn, late, writes, troubles>>
flags == <<requested, due>>
remote == <<google, created, removed>>
bounds == <<writes, troubles>>

----------------------------------------------------------------------------
(* Types *)

Wanted == Contents \cup {NoContent}
Id == 1 .. MaxEvents

NoRow == [id |-> 0, content |-> NoContent]
Row == [id: Id, content: Contents] \cup {NoRow}

NoEvent == [profile |-> "none", key |-> 0, content |-> NoContent]
Event == [profile: Profiles, key: Keys, content: Contents] \cup {NoEvent}

Job == [profile: Profiles, tin: 0 .. MaxDisturbances]
NoJob == [profile |-> "none", tin |-> 0]

\* pc: where the sync is; "between" profiles, or in one of them.  left: the
\* profiles still to sync; job: the one it is in; desired and existing: the
\* snapshot of it, in which existing follows what the sync has done; at, id:
\* the key in hand and the event Google answered with; ok: all_succeeded.
Sync == [pc: {"idle", "between", "syncing", "creating", "saving", "forgetting"},
         left: SUBSET Job,
         job: Job \cup {NoJob},
         desired: [Keys -> Wanted],
         existing: [Keys -> Row],
         at: Keys \cup {0},
         id: Id \cup {0},
         ok: BOOLEAN]

NothingKnown == [k \in Keys |-> NoRow]

Idle == [pc |-> "idle", left |-> {}, job |-> NoJob, ok |-> TRUE, at |-> 0, id |-> 0,
         desired |-> [k \in Keys |-> NoContent], existing |-> NothingKnown]

\* The deadlines a profile can have, and those that all say the same.
Deadlines(p) == {w \in [Keys -> Wanted] : \A k \in Keys \ KeysOf[p] : w[k] = NoContent}
Uniform(p, c) == [k \in Keys |-> IF k \in KeysOf[p] THEN c ELSE NoContent]

\* A database whose calendars have not been synced yet.
Init == /\ want \in {[p \in Profiles |-> Uniform(p, c)] : c \in Wanted}
        /\ tin = [p \in Profiles |-> 0]
        /\ events = [p \in Profiles |-> NothingKnown]
        /\ requested = FALSE
        /\ due = TRUE
        /\ sync = Idle
        /\ google = [i \in Id |-> NoEvent]
        /\ created = 0
        /\ removed = {} /\ torn = {}
        /\ late = [p \in Profiles |-> FALSE]
        /\ writes = 0 /\ troubles = 0

----------------------------------------------------------------------------
(* The user, the clock and the calendar's owner *)

Trouble == writes + troubles < MaxDisturbances /\ troubles' = troubles + 1

\* A write that moves deadlines commits, and then asks for a sync.  The request
\* is missing after one that could not record it, and after a change of the
\* forms the user wants in the calendar.
ChangeWant(p, w, asks) ==
    /\ want' = [want EXCEPT ![p] = w]
    /\ requested' = (requested \/ asks)
    /\ late' = [late EXCEPT ![p] = @ \/ ~asks \/ sync.pc # "idle"]

Write(p, w, asks) ==
    /\ writes + troubles < MaxDisturbances
    /\ writes' = writes + 1
    /\ w # want[p]
    /\ ChangeWant(p, w, asks)
    /\ UNCHANGED <<tin, events, due, sync, remote, torn, troubles>>

\* The rows of the profile follow its new TIN, which every event names.
Rename(p, w) ==
    /\ Trouble
    /\ \A k \in Keys : w[k] = want[p][k] <=> want[p][k] = NoContent
    /\ tin' = [tin EXCEPT ![p] = @ + 1]
    /\ ChangeWant(p, w, TRUE)
    /\ UNCHANGED <<events, due, sync, remote, torn, writes>>

SixHoursPass ==
    /\ ~due
    /\ due' = TRUE
    /\ UNCHANGED <<want, tin, events, requested, sync, remote, torn, late, bounds>>

DeleteInCalendar(i) ==
    /\ google[i] # NoEvent
    /\ Trouble
    /\ removed' = removed \cup {i}
    /\ google' = [google EXCEPT ![i] = NoEvent]
    /\ UNCHANGED <<want, tin, events, flags, sync, created, torn, late, writes>>

----------------------------------------------------------------------------
(* The worker's sync *)

local == <<want, tin, writes>>

\* process_google_calendar_sync: asked for, or six hours ago.
StartSync ==
    /\ sync.pc = "idle"
    /\ requested \/ due
    /\ sync' = [Idle EXCEPT !.pc = "between",
                            !.left = {[profile |-> p, tin |-> tin[p]] : p \in Profiles}]
    /\ UNCHANGED <<local, events, flags, remote, torn, late, troubles>>

\* The next profile's deadlines and known events, read under one lock.
SnapshotProfile(j) ==
    /\ sync.pc = "between" /\ j \in sync.left
    /\ tin[j.profile] = j.tin
    /\ sync' = [sync EXCEPT !.pc = "syncing", !.left = @ \ {j}, !.job = j,
                            !.desired = want[j.profile],
                            !.existing = events[j.profile]]
    /\ late' = [late EXCEPT ![j.profile] = FALSE]
    /\ UNCHANGED <<local, events, flags, remote, torn, troubles>>

\* Under the TIN that was listed there is no calendar any more.
ProfileMoved(j) ==
    /\ sync.pc = "between" /\ j \in sync.left
    /\ tin[j.profile] # j.tin
    /\ sync' = [sync EXCEPT !.left = @ \ {j}, !.ok = FALSE]
    /\ UNCHANGED <<local, events, flags, remote, torn, late, troubles>>

\* The keys still to do: what is desired first, then what is not any more.
Pending == {k \in Keys : sync.desired[k] # sync.existing[k].content}
ToPut == {k \in Pending : sync.desired[k] # NoContent}
Turn == Min(IF ToPut # {} THEN ToPut ELSE Pending)

Known(k) == sync.existing[k].id
Moved == tin[sync.job.profile] # sync.job.tin

\* An error ends the profile, and the sync goes on with the next one.
GiveUp == sync' = [sync EXCEPT !.pc = "between", !.ok = FALSE, !.at = 0, !.id = 0]

\* A call to Google whose answer arrives, or is lost and ends the profile.
Answered(i, pc) ==
    \/ /\ sync' = [sync EXCEPT !.pc = pc, !.at = Turn, !.id = i]
       /\ UNCHANGED <<torn, troubles>>
    \/ /\ Trouble
       /\ torn' = torn \cup {i}
       /\ GiveUp

UpdateEvent ==
    /\ sync.pc = "syncing" /\ ToPut # {}
    /\ sync.existing[Turn] # NoRow
    /\ google[Known(Turn)] # NoEvent
    /\ google' = [google EXCEPT ![Known(Turn)].content = sync.desired[Turn]]
    /\ Answered(Known(Turn), "saving")
    /\ UNCHANGED <<local, events, flags, created, removed, late>>

EventNotFound_IsAnError == GiveUp
\* is_resource_not_found: an event to update is gone, so it is created again.
EventNotFound == sync' = [sync EXCEPT !.pc = "creating"]

UpdateMissingEvent ==
    /\ sync.pc = "syncing" /\ ToPut # {}
    /\ sync.existing[Turn] # NoRow
    /\ google[Known(Turn)] = NoEvent
    /\ EventNotFound
    /\ UNCHANGED <<local, events, flags, remote, torn, late, troubles>>

CreateEvent ==
    /\ sync.pc \in {"syncing", "creating"} /\ ToPut # {}
    /\ sync.pc = "syncing" => sync.existing[Turn] = NoRow
    /\ created < MaxEvents
    /\ created' = created + 1
    /\ google' = [google EXCEPT ![created'] =
                    [profile |-> sync.job.profile, key |-> Turn, content |-> sync.desired[Turn]]]
    /\ Answered(created', "saving")
    /\ UNCHANGED <<local, events, flags, removed, late>>

\* One that is gone already counts as deleted.
DeleteEvent ==
    /\ sync.pc = "syncing" /\ Pending # {} /\ ToPut = {}
    /\ google' = [google EXCEPT ![Known(Turn)] = NoEvent]
    /\ Answered(Known(Turn), "forgetting")
    /\ UNCHANGED <<local, events, flags, created, removed, late>>

\* The credentials cannot be read, or Google refuses a call.
CallFails ==
    /\ sync.pc \in {"syncing", "creating"}
    /\ Trouble
    /\ GiveUp
    /\ UNCHANGED <<local, events, flags, remote, torn, late>>

\* The row of the key in hand, in the database and in the snapshot.
Record(row) ==
    /\ events' = [events EXCEPT ![sync.job.profile][sync.at] = row]
    /\ torn' = torn \ {sync.id}
    /\ sync' = [sync EXCEPT !.pc = "syncing", !.existing[sync.at] = row, !.at = 0, !.id = 0]

SaveMapping_KeepsId ==
    /\ sync.pc = "saving" /\ ~Moved
    /\ Record([id |-> IF Known(sync.at) = 0 THEN sync.id ELSE Known(sync.at),
               content |-> sync.desired[sync.at]])
    /\ UNCHANGED <<local, flags, remote, late, troubles>>

\* save_event_mapping
SaveMapping ==
    /\ sync.pc = "saving" /\ ~Moved
    /\ Record([id |-> sync.id, content |-> sync.desired[sync.at]])
    /\ UNCHANGED <<local, flags, remote, late, troubles>>

\* The row would refer to a TIN that is gone.
MappingRefused ==
    /\ sync.pc = "saving" /\ Moved
    /\ torn' = torn \cup {sync.id}
    /\ GiveUp
    /\ UNCHANGED <<local, events, flags, remote, late, troubles>>

ForgetMapping_Blanks ==
    /\ sync.pc = "forgetting" /\ ~Moved
    /\ Record([id |-> sync.id, content |-> NoContent])
    /\ UNCHANGED <<local, flags, remote, late, troubles>>

\* delete_calendar_event_link
ForgetMapping ==
    /\ sync.pc = "forgetting" /\ ~Moved
    /\ Record(NoRow)
    /\ UNCHANGED <<local, flags, remote, late, troubles>>

\* No row has the old TIN: nothing is deleted, and nobody notices.
ForgetNothing ==
    /\ sync.pc = "forgetting" /\ Moved
    /\ torn' = torn \cup {sync.id}
    /\ sync' = [sync EXCEPT !.pc = "syncing", !.existing[sync.at] = NoRow, !.at = 0, !.id = 0]
    /\ UNCHANGED <<local, events, flags, remote, late, troubles>>

FinishProfile ==
    /\ sync.pc = "syncing" /\ Pending = {}
    /\ sync' = [sync EXCEPT !.pc = "between"]
    /\ UNCHANGED <<local, events, flags, remote, torn, late, troubles>>

Succeeded_OnAnyEnd == TRUE
Succeeded == sync.ok

\* A request made while the sync ran is cleared with the one it answers.
FinishSync ==
    /\ sync.pc = "between" /\ sync.left = {}
    /\ requested' = ~Succeeded
    /\ due' = (due /\ ~Succeeded)
    /\ sync' = Idle
    /\ UNCHANGED <<local, events, remote, torn, late, troubles>>

\* The process dies and is started again.
Crash ==
    /\ Trouble
    /\ sync.pc # "idle"
    /\ torn' = torn \cup ({sync.id} \ {0})
    /\ sync' = Idle
    /\ UNCHANGED <<local, events, flags, remote, late>>

SyncStep == \/ StartSync \/ FinishSync \/ FinishProfile
            \/ \E j \in sync.left : SnapshotProfile(j) \/ ProfileMoved(j)
            \/ UpdateEvent \/ UpdateMissingEvent \/ CreateEvent \/ DeleteEvent
            \/ CallFails
            \/ SaveMapping \/ MappingRefused \/ ForgetMapping \/ ForgetNothing

Next == \/ SyncStep
        \/ \E p \in Profiles : \E w \in Deadlines(p) :
              Rename(p, w) \/ \E asks \in BOOLEAN : Write(p, w, asks)
        \/ SixHoursPass
        \/ \E i \in Id : DeleteInCalendar(i)
        \/ Crash

Spec == Init /\ [][Next]_vars

\* The worker ticks every minute and every call to Google times out; the clock
\* goes on.
FairSpec == Spec /\ WF_vars(SyncStep) /\ WF_vars(SixHoursPass)

----------------------------------------------------------------------------
(* What the sync promises *)

TypeOK ==
    /\ want \in [Profiles -> [Keys -> Wanted]]
    /\ tin \in [Profiles -> 0 .. MaxDisturbances]
    /\ events \in [Profiles -> [Keys -> Row]]
    /\ requested \in BOOLEAN /\ due \in BOOLEAN
    /\ sync \in Sync
    /\ google \in [Id -> Event]
    /\ created \in 0 .. MaxEvents
    /\ removed \subseteq Id /\ torn \subseteq Id
    /\ late \in [Profiles -> BOOLEAN]
    /\ writes \in 0 .. MaxDisturbances /\ troubles \in 0 .. MaxDisturbances

\* Every event in a calendar is recorded under its deadline, or about to be, so
\* a deadline has one event and it can still be changed: only a lost answer, a
\* crash or a rename during a sync leaves one event each behind
\* (sync_snapshot, save_event_mapping).
EveryEventIsKnown ==
    /\ \A i \in Id \ torn :
          \/ google[i] = NoEvent
          \/ events[google[i].profile][google[i].key].id = i
          \/ sync.pc = "saving" /\ sync.id = i
    /\ Cardinality({i \in torn : google[i] # NoEvent}) <= troubles

\* The calendar of p shows its deadlines, but for events a person deleted and
\* those a call has changed without a record.
Agrees(p) ==
    \A k \in Keys :
        /\ events[p][k].content = want[p][k]
        /\ \/ want[p][k] = NoContent
           \/ events[p][k].id \in removed \cup torn
           \/ google[events[p][k].id] = [profile |-> p, key |-> k, content |-> want[p][k]]

\* When no sync runs, is asked for or is due, every calendar shows its
\* deadlines, but for what was written while the last sync ran or without a
\* request (process_google_calendar_sync).
SettledAgrees ==
    sync.pc = "idle" /\ ~requested /\ ~due => \A p \in Profiles : late[p] \/ Agrees(p)

\* Once writes and failures stop, every calendar shows its deadlines for good,
\* the writes that a running sync has missed included (the six hour timer).
CalendarCatchesUp == \A p \in Profiles : <>[]Agrees(p)

=============================================================================
