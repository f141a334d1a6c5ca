------------------------- MODULE CalendarSyncProofs -------------------------
(***************************************************************************)
(* Proofs about CalendarSync for any profiles, keys, contents and bounds:  *)
(* every event in a calendar is recorded under its deadline, and no more   *)
(* events are left behind than answers were lost, processes died and TINs  *)
(* were replaced; and when no sync runs or is due, every calendar shows    *)
(* the deadlines of its profile.                                           *)
(***************************************************************************)
EXTENDS CalendarSync, FiniteSetTheorems, WellFoundedInduction, TLAPS

----------------------------------------------------------------------------
(* The first key *)

\* Every set of keys that is not empty has a first one.
LEMMA FirstKey ==
    ASSUME NEW S, S \subseteq Nat, S # {}
    PROVE  Min(S) \in S
<1> DEFINE Less == OpToRel(<, Nat)
<1>1. \A x, y \in Nat : x < y => <<x, y>> \in Less
  BY Zenon DEF OpToRel
<1> HIDE DEF Less
<1>2. IsWellFoundedOn(Less, Nat)
  BY Zenon, NatLessThanWellFounded DEF Less
<1>3. PICK x \in S : \A y \in S : ~(<<y, x>> \in Less)
  BY <1>2, WFMin, Zenon
<1>4. ASSUME NEW y \in S PROVE x <= y
  <2>1. ~(y < x)
    BY <1>1, <1>3, Zenon
  <2> QED  BY <2>1, SMT
<1> QED  BY <1>4 DEF Min

----------------------------------------------------------------------------
(* The inductive invariant *)

TypeInv == /\ TypeOK
           /\ \A p \in Profiles : tin[p] <= troubles
           /\ writes + troubles <= MaxDisturbances

InProfile == sync.pc \in {"syncing", "creating", "saving", "forgetting"}

\* The snapshot and the rows agree while the profile keeps its TIN; after a
\* rename the sync may only think of a row as deleted.
SnapshotInv ==
    InProfile =>
        /\ sync.job \in Job
        /\ sync.job.tin <= tin[sync.job.profile]
        /\ \A k \in Keys :
              \/ sync.existing[k] = events[sync.job.profile][k]
              \/ Moved /\ sync.existing[k] = NoRow

\* The calendar shows event i for key k of profile p, or no longer at all.
Shows(i, p, k) == google[i] = NoEvent \/ (google[i].profile = p /\ google[i].key = k)

\* Between a call to Google and its record, the event in hand belongs to the
\* key in hand, and the event the row names is the same one or gone.
StepInv ==
    /\ sync.pc = "creating" =>
          /\ ToPut # {}
          /\ sync.existing[Turn] # NoRow
          /\ google[Known(Turn)] = NoEvent
    /\ sync.pc \in {"saving", "forgetting"} => sync.at \in Keys /\ sync.id \in Id
    /\ sync.pc = "saving" =>
          /\ sync.desired[sync.at] # NoContent
          /\ Shows(sync.id, sync.job.profile, sync.at)
          /\ \/ sync.existing[sync.at] = NoRow
             \/ Known(sync.at) = sync.id
             \/ google[Known(sync.at)] = NoEvent
    /\ sync.pc = "forgetting" =>
          google[sync.id] = NoEvent /\ Known(sync.at) = sync.id

\* Ids are those of created events, and a row names an event of its own key.
IdsInv ==
    /\ \A i \in Id : i > created => google[i] = NoEvent
    /\ torn \subseteq 1 .. created
    /\ sync.id <= created
    /\ \A p \in Profiles, k \in Keys :
          events[p][k] # NoRow =>
              events[p][k].id <= created /\ Shows(events[p][k].id, p, k)

\* A rename during the sync of its profile has one event to leave behind yet.
LeftInv ==
    Cardinality({i \in torn : google[i] # NoEvent}) + (IF InProfile /\ Moved THEN 1 ELSE 0)
        <= troubles

KnownInv ==
    \A i \in Id \ torn :
        \/ google[i] = NoEvent
        \/ events[google[i].profile][google[i].key].id = i
        \/ sync.pc = "saving" /\ sync.id = i

IInv == TypeInv /\ SnapshotInv /\ StepInv /\ IdsInv /\ LeftInv /\ KnownInv

----------------------------------------------------------------------------
(* Facts about rows, events and the key in hand *)

LEMMA Rows ==
    /\ NoRow \in Row /\ NoRow.id = 0 /\ NoRow.content = NoContent
    /\ \A r \in Row : r # NoRow => r.id \in Id /\ r.content \in Contents
    /\ \A i \in Id, c \in Contents : [id |-> i, content |-> c] \in Row \ {NoRow}
  BY ContentsAssumption DEF Row, NoRow

LEMMA Events ==
    /\ NoEvent \in Event
    /\ \A e \in Event : e # NoEvent => e.profile \in Profiles /\ e.key \in Keys
    /\ \A e \in Event, c \in Contents : e # NoEvent =>
          /\ [e EXCEPT !.content = c] \in Event \ {NoEvent}
          /\ [e EXCEPT !.content = c].profile = e.profile
          /\ [e EXCEPT !.content = c].key = e.key
    /\ \A p \in Profiles, k \in Keys, c \in Contents :
          [profile |-> p, key |-> k, content |-> c] \in Event \ {NoEvent}
  BY ContentsAssumption DEF Event, NoEvent

\* The key in hand is one of those still to do.
LEMMA TurnIsPending ==
    ASSUME TypeOK, Pending # {}
    PROVE  /\ Turn \in Pending
           /\ ToPut # {} => sync.desired[Turn] \in Contents
           /\ ToPut = {} => /\ sync.desired[Turn] = NoContent
                            /\ sync.existing[Turn] # NoRow
<1>1. Turn \in IF ToPut # {} THEN ToPut ELSE Pending
  <2>1. Pending \subseteq Nat /\ ToPut \subseteq Nat
    BY KeysAssumption DEF Pending, ToPut
  <2> QED  BY <2>1, FirstKey DEF Turn
<1>2. Turn \in Pending
  BY <1>1 DEF ToPut
<1>3. ASSUME ToPut # {} PROVE sync.desired[Turn] \in Contents
  BY <1>1, <1>3 DEF ToPut, Pending, TypeOK, Sync, Wanted
<1>4. ASSUME ToPut = {}
      PROVE  sync.desired[Turn] = NoContent /\ sync.existing[Turn] # NoRow
  BY <1>2, <1>4, Rows DEF ToPut, Pending
<1> QED  BY <1>2, <1>3, <1>4

----------------------------------------------------------------------------
(* Every step preserves the invariant *)

USE KeysAssumption, BoundsAssumption

LEMMA KnownType ==
    ASSUME TypeOK, NEW k \in Keys, sync.existing[k] # NoRow
    PROVE  Known(k) \in Id
  BY Rows DEF TypeOK, Sync, Known

LEMMA RowsHaveIds ==
    ASSUME TypeOK, NEW p \in Profiles, NEW k \in Keys, events[p][k] # NoRow
    PROVE  events[p][k].id \in Id
  BY Rows DEF TypeOK

LEMMA CreatingKnows ==
    ASSUME TypeOK, StepInv, sync.pc = "creating"
    PROVE  Turn \in Keys /\ Known(Turn) \in Id
<1>1. ToPut # {} /\ sync.existing[Turn] # NoRow
  BY DEF StepInv
<1>2. Turn \in Keys
  BY <1>1, TurnIsPending DEF ToPut, Pending
<1> QED  BY <1>1, <1>2, KnownType

LEMMA LeftIsNat ==
    ASSUME TypeOK
    PROVE  /\ IsFiniteSet({i \in torn : google[i] # NoEvent})
           /\ Cardinality({i \in torn : google[i] # NoEvent}) \in Nat
<1>1. IsFiniteSet(Id)
  BY FS_Interval DEF Id
<1>2. {i \in torn : google[i] # NoEvent} \in SUBSET Id
  BY DEF TypeOK
<1> QED  BY <1>1, <1>2, FS_Subset, FS_CardinalityType

LEMMA IdleType == Idle \in Sync
  BY Rows DEF Idle, Sync, NothingKnown, Wanted

\* The events left behind do not become more.
LEMMA NoMoreLeft ==
    ASSUME TypeOK, LeftInv, troubles' \in Nat, troubles <= troubles',
           \A i \in torn' : google'[i] # NoEvent => i \in torn /\ google[i] # NoEvent,
           InProfile' /\ Moved' => InProfile /\ Moved
    PROVE  LeftInv'
<1> DEFINE Live == {i \in torn : google[i] # NoEvent}
<1>1. Live' \in SUBSET Live
  OBVIOUS
<1>2. Cardinality(Live') <= Cardinality(Live) /\ Cardinality(Live') \in Nat
  BY <1>1, FS_Subset, FS_CardinalityType, LeftIsNat
<1>3. /\ Cardinality(Live) \in Nat
      /\ Cardinality(Live) + (IF InProfile /\ Moved THEN 1 ELSE 0) <= troubles
  BY LeftIsNat DEF LeftInv
<1> HIDE DEF Live
<1>4. Cardinality(Live') + (IF InProfile' /\ Moved' THEN 1 ELSE 0) <= troubles'
  BY <1>2, <1>3 DEF TypeOK
<1> QED  BY <1>4 DEF LeftInv, Live

\* Event e is left behind: a trouble more, or the end of a renamed profile.
LEMMA OneMoreLeft ==
    ASSUME TypeOK, LeftInv, NEW e, troubles' \in Nat,
           \A i \in torn' : google'[i] # NoEvent => i = e \/ (i \in torn /\ google[i] # NoEvent),
           ~InProfile',
           troubles' = troubles + 1 \/ (troubles' = troubles /\ InProfile /\ Moved)
    PROVE  LeftInv'
<1> DEFINE Live == {i \in torn : google[i] # NoEvent}
<1>1. Live' \in SUBSET (Live \cup {e})
  OBVIOUS
<1>2. /\ IsFiniteSet(Live \cup {e})
      /\ Cardinality(Live \cup {e}) <= Cardinality(Live) + 1
      /\ Cardinality(Live \cup {e}) \in Nat
  <2>1. IsFiniteSet(Live) /\ Cardinality(Live) \in Nat
    BY LeftIsNat
  <2> HIDE DEF Live
  <2>2. /\ IsFiniteSet(Live \cup {e})
        /\ Cardinality(Live \cup {e}) =
              IF e \in Live THEN Cardinality(Live) ELSE Cardinality(Live) + 1
    BY <2>1, FS_AddElement, Zenon
  <2> QED  BY <2>1, <2>2
<1>3. Cardinality(Live') <= Cardinality(Live \cup {e}) /\ Cardinality(Live') \in Nat
  BY <1>1, <1>2, FS_Subset, FS_CardinalityType
<1>4. /\ Cardinality(Live) \in Nat
      /\ Cardinality(Live) + (IF InProfile /\ Moved THEN 1 ELSE 0) <= troubles
  BY LeftIsNat DEF LeftInv
<1> HIDE DEF Live
<1>5. Cardinality(Live') + (IF InProfile' /\ Moved' THEN 1 ELSE 0) <= troubles'
  BY <1>2, <1>3, <1>4 DEF TypeOK
<1> QED  BY <1>5 DEF LeftInv, Live

LEMMA Start == Init => IInv
<1> SUFFICES ASSUME Init PROVE IInv
  OBVIOUS
<1>1. NothingKnown \in [Keys -> Row] /\ NoContent \in Wanted
  BY Rows DEF NothingKnown, Wanted
<1>2. Idle \in Sync
  BY <1>1 DEF Idle, Sync
<1>3. want \in [Profiles -> [Keys -> Wanted]]
  BY <1>1 DEF Init, Uniform
<1>4. google \in [Id -> Event] /\ \A i \in Id : google[i] = NoEvent
  BY Events DEF Init
<1>5. TypeInv
  <2>1. tin \in [Profiles -> 0 .. MaxDisturbances] /\ \A p \in Profiles : tin[p] <= troubles
    BY DEF Init
  <2>2. removed = {} /\ torn = {} /\ late \in [Profiles -> BOOLEAN]
    BY Zenon DEF Init
  <2>3. events \in [Profiles -> [Keys -> Row]]
    BY <1>1, Zenon DEF Init
  <2>4. requested \in BOOLEAN /\ due \in BOOLEAN
    BY Zenon DEF Init
  <2>5. TypeOK
    BY <1>2, <1>3, <1>4, <2>1, <2>2, <2>3, <2>4 DEF Init, TypeOK
  <2> QED  BY <2>1, <2>5 DEF Init, TypeInv
<1>6. SnapshotInv /\ StepInv
  BY DEF Init, Idle, SnapshotInv, StepInv, InProfile
<1>7. IdsInv
  BY <1>4, Rows DEF Init, Idle, IdsInv, NothingKnown
<1>8. LeftInv /\ KnownInv
  <2>1. {i \in torn : google[i] # NoEvent} = {}
    BY DEF Init
  <2> QED  BY <1>4, <2>1, FS_EmptySet DEF Init, Idle, LeftInv, InProfile, KnownInv
<1> QED  BY <1>5, <1>6, <1>7, <1>8 DEF IInv

\* A step that calls nobody and records nothing.
LEMMA QuietStep ==
    ASSUME IInv, TypeOK', SnapshotInv', StepInv',
           UNCHANGED <<tin, events, google, created, torn, troubles>>,
           writes' + troubles <= MaxDisturbances,
           sync.pc = "saving" => sync' = sync,
           sync'.id <= created,
           InProfile' /\ Moved' => InProfile /\ Moved
    PROVE  IInv'
<1>1. TypeInv'
  BY DEF IInv, TypeInv
<1>2. IdsInv'
  BY DEF IInv, IdsInv, Shows
<1>3. LeftInv'
  BY NoMoreLeft DEF IInv, TypeInv, TypeOK
<1>4. KnownInv'
  BY DEF IInv, KnownInv
<1> QED  BY <1>1, <1>2, <1>3, <1>4 DEF IInv

LEMMA StartSyncKeeps == IInv /\ StartSync => IInv'
<1> SUFFICES ASSUME IInv, StartSync PROVE IInv'
  OBVIOUS
<1>1. TypeOK'
  <2>1. \A p \in Profiles : [profile |-> p, tin |-> tin[p]] \in Job
    BY DEF IInv, TypeInv, TypeOK, Job
  <2>2. \A J \in SUBSET Job : [Idle EXCEPT !.pc = "between", !.left = J] \in Sync
    BY IdleType DEF Sync
  <2>3. {[profile |-> p, tin |-> tin[p]] : p \in Profiles} \in SUBSET Job
    BY <2>1
  <2>4. sync' \in Sync
    BY <2>2, <2>3 DEF StartSync
  <2> QED  BY <2>4 DEF StartSync, local, remote, flags, bounds, IInv, TypeInv, TypeOK
<1>2. sync'.pc = "between" /\ sync'.id = 0
  BY DEF StartSync, Idle
<1>3. ~InProfile' /\ sync.pc = "idle" /\ SnapshotInv' /\ StepInv'
  BY <1>2 DEF StartSync, InProfile, SnapshotInv, StepInv
<1> QED  BY <1>1, <1>2, <1>3, QuietStep DEF StartSync, local, remote, flags, bounds, IInv, TypeInv, TypeOK

LEMMA FinishSyncKeeps == IInv /\ FinishSync => IInv'
<1> SUFFICES ASSUME IInv, FinishSync PROVE IInv'
  OBVIOUS
<1>1. TypeOK'
  <2>1. requested' \in BOOLEAN /\ due' \in BOOLEAN
    BY Zenon DEF FinishSync, Succeeded, IInv, TypeInv, TypeOK
  <2> QED  BY <2>1, IdleType DEF FinishSync, local, remote, flags, bounds, IInv, TypeInv, TypeOK
<1>2. sync'.pc = "idle" /\ sync'.id = 0
  BY DEF FinishSync, Idle
<1>3. ~InProfile' /\ sync.pc = "between" /\ SnapshotInv' /\ StepInv'
  BY <1>2 DEF FinishSync, InProfile, SnapshotInv, StepInv
<1> QED  BY <1>1, <1>2, <1>3, QuietStep DEF FinishSync, local, remote, flags, bounds, IInv, TypeInv, TypeOK

LEMMA FinishProfileKeeps == IInv /\ FinishProfile => IInv'
<1> SUFFICES ASSUME IInv, FinishProfile PROVE IInv'
  OBVIOUS
<1>1. TypeOK'
  <2>1. sync' \in Sync
    BY DEF FinishProfile, IInv, TypeInv, TypeOK, Sync
  <2> QED  BY <2>1 DEF FinishProfile, local, remote, flags, bounds, IInv, TypeInv, TypeOK
<1>2. sync'.pc = "between" /\ sync'.id = sync.id
  BY DEF FinishProfile, IInv, TypeInv, TypeOK, Sync
<1>3. ~InProfile' /\ sync.pc = "syncing" /\ SnapshotInv' /\ StepInv'
  BY <1>2 DEF FinishProfile, InProfile, SnapshotInv, StepInv
<1> QED  BY <1>1, <1>2, <1>3, QuietStep DEF FinishProfile, local, remote, bounds, IInv, TypeInv, IdsInv

LEMMA ProfileMovedKeeps == ASSUME IInv, NEW j \in sync.left, ProfileMoved(j) PROVE IInv'
<1>1. TypeOK'
  <2>1. sync' \in Sync
    BY DEF ProfileMoved, IInv, TypeInv, TypeOK, Sync
  <2> QED  BY <2>1 DEF ProfileMoved, local, remote, flags, bounds, IInv, TypeInv, TypeOK
<1>2. sync'.pc = "between" /\ sync'.id = sync.id
  BY DEF ProfileMoved, IInv, TypeInv, TypeOK, Sync
<1>3. ~InProfile' /\ sync.pc = "between" /\ SnapshotInv' /\ StepInv'
  BY <1>2 DEF ProfileMoved, InProfile, SnapshotInv, StepInv
<1> QED  BY <1>1, <1>2, <1>3, QuietStep DEF ProfileMoved, local, remote, bounds, IInv, TypeInv, IdsInv

LEMMA SnapshotProfileKeeps == ASSUME IInv, NEW j \in sync.left, SnapshotProfile(j) PROVE IInv'
<1>1. TypeOK'
  <2>1. j.profile \in Profiles /\ j \in Job
    BY DEF IInv, TypeInv, TypeOK, Sync, Job
  <2>2. want[j.profile] \in [Keys -> Wanted] /\ events[j.profile] \in [Keys -> Row]
    BY <2>1 DEF IInv, TypeInv, TypeOK
  <2>3. sync' \in Sync
    BY <2>1, <2>2 DEF SnapshotProfile, IInv, TypeInv, TypeOK, Sync
  <2>4. late' \in [Profiles -> BOOLEAN]
    BY DEF SnapshotProfile, IInv, TypeInv, TypeOK
  <2> QED  BY <2>3, <2>4 DEF SnapshotProfile, local, remote, flags, bounds, IInv, TypeInv, TypeOK
<1>2. /\ sync'.pc = "syncing" /\ sync'.id = sync.id
      /\ sync'.job = j /\ j \in Job
      /\ sync'.existing = events[j.profile]
  BY DEF SnapshotProfile, IInv, TypeInv, TypeOK, Sync
<1>3. sync.pc = "between" /\ StepInv' /\ ~Moved'
  BY <1>2 DEF SnapshotProfile, StepInv, Moved, local
<1>4. SnapshotInv'
  <2>1. j.tin <= tin[j.profile]
    BY <1>2 DEF SnapshotProfile, Job
  <2> QED  BY <1>2, <2>1 DEF SnapshotProfile, SnapshotInv, local
<1> QED  BY <1>1, <1>2, <1>3, <1>4, QuietStep DEF SnapshotProfile, local, remote, bounds, IInv, TypeInv, IdsInv

LEMMA UpdateMissingEventKeeps == IInv /\ UpdateMissingEvent => IInv'
<1> SUFFICES ASSUME IInv, UpdateMissingEvent PROVE IInv'
  OBVIOUS
<1>1. TypeOK'
  <2>1. sync' \in Sync
    BY DEF UpdateMissingEvent, EventNotFound, IInv, TypeInv, TypeOK, Sync
  <2> QED  BY <2>1 DEF UpdateMissingEvent, local, remote, flags, bounds, IInv, TypeInv, TypeOK
<1>2. /\ sync'.pc = "creating"
      /\ \A f \in {"job", "id", "desired", "existing"} : sync'[f] = sync[f]
  BY DEF UpdateMissingEvent, EventNotFound, IInv, TypeInv, TypeOK, Sync
<1>3. /\ sync'.job = sync.job /\ sync'.id = sync.id
      /\ sync'.desired = sync.desired /\ sync'.existing = sync.existing
  BY <1>2
<1>4. ToPut' = ToPut /\ Turn' = Turn /\ Known(Turn)' = Known(Turn) /\ Moved' = Moved
  BY <1>3 DEF ToPut, Turn, Pending, Known, Moved, UpdateMissingEvent, local
<1>5. StepInv'
  BY <1>2, <1>3, <1>4 DEF UpdateMissingEvent, StepInv, remote
<1>6. SnapshotInv'
  BY <1>2, <1>3, <1>4 DEF UpdateMissingEvent, SnapshotInv, IInv, InProfile, local
<1> QED  BY <1>1, <1>2, <1>3, <1>4, <1>5, <1>6, QuietStep
         DEF UpdateMissingEvent, local, remote, bounds, IInv, TypeInv, IdsInv, InProfile

----------------------------------------------------------------------------
(* The user, the clock and the calendar's owner *)

LEMMA WriteKeeps ==
    ASSUME IInv, NEW p \in Profiles, NEW w \in Deadlines(p), NEW asks \in BOOLEAN,
           Write(p, w, asks)
    PROVE  IInv'
<1>1. TypeOK'
  <2>1. want' \in [Profiles -> [Keys -> Wanted]]
    BY DEF Write, ChangeWant, Deadlines, IInv, TypeInv, TypeOK
  <2>2. requested' \in BOOLEAN
    BY Zenon DEF Write, ChangeWant, IInv, TypeInv, TypeOK
  <2>3. late' \in [Profiles -> BOOLEAN]
    BY DEF Write, ChangeWant, IInv, TypeInv, TypeOK
  <2>4. writes' \in 0 .. MaxDisturbances
    BY DEF Write, IInv, TypeInv, TypeOK
  <2> QED  BY <2>1, <2>2, <2>3, <2>4 DEF Write, remote, flags, IInv, TypeInv, TypeOK
<1>2. /\ UNCHANGED <<tin, events, google, created, torn, troubles, sync>>
      /\ writes' + troubles <= MaxDisturbances
  BY DEF Write, remote, IInv, TypeInv, TypeOK
<1>3. SnapshotInv' /\ StepInv'
  BY <1>2 DEF IInv, SnapshotInv, StepInv, InProfile, Moved, ToPut, Pending, Turn, Known, Shows
<1> QED  BY <1>1, <1>2, <1>3, QuietStep DEF IInv, IdsInv, InProfile, Moved

LEMMA SixHoursPassKeeps == IInv /\ SixHoursPass => IInv'
<1> SUFFICES ASSUME IInv, SixHoursPass PROVE IInv'
  OBVIOUS
<1>1. TypeOK'
  BY DEF SixHoursPass, remote, bounds, IInv, TypeInv, TypeOK
<1>2. UNCHANGED <<tin, events, google, created, torn, writes, troubles, sync>>
  BY DEF SixHoursPass, remote, bounds
<1>3. SnapshotInv' /\ StepInv'
  BY <1>2 DEF IInv, SnapshotInv, StepInv, InProfile, Moved, ToPut, Pending, Turn, Known, Shows
<1> QED  BY <1>1, <1>2, <1>3, QuietStep DEF IInv, TypeInv, IdsInv, InProfile, Moved

LEMMA RenameKeeps ==
    ASSUME IInv, NEW p \in Profiles, NEW w \in Deadlines(p), Rename(p, w)
    PROVE  IInv'
<1>1. /\ UNCHANGED <<events, google, created, torn, sync, writes>>
      /\ tin' = [tin EXCEPT ![p] = @ + 1]
      /\ troubles' = troubles + 1
      /\ writes + troubles' <= MaxDisturbances
  BY DEF Rename, Trouble, remote, IInv, TypeInv, TypeOK
<1>2. tin' \in [Profiles -> 0 .. MaxDisturbances] /\ \A q \in Profiles : tin'[q] <= troubles'
  BY <1>1 DEF IInv, TypeInv, TypeOK
<1>3. TypeInv'
  <2>1. want' \in [Profiles -> [Keys -> Wanted]]
    BY DEF Rename, ChangeWant, Deadlines, IInv, TypeInv, TypeOK
  <2>2. requested' \in BOOLEAN
    BY Zenon DEF Rename, ChangeWant, IInv, TypeInv, TypeOK
  <2>3. late' \in [Profiles -> BOOLEAN]
    BY DEF Rename, ChangeWant, IInv, TypeInv, TypeOK
  <2>4. troubles' \in 0 .. MaxDisturbances
    BY <1>1 DEF IInv, TypeInv, TypeOK
  <2>5. TypeOK'
    BY <1>2, <2>1, <2>2, <2>3, <2>4 DEF Rename, remote, flags, IInv, TypeInv, TypeOK
  <2> QED  BY <1>1, <1>2, <2>5 DEF TypeInv
<1>4. SnapshotInv'
  <2>1. ASSUME InProfile, sync.job \in Job
        PROVE  /\ sync.job.tin <= tin[sync.job.profile] =>
                      sync.job.tin <= tin'[sync.job.profile]
               /\ Moved /\ sync.job.tin <= tin[sync.job.profile] => Moved'
    BY <1>1, <2>1 DEF Moved, Job, IInv, TypeInv, TypeOK
  <2> QED  BY <1>1, <2>1 DEF IInv, SnapshotInv, InProfile
<1>5. StepInv' /\ IdsInv' /\ KnownInv'
  BY <1>1 DEF IInv, StepInv, IdsInv, KnownInv, ToPut, Pending, Turn, Known, Shows
<1>6. LeftInv'
  BY <1>1, LeftIsNat DEF IInv, LeftInv, TypeInv, TypeOK
<1> QED  BY <1>3, <1>4, <1>5, <1>6 DEF IInv

LEMMA DeleteInCalendarKeeps ==
    ASSUME IInv, NEW i \in Id, DeleteInCalendar(i)
    PROVE  IInv'
<1>1. /\ UNCHANGED <<tin, events, created, torn, sync, writes>>
      /\ google' = [google EXCEPT ![i] = NoEvent]
      /\ troubles' = troubles + 1
      /\ writes + troubles' <= MaxDisturbances
  BY DEF DeleteInCalendar, Trouble, IInv, TypeInv, TypeOK
<1>2. TypeInv'
  <2>1. google' \in [Id -> Event] /\ troubles' \in 0 .. MaxDisturbances
    BY <1>1, Events DEF IInv, TypeInv, TypeOK
  <2>2. removed' \subseteq Id
    BY DEF DeleteInCalendar, IInv, TypeInv, TypeOK
  <2>3. TypeOK'
    BY <1>1, <2>1, <2>2 DEF DeleteInCalendar, flags, IInv, TypeInv, TypeOK
  <2> QED  BY <1>1, <2>3 DEF IInv, TypeInv, TypeOK
<1>3. SnapshotInv'
  BY <1>1 DEF IInv, SnapshotInv, InProfile, Moved
<1>4. \A e \in Id : google'[e] = NoEvent \/ google'[e] = google[e]
  BY <1>1 DEF IInv, TypeInv, TypeOK
<1>5. StepInv'
  <2>1. ToPut' = ToPut /\ Turn' = Turn /\ \A k \in Keys : Known(k)' = Known(k)
    BY <1>1 DEF ToPut, Pending, Turn, Known
  <2>2. CASE sync.pc = "creating"
    <3>1. Turn \in Keys /\ Known(Turn) \in Id
      BY <2>2, CreatingKnows DEF IInv, TypeInv
    <3> QED  BY <1>1, <1>4, <2>1, <2>2, <3>1 DEF IInv, StepInv
  <2>3. CASE sync.pc = "saving"
    <3>1. sync.at \in Keys
      BY <2>3 DEF IInv, StepInv
    <3>2. sync.existing[sync.at] # NoRow => Known(sync.at) \in Id
      BY <3>1, KnownType DEF IInv, TypeInv
    <3> QED  BY <1>1, <1>4, <2>1, <2>3, <3>1, <3>2 DEF IInv, StepInv, Shows
  <2>4. CASE sync.pc \notin {"creating", "saving"}
    BY <1>1, <1>4, <2>1, <2>4 DEF IInv, StepInv
  <2> QED  BY <2>2, <2>3, <2>4
<1>6. IdsInv'
  <2>1. \A p \in Profiles, k \in Keys : events[p][k] # NoRow => events[p][k].id \in Id
    BY RowsHaveIds DEF IInv, TypeInv
  <2> QED  BY <1>1, <1>4, <2>1 DEF IInv, IdsInv, Shows
<1>7. KnownInv'
  BY <1>1, <1>4 DEF IInv, KnownInv
<1>8. LeftInv'
  <2>1. \A e \in torn' : google'[e] # NoEvent => e \in torn /\ google[e] # NoEvent
    BY <1>1, <1>4 DEF IInv, TypeInv, TypeOK
  <2> QED  BY <1>1, <2>1, NoMoreLeft DEF IInv, TypeInv, TypeOK, InProfile, Moved
<1> QED  BY <1>2, <1>3, <1>5, <1>6, <1>7, <1>8 DEF IInv

LEMMA CrashKeeps == IInv /\ Crash => IInv'
<1> SUFFICES ASSUME IInv, Crash PROVE IInv'
  OBVIOUS
<1>1. /\ UNCHANGED <<tin, events, google, created, writes>>
      /\ torn' = torn \cup ({sync.id} \ {0})
      /\ troubles' = troubles + 1
      /\ writes + troubles' <= MaxDisturbances
  BY DEF Crash, Trouble, local, remote, IInv, TypeInv, TypeOK
<1>2. sync.id \in Id \cup {0} /\ sync' = Idle
  BY DEF Crash, IInv, TypeInv, TypeOK, Sync
<1>3. TypeInv'
  <2>1. troubles' \in 0 .. MaxDisturbances /\ torn' \subseteq Id
    BY <1>1, <1>2 DEF IInv, TypeInv, TypeOK
  <2>2. TypeOK'
    BY <1>2, <2>1, IdleType DEF Crash, local, remote, flags, IInv, TypeInv, TypeOK
  <2> QED  BY <1>1, <2>2 DEF IInv, TypeInv, TypeOK
<1>4. ~InProfile' /\ SnapshotInv' /\ StepInv'
  BY <1>2 DEF Idle, InProfile, SnapshotInv, StepInv
<1>5. IdsInv'
  <2>1. sync.id # 0 => sync.id \in 1 .. created
    BY <1>2 DEF IInv, TypeInv, TypeOK, IdsInv, Id
  <2>2. torn' \subseteq 1 .. created /\ sync'.id = 0
    BY <1>1, <1>2, <2>1 DEF Idle, IInv, IdsInv
  <2> QED  BY <1>1, <2>2 DEF IInv, TypeInv, TypeOK, IdsInv, Shows
<1>6. LeftInv'
  <2>1. \A i \in torn' : google'[i] # NoEvent => i = sync.id \/ (i \in torn /\ google[i] # NoEvent)
    BY <1>1
  <2>2. TypeOK /\ LeftInv /\ troubles' \in Nat
    BY <1>3 DEF IInv, TypeInv, TypeOK
  <2> QED  BY <1>1, <1>4, <2>1, <2>2, OneMoreLeft
<1>7. KnownInv'
  BY <1>1, <1>2 DEF IInv, KnownInv, Id
<1> QED  BY <1>3, <1>4, <1>5, <1>6, <1>7 DEF IInv

----------------------------------------------------------------------------
(* The calls of the sync, and what it records *)

\* The profile ends, and with it what the sync had in hand.
LEMMA GivenUp ==
    ASSUME TypeOK, GiveUp
    PROVE  /\ sync' \in Sync /\ sync'.id = 0
           /\ ~InProfile' /\ SnapshotInv' /\ StepInv'
<1>1. sync' \in Sync /\ sync'.pc = "between" /\ sync'.id = 0
  BY DEF GiveUp, TypeOK, Sync
<1> QED  BY <1>1 DEF InProfile, SnapshotInv, StepInv

LEMMA CallFailsKeeps == IInv /\ CallFails => IInv'
<1> SUFFICES ASSUME IInv, CallFails PROVE IInv'
  OBVIOUS
<1>1. /\ UNCHANGED <<tin, events, google, created, torn, writes>>
      /\ troubles' = troubles + 1
      /\ writes + troubles' <= MaxDisturbances
      /\ sync.pc # "saving"
  BY DEF CallFails, Trouble, local, remote, IInv, TypeInv, TypeOK
<1>2. /\ sync' \in Sync /\ sync'.id = 0
      /\ ~InProfile' /\ SnapshotInv' /\ StepInv'
  BY GivenUp DEF CallFails, IInv, TypeInv
<1>3. TypeInv'
  <2>1. troubles' \in 0 .. MaxDisturbances
    BY <1>1 DEF IInv, TypeInv, TypeOK
  <2>2. TypeOK'
    BY <1>2, <2>1 DEF CallFails, local, remote, flags, IInv, TypeInv, TypeOK
  <2> QED  BY <1>1, <2>2 DEF IInv, TypeInv, TypeOK
<1>4. IdsInv' /\ KnownInv'
  BY <1>1, <1>2 DEF IInv, TypeInv, TypeOK, IdsInv, KnownInv, Shows
<1>5. LeftInv'
  BY <1>1, <1>2, NoMoreLeft DEF IInv, TypeInv, TypeOK
<1> QED  BY <1>2, <1>3, <1>4, <1>5 DEF IInv

LEMMA MappingRefusedKeeps == IInv /\ MappingRefused => IInv'
<1> SUFFICES ASSUME IInv, MappingRefused PROVE IInv'
  OBVIOUS
<1>1. /\ UNCHANGED <<tin, events, google, created, writes, troubles>>
      /\ torn' = torn \cup {sync.id}
      /\ sync.pc = "saving" /\ InProfile /\ Moved
      /\ sync.id \in Id
  BY DEF MappingRefused, InProfile, local, remote, IInv, StepInv
<1>2. /\ sync' \in Sync /\ sync'.id = 0
      /\ ~InProfile' /\ SnapshotInv' /\ StepInv'
  BY GivenUp DEF MappingRefused, IInv, TypeInv
<1>3. TypeInv'
  <2>1. torn' \subseteq Id
    BY <1>1 DEF IInv, TypeInv, TypeOK
  <2>2. TypeOK'
    BY <1>2, <2>1 DEF MappingRefused, local, remote, flags, IInv, TypeInv, TypeOK
  <2> QED  BY <1>1, <2>2 DEF IInv, TypeInv
<1>4. IdsInv'
  <2>1. sync.id \in 1 .. created
    BY <1>1 DEF IInv, TypeInv, TypeOK, IdsInv, Id
  <2>2. torn' \subseteq 1 .. created
    BY <1>1, <2>1 DEF IInv, IdsInv
  <2>3. sync'.id <= created
    BY <1>2 DEF IInv, TypeInv, TypeOK
  <2> QED  BY <1>1, <2>2, <2>3 DEF IInv, IdsInv, Shows
<1>5. KnownInv'
  BY <1>1 DEF IInv, KnownInv
<1>6. LeftInv'
  <2>1. \A i \in torn' : google'[i] # NoEvent => i = sync.id \/ (i \in torn /\ google[i] # NoEvent)
    BY <1>1
  <2>2. TypeOK /\ LeftInv /\ troubles' \in Nat
    BY <1>3 DEF IInv, TypeInv, TypeOK
  <2> QED  BY <1>1, <1>2, <2>1, <2>2, OneMoreLeft
<1> QED  BY <1>2, <1>3, <1>4, <1>5, <1>6 DEF IInv

\* In a profile the job is one, and an event the snapshot names is created and
\* of its key.
LEMMA SnapshotNames ==
    ASSUME IInv, InProfile
    PROVE  /\ sync.job \in Job /\ sync.job.profile \in Profiles
           /\ \A k \in Keys : sync.existing[k] # NoRow =>
                 /\ sync.existing[k] = events[sync.job.profile][k]
                 /\ Known(k) \in Id /\ Known(k) <= created
                 /\ Shows(Known(k), sync.job.profile, k)
<1>1. sync.job \in Job /\ sync.job.profile \in Profiles
  BY DEF IInv, SnapshotInv, Job
<1>2. ASSUME NEW k \in Keys, sync.existing[k] # NoRow
      PROVE  /\ sync.existing[k] = events[sync.job.profile][k]
             /\ Known(k) \in Id /\ Known(k) <= created
             /\ Shows(Known(k), sync.job.profile, k)
  <2>1. sync.existing[k] = events[sync.job.profile][k]
    BY <1>2 DEF IInv, SnapshotInv
  <2>2. Known(k) \in Id
    BY <1>2, KnownType DEF IInv, TypeInv
  <2> QED  BY <1>1, <1>2, <2>1, <2>2 DEF IInv, IdsInv, Known
<1> QED  BY <1>1, <1>2

\* The answer of a call about event i is in hand.
LEMMA InHand ==
    ASSUME TypeOK, NEW k \in Keys, NEW i \in Id, NEW pc \in {"saving", "forgetting"},
           sync' = [sync EXCEPT !.pc = pc, !.at = k, !.id = i]
    PROVE  /\ sync' \in Sync
           /\ sync'.pc = pc /\ sync'.at = k /\ sync'.id = i
           /\ sync'.job = sync.job
           /\ sync'.desired = sync.desired /\ sync'.existing = sync.existing
  BY DEF TypeOK, Sync

\* The record of the key in hand leaves nothing in hand.
LEMMA RecordedSync ==
    ASSUME TypeOK, sync.at \in Keys, NEW row \in Row,
           sync' = [sync EXCEPT !.pc = "syncing", !.existing[sync.at] = row, !.at = 0, !.id = 0]
    PROVE  /\ sync' \in Sync
           /\ sync'.pc = "syncing" /\ sync'.id = 0
           /\ sync'.job = sync.job
           /\ sync'.existing = [sync.existing EXCEPT ![sync.at] = row]
  BY DEF TypeOK, Sync

\* A call whose answer is lost leaves event i behind.
LEMMA LostAnswer ==
    ASSUME IInv, NEW i \in Id, i <= created', created <= created', created' \in 0 .. MaxEvents,
           Trouble, torn' = torn \cup {i}, GiveUp,
           UNCHANGED <<local, events, flags, removed, late>>,
           google' \in [Id -> Event], sync.pc # "saving",
           \A e \in Id : e > created' => google'[e] = NoEvent,
           \A e \in Id \ {i} : google'[e] = google[e],
           \A p \in Profiles, k \in Keys :
               events[p][k] # NoRow => Shows(events[p][k].id, p, k)'
    PROVE  IInv'
<1>1. /\ UNCHANGED <<tin, events, writes>>
      /\ troubles' = troubles + 1
      /\ writes + troubles' <= MaxDisturbances
  BY DEF Trouble, local, IInv, TypeInv, TypeOK
<1>2. /\ sync' \in Sync /\ sync'.id = 0
      /\ ~InProfile' /\ SnapshotInv' /\ StepInv'
  BY GivenUp DEF IInv, TypeInv
<1>3. TypeInv'
  <2>1. troubles' \in 0 .. MaxDisturbances /\ torn' \subseteq Id
    BY <1>1 DEF IInv, TypeInv, TypeOK
  <2>2. TypeOK'
    BY <1>2, <2>1 DEF local, flags, IInv, TypeInv, TypeOK
  <2> QED  BY <1>1, <2>2 DEF IInv, TypeInv, TypeOK
<1>4. IdsInv'
  <2>1. torn' \subseteq 1 .. created' /\ sync'.id <= created'
    BY <1>2 DEF IInv, TypeInv, TypeOK, IdsInv, Id
  <2>2. \A p \in Profiles, k \in Keys : events[p][k] # NoRow => events[p][k].id <= created'
    BY RowsHaveIds DEF IInv, TypeInv, TypeOK, IdsInv, Id
  <2> QED  BY <1>1, <2>1, <2>2 DEF IdsInv
<1>5. KnownInv'
  BY <1>1 DEF IInv, KnownInv
<1>6. LeftInv'
  <2>1. \A e \in torn' : google'[e] # NoEvent => e = i \/ (e \in torn /\ google[e] # NoEvent)
    BY DEF IInv, TypeInv, TypeOK
  <2>2. TypeOK /\ LeftInv /\ troubles' \in Nat
    BY <1>3 DEF IInv, TypeInv, TypeOK
  <2> QED  BY <1>1, <1>2, <2>1, <2>2, OneMoreLeft
<1> QED  BY <1>2, <1>3, <1>4, <1>5, <1>6 DEF IInv

LEMMA UpdateEventKeeps == IInv /\ UpdateEvent => IInv'
<1> SUFFICES ASSUME IInv, UpdateEvent PROVE IInv'
  OBVIOUS
<1> DEFINE k == Turn
           i == Known(k)
<1>1. k \in Keys /\ sync.desired[k] \in Contents /\ sync.desired[k] # NoContent
  BY TurnIsPending, ContentsAssumption DEF UpdateEvent, IInv, TypeInv, ToPut, Pending
<1>2. InProfile /\ sync.pc # "saving" /\ sync.existing[k] # NoRow /\ google[i] # NoEvent
  BY DEF UpdateEvent, InProfile
<1>3. /\ sync.job.profile \in Profiles
      /\ i \in Id /\ i <= created
      /\ google[i].profile = sync.job.profile /\ google[i].key = k
  BY <1>1, <1>2, SnapshotNames DEF Shows
<1> HIDE DEF k, i
<1>4. google' = [google EXCEPT ![i] = [google[i] EXCEPT !.content = sync.desired[k]]]
  BY DEF UpdateEvent, k, i
<1>5. /\ google' \in [Id -> Event]
      /\ google'[i] # NoEvent
      /\ google'[i].profile = google[i].profile /\ google'[i].key = google[i].key
      /\ \A e \in Id \ {i} : google'[e] = google[e]
  <2> DEFINE e1 == [google[i] EXCEPT !.content = sync.desired[k]]
  <2>1. e1 \in Event \ {NoEvent} /\ e1.profile = google[i].profile /\ e1.key = google[i].key
    BY <1>1, <1>2, <1>3, Events DEF IInv, TypeInv, TypeOK, i
  <2>2. google' = [google EXCEPT ![i] = e1]
    BY <1>4
  <2> HIDE DEF e1
  <2> QED  BY <1>3, <2>1, <2>2 DEF IInv, TypeInv, TypeOK
<1>6. UNCHANGED <<tin, events, created, writes>>
  BY DEF UpdateEvent, local
<1>7. ASSUME NEW p \in Profiles, NEW q \in Keys, events[p][q] # NoRow
      PROVE  Shows(events[p][q].id, p, q)'
  <2>1. events[p][q].id \in Id /\ Shows(events[p][q].id, p, q)
    BY <1>7, RowsHaveIds DEF IInv, TypeInv, IdsInv
  <2> QED  BY <1>2, <1>5, <1>6, <2>1 DEF Shows
<1>8. CASE Trouble /\ torn' = torn \cup {i} /\ GiveUp
  <2>1. \A e \in Id : e > created' => google'[e] = NoEvent
    BY <1>2, <1>3, <1>5, <1>6 DEF IInv, TypeInv, TypeOK, IdsInv, Id
  <2>2. UNCHANGED <<local, events, flags, removed, late>>
    BY DEF UpdateEvent
  <2>3. created \in 0 .. MaxEvents /\ created <= created
    BY DEF IInv, TypeInv, TypeOK
  <2> QED  BY <1>2, <1>3, <1>5, <1>6, <1>7, <1>8, <2>1, <2>2, <2>3, LostAnswer
<1>9. CASE sync' = [sync EXCEPT !.pc = "saving", !.at = k, !.id = i] /\ UNCHANGED <<torn, troubles>>
  <2>1. /\ sync' \in Sync
        /\ sync'.pc = "saving" /\ sync'.at = k /\ sync'.id = i
        /\ sync'.job = sync.job
        /\ sync'.desired = sync.desired /\ sync'.existing = sync.existing
    BY <1>1, <1>3, <1>9, InHand DEF IInv, TypeInv
  <2>2. TypeInv'
    BY <1>5, <1>6, <1>9, <2>1 DEF UpdateEvent, local, flags, IInv, TypeInv, TypeOK
  <2>3. SnapshotInv' /\ InProfile' /\ Moved' = Moved
    BY <1>2, <1>6, <2>1 DEF IInv, SnapshotInv, InProfile, Moved
  <2>4. StepInv'
    <3>1. Known(sync.at)' = i
      BY <2>1 DEF Known, i
    <3> QED  BY <1>1, <1>3, <1>5, <2>1, <3>1 DEF StepInv, Shows
  <2>5. IdsInv'
    BY <1>2, <1>3, <1>5, <1>6, <1>7, <1>9, <2>1 DEF IInv, IdsInv, TypeInv, TypeOK
  <2>6. LeftInv'
    <3>1. \A e \in torn' : google'[e] # NoEvent => e \in torn /\ google[e] # NoEvent
      BY <1>2, <1>5, <1>9 DEF IInv, TypeInv, TypeOK
    <3> QED  BY <1>2, <1>9, <2>3, <3>1, NoMoreLeft DEF IInv, TypeInv, TypeOK
  <2>7. KnownInv'
    BY <1>2, <1>5, <1>6, <1>9, <2>1 DEF IInv, KnownInv
  <2> QED  BY <2>2, <2>3, <2>4, <2>5, <2>6, <2>7 DEF IInv
<1> QED  BY <1>8, <1>9 DEF UpdateEvent, Answered, k, i

LEMMA CreateEventKeeps == IInv /\ CreateEvent => IInv'
<1> SUFFICES ASSUME IInv, CreateEvent PROVE IInv'
  OBVIOUS
<1> DEFINE k == Turn
           i == created'
           new == [profile |-> sync.job.profile, key |-> k, content |-> sync.desired[k]]
<1>1. k \in Keys /\ sync.desired[k] \in Contents /\ sync.desired[k] # NoContent
  BY TurnIsPending, ContentsAssumption DEF CreateEvent, IInv, TypeInv, ToPut, Pending
<1>2. InProfile /\ sync.pc # "saving"
  BY DEF CreateEvent, InProfile
<1>3. /\ sync.job.profile \in Profiles
      /\ sync.existing[k] # NoRow =>
            /\ Known(k) \in Id /\ Known(k) <= created
            /\ google[Known(k)] = NoEvent
  BY <1>1, <1>2, SnapshotNames DEF CreateEvent, IInv, StepInv
<1>4. new \in Event \ {NoEvent}
  BY <1>1, <1>3, Events
<1>5. i = created + 1 /\ i \in Id /\ created \in Nat /\ i <= MaxEvents
  BY DEF CreateEvent, IInv, TypeInv, TypeOK, Id
<1>6. google' = [google EXCEPT ![i] = new] /\ new.profile = sync.job.profile /\ new.key = k
  BY DEF CreateEvent
<1>7. UNCHANGED <<tin, events, writes>>
  BY DEF CreateEvent, local
<1> HIDE DEF k, i, new
<1>8. /\ google' \in [Id -> Event]
      /\ google'[i] = new
      /\ \A e \in Id \ {i} : google'[e] = google[e]
  BY <1>4, <1>5, <1>6 DEF IInv, TypeInv, TypeOK
<1>9. ASSUME NEW p \in Profiles, NEW q \in Keys, events[p][q] # NoRow
      PROVE  Shows(events[p][q].id, p, q)' /\ events[p][q].id <= created'
  <2>1. /\ events[p][q].id \in Id /\ Shows(events[p][q].id, p, q)
        /\ events[p][q].id <= created
    BY <1>9, RowsHaveIds DEF IInv, TypeInv, IdsInv
  <2>2. events[p][q].id # i /\ events[p][q].id <= created'
    BY <1>5, <2>1 DEF Id, i
  <2> QED  BY <1>7, <1>8, <2>1, <2>2 DEF Shows
<1>10. \A e \in Id : e > created' => google'[e] = NoEvent
  BY <1>5, <1>8 DEF IInv, IdsInv, Id, i
<1>11. \A e \in torn : e # i
  BY <1>5 DEF IInv, IdsInv
<1>12. CASE Trouble /\ torn' = torn \cup {i} /\ GiveUp
  <2>1. UNCHANGED <<local, events, flags, removed, late>>
    BY DEF CreateEvent
  <2>2. created' \in 0 .. MaxEvents /\ created <= created' /\ i <= created'
    BY <1>5 DEF i
  <2> QED  BY <1>2, <1>5, <1>8, <1>9, <1>10, <1>12, <2>1, <2>2, LostAnswer
<1>13. CASE sync' = [sync EXCEPT !.pc = "saving", !.at = k, !.id = i] /\ UNCHANGED <<torn, troubles>>
  <2>1. /\ sync' \in Sync
        /\ sync'.pc = "saving" /\ sync'.at = k /\ sync'.id = i
        /\ sync'.job = sync.job
        /\ sync'.desired = sync.desired /\ sync'.existing = sync.existing
    BY <1>1, <1>5, <1>13, InHand DEF IInv, TypeInv
  <2>2. TypeInv'
    <3>1. created' \in 0 .. MaxEvents
      BY <1>5 DEF i
    <3> QED  BY <1>7, <1>8, <1>13, <2>1, <3>1 DEF CreateEvent, local, flags, IInv, TypeInv, TypeOK
  <2>3. SnapshotInv' /\ InProfile' /\ Moved' = Moved
    BY <1>2, <1>7, <2>1 DEF IInv, SnapshotInv, InProfile, Moved
  <2>4. StepInv'
    <3>1. Known(sync.at)' = Known(k)
      BY <2>1 DEF Known
    <3>2. sync.existing[k] # NoRow => google'[Known(k)] = NoEvent
      BY <1>3, <1>5, <1>8 DEF Id
    <3> QED  BY <1>1, <1>5, <1>6, <1>8, <2>1, <3>1, <3>2 DEF StepInv, Shows
  <2>5. IdsInv'
    <3>1. torn' \subseteq 1 .. created' /\ sync'.id <= created'
      BY <1>5, <1>13, <2>1 DEF IInv, IdsInv, i
    <3> QED  BY <1>7, <1>9, <1>10, <3>1 DEF IdsInv
  <2>6. LeftInv'
    <3>1. \A e \in torn' : google'[e] # NoEvent => e \in torn /\ google[e] # NoEvent
      BY <1>8, <1>11, <1>13 DEF IInv, TypeInv, TypeOK
    <3> QED  BY <1>2, <1>13, <2>3, <3>1, NoMoreLeft DEF IInv, TypeInv, TypeOK
  <2>7. KnownInv'
    BY <1>2, <1>7, <1>8, <1>13, <2>1 DEF IInv, KnownInv
  <2> QED  BY <2>2, <2>3, <2>4, <2>5, <2>6, <2>7 DEF IInv
<1> QED  BY <1>12, <1>13 DEF CreateEvent, Answered, k, i

LEMMA DeleteEventKeeps == IInv /\ DeleteEvent => IInv'
<1> SUFFICES ASSUME IInv, DeleteEvent PROVE IInv'
  OBVIOUS
<1> DEFINE k == Turn
           i == Known(k)
<1>1. k \in Keys /\ sync.existing[k] # NoRow
  BY TurnIsPending DEF DeleteEvent, IInv, TypeInv, Pending
<1>2. InProfile /\ sync.pc # "saving"
  BY DEF DeleteEvent, InProfile
<1>3. i \in Id /\ i <= created
  BY <1>1, <1>2, SnapshotNames
<1>4. google' = [google EXCEPT ![i] = NoEvent]
  BY DEF DeleteEvent
<1>5. UNCHANGED <<tin, events, created, writes>>
  BY DEF DeleteEvent, local
<1> HIDE DEF k, i
<1>6. /\ google' \in [Id -> Event]
      /\ google'[i] = NoEvent
      /\ \A e \in Id \ {i} : google'[e] = google[e]
  BY <1>3, <1>4, Events DEF IInv, TypeInv, TypeOK
<1>7. ASSUME NEW p \in Profiles, NEW q \in Keys, events[p][q] # NoRow
      PROVE  Shows(events[p][q].id, p, q)'
  <2>1. events[p][q].id \in Id /\ Shows(events[p][q].id, p, q)
    BY <1>7, RowsHaveIds DEF IInv, TypeInv, IdsInv
  <2> QED  BY <1>5, <1>6, <2>1 DEF Shows
<1>8. \A e \in Id : e > created' => google'[e] = NoEvent
  BY <1>5, <1>6 DEF IInv, IdsInv
<1>9. CASE Trouble /\ torn' = torn \cup {i} /\ GiveUp
  <2>1. UNCHANGED <<local, events, flags, removed, late>>
    BY DEF DeleteEvent
  <2>2. created \in 0 .. MaxEvents /\ created <= created
    BY DEF IInv, TypeInv, TypeOK
  <2> QED  BY <1>2, <1>3, <1>5, <1>6, <1>7, <1>8, <1>9, <2>1, <2>2, LostAnswer
<1>10. CASE sync' = [sync EXCEPT !.pc = "forgetting", !.at = k, !.id = i]
            /\ UNCHANGED <<torn, troubles>>
  <2>1. /\ sync' \in Sync
        /\ sync'.pc = "forgetting" /\ sync'.at = k /\ sync'.id = i
        /\ sync'.job = sync.job
        /\ sync'.desired = sync.desired /\ sync'.existing = sync.existing
    BY <1>1, <1>3, <1>10, InHand DEF IInv, TypeInv
  <2>2. TypeInv'
    BY <1>5, <1>6, <1>10, <2>1 DEF DeleteEvent, local, flags, IInv, TypeInv, TypeOK
  <2>3. SnapshotInv' /\ InProfile' /\ Moved' = Moved
    BY <1>2, <1>5, <2>1 DEF IInv, SnapshotInv, InProfile, Moved
  <2>4. StepInv'
    <3>1. Known(sync.at)' = i
      BY <2>1 DEF Known, i
    <3> QED  BY <1>1, <1>3, <1>6, <2>1, <3>1 DEF StepInv
  <2>5. IdsInv'
    BY <1>3, <1>5, <1>7, <1>8, <1>10, <2>1 DEF IInv, IdsInv
  <2>6. LeftInv'
    <3>1. \A e \in torn' : google'[e] # NoEvent => e \in torn /\ google[e] # NoEvent
      BY <1>6, <1>10 DEF IInv, TypeInv, TypeOK
    <3> QED  BY <1>2, <1>10, <2>3, <3>1, NoMoreLeft DEF IInv, TypeInv, TypeOK
  <2>7. KnownInv'
    BY <1>2, <1>5, <1>6, <1>10 DEF IInv, KnownInv
  <2> QED  BY <2>2, <2>3, <2>4, <2>5, <2>6, <2>7 DEF IInv
<1> QED  BY <1>9, <1>10 DEF DeleteEvent, Answered, k, i

\* The row of the key in hand is written, in the database and the snapshot.
LEMMA Recorded ==
    ASSUME IInv, sync.pc \in {"saving", "forgetting"}, ~Moved, NEW row \in Row, Record(row),
           UNCHANGED <<local, flags, remote, late, troubles>>,
           row # NoRow => row.id = sync.id /\ Shows(sync.id, sync.job.profile, sync.at),
           events[sync.job.profile][sync.at] = NoRow
              \/ events[sync.job.profile][sync.at].id = sync.id
              \/ google[events[sync.job.profile][sync.at].id] = NoEvent,
           row = NoRow => google[sync.id] = NoEvent
    PROVE  IInv'
<1> DEFINE p == sync.job.profile
           k == sync.at
<1>1. InProfile /\ k \in Keys /\ p \in Profiles /\ sync.id \in Id
  BY SnapshotNames DEF InProfile, IInv, StepInv
<1>2. UNCHANGED <<tin, google, created, writes, troubles>>
  BY DEF local, remote
<1>3. /\ sync' \in Sync
      /\ sync'.pc = "syncing" /\ sync'.id = 0
      /\ sync'.job = sync.job
      /\ sync'.existing = [sync.existing EXCEPT ![k] = row]
  BY <1>1, RecordedSync DEF IInv, TypeInv, Record
<1> HIDE DEF p, k
<1>4. /\ events' \in [Profiles -> [Keys -> Row]]
      /\ events'[p] = [events[p] EXCEPT ![k] = row]
      /\ \A q \in Profiles \ {p} : events'[q] = events[q]
  BY <1>1 DEF Record, IInv, TypeInv, TypeOK, p, k
<1>5. torn' = torn \ {sync.id}
  BY DEF Record
<1>6. TypeInv'
  <2>1. torn' \subseteq Id
    BY <1>5 DEF IInv, TypeInv, TypeOK
  <2> QED  BY <1>2, <1>3, <1>4, <2>1 DEF local, flags, remote, IInv, TypeInv, TypeOK
<1>7. SnapshotInv' /\ InProfile' /\ Moved' = Moved
  <2>1. Moved' = Moved /\ InProfile'
    BY <1>2, <1>3 DEF Moved, InProfile
  <2>2. \A q \in Keys : sync'.existing[q] = events'[p][q]
    BY <1>1, <1>3, <1>4 DEF IInv, SnapshotInv, p, TypeInv, TypeOK, Sync
  <2> QED  BY <1>1, <1>2, <1>3, <2>1, <2>2 DEF SnapshotInv, IInv, p
<1>8. StepInv'
  BY <1>3 DEF StepInv
<1>9. IdsInv'
  <2>1. torn' \subseteq 1 .. created' /\ sync'.id <= created'
    <3>1. torn' \subseteq 1 .. created'
      BY <1>2, <1>5 DEF IInv, IdsInv
    <3>2. sync'.id <= created'
      BY <1>2, <1>3 DEF IInv, TypeInv, TypeOK
    <3> QED  BY <3>1, <3>2
  <2>2. ASSUME NEW q \in Profiles, NEW m \in Keys, events'[q][m] # NoRow
        PROVE  events'[q][m].id <= created' /\ Shows(events[q][m].id, q, m)'
    <3>1. CASE q = p /\ m = k
      <4>1. events'[p][k] = row
        BY <1>1, <1>4 DEF IInv, TypeInv, TypeOK
      <4>2. row.id = sync.id /\ Shows(sync.id, p, k)
        BY <2>2, <3>1, <4>1 DEF p, k
      <4>3. sync.id <= created'
        BY <1>2 DEF IInv, IdsInv
      <4> QED  BY <1>2, <3>1, <4>1, <4>2, <4>3 DEF Shows
    <3>2. CASE ~(q = p /\ m = k)
      <4>1. events'[q][m] = events[q][m]
        BY <1>1, <1>4, <3>2 DEF IInv, TypeInv, TypeOK
      <4> QED  BY <1>2, <2>2, <4>1 DEF IInv, IdsInv, Shows
    <3> QED  BY <3>1, <3>2
  <2> QED  BY <1>2, <2>1, <2>2 DEF IInv, IdsInv
<1>10. LeftInv'
  BY <1>2, <1>5, <1>7, NoMoreLeft DEF InProfile, IInv, TypeInv, TypeOK
<1>11. KnownInv'
  <2> SUFFICES ASSUME NEW i \in Id, i \notin torn', google[i] # NoEvent
               PROVE  events'[google[i].profile][google[i].key].id = i
    BY <1>2 DEF KnownInv
  <2>1. google[i].profile \in Profiles /\ google[i].key \in Keys
    BY Events DEF IInv, TypeInv, TypeOK
  <2>2. CASE i = sync.id
    <3>1. row # NoRow /\ google[i].profile = p /\ google[i].key = k
      BY <2>2 DEF Shows, p, k
    <3> QED  BY <1>1, <1>4, <2>2, <3>1 DEF IInv, TypeInv, TypeOK
  <2>3. CASE i # sync.id
    <3>1. events[google[i].profile][google[i].key].id = i
      BY <1>5, <2>3 DEF IInv, KnownInv
    <3>2. ~(google[i].profile = p /\ google[i].key = k)
      <4>1. i # 0
        BY DEF Id
      <4> QED  BY <2>3, <3>1, <4>1, Rows DEF p, k
    <3> QED  BY <1>1, <1>4, <2>1, <3>1, <3>2 DEF IInv, TypeInv, TypeOK
  <2> QED  BY <2>2, <2>3
<1> QED  BY <1>6, <1>7, <1>8, <1>9, <1>10, <1>11 DEF IInv

LEMMA SaveMappingKeeps == IInv /\ SaveMapping => IInv'
<1> SUFFICES ASSUME IInv, SaveMapping PROVE IInv'
  OBVIOUS
<1> DEFINE row == [id |-> sync.id, content |-> sync.desired[sync.at]]
<1>1. sync.at \in Keys /\ sync.id \in Id /\ sync.desired[sync.at] \in Contents
  BY DEF SaveMapping, IInv, StepInv, TypeInv, TypeOK, Sync, Wanted
<1>2. row \in Row /\ row # NoRow /\ row.id = sync.id
  BY <1>1, Rows
<1>3. sync.existing[sync.at] = events[sync.job.profile][sync.at]
  BY <1>1 DEF SaveMapping, InProfile, IInv, SnapshotInv
<1>4. /\ Shows(sync.id, sync.job.profile, sync.at)
      /\ \/ sync.existing[sync.at] = NoRow
         \/ sync.existing[sync.at].id = sync.id
         \/ google[sync.existing[sync.at].id] = NoEvent
  BY DEF SaveMapping, IInv, StepInv, Known
<1>5. /\ sync.pc = "saving" /\ ~Moved
      /\ Record(row)
      /\ UNCHANGED <<local, flags, remote, late, troubles>>
  BY DEF SaveMapping
<1> HIDE DEF row
<1> QED  BY <1>2, <1>3, <1>4, <1>5, Recorded

LEMMA ForgetMappingKeeps == IInv /\ ForgetMapping => IInv'
<1> SUFFICES ASSUME IInv, ForgetMapping PROVE IInv'
  OBVIOUS
<1>1. sync.existing[sync.at] = events[sync.job.profile][sync.at]
  BY DEF ForgetMapping, InProfile, IInv, SnapshotInv, StepInv
<1>2. google[sync.id] = NoEvent /\ sync.existing[sync.at].id = sync.id
  BY DEF ForgetMapping, IInv, StepInv, Known
<1>3. /\ sync.pc = "forgetting" /\ ~Moved
      /\ Record(NoRow)
      /\ UNCHANGED <<local, flags, remote, late, troubles>>
  BY DEF ForgetMapping
<1> QED  BY <1>1, <1>2, <1>3, Rows, Recorded

LEMMA ForgetNothingKeeps == IInv /\ ForgetNothing => IInv'
<1> SUFFICES ASSUME IInv, ForgetNothing PROVE IInv'
  OBVIOUS
<1> DEFINE k == sync.at
<1>1. /\ InProfile /\ Moved /\ sync.pc # "saving"
      /\ k \in Keys /\ sync.id \in Id /\ google[sync.id] = NoEvent
  BY DEF ForgetNothing, InProfile, IInv, StepInv
<1>2. UNCHANGED <<tin, events, google, created, writes, troubles>>
  BY DEF ForgetNothing, local, remote
<1>3. /\ sync' \in Sync
      /\ sync'.pc = "syncing" /\ sync'.id = 0
      /\ sync'.job = sync.job
      /\ sync'.existing = [sync.existing EXCEPT ![k] = NoRow]
  BY <1>1, Rows, RecordedSync DEF ForgetNothing, IInv, TypeInv
<1> HIDE DEF k
<1>4. torn' = torn \cup {sync.id}
  BY DEF ForgetNothing
<1>5. TypeInv'
  <2>1. torn' \subseteq Id
    BY <1>1, <1>4 DEF IInv, TypeInv, TypeOK
  <2> QED  BY <1>2, <1>3, <2>1 DEF ForgetNothing, local, flags, remote, IInv, TypeInv, TypeOK
<1>6. SnapshotInv' /\ InProfile' /\ Moved' = Moved
  <2>1. Moved' = Moved /\ InProfile'
    BY <1>2, <1>3 DEF Moved, InProfile
  <2> QED  BY <1>1, <1>2, <1>3, <2>1 DEF SnapshotInv, IInv, TypeInv, TypeOK, Sync
<1>7. StepInv'
  BY <1>3 DEF StepInv
<1>8. IdsInv'
  <2>1. sync.id \in 1 .. created
    BY <1>1 DEF IInv, TypeInv, TypeOK, IdsInv, Id
  <2>2. torn' \subseteq 1 .. created
    BY <1>4, <2>1 DEF IInv, IdsInv
  <2>3. sync'.id <= created
    BY <1>3 DEF IInv, TypeInv, TypeOK
  <2> QED  BY <1>2, <2>2, <2>3 DEF IInv, IdsInv, Shows
<1>9. LeftInv'
  BY <1>1, <1>2, <1>4, <1>6, NoMoreLeft DEF IInv, TypeInv, TypeOK
<1>10. KnownInv'
  BY <1>1, <1>2, <1>4 DEF IInv, KnownInv
<1> QED  BY <1>5, <1>6, <1>7, <1>8, <1>9, <1>10 DEF IInv

----------------------------------------------------------------------------
(* The theorems *)

\* Whatever the user, the calendar's owner and the connection do during a sync,
\* the snapshot, the rows and the calendar stay related as IInv says.
THEOREM Invariance == Spec => []IInv
<1>1. IInv /\ [Next]_vars => IInv'
  <2> SUFFICES ASSUME IInv, [Next]_vars PROVE IInv'
    OBVIOUS
  <2>1. CASE SyncStep
    BY <2>1, StartSyncKeeps, FinishSyncKeeps, FinishProfileKeeps, SnapshotProfileKeeps,
       ProfileMovedKeeps, UpdateEventKeeps, UpdateMissingEventKeeps, CreateEventKeeps,
       DeleteEventKeeps, CallFailsKeeps, SaveMappingKeeps, MappingRefusedKeeps,
       ForgetMappingKeeps, ForgetNothingKeeps DEF SyncStep
  <2>2. CASE \E p \in Profiles : \E w \in Deadlines(p) :
                Rename(p, w) \/ \E asks \in BOOLEAN : Write(p, w, asks)
    BY <2>2, RenameKeeps, WriteKeeps
  <2>3. CASE SixHoursPass \/ Crash \/ \E i \in Id : DeleteInCalendar(i)
    BY <2>3, SixHoursPassKeeps, CrashKeeps, DeleteInCalendarKeeps
  <2>4. CASE UNCHANGED vars
    <3>1. TypeInv'
      BY <2>4 DEF vars, flags, remote, bounds, IInv, TypeInv, TypeOK
    <3>2. SnapshotInv' /\ StepInv'
      BY <2>4 DEF vars, remote, IInv, SnapshotInv, StepInv, InProfile, Moved, ToPut, Pending,
                  Turn, Known, Shows
    <3>3. IdsInv' /\ LeftInv' /\ KnownInv'
      BY <2>4 DEF vars, remote, bounds, IInv, IdsInv, LeftInv, KnownInv, InProfile, Moved, Shows
    <3> QED  BY <3>1, <3>2, <3>3 DEF IInv
  <2> QED  BY <2>1, <2>2, <2>3, <2>4 DEF Next
<1> QED  BY <1>1, Start, PTL DEF Spec

\* Every variable of the sync keeps its type, the ids of events and the TINs of
\* profiles included.
THEOREM TypeCorrect == Spec => []TypeOK
<1>1. IInv => TypeOK
  BY DEF IInv, TypeInv
<1> QED  BY <1>1, Invariance, PTL

\* Every event in a calendar is recorded under its deadline or about to be, and
\* no more are left behind than answers were lost, processes died and TINs were
\* replaced (sync_snapshot, save_event_mapping).
THEOREM EventsAreKnown == Spec => []EveryEventIsKnown
<1>1. IInv => EveryEventIsKnown
  <2> SUFFICES ASSUME IInv PROVE EveryEventIsKnown
    OBVIOUS
  <2>1. Cardinality({i \in torn : google[i] # NoEvent}) <= troubles
    BY LeftIsNat DEF IInv, LeftInv, TypeInv, TypeOK
  <2> QED  BY <2>1 DEF IInv, KnownInv, EveryEventIsKnown
<1> QED  BY <1>1, Invariance, PTL

----------------------------------------------------------------------------
(* What a sync that succeeds leaves behind: every calendar shows the       *)
(* deadlines of its profile, whatever was written, renamed or lost while   *)
(* the sync ran.  The invariant this rests on:                             *)

About(i) == sync.pc \in {"saving", "forgetting"} /\ sync.id = i

\* What a row says is what the calendar shows, but for events a person deleted,
\* a call changed without a record, or the call in hand is about.
RowsShow ==
    /\ \A p \in Profiles, k \in Keys :
          LET row == events[p][k] IN
          row # NoRow =>
              \/ row.id \in removed \cup torn
              \/ About(row.id)
              \/ google[row.id] = [profile |-> p, key |-> k, content |-> row.content]
    /\ sync.pc = "saving" =>
          \/ sync.id \in removed
          \/ google[sync.id] = [profile |-> sync.job.profile, key |-> sync.at,
                                content |-> sync.desired[sync.at]]

\* No two rows name one event, the row about to be written included.
OneRowEach ==
    /\ \A p, q \in Profiles : \A k, m \in Keys :
          events[p][k] # NoRow /\ events[q][m] # NoRow /\ events[p][k].id = events[q][m].id
              => p = q /\ k = m
    /\ sync.pc \in {"saving", "forgetting"} =>
          \A q \in Profiles : \A m \in Keys :
              events[q][m] # NoRow /\ events[q][m].id = sync.id
                  => q = sync.job.profile /\ m = sync.at

InHandOf(p) == InProfile /\ sync.job.profile = p
Waits(p) == \E j \in sync.left : j.profile = p
RowsSayWant(p) == \A k \in Keys : events[p][k].content = want[p][k]

\* A profile that is not written behind the back of the running sync has the
\* wanted deadlines in the snapshot, and in its rows when it is done.
ProfilesInv ==
    \A p \in Profiles : ~late[p] =>
        /\ InHandOf(p) => sync.desired = want[p] /\ ~Moved
        /\ sync.pc # "idle" /\ sync.ok /\ ~Waits(p) /\ ~InHandOf(p) => RowsSayWant(p)
        /\ sync.pc = "idle" /\ ~requested /\ ~due => RowsSayWant(p)

\* A sync runs for a reason, which a crash does not take away.
ReasonInv == sync.pc # "idle" => requested \/ due

SettledInv == RowsShow /\ OneRowEach /\ ProfilesInv /\ ReasonInv

----------------------------------------------------------------------------
(* Steps that leave the rows and the calendar alone *)

HIDE KeysAssumption

LEMMA SettledStart == Init => SettledInv
<1> SUFFICES ASSUME Init PROVE SettledInv
  OBVIOUS
<1>1. \A p \in Profiles, k \in Keys : events[p][k] = NoRow
  BY DEF Init, NothingKnown
<1> QED  BY <1>1 DEF Init, Idle, SettledInv, RowsShow, OneRowEach, ProfilesInv, ReasonInv,
                     About, InHandOf, InProfile

\* Nothing is called or recorded, and no event is in hand before or after, or
\* the sync stays where it is.
LEMMA RowsStay ==
    ASSUME RowsShow, OneRowEach, UNCHANGED <<events, google, removed, torn>>,
           \/ sync' = sync
           \/ sync.pc \notin {"saving", "forgetting"} /\ sync'.pc \notin {"saving", "forgetting"}
    PROVE  RowsShow' /\ OneRowEach'
<1>1. CASE sync' = sync
  BY <1>1 DEF RowsShow, OneRowEach, About
<1>2. CASE sync.pc \notin {"saving", "forgetting"} /\ sync'.pc \notin {"saving", "forgetting"}
  BY <1>2 DEF RowsShow, OneRowEach, About
<1> QED  BY <1>1, <1>2

LEMMA WriteSettles ==
    ASSUME IInv, SettledInv, NEW p \in Profiles, NEW w \in Deadlines(p), NEW asks \in BOOLEAN,
           Write(p, w, asks)
    PROVE  SettledInv'
<1>1. UNCHANGED <<tin, events, google, removed, torn, sync, due>>
  BY DEF Write, remote
<1>2. /\ \A q \in Profiles \ {p} : want'[q] = want[q] /\ late'[q] = late[q]
      /\ requested' <=> requested \/ asks
      /\ late'[p] <=> late[p] \/ ~asks \/ sync.pc # "idle"
  BY DEF Write, ChangeWant, IInv, TypeInv, TypeOK
<1>3. RowsShow' /\ OneRowEach'
  BY <1>1, RowsStay DEF SettledInv
<1>4. ReasonInv'
  BY <1>1, <1>2 DEF SettledInv, ReasonInv
<1>5. ProfilesInv'
  BY <1>1, <1>2 DEF SettledInv, ProfilesInv, InHandOf, InProfile, Waits, RowsSayWant, Moved
<1> QED  BY <1>3, <1>4, <1>5 DEF SettledInv

LEMMA RenameSettles ==
    ASSUME IInv, SettledInv, NEW p \in Profiles, NEW w \in Deadlines(p), Rename(p, w)
    PROVE  SettledInv'
<1>1. UNCHANGED <<events, google, removed, torn, sync, due>>
  BY DEF Rename, remote
<1>2. /\ \A q \in Profiles \ {p} : want'[q] = want[q] /\ late'[q] = late[q] /\ tin'[q] = tin[q]
      /\ requested'
      /\ late'[p] <=> late[p] \/ sync.pc # "idle"
  BY DEF Rename, ChangeWant, IInv, TypeInv, TypeOK
<1>3. RowsShow' /\ OneRowEach'
  BY <1>1, RowsStay DEF SettledInv
<1>4. ReasonInv'
  BY <1>1, <1>2 DEF SettledInv, ReasonInv
<1>5. ProfilesInv'
  BY <1>1, <1>2 DEF SettledInv, ProfilesInv, InHandOf, InProfile, Waits, RowsSayWant, Moved
<1> QED  BY <1>3, <1>4, <1>5 DEF SettledInv

LEMMA SixHoursPassSettles == SettledInv /\ SixHoursPass => SettledInv'
<1> SUFFICES ASSUME SettledInv, SixHoursPass PROVE SettledInv'
  OBVIOUS
<1>1. UNCHANGED <<want, tin, late, events, google, removed, torn, sync>> /\ due'
  BY DEF SixHoursPass, remote
<1>2. RowsShow' /\ OneRowEach'
  BY <1>1, RowsStay DEF SettledInv
<1>3. ReasonInv' /\ ProfilesInv'
  BY <1>1 DEF SettledInv, ReasonInv, ProfilesInv, InHandOf, InProfile, Waits, RowsSayWant, Moved
<1> QED  BY <1>2, <1>3 DEF SettledInv

LEMMA StartSyncSettles == SettledInv /\ StartSync => SettledInv'
<1> SUFFICES ASSUME SettledInv, StartSync PROVE SettledInv'
  OBVIOUS
<1>1. /\ UNCHANGED <<want, tin, late, events, google, removed, torn, requested, due>>
      /\ requested \/ due
      /\ sync.pc = "idle"
  BY DEF StartSync, local, flags, remote
<1>2. sync'.pc = "between" /\ \A p \in Profiles : Waits(p)'
  <2>1. /\ sync'.pc = "between"
        /\ sync'.left = {[profile |-> p, tin |-> tin[p]] : p \in Profiles}
    BY DEF StartSync, Idle
  <2>2. ASSUME NEW p \in Profiles PROVE Waits(p)'
    <3>1. [profile |-> p, tin |-> tin[p]] \in sync'.left
      BY <2>1
    <3> QED  BY <3>1 DEF Waits
  <2> QED  BY <2>1, <2>2
<1>3. RowsShow' /\ OneRowEach'
  BY <1>1, <1>2, RowsStay DEF SettledInv
<1>4. ReasonInv' /\ ProfilesInv'
  BY <1>1, <1>2 DEF ReasonInv, ProfilesInv, InHandOf, InProfile
<1> QED  BY <1>3, <1>4 DEF SettledInv

LEMMA SnapshotProfileSettles ==
    ASSUME IInv, SettledInv, NEW j \in sync.left, SnapshotProfile(j)
    PROVE  SettledInv'
<1>1. /\ UNCHANGED <<want, tin, events, google, removed, torn, requested, due>>
      /\ sync.pc = "between" /\ tin[j.profile] = j.tin
      /\ late' = [late EXCEPT ![j.profile] = FALSE]
      /\ j.profile \in Profiles
  BY DEF SnapshotProfile, local, flags, remote, IInv, TypeInv, TypeOK, Sync, Job
<1>2. /\ sync'.pc = "syncing" /\ sync'.job = j /\ sync'.left = sync.left \ {j}
      /\ sync'.desired = want[j.profile] /\ sync'.ok = sync.ok
  BY DEF SnapshotProfile, IInv, TypeInv, TypeOK, Sync
<1>3. RowsShow' /\ OneRowEach'
  BY <1>1, <1>2, RowsStay DEF SettledInv
<1>4. ReasonInv'
  BY <1>1 DEF SettledInv, ReasonInv
<1>5. ProfilesInv'
  <2>1. ASSUME NEW p \in Profiles, p # j.profile, ~late'[p]
        PROVE  /\ ~InHandOf(p)'
               /\ sync'.ok /\ ~Waits(p)' => RowsSayWant(p)'
    <3>1. ~late[p] /\ ~InHandOf(p)' /\ ~InHandOf(p)
      BY <1>1, <1>2, <2>1 DEF IInv, TypeInv, TypeOK, InHandOf, InProfile
    <3>2. ~Waits(p)' => ~Waits(p)
      BY <1>2, <2>1 DEF Waits
    <3> QED  BY <1>1, <1>2, <3>1, <3>2 DEF SettledInv, ProfilesInv, RowsSayWant
  <2>2. InHandOf(j.profile)' /\ sync'.desired = want'[j.profile] /\ ~Moved'
    BY <1>1, <1>2 DEF InHandOf, InProfile, Moved
  <2> QED  BY <1>1, <1>2, <2>1, <2>2 DEF ProfilesInv
<1> QED  BY <1>3, <1>4, <1>5 DEF SettledInv

\* A sync in which something failed promises nothing.
LEMMA Failed ==
    ASSUME ReasonInv, sync.pc # "idle", UNCHANGED flags, sync'.pc = "between", ~sync'.ok
    PROVE  ReasonInv' /\ ProfilesInv'
  BY DEF ReasonInv, ProfilesInv, flags, InHandOf, InProfile

LEMMA ProfileMovedSettles ==
    ASSUME IInv, SettledInv, NEW j \in sync.left, ProfileMoved(j)
    PROVE  SettledInv'
<1>1. sync.pc = "between" /\ UNCHANGED <<events, google, removed, torn, flags>>
  BY DEF ProfileMoved, remote
<1>2. sync'.pc = "between" /\ ~sync'.ok
  BY DEF ProfileMoved, IInv, TypeInv, TypeOK, Sync
<1> QED  BY <1>1, <1>2, RowsStay, Failed DEF SettledInv

LEMMA GivenUpFails == TypeOK /\ GiveUp => sync'.pc = "between" /\ ~sync'.ok
  BY DEF GiveUp, TypeOK, Sync

LEMMA CallFailsSettles == IInv /\ SettledInv /\ CallFails => SettledInv'
<1> SUFFICES ASSUME IInv, SettledInv, CallFails PROVE SettledInv'
  OBVIOUS
<1>1. sync.pc \in {"syncing", "creating"} /\ UNCHANGED <<events, google, removed, torn, flags>>
  BY DEF CallFails, remote
<1>2. sync'.pc = "between" /\ ~sync'.ok
  BY GivenUpFails DEF CallFails, IInv, TypeInv
<1> QED  BY <1>1, <1>2, RowsStay, Failed DEF SettledInv

LEMMA FinishProfileSettles == IInv /\ SettledInv /\ FinishProfile => SettledInv'
<1> SUFFICES ASSUME IInv, SettledInv, FinishProfile PROVE SettledInv'
  OBVIOUS
<1>1. /\ UNCHANGED <<want, tin, late, events, google, removed, torn, requested, due>>
      /\ sync.pc = "syncing" /\ Pending = {}
  BY DEF FinishProfile, local, flags, remote
<1>2. sync'.pc = "between" /\ sync'.left = sync.left /\ sync'.ok = sync.ok
  BY DEF FinishProfile, IInv, TypeInv, TypeOK, Sync
<1>3. RowsShow' /\ OneRowEach'
  BY <1>1, <1>2, RowsStay DEF SettledInv
<1>4. ReasonInv'
  BY <1>1 DEF SettledInv, ReasonInv
<1>5. ProfilesInv'
  <2>1. ASSUME NEW p \in Profiles, ~late[p], InHandOf(p) PROVE RowsSayWant(p)
    <3>1. sync.desired = want[p] /\ ~Moved
      BY <2>1 DEF SettledInv, ProfilesInv
    <3>2. \A k \in Keys : sync.existing[k] = events[p][k]
      BY <2>1, <3>1 DEF IInv, SnapshotInv, InHandOf
    <3>3. \A k \in Keys : sync.desired[k] = sync.existing[k].content
      BY <1>1 DEF Pending
    <3> QED  BY <3>1, <3>2, <3>3 DEF RowsSayWant
  <2> QED  BY <1>1, <1>2, <2>1 DEF SettledInv, ProfilesInv, InHandOf, InProfile, Waits, RowsSayWant
<1> QED  BY <1>3, <1>4, <1>5 DEF SettledInv

LEMMA FinishSyncSettles == IInv /\ SettledInv /\ FinishSync => SettledInv'
<1> SUFFICES ASSUME IInv, SettledInv, FinishSync PROVE SettledInv'
  OBVIOUS
<1>1. /\ UNCHANGED <<want, tin, late, events, google, removed, torn>>
      /\ sync.pc = "between" /\ sync.left = {} /\ requested' = ~sync.ok
      /\ sync'.pc = "idle"
  BY DEF FinishSync, Succeeded, local, remote, Idle
<1>2. RowsShow' /\ OneRowEach'
  BY <1>1, RowsStay DEF SettledInv
<1>3. ReasonInv'
  BY <1>1 DEF ReasonInv
<1>4. ProfilesInv'
  BY <1>1 DEF SettledInv, ProfilesInv, InHandOf, InProfile, Waits, RowsSayWant
<1> QED  BY <1>2, <1>3, <1>4 DEF SettledInv

----------------------------------------------------------------------------
(* Steps that change the calendar or the rows *)

\* The sync goes on in its profile, and writes no other profile's rows.
LEMMA InProfileStill ==
    ASSUME IInv, SettledInv, InProfile, InProfile',
           UNCHANGED <<want, tin, late, flags>>,
           sync'.left = sync.left, sync'.job = sync.job, sync'.desired = sync.desired,
           sync'.ok = sync.ok,
           \A p \in Profiles : p # sync.job.profile => events'[p] = events[p]
    PROVE  ReasonInv' /\ ProfilesInv'
<1>1. ReasonInv'
  BY DEF SettledInv, ReasonInv, flags, InProfile
<1>2. sync.pc # "idle" /\ sync'.pc # "idle" /\ Moved' = Moved
  BY DEF InProfile, Moved
<1>3. ProfilesInv'
  BY <1>2 DEF SettledInv, ProfilesInv, InHandOf, Waits, RowsSayWant
<1> QED  BY <1>1, <1>3

LEMMA UpdateMissingEventSettles == IInv /\ SettledInv /\ UpdateMissingEvent => SettledInv'
<1> SUFFICES ASSUME IInv, SettledInv, UpdateMissingEvent PROVE SettledInv'
  OBVIOUS
<1>1. /\ UNCHANGED <<want, tin, late, flags, events, google, removed, torn>>
      /\ sync.pc = "syncing"
  BY DEF UpdateMissingEvent, local, remote
<1>2. /\ sync'.pc = "creating"
      /\ \A f \in {"job", "left", "desired", "ok"} : sync'[f] = sync[f]
  BY DEF UpdateMissingEvent, EventNotFound, IInv, TypeInv, TypeOK, Sync
<1>3. /\ sync'.left = sync.left /\ sync'.job = sync.job
      /\ sync'.desired = sync.desired /\ sync'.ok = sync.ok
  BY <1>2
<1>4. RowsShow' /\ OneRowEach'
  BY <1>1, <1>2, RowsStay DEF SettledInv
<1>5. ReasonInv' /\ ProfilesInv'
  BY <1>1, <1>2, <1>3, InProfileStill DEF InProfile
<1> QED  BY <1>4, <1>5 DEF SettledInv

LEMMA CrashSettles == IInv /\ SettledInv /\ Crash => SettledInv'
<1> SUFFICES ASSUME IInv, SettledInv, Crash PROVE SettledInv'
  OBVIOUS
<1>1. /\ UNCHANGED <<want, tin, late, requested, due, events, google, removed>>
      /\ sync' = Idle /\ sync.pc # "idle"
      /\ torn' = torn \cup ({sync.id} \ {0})
  BY DEF Crash, local, flags, remote
<1>2. sync'.pc = "idle" /\ (requested \/ due)
  BY <1>1 DEF Idle, SettledInv, ReasonInv
<1>3. RowsShow'
  <2>1. ASSUME NEW p \in Profiles, NEW k \in Keys, events[p][k] # NoRow,
               About(events[p][k].id)
        PROVE  events[p][k].id \in torn'
    <3>1. events[p][k].id \in Id
      BY <2>1, RowsHaveIds DEF IInv, TypeInv
    <3> QED  BY <1>1, <2>1, <3>1 DEF About, Id
  <2> QED  BY <1>1, <1>2, <2>1 DEF SettledInv, RowsShow
<1>4. OneRowEach'
  BY <1>1, <1>2 DEF SettledInv, OneRowEach
<1>5. ReasonInv' /\ ProfilesInv'
  BY <1>1, <1>2 DEF ReasonInv, ProfilesInv, InHandOf, InProfile
<1> QED  BY <1>3, <1>4, <1>5 DEF SettledInv

LEMMA DeleteInCalendarSettles ==
    ASSUME IInv, SettledInv, NEW i \in Id, DeleteInCalendar(i)
    PROVE  SettledInv'
<1>1. /\ UNCHANGED <<want, tin, late, requested, due, events, torn, sync>>
      /\ removed' = removed \cup {i}
      /\ google' = [google EXCEPT ![i] = NoEvent]
  BY DEF DeleteInCalendar, flags
<1>2. \A e \in Id : e # i => google'[e] = google[e]
  BY <1>1 DEF IInv, TypeInv, TypeOK
<1>3. RowsShow'
  <2>1. \A p \in Profiles, k \in Keys : events[p][k] # NoRow => events[p][k].id \in Id
    BY RowsHaveIds DEF IInv, TypeInv
  <2>2. sync.pc = "saving" => sync.id \in Id
    BY DEF IInv, StepInv
  <2> QED  BY <1>1, <1>2, <2>1, <2>2 DEF SettledInv, RowsShow, About
<1>4. OneRowEach' /\ ReasonInv' /\ ProfilesInv'
  BY <1>1 DEF SettledInv, OneRowEach, ReasonInv, ProfilesInv, InHandOf, InProfile, Waits,
              RowsSayWant, Moved
<1> QED  BY <1>3, <1>4 DEF SettledInv

LEMMA MappingRefusedSettles == IInv /\ SettledInv /\ MappingRefused => SettledInv'
<1> SUFFICES ASSUME IInv, SettledInv, MappingRefused PROVE SettledInv'
  OBVIOUS
<1>1. /\ UNCHANGED <<events, google, removed, flags>>
      /\ sync.pc = "saving" /\ torn' = torn \cup {sync.id}
  BY DEF MappingRefused, remote
<1>2. sync'.pc = "between" /\ ~sync'.ok
  BY GivenUpFails DEF MappingRefused, IInv, TypeInv
<1>3. RowsShow' /\ OneRowEach'
  BY <1>1, <1>2 DEF SettledInv, RowsShow, OneRowEach, About
<1> QED  BY <1>1, <1>2, <1>3, Failed DEF SettledInv

\* The answer about event i of key k arrives, or is lost.
Proceeds(pc, k, i) ==
    \/ sync' = [sync EXCEPT !.pc = pc, !.at = k, !.id = i] /\ UNCHANGED torn
    \/ torn' = torn \cup {i} /\ GiveUp

\* Only the row of the key in hand names event i.
NamedHere(k, i) ==
    \A q \in Profiles : \A m \in Keys :
        events[q][m] # NoRow /\ events[q][m].id = i => q = sync.job.profile /\ m = k

\* The calendar shows the wanted deadline of key k as event i.
ShowsWanted(k, i) ==
    google'[i] = [profile |-> sync.job.profile, key |-> k, content |-> sync.desired[k]]

\* A call about event i, which the row of the key in hand names or none does.
\* Its answer arrives, or is lost.
LEMMA Called ==
    ASSUME IInv, SettledInv, InProfile, sync.pc \notin {"saving", "forgetting"},
           UNCHANGED <<local, events, flags, removed, late>>,
           NEW k \in Keys, NEW i \in Id, NEW pc \in {"saving", "forgetting"},
           \A e \in Id \ {i} : google'[e] = google[e],
           pc = "saving" => ShowsWanted(k, i), NamedHere(k, i), Proceeds(pc, k, i)
    PROVE  SettledInv'
<1>1. ASSUME NEW p \in Profiles, NEW m \in Keys, events[p][m] # NoRow,
             events[p][m].id \notin removed \cup torn, events[p][m].id # i
      PROVE  google'[events[p][m].id] = [profile |-> p, key |-> m, content |-> events[p][m].content]
  <2>1. events[p][m].id \in Id
    BY <1>1, RowsHaveIds DEF IInv, TypeInv
  <2> QED  BY <1>1, <2>1 DEF SettledInv, RowsShow, About
<1>2. CASE sync' = [sync EXCEPT !.pc = pc, !.at = k, !.id = i] /\ UNCHANGED torn
  <2>1. /\ sync'.pc = pc /\ sync'.at = k /\ sync'.id = i
        /\ \A f \in {"job", "left", "desired", "ok"} : sync'[f] = sync[f]
    BY <1>2 DEF IInv, TypeInv, TypeOK, Sync
  <2>2. /\ sync'.left = sync.left /\ sync'.job = sync.job
        /\ sync'.desired = sync.desired /\ sync'.ok = sync.ok
    BY <2>1
  <2>3. RowsShow'
    BY <1>1, <1>2, <2>1, <2>2 DEF RowsShow, About, ShowsWanted
  <2>4. OneRowEach'
    BY <2>1, <2>2 DEF SettledInv, OneRowEach, NamedHere
  <2>5. ReasonInv' /\ ProfilesInv'
    BY <2>1, <2>2, InProfileStill DEF InProfile, local
  <2> QED  BY <2>3, <2>4, <2>5 DEF SettledInv
<1>3. CASE torn' = torn \cup {i} /\ GiveUp
  <2>1. sync'.pc = "between" /\ ~sync'.ok
    BY <1>3, GivenUpFails DEF IInv, TypeInv
  <2>2. RowsShow'
    BY <1>1, <1>3, <2>1 DEF RowsShow
  <2>3. OneRowEach'
    BY <2>1 DEF SettledInv, OneRowEach
  <2>4. ReasonInv' /\ ProfilesInv'
    BY <2>1, Failed DEF SettledInv, InProfile
  <2> QED  BY <2>2, <2>3, <2>4 DEF SettledInv
<1> QED  BY <1>2, <1>3 DEF Proceeds

LEMMA UpdateEventSettles == IInv /\ SettledInv /\ UpdateEvent => SettledInv'
<1> SUFFICES ASSUME IInv, SettledInv, UpdateEvent PROVE SettledInv'
  OBVIOUS
<1> DEFINE k == Turn
           i == Known(k)
<1>1. k \in Keys
  BY TurnIsPending DEF UpdateEvent, IInv, TypeInv, ToPut, Pending
<1>2. InProfile /\ sync.existing[k] # NoRow /\ google[i] # NoEvent /\ sync.pc = "syncing"
  BY DEF UpdateEvent, InProfile
<1>3. /\ sync.job.profile \in Profiles /\ i \in Id
      /\ google[i].profile = sync.job.profile /\ google[i].key = k
      /\ sync.existing[k] = events[sync.job.profile][k]
  BY <1>1, <1>2, SnapshotNames DEF Shows
<1>4. /\ google' = [google EXCEPT ![i].content = sync.desired[k]]
      /\ UNCHANGED <<local, events, flags, removed, late>>
      /\ \/ sync' = [sync EXCEPT !.pc = "saving", !.at = k, !.id = i] /\ UNCHANGED torn
         \/ torn' = torn \cup {i} /\ GiveUp
  BY DEF UpdateEvent, Answered
<1>5. \A q \in Profiles : \A m \in Keys :
          events[q][m] # NoRow /\ events[q][m].id = i => q = sync.job.profile /\ m = k
  BY <1>1, <1>2, <1>3 DEF Known, SettledInv, OneRowEach
<1> HIDE DEF k, i
<1>6. /\ \A e \in Id \ {i} : google'[e] = google[e]
      /\ google'[i] = [profile |-> sync.job.profile, key |-> k, content |-> sync.desired[k]]
  <2>1. google[i] \in [profile : Profiles, key : Keys, content : Contents]
    BY <1>2, <1>3 DEF IInv, TypeInv, TypeOK, Event
  <2> QED  BY <1>3, <1>4, <2>1 DEF IInv, TypeInv, TypeOK
<1> DEFINE pc == "saving"
<1>7. pc \in {"saving", "forgetting"} /\ Proceeds(pc, k, i)
  BY <1>4 DEF Proceeds
<1>8. pc = "saving" => ShowsWanted(k, i)
  BY <1>6 DEF ShowsWanted
<1> HIDE DEF pc
<1>9. sync.pc \notin {"saving", "forgetting"} /\ NamedHere(k, i)
  BY <1>2, <1>5 DEF NamedHere
<1> QED  BY <1>1, <1>2, <1>3, <1>4, <1>6, <1>7, <1>8, <1>9, Called

LEMMA CreateEventSettles == IInv /\ SettledInv /\ CreateEvent => SettledInv'
<1> SUFFICES ASSUME IInv, SettledInv, CreateEvent PROVE SettledInv'
  OBVIOUS
<1> DEFINE k == Turn
           i == created'
<1>1. k \in Keys
  BY TurnIsPending DEF CreateEvent, IInv, TypeInv, ToPut, Pending
<1>2. InProfile /\ sync.pc \notin {"saving", "forgetting"}
  BY DEF CreateEvent, InProfile
<1>3. i = created + 1 /\ i \in Id /\ created \in Nat
  BY DEF CreateEvent, IInv, TypeInv, TypeOK, Id
<1>4. /\ google' = [google EXCEPT ![i] = [profile |-> sync.job.profile, key |-> k,
                                          content |-> sync.desired[k]]]
      /\ UNCHANGED <<local, events, flags, removed, late>>
      /\ \/ sync' = [sync EXCEPT !.pc = "saving", !.at = k, !.id = i] /\ UNCHANGED torn
         \/ torn' = torn \cup {i} /\ GiveUp
  BY DEF CreateEvent, Answered
<1> HIDE DEF k, i
<1>5. \A q \in Profiles : \A m \in Keys :
          events[q][m] # NoRow /\ events[q][m].id = i => q = sync.job.profile /\ m = k
  <2>1. ASSUME NEW q \in Profiles, NEW m \in Keys, events[q][m] # NoRow
        PROVE  events[q][m].id # i
    <3>1. events[q][m].id \in Nat /\ events[q][m].id <= created
      BY <2>1, RowsHaveIds DEF IInv, TypeInv, IdsInv, Id
    <3> QED  BY <1>3, <3>1
  <2> QED  BY <2>1
<1>6. /\ \A e \in Id \ {i} : google'[e] = google[e]
      /\ google'[i] = [profile |-> sync.job.profile, key |-> k, content |-> sync.desired[k]]
  BY <1>3, <1>4 DEF IInv, TypeInv, TypeOK
<1> DEFINE pc == "saving"
<1>7. pc \in {"saving", "forgetting"} /\ Proceeds(pc, k, i)
  BY <1>4 DEF Proceeds
<1>8. pc = "saving" => ShowsWanted(k, i)
  BY <1>6 DEF ShowsWanted
<1> HIDE DEF pc
<1>9. sync.pc \notin {"saving", "forgetting"} /\ NamedHere(k, i)
  BY <1>2, <1>5 DEF NamedHere
<1> QED  BY <1>1, <1>2, <1>3, <1>4, <1>6, <1>7, <1>8, <1>9, Called

LEMMA DeleteEventSettles == IInv /\ SettledInv /\ DeleteEvent => SettledInv'
<1> SUFFICES ASSUME IInv, SettledInv, DeleteEvent PROVE SettledInv'
  OBVIOUS
<1> DEFINE k == Turn
           i == Known(k)
<1>1. k \in Keys /\ sync.existing[k] # NoRow
  BY TurnIsPending DEF DeleteEvent, IInv, TypeInv, Pending
<1>2. InProfile /\ sync.pc = "syncing"
  BY DEF DeleteEvent, InProfile
<1>3. /\ sync.job.profile \in Profiles /\ i \in Id
      /\ sync.existing[k] = events[sync.job.profile][k]
  BY <1>1, <1>2, SnapshotNames
<1>4. /\ google' = [google EXCEPT ![i] = NoEvent]
      /\ UNCHANGED <<local, events, flags, removed, late>>
      /\ \/ sync' = [sync EXCEPT !.pc = "forgetting", !.at = k, !.id = i] /\ UNCHANGED torn
         \/ torn' = torn \cup {i} /\ GiveUp
  BY DEF DeleteEvent, Answered
<1>5. \A q \in Profiles : \A m \in Keys :
          events[q][m] # NoRow /\ events[q][m].id = i => q = sync.job.profile /\ m = k
  BY <1>1, <1>3 DEF Known, SettledInv, OneRowEach
<1> HIDE DEF k, i
<1>6. \A e \in Id \ {i} : google'[e] = google[e]
  BY <1>3, <1>4 DEF IInv, TypeInv, TypeOK
<1> DEFINE pc == "forgetting"
<1>7. pc \in {"saving", "forgetting"} /\ Proceeds(pc, k, i)
  BY <1>4 DEF Proceeds
<1>8. pc = "saving" => ShowsWanted(k, i)
  OBVIOUS
<1> HIDE DEF pc
<1>9. sync.pc \notin {"saving", "forgetting"} /\ NamedHere(k, i)
  BY <1>2, <1>5 DEF NamedHere
<1> QED  BY <1>1, <1>2, <1>3, <1>4, <1>6, <1>7, <1>8, <1>9, Called

\* The row of the key in hand is written, or forgotten.
LEMMA RecordSettles ==
    ASSUME IInv, SettledInv, sync.pc \in {"saving", "forgetting"}, NEW row \in Row, Record(row),
           UNCHANGED <<local, flags, remote, late, troubles>>,
           row # NoRow =>
              /\ row.id = sync.id
              /\ \/ sync.id \in removed
                 \/ google[sync.id] = [profile |-> sync.job.profile, key |-> sync.at,
                                       content |-> row.content]
    PROVE  SettledInv'
<1> DEFINE p == sync.job.profile
           k == sync.at
<1>1. InProfile /\ k \in Keys /\ p \in Profiles /\ sync.id \in Id
  BY SnapshotNames DEF InProfile, IInv, StepInv
<1>2. /\ sync'.pc = "syncing"
      /\ \A f \in {"job", "left", "desired", "ok"} : sync'[f] = sync[f]
  BY <1>1 DEF Record, IInv, TypeInv, TypeOK, Sync
<1>3. /\ sync'.left = sync.left /\ sync'.job = sync.job
      /\ sync'.desired = sync.desired /\ sync'.ok = sync.ok
  BY <1>2
<1>4. \A q \in Profiles : \A m \in Keys :
          events[q][m] # NoRow /\ events[q][m].id = sync.id => q = p /\ m = k
  BY DEF SettledInv, OneRowEach
<1> HIDE DEF p, k
<1>5. /\ events'[p][k] = row
      /\ \A q \in Profiles, m \in Keys : ~(q = p /\ m = k) => events'[q][m] = events[q][m]
      /\ \A q \in Profiles : q # p => events'[q] = events[q]
  BY <1>1 DEF Record, IInv, TypeInv, TypeOK, p, k
<1>6. torn' = torn \ {sync.id} /\ UNCHANGED <<google, removed>>
  BY DEF Record, remote
<1>7. RowsShow'
  <2>1. ASSUME NEW q \in Profiles, NEW m \in Keys, events'[q][m] # NoRow
        PROVE  \/ events'[q][m].id \in removed \cup torn'
               \/ google[events'[q][m].id] =
                     [profile |-> q, key |-> m, content |-> events'[q][m].content]
    <3>1. CASE q = p /\ m = k
      BY <1>5, <2>1, <3>1 DEF p, k
    <3>2. CASE ~(q = p /\ m = k)
      <4>1. events'[q][m] = events[q][m] /\ events[q][m].id # sync.id
        BY <1>4, <1>5, <2>1, <3>2
      <4> QED  BY <1>6, <2>1, <4>1 DEF SettledInv, RowsShow, About
    <3> QED  BY <3>1, <3>2
  <2> QED  BY <1>2, <1>6, <2>1 DEF RowsShow
<1>8. OneRowEach'
  <2> SUFFICES ASSUME NEW q \in Profiles, NEW r \in Profiles, NEW m \in Keys, NEW n \in Keys,
                      events'[q][m] # NoRow, events'[r][n] # NoRow,
                      events'[q][m].id = events'[r][n].id
               PROVE  q = r /\ m = n
    BY <1>2 DEF OneRowEach
  <2>1. ASSUME NEW s \in Profiles, NEW l \in Keys, ~(s = p /\ l = k), events'[s][l] # NoRow
        PROVE  events'[s][l] = events[s][l] /\ events[s][l].id # sync.id
    BY <1>4, <1>5, <2>1
  <2>2. events'[p][k] # NoRow => events'[p][k].id = sync.id
    BY <1>5
  <2>3. CASE ~(q = p /\ m = k) /\ ~(r = p /\ n = k)
    BY <2>1, <2>3 DEF SettledInv, OneRowEach
  <2>4. CASE (q = p /\ m = k) \/ (r = p /\ n = k)
    BY <2>1, <2>2, <2>4
  <2> QED  BY <2>3, <2>4
<1>9. ReasonInv' /\ ProfilesInv'
  BY <1>1, <1>2, <1>3, <1>5, InProfileStill DEF InProfile, local, p
<1> QED  BY <1>7, <1>8, <1>9 DEF SettledInv

LEMMA SaveMappingSettles == IInv /\ SettledInv /\ SaveMapping => SettledInv'
<1> SUFFICES ASSUME IInv, SettledInv, SaveMapping PROVE SettledInv'
  OBVIOUS
<1> DEFINE row == [id |-> sync.id, content |-> sync.desired[sync.at]]
<1>1. sync.at \in Keys /\ sync.id \in Id /\ sync.desired[sync.at] \in Contents
  BY DEF SaveMapping, IInv, StepInv, TypeInv, TypeOK, Sync, Wanted
<1>2. /\ row \in Row /\ row.id = sync.id
      /\ \/ sync.id \in removed
         \/ google[sync.id] = [profile |-> sync.job.profile, key |-> sync.at,
                               content |-> row.content]
  BY <1>1, Rows DEF SaveMapping, SettledInv, RowsShow
<1>3. /\ sync.pc = "saving" /\ Record(row)
      /\ UNCHANGED <<local, flags, remote, late, troubles>>
  BY DEF SaveMapping
<1> HIDE DEF row
<1> QED  BY <1>2, <1>3, RecordSettles

LEMMA ForgetMappingSettles == IInv /\ SettledInv /\ ForgetMapping => SettledInv'
<1> SUFFICES ASSUME IInv, SettledInv, ForgetMapping PROVE SettledInv'
  OBVIOUS
<1> QED  BY Rows, RecordSettles DEF ForgetMapping

LEMMA ForgetNothingSettles == IInv /\ SettledInv /\ ForgetNothing => SettledInv'
<1> SUFFICES ASSUME IInv, SettledInv, ForgetNothing PROVE SettledInv'
  OBVIOUS
<1>1. /\ UNCHANGED <<want, tin, late, flags, events, google, removed>>
      /\ sync.pc = "forgetting" /\ torn' = torn \cup {sync.id}
  BY DEF ForgetNothing, local, remote
<1>2. /\ sync'.pc = "syncing"
      /\ \A f \in {"job", "left", "desired", "ok"} : sync'[f] = sync[f]
  BY DEF ForgetNothing, IInv, TypeInv, TypeOK, Sync
<1>3. /\ sync'.left = sync.left /\ sync'.job = sync.job
      /\ sync'.desired = sync.desired /\ sync'.ok = sync.ok
  BY <1>2
<1>4. RowsShow' /\ OneRowEach'
  BY <1>1, <1>2 DEF SettledInv, RowsShow, OneRowEach, About
<1>5. ReasonInv' /\ ProfilesInv'
  BY <1>1, <1>2, <1>3, InProfileStill DEF InProfile
<1> QED  BY <1>4, <1>5 DEF SettledInv

----------------------------------------------------------------------------
(* The theorem *)

\* When no sync runs, is asked for or is due, every calendar shows the wanted
\* deadlines, but for what was written while the last sync ran or without a
\* request (process_google_calendar_sync).
THEOREM SettledCalendars == Spec => []SettledAgrees
<1>1. IInv /\ SettledInv /\ [Next]_vars => SettledInv'
  <2> SUFFICES ASSUME IInv, SettledInv, [Next]_vars PROVE SettledInv'
    OBVIOUS
  <2>1. CASE SyncStep
    BY <2>1, StartSyncSettles, FinishSyncSettles, FinishProfileSettles, SnapshotProfileSettles,
       ProfileMovedSettles, UpdateEventSettles, UpdateMissingEventSettles, CreateEventSettles,
       DeleteEventSettles, CallFailsSettles, SaveMappingSettles, MappingRefusedSettles,
       ForgetMappingSettles, ForgetNothingSettles DEF SyncStep
  <2>2. CASE \E p \in Profiles : \E w \in Deadlines(p) :
                Rename(p, w) \/ \E asks \in BOOLEAN : Write(p, w, asks)
    BY <2>2, RenameSettles, WriteSettles
  <2>3. CASE SixHoursPass \/ Crash \/ \E i \in Id : DeleteInCalendar(i)
    BY <2>3, SixHoursPassSettles, CrashSettles, DeleteInCalendarSettles
  <2>4. CASE UNCHANGED vars
    <3>1. UNCHANGED <<want, tin, late, events, google, removed, torn, sync, requested, due>>
      BY <2>4 DEF vars, flags, remote
    <3>2. RowsShow' /\ OneRowEach'
      BY <3>1, RowsStay DEF SettledInv
    <3>3. ReasonInv' /\ ProfilesInv'
      BY <3>1 DEF SettledInv, ReasonInv, ProfilesInv, InHandOf, InProfile, Waits, RowsSayWant,
                  Moved
    <3> QED  BY <3>2, <3>3 DEF SettledInv
  <2> QED  BY <2>1, <2>2, <2>3, <2>4 DEF Next
<1>2. IInv /\ SettledInv => SettledAgrees
  <2> SUFFICES ASSUME IInv, SettledInv, sync.pc = "idle", ~requested, ~due,
                      NEW p \in Profiles, ~late[p], NEW k \in Keys
               PROVE  /\ events[p][k].content = want[p][k]
                      /\ \/ want[p][k] = NoContent
                         \/ events[p][k].id \in removed \cup torn
                         \/ google[events[p][k].id] =
                               [profile |-> p, key |-> k, content |-> want[p][k]]
    BY DEF SettledAgrees, Agrees
  <2>1. events[p][k].content = want[p][k]
    BY DEF SettledInv, ProfilesInv, RowsSayWant
  <2>2. want[p][k] # NoContent => events[p][k] # NoRow
    BY <2>1, Rows
  <2> QED  BY <2>1, <2>2 DEF SettledInv, RowsShow, About
<1> QED  BY <1>1, <1>2, SettledStart, Invariance, PTL DEF Spec

=============================================================================
