------------------------------ MODULE Updater ------------------------------
(***************************************************************************)
(* The desktop application replaces itself: the service thread that looks  *)
(* for a release, downloads and verifies it, the page that offers it, and  *)
(* the installation on the UI thread (updater.rs, bir_module.rs,           *)
(* app/shell/update.js).                                                   *)
(*                                                                         *)
(* The installation modelled is the one that swaps directories: a macOS    *)
(* bundle or a Linux tree.  Simplifications:                               *)
(*  - The account gate is open, so the database is open and the service     *)
(*    runs.                                                                *)
(*  - An asset is known by its version, which its file name contains.      *)
(*  - A check is forced exactly when it is manual, as all callers have it. *)
(*  - A process that was started by an update is asked to install only     *)
(*    after the one that started it has ended.                             *)
(*  - One copy is installed, and a person starts it when none runs.        *)
(*                                                                         *)
(* X_Slip is X with a plausible mistake, used only to show that a property *)
(* notices it.                                                             *)
(***************************************************************************)
EXTENDS Naturals

CONSTANTS
    MaxVersion,    \* versions are 1 .. MaxVersion; the one installed is 1
    MaxTroubles,   \* bound: calls, files and processes that fail or die
    MaxMoves,      \* bound: how often the feed names another release
    MaxAsked       \* bound: checks waiting in the channel

ASSUME BoundsAssumption ==
    /\ MaxVersion \in Nat \ {0} /\ MaxTroubles \in Nat
    /\ MaxMoves \in Nat /\ MaxAsked \in Nat

VARIABLES
    feed,       \* external: the release latest.json names
    files,      \* files[v]: the asset of v in the update cache
    bundle,     \* the installed application
    previous,   \* the one moved aside
    leaving,    \* has the process that was replaced still to delete it?
    running,    \* the version of the running process, or 0
    lock,       \* does that process hold the database owner lock?
    holders,    \* who, besides the UI thread, holds the database handle
    auto,       \* AUTO_DOWNLOAD and its setting
    state,      \* STATE
    check,      \* run_check, on the service thread
    asked,      \* COMMANDS: manual checks not received yet
    shown,      \* the banner of what the page last polled
    install,    \* install_ready_update, on the UI thread
    troubles, moves

vars == <<feed, files, bundle, previous, leaving, running, lock, holders, auto,
          state, check, asked, shown, install, troubles, moves>>
disk == <<bundle, previous, leaving>>
database == <<lock, holders>>

----------------------------------------------------------------------------
(* Types *)

Version == 1 .. MaxVersion
NoVersion == 0

App == [version: Version, sound: BOOLEAN]
NoApp == [version |-> NoVersion, sound |-> FALSE]

Phases == {"idle", "checking", "downloading", "ready", "failed", "up_to_date",
           "available", "installing"}

\* asset: the release whose file asset_path names.
State == [phase: Phases, version: Version \cup {NoVersion},
          asset: Version \cup {NoVersion}, dismissed: Version \cup {NoVersion}]

\* found: the release the manifest names; sound: do the bytes of the partial
\* file match the manifest and the checksum file?
Check == [pc: {"waiting", "fetching", "downloading", "downloaded", "replacing"},
          manual: BOOLEAN, found: Version \cup {NoVersion}, sound: BOOLEAN]

\* The phases for which the page shows a banner: Install now (for "ready" only)
\* and Later.
Banners == {"ready", "failed", "up_to_date"}
NoBanner == "none"

\* staged: the unpacked update beside the application.
Install == [pc: {"none", "preparing", "closing", "closed", "placing", "relaunching"},
            staged: App \cup {NoApp}]

Holder == {"worker", "retention", "task"}

BlankState == [phase |-> "idle", version |-> NoVersion, asset |-> NoVersion,
               dismissed |-> NoVersion]
Waiting == [pc |-> "waiting", manual |-> FALSE, found |-> NoVersion, sound |-> FALSE]
NoInstall == [pc |-> "none", staged |-> NoApp]

----------------------------------------------------------------------------
(* Processes *)

Trouble == troubles < MaxTroubles /\ troubles' = troubles + 1

\* open_database_at_launch: the worker and the log retention get the handle,
\* the latter unless its thread cannot be started.
OpenedAtLaunch == {{"worker", "retention"}, {"worker"}}

\* The memory of a process that has just started, or of none.
Process(v, opened) ==
    /\ running' = v
    /\ lock' = (v # NoVersion)
    /\ holders' = opened
    /\ state' = BlankState
    /\ check' = Waiting
    /\ asked' = 0
    /\ shown' = NoBanner
    /\ install' = NoInstall

Exit == Process(NoVersion, {})

Init == /\ feed \in Version
        /\ files = [v \in Version |-> "none"]
        /\ bundle = [version |-> 1, sound |-> TRUE]
        /\ previous = NoApp
        /\ leaving = FALSE
        /\ running = 1
        /\ lock = TRUE
        /\ holders \in OpenedAtLaunch
        /\ auto \in BOOLEAN
        /\ state = BlankState
        /\ check = Waiting
        /\ asked = 0
        /\ shown = NoBanner
        /\ install = NoInstall
        /\ troubles = 0 /\ moves = 0

Launch ==
    /\ running = NoVersion
    /\ bundle # NoApp
    /\ \E opened \in OpenedAtLaunch : Process(bundle.version, opened)
    /\ UNCHANGED <<feed, files, disk, auto, troubles, moves>>

\* Killed, or quit.
Crash ==
    /\ running # NoVersion
    /\ Trouble
    /\ Exit
    /\ UNCHANGED <<feed, files, disk, auto, moves>>

\* A release is published or taken back.
FeedMoves(v) ==
    /\ v # feed /\ moves < MaxMoves
    /\ feed' = v
    /\ moves' = moves + 1
    /\ UNCHANGED <<files, disk, running, database, auto, state, check, asked, shown,
                   install, troubles>>

----------------------------------------------------------------------------
(* The service thread *)

quiet == <<feed, disk, running, database, auto, shown, install, moves>>

Settle == check' = Waiting

\* run_check, for the timer or for a command.
StartCheck(manual) ==
    /\ check.pc = "waiting" /\ running # NoVersion
    /\ install.pc = "none"
    /\ manual => asked > 0
    /\ asked' = IF manual THEN asked - 1 ELSE asked
    /\ check' = [Waiting EXCEPT !.pc = "fetching", !.manual = manual]
    /\ state' = [state EXCEPT !.phase = "checking"]
    /\ UNCHANGED <<quiet, files, troubles>>

\* A command that is received during an installation is dropped.
DropCheck ==
    /\ check.pc = "waiting" /\ asked > 0
    /\ install.pc # "none"
    /\ asked' = asked - 1
    /\ UNCHANGED <<quiet, files, state, check, troubles>>

FetchFails ==
    /\ check.pc = "fetching"
    /\ Trouble
    /\ Settle
    /\ state' = [state EXCEPT !.phase = IF check.manual THEN "failed" ELSE "idle"]
    /\ UNCHANGED <<quiet, files, asked>>

\* No usable version, or no asset for this computer.
UnusableFeed ==
    /\ check.pc = "fetching"
    /\ Trouble
    /\ Settle
    /\ state' = [state EXCEPT !.phase = "failed"]
    /\ UNCHANGED <<quiet, files, asked>>

NotNewer ==
    /\ check.pc = "fetching" /\ feed <= running
    /\ Settle
    /\ state' = IF check.manual
                THEN [state EXCEPT !.phase = "up_to_date", !.version = feed,
                                   !.dismissed = NoVersion]
                ELSE [state EXCEPT !.phase = "idle"]
    /\ UNCHANGED <<quiet, files, asked, troubles>>

\* What a verified release becomes: shown, unless the person put it off and
\* does not ask now.
Offered_Again(v) == [state EXCEPT !.version = v, !.phase = "ready"]
Offered(v) ==
    [state EXCEPT
        !.version = v,
        !.phase = IF ~check.manual /\ state.dismissed = v THEN "idle" ELSE "ready",
        !.dismissed = IF check.manual THEN NoVersion ELSE @]

AlreadyVerified ==
    /\ state.version = feed
    /\ state.asset # NoVersion
    /\ state.phase \in {"ready", "idle"}

OfferVerified ==
    /\ check.pc = "fetching" /\ feed > running
    /\ AlreadyVerified
    /\ files[state.asset] # "none"
    /\ Settle
    /\ state' = Offered(feed)
    /\ UNCHANGED <<quiet, files, asked, troubles>>

Announce ==
    /\ check.pc = "fetching" /\ feed > running
    /\ ~AlreadyVerified
    /\ ~check.manual /\ ~auto
    /\ Settle
    /\ state' = [state EXCEPT !.phase = "available", !.version = feed]
    /\ UNCHANGED <<quiet, files, asked, troubles>>

StartDownload ==
    /\ check.pc = "fetching" /\ feed > running
    /\ ~AlreadyVerified
    /\ check.manual \/ auto
    /\ check' = [check EXCEPT !.pc = "downloading", !.found = feed]
    /\ state' = [state EXCEPT !.phase = "downloading", !.version = feed]
    /\ UNCHANGED <<quiet, files, asked, troubles>>

\* The partial file and the checksum file are here.
Download(sound) ==
    /\ check.pc = "downloading"
    /\ sound \/ troubles < MaxTroubles
    /\ troubles' = IF sound THEN troubles ELSE troubles + 1
    /\ check' = [check EXCEPT !.pc = "downloaded", !.sound = sound]
    /\ UNCHANGED <<quiet, files, state, asked>>

\* The Err arm of run_check.
Reject == Settle /\ state' = [state EXCEPT !.phase = "failed", !.asset = NoVersion]

DownloadFails ==
    /\ check.pc = "downloading"
    /\ Trouble
    /\ Reject
    /\ UNCHANGED <<quiet, files, asked>>

\* verify_sha256
Verified == check.sound

RejectDownload ==
    /\ check.pc = "downloaded" /\ ~Verified
    /\ Reject
    /\ UNCHANGED <<quiet, files, asked, troubles>>

\* An asset of that name goes first.
RemoveOldAsset ==
    /\ check.pc = "downloaded" /\ Verified
    /\ files' = [files EXCEPT ![check.found] = "none"]
    /\ check' = [check EXCEPT !.pc = "replacing"]
    /\ UNCHANGED <<quiet, state, asked, troubles>>

FinishDownload ==
    /\ check.pc = "replacing"
    /\ files' = [files EXCEPT ![check.found] = IF check.sound THEN "sound" ELSE "broken"]
    /\ state' = [Offered(check.found) EXCEPT !.asset = check.found]
    /\ Settle
    /\ UNCHANGED <<quiet, asked, troubles>>

RenameFails ==
    /\ check.pc = "replacing"
    /\ Trouble
    /\ Reject
    /\ UNCHANGED <<quiet, files, asked>>

ServiceStep == \/ \E manual \in BOOLEAN : StartCheck(manual)
               \/ DropCheck
               \/ FetchFails \/ UnusableFeed
               \/ NotNewer \/ OfferVerified \/ Announce \/ StartDownload
               \/ \E sound \in BOOLEAN : Download(sound)
               \/ DownloadFails \/ RejectDownload
               \/ RemoveOldAsset \/ FinishDownload \/ RenameFails

----------------------------------------------------------------------------
(* The page, on the UI thread *)

PageIsFree == running # NoVersion /\ install.pc = "none"
elsewhere == <<feed, files, disk, running, database, check, troubles, moves>>

PollUpdateStatus_EveryPhase ==
    /\ PageIsFree
    /\ shown' = state.phase
    /\ UNCHANGED <<elsewhere, auto, state, asked, install>>

\* promptFor has a banner for three phases only.
PollUpdateStatus ==
    /\ PageIsFree
    /\ shown' = IF state.phase \in Banners THEN state.phase ELSE NoBanner
    /\ UNCHANGED <<elsewhere, auto, state, asked, install>>

\* dismiss: what it puts off is the version of this moment.
Later ==
    /\ PageIsFree
    /\ shown \in Banners
    /\ state' = [state EXCEPT
                    !.dismissed = state.version,
                    !.phase = IF @ \in Banners THEN "idle" ELSE @]
    /\ shown' = NoBanner
    /\ UNCHANGED <<elsewhere, auto, asked, install>>

CheckNow ==
    /\ PageIsFree
    /\ asked < MaxAsked
    /\ asked' = asked + 1
    /\ UNCHANGED <<elsewhere, auto, state, shown, install>>

SetAutoDownload ==
    /\ PageIsFree
    /\ auto' = ~auto
    /\ UNCHANGED <<elsewhere, state, asked, shown, install>>

\* A host function that works on a thread of its own, such as a check of the
\* inbox.
StartTask ==
    /\ PageIsFree
    /\ holders' = holders \cup {"task"}
    /\ UNCHANGED <<feed, files, disk, running, lock, auto, state, check, asked, shown,
                   install, troubles, moves>>

EndTask ==
    /\ "task" \in holders
    /\ holders' = holders \ {"task"}
    /\ UNCHANGED <<feed, files, disk, running, lock, auto, state, check, asked, shown,
                   install, troubles, moves>>

----------------------------------------------------------------------------
(* install_ready_update *)

others == <<feed, files, auto, check, asked, shown, moves>>

FailInstall_KeepsFlag ==
    /\ install' = install
    /\ state' = [state EXCEPT !.phase = "failed"]
\* fail_install
FailInstall ==
    /\ install' = NoInstall
    /\ state' = [state EXCEPT !.phase = "failed"]

PressInstall ==
    /\ PageIsFree /\ ~leaving
    /\ shown = "ready"
    /\ IF state.asset = NoVersion
       THEN FailInstall
       ELSE /\ install' = [install EXCEPT !.pc = "preparing",
                              !.staged = [version |-> state.asset, sound |-> FALSE]]
            /\ state' = [state EXCEPT !.phase = "installing"]
    /\ UNCHANGED <<others, disk, running, database, troubles>>

\* prepare_install, with the path that was read when Install was pressed.
Prepare ==
    /\ install.pc = "preparing"
    /\ files[install.staged.version] # "none"
    /\ install' = [install EXCEPT !.pc = "closing",
                      !.staged.sound = (files[install.staged.version] = "sound")]
    /\ UNCHANGED <<others, disk, running, database, state, troubles>>

\* The file is missing; or mounting, copying or unpacking fails.
PrepareFails ==
    /\ install.pc = "preparing"
    /\ \/ files[install.staged.version] = "none" /\ troubles' = troubles
       \/ Trouble
    /\ FailInstall
    /\ UNCHANGED <<others, disk, running, database>>

\* The worker ends the tick it is on.
WorkerStops ==
    /\ install.pc = "closing" /\ "worker" \in holders
    /\ holders' = holders \ {"worker"}
    /\ UNCHANGED <<others, disk, running, lock, state, install, troubles>>

\* shutdown_for_quit waits for the worker, but no longer than five seconds;
\* release_database closes the database if nobody else has the handle.
ReleaseDatabase ==
    /\ install.pc = "closing"
    /\ lock' = (holders # {})
    /\ install' = [install EXCEPT !.pc = "closed"]
    /\ UNCHANGED <<others, disk, running, holders, state, troubles>>

OwnerLockReleased_Assumed == install.pc = "closed"
OwnerLockReleased == ~lock

RefuseInstall ==
    /\ install.pc = "closed" /\ ~OwnerLockReleased
    /\ Exit
    /\ UNCHANGED <<feed, files, disk, auto, troubles, moves>>

MoveAside_Deletes == previous' = NoApp /\ bundle' = NoApp
\* What is left of an earlier update goes; the application becomes .previous.
MoveAside == previous' = bundle /\ bundle' = NoApp

Replace ==
    /\ install.pc = "closed" /\ OwnerLockReleased
    /\ MoveAside
    /\ install' = [install EXCEPT !.pc = "placing"]
    /\ UNCHANGED <<others, leaving, running, database, state, troubles>>

ReplaceFails ==
    /\ install.pc = "closed" /\ OwnerLockReleased
    /\ Trouble
    /\ previous' = NoApp
    /\ Exit
    /\ UNCHANGED <<feed, files, bundle, leaving, auto, moves>>

Place ==
    /\ install.pc = "placing"
    /\ bundle' = install.staged
    /\ install' = [install EXCEPT !.pc = "relaunching"]
    /\ UNCHANGED <<others, previous, leaving, running, database, state, troubles>>

\* The application is put back, if that succeeds.
PlaceFails ==
    /\ install.pc = "placing"
    /\ Trouble
    /\ \/ bundle' = previous /\ previous' = NoApp
       \/ UNCHANGED <<bundle, previous>>
    /\ Exit
    /\ UNCHANGED <<feed, files, leaving, auto, moves>>

Relaunch ==
    /\ install.pc = "relaunching"
    /\ \E opened \in OpenedAtLaunch : Process(bundle.version, opened)
    /\ leaving' = TRUE
    /\ UNCHANGED <<feed, files, bundle, previous, auto, troubles, moves>>

RelaunchFails ==
    /\ install.pc = "relaunching"
    /\ Trouble
    /\ Exit
    /\ UNCHANGED <<feed, files, disk, auto, moves>>

\* The replaced process deletes .previous, or fails to, and exits.
Leave ==
    /\ leaving
    /\ leaving' = FALSE
    /\ previous' \in {NoApp, previous}
    /\ UNCHANGED <<feed, files, bundle, running, database, auto, state, check, asked,
                   shown, install, troubles, moves>>

InstallStep == \/ Prepare \/ PrepareFails \/ WorkerStops \/ ReleaseDatabase
               \/ RefuseInstall \/ Replace \/ ReplaceFails \/ Place \/ PlaceFails
               \/ Relaunch \/ RelaunchFails

Next == \/ ServiceStep
        \/ PollUpdateStatus \/ Later \/ CheckNow \/ SetAutoDownload
        \/ StartTask \/ EndTask
        \/ PressInstall \/ InstallStep \/ Leave
        \/ Launch \/ Crash
        \/ \E v \in Version : FeedMoves(v)

Spec == Init /\ [][Next]_vars

\* The service thread's timer expires and its requests time out; an
\* installation that was started goes on.
FairSpec == Spec /\ WF_vars(ServiceStep) /\ WF_vars(InstallStep)

----------------------------------------------------------------------------
(* What an update promises *)

TypeOK ==
    /\ feed \in Version
    /\ files \in [Version -> {"none", "sound", "broken"}]
    /\ bundle \in App \cup {NoApp} /\ previous \in App \cup {NoApp}
    /\ leaving \in BOOLEAN
    /\ running \in Version \cup {NoVersion}
    /\ lock \in BOOLEAN /\ holders \subseteq Holder
    /\ auto \in BOOLEAN
    /\ state \in State /\ check \in Check /\ install \in Install
    /\ shown \in Banners \cup {NoBanner}
    /\ asked \in 0 .. MaxAsked
    /\ troubles \in 0 .. MaxTroubles /\ moves \in 0 .. MaxMoves

\* At every moment, and so after a crash at any moment, a verified application
\* is installed or lies beside its place, and what an update installs is
\* verified and newer than what it moved aside (download_verified,
\* commit_macos, commit_linux_tree).
AppSurvives ==
    /\ bundle # NoApp => bundle.sound
    /\ bundle = NoApp => previous.sound /\ (install.pc = "placing" \/ running = NoVersion)
    /\ bundle # NoApp /\ previous # NoApp => bundle.version > previous.version

\* The application is taken apart only after its database is closed, so the new
\* process never finds the owner lock taken (owner_lock_released).
ClosedBeforeReplaced == bundle = NoApp \/ install.pc = "relaunching" => ~lock

\* What is offered can be installed: a verified file of a newer release is
\* there, although downloads fail, replace each other's files and go on during
\* an installation that fails; and the person has not put that release off
\* without asking again (run_check, download_verified, dismiss).
OfferIsInstallable ==
    state.phase = "ready" =>
        /\ state.asset > running
        /\ files[state.asset] = "sound"
        /\ state.dismissed # state.version

\* With automatic downloads on, a newer release is offered, whatever failed
\* before, an installation included, unless it is taken back or put off (which
\* "Later" can do to a release that was not shown yet).
NewerIsOffered ==
    running # NoVersion /\ feed > running /\ auto
        ~> \/ state.phase = "ready"
           \/ running = NoVersion \/ feed <= running \/ ~auto
           \/ state.dismissed = feed

\* Once the worker has stopped and no host function is at work, the UI thread
\* closes the database (shutdown_for_quit).
ShutdownCloses ==
    [][ReleaseDatabase /\ lock' => "worker" \in holders \/ "task" \in holders]_vars

=============================================================================
