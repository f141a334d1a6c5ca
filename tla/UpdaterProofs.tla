--------------------------- MODULE UpdaterProofs ---------------------------
(***************************************************************************)
(* Proofs about Updater for any number of releases, faults and checks: the *)
(* application survives an update, its database is closed before it is     *)
(* replaced, and what is offered can be installed.                         *)
(***************************************************************************)
EXTENDS Updater, TLAPS

----------------------------------------------------------------------------
(* The inductive invariant *)

\* A check that downloads has a newer release in hand, and only verified bytes
\* get the name of the asset; while a check is on its way nothing is offered.
CheckInv ==
    /\ check.pc \in {"downloading", "downloaded", "replacing"} =>
          check.found \in Version /\ check.found > running
    /\ check.pc = "replacing" => check.sound
    /\ check.pc # "waiting" => state.phase # "ready"

FilesInv == \A v \in Version : files[v] # "broken"

OfferInv == /\ state.asset # NoVersion => state.asset > running
            /\ OfferIsInstallable

\* An installation has a newer release in hand, verified from when it is unpacked.
InstallInv ==
    /\ install.pc # "none" =>
          /\ install.staged \in App
          /\ install.staged.version > running
          /\ running # NoVersion
    /\ install.pc \in {"closing", "closed", "placing", "relaunching"} => install.staged.sound

\* Which application lies where at each stage of an installation.
BundleInv ==
    /\ running # NoVersion /\ install.pc \notin {"placing", "relaunching"} =>
          bundle # NoApp /\ bundle.version = running
    /\ install.pc = "placing" => bundle = NoApp /\ previous.version = running
    /\ install.pc = "relaunching" => bundle = install.staged
    /\ leaving => install.pc = "none" /\ bundle # NoApp
    /\ AppSurvives
    /\ ClosedBeforeReplaced

IndInv == TypeOK /\ CheckInv /\ FilesInv /\ OfferInv /\ InstallInv /\ BundleInv

----------------------------------------------------------------------------
(* Values *)

\* Versions are positive, and "no application" is not one.
LEMMA Values == /\ \A v \in Version : v \in Nat /\ v > NoVersion /\ v # NoVersion
                /\ NoVersion \in Nat
                /\ NoApp \notin App
                /\ NoApp.version = NoVersion /\ ~NoApp.sound
BY BoundsAssumption DEF Version, NoVersion, NoApp, App

\* The memory of a process that has just started is well typed.
LEMMA FreshTypes == /\ BlankState \in State /\ Waiting \in Check /\ NoInstall \in Install
                    /\ NoBanner \in Banners \cup {NoBanner}
BY DEF BlankState, State, Phases, Waiting, Check, NoInstall, Install

\* What a verified release becomes: offered only if it was not put off.
LEMMA OfferedFacts ==
    ASSUME state \in State, check \in Check, NEW v \in Version
    PROVE  /\ Offered(v) \in State
           /\ Offered(v).version = v
           /\ Offered(v).asset = state.asset
           /\ Offered(v).phase \in {"idle", "ready"}
           /\ Offered(v).phase = "ready" => Offered(v).dismissed # v
BY Values DEF Offered, State, Phases, Check

----------------------------------------------------------------------------
(* Starting and ending a process *)

LEMMA ProcessKeepsInv ==
    ASSUME IndInv, NEW v \in Version \cup {NoVersion}, NEW opened \in SUBSET Holder,
           Process(v, opened),
           feed' \in Version, files' = files, auto' = auto,
           bundle' \in App \cup {NoApp}, previous' \in App \cup {NoApp}, leaving' \in BOOLEAN,
           troubles' \in 0 .. MaxTroubles, moves' \in 0 .. MaxMoves,
           v # NoVersion => bundle' # NoApp /\ bundle'.version = v,
           bundle' # NoApp => bundle'.sound,
           leaving' => bundle' # NoApp,
           bundle' = NoApp => previous'.sound,
           bundle' # NoApp /\ previous' # NoApp => bundle'.version > previous'.version
    PROVE  IndInv'
<1>1. /\ running' = v /\ lock' = (v # NoVersion) /\ holders' = opened
      /\ state' = BlankState /\ check' = Waiting /\ asked' = 0
      /\ shown' = NoBanner /\ install' = NoInstall
  BY DEF Process
<1>2. /\ state'.phase = "idle" /\ state'.asset = NoVersion
      /\ check'.pc = "waiting" /\ install'.pc = "none"
  BY <1>1 DEF BlankState, Waiting, NoInstall
<1>3. TypeOK'
  <2>1. files \in [Version -> {"none", "sound", "broken"}] /\ auto \in BOOLEAN
    BY DEF IndInv, TypeOK
  <2>2. asked' \in 0 .. MaxAsked
    BY <1>1, BoundsAssumption
  <2>3. lock' \in BOOLEAN
    BY <1>1
  <2>4. QED
    BY <1>1, <2>1, <2>2, <2>3, FreshTypes DEF TypeOK
<1>4. CheckInv' /\ OfferInv'
  BY <1>2 DEF CheckInv, OfferInv, OfferIsInstallable
<1>5. FilesInv'
  BY DEF IndInv, FilesInv
<1>6. InstallInv'
  BY <1>2 DEF InstallInv
<1>7. BundleInv'
  BY <1>1, <1>2, Values DEF BundleInv, AppSurvives, ClosedBeforeReplaced
<1>8. QED BY <1>3, <1>4, <1>5, <1>6, <1>7 DEF IndInv

LEMMA OpenedAreHolders == \A opened \in OpenedAtLaunch : opened \in SUBSET Holder
BY DEF OpenedAtLaunch, Holder

\* A step of Trouble stays within its bound.
LEMMA TroubleType == ASSUME TypeOK, Trouble PROVE troubles' \in 0 .. MaxTroubles
BY BoundsAssumption DEF TypeOK, Trouble

LEMMA ProcessSteps ==
    ASSUME IndInv, Launch \/ Crash \/ RefuseInstall \/ ReplaceFails \/ PlaceFails
                   \/ Relaunch \/ RelaunchFails
    PROVE  IndInv'
<1> USE Values, OpenedAreHolders, TroubleType
<1>t. /\ TypeOK /\ bundle \in App \cup {NoApp} /\ previous \in App \cup {NoApp}
      /\ leaving \in BOOLEAN /\ feed \in Version
      /\ troubles \in 0 .. MaxTroubles /\ moves \in 0 .. MaxMoves
      /\ bundle # NoApp => bundle.version \in Version
  BY DEF IndInv, TypeOK, App
<1>s. AppSurvives /\ (leaving => bundle # NoApp /\ install.pc = "none")
  BY DEF IndInv, BundleInv
<1>1. CASE Launch
  <2>1. PICK opened \in OpenedAtLaunch : Process(bundle.version, opened)
    BY <1>1 DEF Launch
  <2>2. /\ feed' = feed /\ files' = files /\ auto' = auto /\ troubles' = troubles
        /\ moves' = moves /\ bundle' = bundle /\ previous' = previous /\ leaving' = leaving
        /\ bundle # NoApp
    BY <1>1 DEF Launch, disk
  <2>3. QED
    BY <1>t, <1>s, <2>1, <2>2, ProcessKeepsInv DEF AppSurvives
<1>2. CASE Crash \/ RelaunchFails \/ RefuseInstall
  <2>1. /\ feed' = feed /\ files' = files /\ auto' = auto /\ troubles' \in 0 .. MaxTroubles
        /\ moves' = moves /\ bundle' = bundle /\ previous' = previous /\ leaving' = leaving
        /\ Process(NoVersion, {})
    BY <1>2, <1>t DEF Crash, RelaunchFails, RefuseInstall, Exit, disk
  <2>2. QED
    BY <1>t, <1>s, <2>1, ProcessKeepsInv DEF AppSurvives
<1>3. CASE ReplaceFails
  <2>1. /\ feed' = feed /\ files' = files /\ auto' = auto /\ troubles' \in 0 .. MaxTroubles
        /\ moves' = moves /\ bundle' = bundle /\ previous' = NoApp /\ leaving' = leaving
        /\ Process(NoVersion, {}) /\ install.pc = "closed"
    BY <1>3, <1>t DEF ReplaceFails, Exit
  <2>2. bundle # NoApp
    BY <2>1 DEF IndInv, InstallInv, BundleInv
  <2>3. QED
    BY <1>t, <1>s, <2>1, <2>2, ProcessKeepsInv DEF AppSurvives
<1>4. CASE PlaceFails
  <2>1. /\ feed' = feed /\ files' = files /\ auto' = auto /\ troubles' \in 0 .. MaxTroubles
        /\ moves' = moves /\ leaving' = leaving
        /\ Process(NoVersion, {}) /\ install.pc = "placing"
        /\ \/ bundle' = previous /\ previous' = NoApp
           \/ bundle' = bundle /\ previous' = previous
    BY <1>4, <1>t DEF PlaceFails, Exit
  <2>2. bundle = NoApp /\ previous.sound
    BY <1>s, <2>1 DEF IndInv, BundleInv, AppSurvives
  <2>3. QED
    BY <1>s, <1>t, <2>1, <2>2, ProcessKeepsInv
<1>5. CASE Relaunch
  <2>1. PICK opened \in OpenedAtLaunch : Process(bundle.version, opened)
    BY <1>5 DEF Relaunch
  <2>2. /\ feed' = feed /\ files' = files /\ auto' = auto /\ troubles' = troubles
        /\ moves' = moves /\ bundle' = bundle /\ previous' = previous /\ leaving' = TRUE
        /\ install.pc = "relaunching"
    BY <1>5 DEF Relaunch
  <2>3. bundle # NoApp
    BY <2>2 DEF IndInv, BundleInv, InstallInv
  <2>4. QED
    BY <1>t, <1>s, <2>1, <2>2, <2>3, ProcessKeepsInv DEF AppSurvives
<1>6. QED
  BY <1>1, <1>2, <1>3, <1>4, <1>5

----------------------------------------------------------------------------
(* The service thread *)

\* What a step of the service thread leaves alone keeps its part of the invariant.
LEMMA ServiceFrame ==
    ASSUME IndInv, UNCHANGED quiet,
           files' \in [Version -> {"none", "sound", "broken"}], asked' \in 0 .. MaxAsked,
           state' \in State, check' \in Check, troubles' \in 0 .. MaxTroubles,
           CheckInv', FilesInv', OfferInv'
    PROVE  IndInv'
<1>1. TypeOK'
  BY DEF IndInv, TypeOK, quiet, disk, database
<1>2. InstallInv'
  BY DEF IndInv, InstallInv, quiet
<1>3. BundleInv'
  BY DEF IndInv, BundleInv, AppSurvives, ClosedBeforeReplaced, quiet, disk, database
<1>4. QED BY <1>1, <1>2, <1>3 DEF IndInv

\* What IndInv says of the service thread.
LEMMA ServiceFacts ==
    ASSUME IndInv
    PROVE  /\ feed \in Version /\ running \in Nat
           /\ state \in State /\ check \in Check
           /\ state.phase \in Phases /\ state.asset \in Version \cup {NoVersion}
           /\ files \in [Version -> {"none", "sound", "broken"}]
           /\ asked \in 0 .. MaxAsked /\ troubles \in 0 .. MaxTroubles
           /\ TypeOK /\ CheckInv /\ FilesInv /\ OfferInv
BY Values DEF IndInv, TypeOK, State

\* The end of a check that offers nothing.
LEMMA SettledQuietly ==
    ASSUME IndInv, UNCHANGED <<quiet, files, asked>>, troubles' \in 0 .. MaxTroubles,
           Settle, state' \in State, state'.phase # "ready",
           state'.asset \in {state.asset, NoVersion}
    PROVE  IndInv'
<1>1. check' \in Check /\ check'.pc = "waiting"
  BY FreshTypes DEF Settle, Waiting
<1>2. CheckInv'
  BY <1>1 DEF CheckInv
<1>3. FilesInv' /\ running' = running
  BY ServiceFacts DEF FilesInv, quiet
<1>4. OfferInv'
  BY <1>3, ServiceFacts DEF OfferInv, OfferIsInstallable
<1>5. QED
  BY <1>1, <1>2, <1>3, <1>4, ServiceFacts, ServiceFrame

LEMMA ServiceKeepsInv == ASSUME IndInv, ServiceStep PROVE IndInv'
<1> USE ServiceFacts, Values
<1>1. ASSUME NEW manual \in BOOLEAN, StartCheck(manual) PROVE IndInv'
  <2>1. check' \in Check /\ check'.pc = "fetching"
    BY <1>1 DEF StartCheck, Waiting, Check
  <2>2. state' \in State /\ state'.phase = "checking" /\ state'.asset = state.asset
    BY <1>1 DEF StartCheck, State, Phases
  <2>3. asked' \in 0 .. MaxAsked
    BY <1>1, BoundsAssumption DEF StartCheck
  <2>4. UNCHANGED <<quiet, files, troubles>> /\ running' = running
    BY <1>1 DEF StartCheck, quiet
  <2>5. CheckInv' /\ FilesInv' /\ OfferInv'
    BY <2>1, <2>2, <2>4 DEF CheckInv, FilesInv, OfferInv, OfferIsInstallable
  <2>6. QED BY <2>1, <2>2, <2>3, <2>4, <2>5, ServiceFrame
<1>2. CASE DropCheck
  <2>1. UNCHANGED <<quiet, files, state, check, troubles>> /\ running' = running
    BY <1>2 DEF DropCheck, quiet
  <2>2. asked' \in 0 .. MaxAsked
    BY <1>2, BoundsAssumption DEF DropCheck
  <2>3. CheckInv' /\ FilesInv' /\ OfferInv'
    BY <2>1 DEF CheckInv, FilesInv, OfferInv, OfferIsInstallable
  <2>4. QED BY <2>1, <2>2, <2>3, ServiceFrame
<1>3. CASE FetchFails \/ UnusableFeed \/ NotNewer \/ Announce
  <2>1. UNCHANGED <<quiet, files, asked>> /\ Settle
    BY <1>3 DEF FetchFails, UnusableFeed, NotNewer, Announce
  <2>2. troubles' \in 0 .. MaxTroubles
    BY <1>3, TroubleType DEF FetchFails, UnusableFeed, NotNewer, Announce
  <2>3. state' \in State /\ state'.phase # "ready" /\ state'.asset = state.asset
    <3>1. CASE FetchFails
      <4>1. state' = [state EXCEPT !.phase = IF check.manual THEN "failed" ELSE "idle"]
        BY <3>1 DEF FetchFails
      <4>2. \/ state' = [state EXCEPT !.phase = "failed"]
            \/ state' = [state EXCEPT !.phase = "idle"]
        BY <4>1, Zenon
      <4>3. QED BY <4>2 DEF State, Phases
    <3>2. CASE UnusableFeed
      BY <3>2 DEF UnusableFeed, State, Phases
    <3>3. CASE Announce
      BY <3>3 DEF Announce, State, Phases
    <3>4. CASE NotNewer
      <4>1. \/ state' = [state EXCEPT !.phase = "up_to_date", !.version = feed,
                                      !.dismissed = NoVersion]
            \/ state' = [state EXCEPT !.phase = "idle"]
        BY <3>4, Zenon DEF NotNewer
      <4>2. QED BY <4>1 DEF State, Phases
    <3>5. QED BY <1>3, <3>1, <3>2, <3>3, <3>4
  <2>4. QED BY <2>1, <2>2, <2>3, SettledQuietly
<1>4. CASE DownloadFails \/ RejectDownload \/ RenameFails
  <2>1. UNCHANGED <<quiet, files, asked>> /\ Reject
    BY <1>4 DEF DownloadFails, RejectDownload, RenameFails
  <2>2. troubles' \in 0 .. MaxTroubles
    BY <1>4, TroubleType DEF DownloadFails, RejectDownload, RenameFails
  <2>3. state' \in State /\ state'.phase = "failed" /\ state'.asset = NoVersion /\ Settle
    BY <2>1 DEF Reject, State, Phases
  <2>4. QED BY <2>1, <2>2, <2>3, SettledQuietly
<1>5. CASE OfferVerified
  <2>1. /\ UNCHANGED <<quiet, files, asked, troubles>> /\ running' = running
        /\ state' = Offered(feed) /\ files[state.asset] # "none" /\ Settle
        /\ state.asset # NoVersion
    BY <1>5 DEF OfferVerified, AlreadyVerified, quiet
  <2>2. files[state.asset] = "sound" /\ state.asset > running
    BY <2>1 DEF FilesInv, OfferInv
  <2>3. /\ state' \in State /\ state'.asset = state.asset /\ state'.version = feed
        /\ state'.phase = "ready" => state'.dismissed # feed
    BY <2>1, OfferedFacts
  <2>4. check' \in Check /\ check'.pc = "waiting"
    BY <2>1, FreshTypes DEF Settle, Waiting
  <2>5. CheckInv' /\ FilesInv' /\ OfferInv'
    BY <2>1, <2>2, <2>3, <2>4 DEF CheckInv, FilesInv, OfferInv, OfferIsInstallable
  <2>6. QED BY <2>1, <2>3, <2>4, <2>5, ServiceFrame
<1>6. CASE StartDownload
  <2>1. /\ UNCHANGED <<quiet, files, asked, troubles>> /\ running' = running
        /\ feed > running
    BY <1>6 DEF StartDownload, quiet
  <2>2. check' \in Check /\ check'.pc = "downloading" /\ check'.found = feed
    BY <1>6 DEF StartDownload, Check
  <2>3. state' \in State /\ state'.phase = "downloading" /\ state'.asset = state.asset
    BY <1>6 DEF StartDownload, State, Phases
  <2>4. CheckInv' /\ FilesInv' /\ OfferInv'
    BY <2>1, <2>2, <2>3 DEF CheckInv, FilesInv, OfferInv, OfferIsInstallable
  <2>5. QED BY <2>1, <2>2, <2>3, <2>4, ServiceFrame
<1>7. ASSUME NEW sound \in BOOLEAN, Download(sound) PROVE IndInv'
  <2>1. /\ UNCHANGED <<quiet, files, state, asked>> /\ running' = running
        /\ check.pc = "downloading"
    BY <1>7 DEF Download, quiet
  <2>2. troubles' \in 0 .. MaxTroubles
    BY <1>7, BoundsAssumption DEF Download
  <2>3. check' \in Check /\ check'.pc = "downloaded" /\ check'.found = check.found
    BY <1>7 DEF Download, Check
  <2>4. CheckInv' /\ FilesInv' /\ OfferInv'
    BY <2>1, <2>3 DEF CheckInv, FilesInv, OfferInv, OfferIsInstallable
  <2>5. QED BY <2>1, <2>2, <2>3, <2>4, ServiceFrame
<1>8. CASE RemoveOldAsset
  <2>1. /\ UNCHANGED <<quiet, state, asked, troubles>> /\ running' = running
        /\ check.pc = "downloaded" /\ check.sound
        /\ files' = [files EXCEPT ![check.found] = "none"]
    BY <1>8 DEF RemoveOldAsset, Verified, quiet
  <2>2. check' \in Check /\ check'.pc = "replacing" /\ check'.found = check.found /\ check'.sound
    BY <1>8, <2>1 DEF RemoveOldAsset, Check
  <2>3. state.phase # "ready" /\ check.found \in Version /\ check.found > running
    BY <2>1 DEF CheckInv
  <2>4. files' \in [Version -> {"none", "sound", "broken"}] /\ FilesInv'
    BY <2>1, <2>3 DEF FilesInv
  <2>5. CheckInv' /\ OfferInv'
    BY <2>1, <2>2, <2>3 DEF CheckInv, OfferInv, OfferIsInstallable
  <2>6. QED BY <2>1, <2>2, <2>4, <2>5, ServiceFrame
<1>9. CASE FinishDownload
  <2>1. check.pc = "replacing" /\ check.sound /\ check.found \in Version /\ check.found > running
    BY <1>9 DEF FinishDownload, CheckInv
  <2>2. /\ UNCHANGED <<quiet, asked, troubles>> /\ running' = running /\ Settle
        /\ files' = [files EXCEPT ![check.found] = "sound"]
        /\ state' = [Offered(check.found) EXCEPT !.asset = check.found]
    BY <1>9, <2>1 DEF FinishDownload, quiet
  <2>3. check' \in Check /\ check'.pc = "waiting"
    BY <2>2, FreshTypes DEF Settle, Waiting
  <2>4. /\ files' \in [Version -> {"none", "sound", "broken"}] /\ FilesInv'
        /\ files'[check.found] = "sound"
    BY <2>1, <2>2 DEF FilesInv
  <2>5. /\ state' \in State /\ state'.asset = check.found /\ state'.version = check.found
        /\ state'.phase = "ready" => state'.dismissed # check.found
    BY <2>1, <2>2, OfferedFacts DEF State
  <2>6. CheckInv' /\ OfferInv'
    BY <2>1, <2>2, <2>3, <2>4, <2>5 DEF CheckInv, OfferInv, OfferIsInstallable
  <2>7. QED BY <2>2, <2>3, <2>4, <2>5, <2>6, ServiceFrame
<1>10. QED
  BY <1>1, <1>2, <1>3, <1>4, <1>5, <1>6, <1>7, <1>8, <1>9 DEF ServiceStep

----------------------------------------------------------------------------
(* The page and the threads of host functions *)

LEMMA PageKeepsInv ==
    ASSUME IndInv, PollUpdateStatus \/ Later \/ CheckNow \/ SetAutoDownload
                   \/ StartTask \/ EndTask \/ Leave \/ \E v \in Version : FeedMoves(v)
    PROVE  IndInv'
<1> USE ServiceFacts
<1>1. /\ UNCHANGED <<files, check, running, bundle, lock, troubles, install>>
      /\ state' = state \/ Later
  BY DEF PollUpdateStatus, Later, CheckNow, SetAutoDownload, StartTask, EndTask, Leave,
         FeedMoves, elsewhere, disk, database
<1>2. /\ state' \in State /\ state'.asset = state.asset
      /\ state' = state \/ state'.phase # "ready"
  BY <1>1 DEF Later, State, Phases, Banners
<1>3. CheckInv' /\ FilesInv' /\ OfferInv'
  BY <1>1, <1>2 DEF CheckInv, FilesInv, OfferInv, OfferIsInstallable
<1>4. previous' \in {previous, NoApp}
  BY DEF PollUpdateStatus, Later, CheckNow, SetAutoDownload, StartTask, EndTask, Leave,
         FeedMoves, elsewhere, disk
<1>5. previous' = previous \/ Leave
  BY DEF PollUpdateStatus, Later, CheckNow, SetAutoDownload, StartTask, EndTask, Leave,
         FeedMoves, elsewhere, disk
<1>6. InstallInv'
  BY <1>1 DEF IndInv, InstallInv
<1>7. TypeOK'
  <2>1. feed' \in Version /\ moves' \in 0 .. MaxMoves
    BY BoundsAssumption DEF TypeOK, PollUpdateStatus, Later, CheckNow, SetAutoDownload,
          StartTask, EndTask, Leave, FeedMoves, elsewhere
  <2>2. /\ shown' \in Banners \cup {NoBanner} /\ auto' \in BOOLEAN
    BY DEF TypeOK, PollUpdateStatus, Later, CheckNow, SetAutoDownload,
          StartTask, EndTask, Leave, FeedMoves
  <2>6. asked' \in 0 .. MaxAsked
    BY BoundsAssumption DEF TypeOK, PollUpdateStatus, Later, CheckNow, SetAutoDownload,
          StartTask, EndTask, Leave, FeedMoves
  <2>3. holders' \in SUBSET Holder
    BY DEF TypeOK, PollUpdateStatus, Later, CheckNow, SetAutoDownload,
          StartTask, EndTask, Leave, FeedMoves, elsewhere, database, Holder
  <2>4. leaving' \in BOOLEAN
    BY DEF TypeOK, PollUpdateStatus, Later, CheckNow, SetAutoDownload,
          StartTask, EndTask, Leave, FeedMoves, elsewhere, disk
  <2>5. QED
    BY <1>1, <1>2, <1>4, <2>1, <2>2, <2>3, <2>4, <2>6 DEF TypeOK
<1>8. BundleInv'
  <2>1. CASE previous' = previous
    <3>1. leaving' = leaving \/ ~leaving'
      BY DEF PollUpdateStatus, Later, CheckNow, SetAutoDownload, StartTask, EndTask, Leave,
             FeedMoves, elsewhere, disk
    <3>2. QED
      BY <1>1, <2>1, <3>1 DEF IndInv, BundleInv, AppSurvives, ClosedBeforeReplaced
  <2>2. CASE Leave /\ previous' = NoApp
    <3>1. leaving /\ ~leaving'
      BY <2>2 DEF Leave
    <3>2. QED
      BY <1>1, <2>2, <3>1 DEF IndInv, BundleInv, AppSurvives, ClosedBeforeReplaced
  <2>3. QED BY <1>4, <1>5, <2>1, <2>2
<1>9. QED BY <1>3, <1>6, <1>7, <1>8 DEF IndInv

----------------------------------------------------------------------------
(* install_ready_update, up to the end of the process *)

\* A step of the installation that keeps the process running.
LEMMA InstallFrame ==
    ASSUME IndInv, UNCHANGED <<others, running>>,
           state' \in State, state'.asset = state.asset,
           state' = state \/ state'.phase # "ready",
           install' \in Install, holders' \in SUBSET Holder, lock' \in BOOLEAN,
           bundle' \in App \cup {NoApp}, previous' \in App \cup {NoApp}, leaving' = leaving,
           troubles' \in 0 .. MaxTroubles, InstallInv', BundleInv'
    PROVE  IndInv'
<1>1. TypeOK'
  BY DEF IndInv, TypeOK, others
<1>2. CheckInv' /\ FilesInv' /\ OfferInv'
  BY ServiceFacts DEF CheckInv, FilesInv, OfferInv, OfferIsInstallable, others
<1>3. QED BY <1>1, <1>2 DEF IndInv

\* What IndInv says of the installation.
LEMMA InstallFacts ==
    ASSUME IndInv
    PROVE  /\ install \in Install /\ holders \in SUBSET Holder /\ lock \in BOOLEAN
           /\ bundle \in App \cup {NoApp} /\ previous \in App \cup {NoApp}
           /\ InstallInv /\ BundleInv /\ AppSurvives /\ ClosedBeforeReplaced
           /\ bundle # NoApp => bundle.version \in Nat
BY Values DEF IndInv, TypeOK, BundleInv, App

\* An installation that fails before the application is touched.
LEMMA FailedInstallKeepsInv ==
    ASSUME IndInv, FailInstall, UNCHANGED <<others, disk, running, database>>,
           install.pc \in {"none", "preparing"}, troubles' \in 0 .. MaxTroubles
    PROVE  IndInv'
<1> USE ServiceFacts, InstallFacts
<1>1. /\ bundle' = bundle /\ previous' = previous /\ leaving' = leaving
      /\ lock' = lock /\ holders' = holders /\ running' = running
  BY DEF disk, database
<1>2. install' = NoInstall /\ install' \in Install /\ install'.pc = "none"
  BY FreshTypes DEF FailInstall, NoInstall
<1>3. state' \in State /\ state'.phase = "failed" /\ state'.asset = state.asset
  BY DEF FailInstall, State, Phases
<1>4. InstallInv'
  BY <1>2 DEF InstallInv
<1>5. BundleInv'
  BY <1>1, <1>2 DEF BundleInv, AppSurvives, ClosedBeforeReplaced
<1>6. QED BY <1>1, <1>2, <1>3, <1>4, <1>5, InstallFrame

LEMMA PressKeepsInv == ASSUME IndInv, PressInstall PROVE IndInv'
<1> USE ServiceFacts, InstallFacts
<1>1. /\ UNCHANGED <<others, disk, running, database, troubles>>
      /\ bundle' = bundle /\ previous' = previous /\ leaving' = leaving
      /\ lock' = lock /\ holders' = holders /\ running' = running /\ troubles' = troubles
      /\ running # NoVersion /\ install.pc = "none" /\ ~leaving
  BY DEF PressInstall, PageIsFree, disk, database
<1>2. CASE state.asset = NoVersion
  BY <1>1, <1>2, FailedInstallKeepsInv DEF PressInstall
<1>3. CASE state.asset # NoVersion
  <2> DEFINE staged == [version |-> state.asset, sound |-> FALSE]
  <2>1. install' = [install EXCEPT !.pc = "preparing", !.staged = staged]
    BY <1>3 DEF PressInstall
  <2>2. staged \in App /\ staged.version > running
    BY <1>3 DEF App, OfferInv
  <2>3. /\ install' \in Install /\ install'.pc = "preparing" /\ install'.staged = staged
    BY <2>1, <2>2 DEF Install
  <2>4. state' \in State /\ state'.phase = "installing" /\ state'.asset = state.asset
    BY <1>3 DEF PressInstall, State, Phases
  <2>5. InstallInv'
    BY <1>1, <2>2, <2>3 DEF InstallInv
  <2>6. BundleInv'
    BY <1>1, <2>3 DEF BundleInv, AppSurvives, ClosedBeforeReplaced
  <2>7. QED BY <1>1, <2>3, <2>4, <2>5, <2>6, InstallFrame
<1>4. QED BY <1>2, <1>3

LEMMA InstallKeepsInv ==
    ASSUME IndInv, Prepare \/ PrepareFails \/ WorkerStops \/ ReleaseDatabase \/ Replace \/ Place
    PROVE  IndInv'
<1> USE ServiceFacts, InstallFacts, Values
<1>1. CASE Prepare
  <2>1. /\ UNCHANGED <<others, running, state, troubles>>
        /\ bundle' = bundle /\ previous' = previous /\ leaving' = leaving
        /\ lock' = lock /\ holders' = holders /\ running' = running
        /\ install.pc = "preparing" /\ files[install.staged.version] # "none"
        /\ install' = [install EXCEPT !.pc = "closing",
                          !.staged.sound = (files[install.staged.version] = "sound")]
    BY <1>1 DEF Prepare, disk, database
  <2>2. install.staged \in App /\ install.staged.version > running /\ running # NoVersion
    BY <2>1 DEF InstallInv
  <2>3. install.staged.version \in Version
    BY <2>2 DEF App
  <2>4. files[install.staged.version] = "sound"
    BY <2>1, <2>3 DEF FilesInv
  <2>5. install' = [install EXCEPT !.pc = "closing", !.staged.sound = TRUE]
    BY <2>1, <2>4, Zenon
  <2>6. /\ install'.pc = "closing" /\ install'.staged = [install.staged EXCEPT !.sound = TRUE]
        /\ install' \in Install
    BY <2>2, <2>5 DEF Install, App
  <2>7. /\ install'.staged \in App /\ install'.staged.sound
        /\ install'.staged.version = install.staged.version
    BY <2>2, <2>6 DEF App
  <2>8. InstallInv'
    BY <2>1, <2>2, <2>6, <2>7 DEF InstallInv
  <2>9. BundleInv'
    BY <2>1, <2>6 DEF BundleInv, AppSurvives, ClosedBeforeReplaced
  <2>10. QED BY <2>1, <2>6, <2>8, <2>9, InstallFrame
<1>2. CASE PrepareFails
  <2>1. troubles' \in 0 .. MaxTroubles
    BY <1>2, TroubleType DEF PrepareFails
  <2>2. QED BY <1>2, <2>1, FailedInstallKeepsInv DEF PrepareFails
<1>3. CASE WorkerStops \/ ReleaseDatabase
  <2>1. /\ UNCHANGED <<others, running, state, troubles>>
        /\ bundle' = bundle /\ previous' = previous /\ leaving' = leaving
        /\ install.pc = "closing" /\ holders' \in SUBSET Holder /\ running' = running
    BY <1>3 DEF WorkerStops, ReleaseDatabase, disk
  <2>6. lock' \in BOOLEAN
    BY <1>3 DEF WorkerStops, ReleaseDatabase
  <2>2. /\ install' \in Install /\ install'.pc \in {"closing", "closed"}
        /\ install'.staged = install.staged
    BY <1>3, <2>1 DEF WorkerStops, ReleaseDatabase, Install
  <2>3. InstallInv'
    BY <2>1, <2>2 DEF InstallInv
  <2>4. BundleInv'
    BY <2>1, <2>2 DEF BundleInv, InstallInv, AppSurvives, ClosedBeforeReplaced
  <2>5. QED BY <2>1, <2>2, <2>3, <2>4, <2>6, InstallFrame
<1>4. CASE Replace
  <2>1. /\ UNCHANGED <<others, leaving, running, database, state, troubles>>
        /\ bundle' = NoApp /\ previous' = bundle /\ leaving' = leaving
        /\ lock' = lock /\ holders' = holders /\ running' = running
        /\ install.pc = "closed" /\ ~lock
        /\ install' = [install EXCEPT !.pc = "placing"]
    BY <1>4 DEF Replace, MoveAside, OwnerLockReleased, database
  <2>2. install' \in Install /\ install'.pc = "placing" /\ install'.staged = install.staged
    BY <2>1 DEF Install
  <2>3. bundle # NoApp /\ bundle.version = running /\ bundle.sound /\ ~leaving
    BY <2>1 DEF InstallInv, BundleInv, AppSurvives
  <2>4. InstallInv'
    BY <2>1, <2>2 DEF InstallInv
  <2>5. BundleInv'
    BY <2>1, <2>2, <2>3 DEF BundleInv, AppSurvives, ClosedBeforeReplaced
  <2>6. QED BY <2>1, <2>2, <2>4, <2>5, InstallFrame
<1>5. CASE Place
  <2>1. /\ UNCHANGED <<others, previous, leaving, running, database, state, troubles>>
        /\ bundle' = install.staged /\ previous' = previous /\ leaving' = leaving
        /\ lock' = lock /\ holders' = holders /\ running' = running
        /\ install.pc = "placing"
        /\ install' = [install EXCEPT !.pc = "relaunching"]
    BY <1>5 DEF Place, database
  <2>2. /\ install' \in Install /\ install'.pc = "relaunching"
        /\ install'.staged = install.staged
    BY <2>1 DEF Install
  <2>3. /\ install.staged \in App /\ install.staged.sound /\ install.staged.version > running
        /\ previous.version = running /\ ~leaving /\ ~lock
    BY <2>1 DEF InstallInv, BundleInv, ClosedBeforeReplaced
  <2>4. InstallInv'
    BY <2>1, <2>2 DEF InstallInv
  <2>5. BundleInv'
    BY <2>1, <2>2, <2>3 DEF BundleInv, AppSurvives, ClosedBeforeReplaced
  <2>6. QED BY <2>1, <2>2, <2>3, <2>4, <2>5, InstallFrame
<1>6. QED BY <1>1, <1>2, <1>3, <1>4, <1>5

----------------------------------------------------------------------------
(* The theorems *)

\* The application is installed and sound, nothing is offered and nothing is done.
LEMMA InitInv == Init => IndInv
<1> SUFFICES ASSUME Init PROVE IndInv
  OBVIOUS
<1> USE Values, FreshTypes, BoundsAssumption
<1>1. 1 \in Version /\ bundle \in App /\ bundle.version = 1 /\ bundle.sound
  BY DEF Init, App, Version
<1>2. /\ state.phase = "idle" /\ state.asset = NoVersion /\ check.pc = "waiting"
      /\ install.pc = "none" /\ running = 1
  BY DEF Init, BlankState, Waiting, NoInstall
<1>3. TypeOK
  <2>1. files \in [Version -> {"none", "sound", "broken"}]
    BY DEF Init
  <2>2. running \in Version /\ holders \in SUBSET Holder
    BY <1>1, OpenedAreHolders DEF Init
  <2>3. asked \in 0 .. MaxAsked /\ troubles \in 0 .. MaxTroubles /\ moves \in 0 .. MaxMoves
    BY DEF Init
  <2>4. state \in State /\ check \in Check /\ install \in Install
    BY DEF Init
  <2>5. QED BY <1>1, <2>1, <2>2, <2>3, <2>4 DEF Init, TypeOK
<1>4. CheckInv /\ FilesInv /\ OfferInv /\ InstallInv
  BY <1>2 DEF Init, CheckInv, FilesInv, OfferInv, OfferIsInstallable, InstallInv
<1>5. BundleInv
  BY <1>1, <1>2 DEF Init, BundleInv, AppSurvives, ClosedBeforeReplaced
<1>6. QED BY <1>3, <1>4, <1>5 DEF IndInv

\* Every step of the service thread, the page and the installation keeps it.
LEMMA NextKeepsInv == IndInv /\ [Next]_vars => IndInv'
<1> SUFFICES ASSUME IndInv, [Next]_vars PROVE IndInv'
  OBVIOUS
<1>1. CASE Next
  BY <1>1, ServiceKeepsInv, PageKeepsInv, PressKeepsInv, InstallKeepsInv, ProcessSteps
     DEF Next, InstallStep
<1>2. CASE UNCHANGED vars
  BY <1>2 DEF vars, disk, database, IndInv, TypeOK, CheckInv, FilesInv, OfferInv,
        OfferIsInstallable, InstallInv, BundleInv, AppSurvives, ClosedBeforeReplaced
<1>3. QED BY <1>1, <1>2

\* The inductive invariant holds in every reachable state.
THEOREM Invariance == Spec => []IndInv
BY InitInv, NextKeepsInv, PTL DEF Spec

\* Every state is well typed.
THEOREM TypeCorrect == Spec => []TypeOK
<1>1. IndInv => TypeOK
  BY DEF IndInv
<1>2. QED BY <1>1, Invariance, PTL

\* Whatever fails or dies during an installation, a verified application is
\* installed or lies beside its place (commit_macos, commit_linux_tree).
THEOREM ApplicationSurvives == Spec => []AppSurvives
<1>1. IndInv => AppSurvives
  BY DEF IndInv, BundleInv
<1>2. QED BY <1>1, Invariance, PTL

\* The application is taken apart only after its database is closed
\* (owner_lock_released).
THEOREM DatabaseIsClosedFirst == Spec => []ClosedBeforeReplaced
<1>1. IndInv => ClosedBeforeReplaced
  BY DEF IndInv, BundleInv
<1>2. QED BY <1>1, Invariance, PTL

\* A release that is offered can be installed and was not put off
\* (run_check, download_verified, dismiss).
THEOREM OffersAreInstallable == Spec => []OfferIsInstallable
<1>1. IndInv => OfferIsInstallable
  BY DEF IndInv, OfferInv
<1>2. QED BY <1>1, Invariance, PTL

=============================================================================
