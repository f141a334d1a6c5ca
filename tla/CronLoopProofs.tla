--------------------------- MODULE CronLoopProofs ---------------------------
(* Theorems about CronLoop, for every bound. *)
EXTENDS CronLoop, TLAPS

USE DEF Window, Threads

\* Every flag, program counter and counter keeps its type, whatever threads
\* lock the gate; the wake channel never holds more than one message.
THEOREM TypeCorrect == Spec => []TypeOK
<1>1. Init => TypeOK
  <2> SUFFICES ASSUME Init PROVE TypeOK
    OBVIOUS
  <2>1. unlocked \in BOOLEAN /\ paused \in BOOLEAN
    BY Zenon DEF Init
  <2>2. thread \in [Threads -> {"idle"}]
    BY Zenon DEF Init
  <2>3. gates \in 0 .. MaxGates /\ queued \in 0 .. MaxQueued /\ messages \in 0 .. 1
    BY BoundsAssumption DEF Init
  <2> QED  BY <2>1, <2>2, <2>3 DEF Init, TypeOK
<1>2. TypeOK /\ [Next]_vars => TypeOK'
  <2> SUFFICES ASSUME TypeOK, [Next]_vars PROVE TypeOK'
    OBVIOUS
  <2> USE BoundsAssumption DEF TypeOK
  <2>1. CASE WorkerStep
    <3>1. CASE EnterLoop \/ CheckShutdown \/ CheckPaused \/ FinishTick
      BY <3>1 DEF EnterLoop, CheckShutdown, CheckPaused, FinishTick, Proceed
    <3>2. CASE ListQueue
      BY <3>2 DEF ListQueue
    <3>3. CASE ReceiveWake
      BY <3>3 DEF ReceiveWake
    <3> QED  BY <2>1, <3>1, <3>2, <3>3 DEF WorkerStep
  <2>2. CASE MinutePasses
    BY <2>2 DEF MinutePasses, Proceed
  <2>3. ASSUME NEW t \in Threads, ThreadStep(t) PROVE TypeOK'
    <3>1. CASE ReadGate(t)
      BY <3>1 DEF ReadGate, Go
    <3>2. CASE SetPaused(t)
      BY <3>2 DEF SetPaused, Go
    <3>3. CASE WakeWorker(t)
      BY <3>3 DEF WakeWorker, Wake, ChannelOpen, Go
    <3> QED  BY <2>3, <3>1, <3>2, <3>3 DEF ThreadStep
  <2>4. ASSUME NEW t \in Threads, NEW open \in BOOLEAN, SetUnlocked(t, open)
        PROVE TypeOK'
    BY <2>4 DEF SetUnlocked, Go
  <2>5. CASE StartWorker
    BY <2>5 DEF StartWorker
  <2>6. CASE QueueReturn
    BY <2>6 DEF QueueReturn, Go
  <2>7. CASE RequestShutdown
    BY <2>7 DEF RequestShutdown, AfterShutdown, Go
  <2>8. CASE UNCHANGED vars
    BY <2>8 DEF vars
  <2> QED  BY <2>1, <2>2, <2>3, <2>4, <2>5, <2>6, <2>7, <2>8 DEF Next
<1> QED  BY <1>1, <1>2, PTL DEF Spec

\* While no call began inside another one, at most one thread is inside
\* set_unlocked, and what it is about to store agrees with the gate.
PauseInv ==
    /\ PausedIsLocked
    /\ ~raced =>
         /\ \A t, o \in Threads : Setting(t) /\ Setting(o) => t = o
         /\ \A t \in Threads : thread[t] = "pausing" => ~unlocked
         /\ \A t \in Threads : thread[t] = "unpausing" => unlocked

\* Whichever threads set the gate, and however often, filing is paused exactly
\* while the gate is locked, between calls of which the latest did not overlap
\* with another (set_unlocked).
THEOREM PauseFollowsGate == Spec => []PausedIsLocked
<1>1. Init => PauseInv
  <2> SUFFICES ASSUME Init PROVE PauseInv
    OBVIOUS
  <2>1. \A t \in Threads : thread[t] = "idle"
    BY Zenon DEF Init
  <2>2. paused = ~unlocked
    BY Zenon DEF Init
  <2> QED  BY <2>1, <2>2 DEF PauseInv, PausedIsLocked, Setting
<1>2. TypeOK /\ PauseInv /\ [Next]_vars => PauseInv'
  <2> SUFFICES ASSUME TypeOK, PauseInv, [Next]_vars PROVE PauseInv'
    OBVIOUS
  <2> USE DEF TypeOK, PauseInv, PausedIsLocked, Setting
  <2>1. CASE WorkerStep
    BY <2>1 DEF WorkerStep, EnterLoop, CheckShutdown, CheckPaused, ListQueue,
                FinishTick, ReceiveWake, Proceed
  <2>2. CASE MinutePasses
    BY <2>2 DEF MinutePasses, Proceed
  <2>3. ASSUME NEW t \in Threads, ThreadStep(t) PROVE PauseInv'
    <3>1. CASE ReadGate(t)
      BY <3>1 DEF ReadGate, Go
    <3>2. CASE SetPaused(t)
      <4>1. /\ UNCHANGED <<unlocked, raced>>
            /\ thread'[t] \in {"idle", "waking"}
            /\ \A o \in Threads \ {t} : thread'[o] = thread[o]
        BY <3>2 DEF SetPaused, Go
      <4>2. ~raced => \A o \in Threads \ {t} : ~Setting(o)
        BY <3>2 DEF SetPaused
      <4>3. ~raced => paused' = ~unlocked
        <5>1. CASE thread[t] = "pausing"
          <6>1. paused' <=> thread[t] = "pausing"
            BY <3>2 DEF SetPaused
          <6>2. ~raced => ~unlocked
            BY <5>1
          <6>3. paused' = TRUE
            BY <3>2, <5>1 DEF SetPaused
          <6> QED  BY <6>2, <6>3
        <5>2. CASE thread[t] = "unpausing"
          <6>1. paused' <=> thread[t] = "pausing"
            BY <3>2 DEF SetPaused
          <6>2. ~raced => unlocked
            BY <5>2
          <6> QED  BY <5>2, <6>1, <6>2, Zenon
        <5> QED  BY <3>2, <5>1, <5>2 DEF SetPaused
      <4>4. ~raced => \A o \in Threads : ~Setting(o)'
        BY <4>1, <4>2
      <4>5. PausedIsLocked'
        <5> SUFFICES ASSUME ~raced PROVE paused' = ~unlocked'
          BY <4>1
        <5> QED  BY <4>1, <4>3, Zenon
      <4> QED  BY <4>1, <4>4, <4>5
    <3>3. CASE WakeWorker(t)
      BY <3>3 DEF WakeWorker, Go
    <3> QED  BY <2>3, <3>1, <3>2, <3>3 DEF ThreadStep
  <2>4. ASSUME NEW t \in Threads, NEW open \in BOOLEAN, SetUnlocked(t, open)
        PROVE PauseInv'
    BY <2>4 DEF SetUnlocked, Go
  <2>5. CASE StartWorker
    BY <2>5 DEF StartWorker
  <2>6. CASE QueueReturn
    BY <2>6 DEF QueueReturn, Go
  <2>7. CASE RequestShutdown
    BY <2>7 DEF RequestShutdown, AfterShutdown, Go
  <2>8. CASE UNCHANGED vars
    BY <2>8 DEF vars
  <2> QED  BY <2>1, <2>2, <2>3, <2>4, <2>5, <2>6, <2>7, <2>8 DEF Next
<1>3. PauseInv => PausedIsLocked
  BY DEF PauseInv
<1> QED  BY <1>1, <1>2, <1>3, TypeCorrect, PTL DEF Spec

=============================================================================
