------------------------------ MODULE CronLoop ------------------------------
(***************************************************************************)
(* When the background worker ticks: the cron loop with its wake channel,  *)
(* the account gate that pauses it and the shutdown that ends it           *)
(* (background_cron.rs, account_gate.rs, bir_module.rs).                   *)
(*                                                                         *)
(* The window thread signs in, locks, queues returns and quits; the        *)
(* threads in Refreshers lock the gate when the server refuses a session   *)
(* or the user signs out.  The flags are atomics without a lock around     *)
(* them: every read and every write of one is a step.                      *)
(* What a tick does is reduced to reading the queue (FilingQueue and       *)
(* ReceiptPoll have the rest).                                             *)
(*                                                                         *)
(* X_Slip is X with a plausible mistake, used only to show that a property *)
(* notices it.                                                             *)
(***************************************************************************)
EXTENDS Naturals

CONSTANTS
    Refreshers,   \* account threads that may lock the gate on their own
    MaxGates,     \* bound: how often the gate is opened or closed
    MaxQueued     \* bound: how often the user queues a return

Window == 0       \* the thread of the user interface

ASSUME RefreshersAssumption == Refreshers \subseteq Nat \ {Window}
ASSUME BoundsAssumption == MaxGates \in Nat /\ MaxQueued \in Nat

VARIABLES
    unlocked,   \* UNLOCKED, the gate
    paused,     \* SUBMISSION_PAUSED
    shutdown,   \* SHUTDOWN
    messages,   \* in the wake channel
    loop,       \* where the worker is in start_cron_jobs
    thread,     \* where the other threads are in a call that sets a flag
    waiting,    \* a queued return that no tick has read yet
    raced,      \* history: the latest set_unlocked began inside another
    gates, queued

vars == <<unlocked, paused, shutdown, messages, loop, thread, waiting, raced, gates, queued>>

Threads == {Window} \cup Refreshers

\* prepare_launch has set the gate; a worker is started when it is open.
Init == /\ unlocked \in BOOLEAN
        /\ paused = ~unlocked
        /\ shutdown = FALSE
        /\ messages = 0
        /\ loop = IF unlocked THEN "spawned" ELSE "off"
        /\ thread = [t \in Threads |-> "idle"]
        /\ waiting = FALSE
        /\ raced = FALSE
        /\ gates = 0 /\ queued = 0

----------------------------------------------------------------------------
(* Calls of the other threads *)

Go(t, pc) == thread' = [thread EXCEPT ![t] = pc]

\* The loop keeps the receiving end from its start to its return.
ChannelOpen == loop \notin {"off", "spawned", "stopped"}

Wake_Unbounded == IF ChannelOpen THEN messages + 1 ELSE messages
Wake_UnlessBusy == IF ChannelOpen /\ loop \in {"resting", "pausing"} THEN 1 ELSE messages

\* try_send on a channel of one: the messages after it.
Wake == IF ChannelOpen THEN 1 ELSE messages

\* t is inside set_unlocked, where the gate and the pause may differ.
Setting(t) == thread[t] \in {"stored", "pausing", "unpausing"}

\* UNLOCKED.store
SetUnlocked(t, open) ==
    /\ thread[t] = "idle" /\ ~shutdown
    /\ gates < MaxGates
    /\ gates' = gates + 1
    /\ unlocked' = open
    /\ raced' = \E o \in Threads \ {t} : Setting(o)
    /\ Go(t, "stored")
    /\ UNCHANGED <<paused, shutdown, messages, loop, waiting, queued>>

ReadGate_KeepsPause(t) ==
    /\ thread[t] = "stored"
    /\ Go(t, IF unlocked THEN "waking" ELSE "pausing")
    /\ UNCHANGED <<unlocked, paused, shutdown, messages, loop, waiting, raced, gates, queued>>

\* Whether to pause is read back from the gate.
ReadGate(t) ==
    /\ thread[t] = "stored"
    /\ Go(t, IF unlocked THEN "unpausing" ELSE "pausing")
    /\ UNCHANGED <<unlocked, paused, shutdown, messages, loop, waiting, raced, gates, queued>>

\* set_submission_paused: clearing the flag is followed by a wake.
SetPaused(t) ==
    /\ thread[t] \in {"pausing", "unpausing"}
    /\ paused' = (thread[t] = "pausing")
    /\ Go(t, IF thread[t] = "pausing" THEN "idle" ELSE "waking")
    /\ UNCHANGED <<unlocked, shutdown, messages, loop, waiting, raced, gates, queued>>

\* The first unlocked open starts the worker, once per process.
StartWorker ==
    /\ thread[Window] = "idle" /\ ~shutdown
    /\ unlocked
    /\ loop = "off"
    /\ loop' = "spawned"
    /\ UNCHANGED <<unlocked, paused, shutdown, messages, thread, waiting, raced, gates, queued>>

\* A host verb, refused while locked, queues a return and wakes the worker.
QueueReturn ==
    /\ thread[Window] = "idle" /\ ~shutdown
    /\ unlocked
    /\ queued < MaxQueued
    /\ queued' = queued + 1
    /\ waiting' = TRUE
    /\ Go(Window, "waking")
    /\ UNCHANGED <<unlocked, paused, shutdown, messages, loop, raced, gates>>

AfterShutdown_NoWake == "idle"

\* request_shutdown sets the flag, then wakes a loop that waits.
AfterShutdown == "waking"

RequestShutdown ==
    /\ thread[Window] = "idle" /\ ~shutdown
    /\ shutdown' = TRUE
    /\ Go(Window, AfterShutdown)
    /\ UNCHANGED <<unlocked, paused, messages, loop, waiting, raced, gates, queued>>

WakeWorker(t) ==
    /\ thread[t] = "waking"
    /\ messages' = Wake
    /\ Go(t, "idle")
    /\ UNCHANGED <<unlocked, paused, shutdown, loop, waiting, raced, gates, queued>>

----------------------------------------------------------------------------
(* The worker: start_cron_jobs *)

\* One step of the worker that touches no flag and not the queue.
Proceed(from, to) ==
    /\ loop = from
    /\ loop' = to
    /\ UNCHANGED <<unlocked, paused, shutdown, messages, thread, waiting, raced, gates, queued>>

\* The new thread creates the channel.
EnterLoop == Proceed("spawned", "top")

CheckShutdown == Proceed("top", IF shutdown THEN "stopped" ELSE "admitted")

CheckPaused == Proceed("admitted", IF paused THEN "pausing" ELSE "ticking")

\* The tick lists what is queued; the rest of it takes its time.
ListQueue ==
    /\ loop = "ticking"
    /\ loop' = "filing"
    /\ waiting' = FALSE
    /\ UNCHANGED <<unlocked, paused, shutdown, messages, thread, raced, gates, queued>>

FinishTick == Proceed("filing", IF shutdown THEN "stopped" ELSE "resting")

\* A wait, paused or not, ends with a message or after 60 seconds.
ReceiveWake ==
    /\ loop \in {"resting", "pausing"}
    /\ messages > 0
    /\ messages' = messages - 1
    /\ loop' = "top"
    /\ UNCHANGED <<unlocked, paused, shutdown, thread, waiting, raced, gates, queued>>

MinutePasses == Proceed("resting", "top") \/ Proceed("pausing", "top")

WorkerStep == \/ EnterLoop \/ CheckShutdown \/ CheckPaused
              \/ ListQueue \/ FinishTick \/ ReceiveWake

ThreadStep(t) == ReadGate(t) \/ SetPaused(t) \/ WakeWorker(t)

Next == \/ WorkerStep
        \/ MinutePasses
        \/ \E t \in Threads : ThreadStep(t)
        \/ \E open \in BOOLEAN : SetUnlocked(Window, open)
        \/ \E t \in Refreshers : SetUnlocked(t, FALSE)
        \/ StartWorker \/ QueueReturn \/ RequestShutdown

Spec == Init /\ [][Next]_vars

\* Threads run, and sign-in opens the database.  MinutePasses is not assumed:
\* what is promised below must not depend on the timer.
Fairness == /\ WF_vars(WorkerStep)
            /\ \A t \in Threads : WF_vars(ThreadStep(t))
            /\ WF_vars(StartWorker)

FairSpec == Spec /\ Fairness

----------------------------------------------------------------------------
(* What the loop promises *)

TypeOK ==
    /\ unlocked \in BOOLEAN /\ paused \in BOOLEAN /\ shutdown \in BOOLEAN
    /\ messages \in 0 .. 1
    /\ loop \in {"off", "spawned", "top", "admitted", "pausing", "ticking",
                 "filing", "resting", "stopped"}
    /\ thread \in [Threads -> {"idle", "stored", "pausing", "unpausing", "waking"}]
    /\ waiting \in BOOLEAN /\ raced \in BOOLEAN
    /\ gates \in 0 .. MaxGates /\ queued \in 0 .. MaxQueued

\* No wake is lost: a return queued at any moment of a tick, of a pause or of
\* the start of the worker is read by a tick while the gate stays open, without
\* waiting for the minute, unless two threads set the gate at once
\* (wake_submission_worker, set_submission_paused).
QueuedIsRead == waiting ~> ~waiting \/ ~unlocked \/ shutdown \/ raced

\* Quitting ends the loop wherever it is, a paused one included, without
\* waiting for the minute (request_shutdown, start_cron_jobs).
ShutdownEndsLoop == shutdown ~> loop \in {"off", "stopped"}

\* Between calls, filing is paused exactly while the gate is locked, whichever
\* thread set it: only calls that overlapped can leave the two apart, and the
\* next call that runs by itself brings them together again (set_unlocked).
PausedIsLocked ==
    ~raced /\ (\A t \in Threads : ~Setting(t)) => paused = ~unlocked

=============================================================================
