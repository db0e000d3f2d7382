--------------------------- MODULE InferenceThreads ---------------------------
(***************************************************************************)
(* The threads around policy inference, how they sleep and how they end:   *)
(* the control loop (LeggedHWLoop) that submits observations, the          *)
(* inference thread that sleeps on a futex, the watcher that aborts a run  *)
(* in flight when ROS shuts down, and the main thread that joins them all. *)
(*                                                                         *)
(* One action per access to a shared atomic.  Observations are not told    *)
(* apart here: `box' says whether the mailbox holds one.  A policy run may *)
(* take for ever unless it is aborted.                                     *)
(***************************************************************************)
EXTENDS Naturals, Sequences

CONSTANTS
  MaxObservations,  \* bound on the observations submitted
  MaxToggles        \* bound on the starts and stops of the controller

ASSUME InferenceThreadsAssumption ==
  MaxObservations \in Nat /\ MaxToggles \in Nat

VARIABLES
  async,                 \* async_inference, as configured: is there an inference thread?
  active, running,       \* controllerActive, inferenceRunning
  box,                   \* observationBuffer_ holds an unconsumed observation
  notified, wake,        \* observationNotificationGeneration_, inferenceWakeGeneration_
  rosOk, loopRunning, watcherRunning, terminated,  \* the other flags
  controlAt, mainAt, workerAt, watcherAt,          \* where each thread is
  waitFor, check,        \* the worker's wait: for what, and the condition it is at
  observed, seen,        \* the worker's locals observedNotification, wakeGeneration
  submitted, toggles     \* counters for the bounds

flags == <<rosOk, loopRunning, watcherRunning, terminated>>
mail == <<box, notified, submitted>>
worker == <<workerAt, waitFor, check, observed, seen>>
vars == <<async, active, running, mail, wake, flags, controlAt, mainAt, worker, watcherAt,
          toggles>>

Init ==
  /\ async \in BOOLEAN
  /\ active = FALSE /\ running = async
  /\ box = FALSE
  /\ notified = 0 /\ wake = 0
  /\ rosOk = TRUE /\ loopRunning = TRUE /\ watcherRunning = TRUE /\ terminated = FALSE
  /\ controlAt = "idle" /\ mainAt = "up" /\ watcherAt = "head"
  /\ workerAt = IF async THEN "loop" ELSE "done"
  /\ waitFor = "activation" /\ check = 1
  /\ observed = 0 /\ seen = 0
  /\ submitted = 0 /\ toggles = 0

-----------------------------------------------------------------------------
(* Futexes. *)

\* A mutant: the thread sleeps without looking at the word.
BugFutexSleeps(value) == TRUE
\* FUTEX_WAIT goes to sleep only while the word still has the value given.
FutexSleeps(value) == wake = value

\* FUTEX_WAKE: the only thread that may sleep there is the worker.
FutexWake ==
  IF workerAt = "asleep"
  THEN workerAt' = "check" /\ check' = 1
  ELSE UNCHANGED <<workerAt, check>>

-----------------------------------------------------------------------------
(* The control-loop thread: starting(), stopping() and update(). *)

Control(from, to) ==
  /\ controlAt = from /\ controlAt' = to
  /\ UNCHANGED <<async, running, flags, mainAt, watcherAt>>

StartOrStopController ==
  /\ Control("idle", "advance")
  /\ loopRunning /\ toggles < MaxToggles
  /\ active' = ~active
  /\ toggles' = toggles + 1
  /\ UNCHANGED <<mail, wake, worker>>

\* submitObservation(), publishObservation(): first the packet ...
PublishObservation ==
  /\ Control("idle", "notify")
  /\ loopRunning /\ async /\ active /\ submitted < MaxObservations
  /\ box' = TRUE
  /\ submitted' = submitted + 1
  /\ UNCHANGED <<active, notified, wake, worker, toggles>>

\* ... then its notification ...
NotifyObservation ==
  /\ Control("notify", "advance")
  /\ notified' = notified + 1
  /\ UNCHANGED <<active, box, submitted, wake, worker, toggles>>

\* ... then the futex word and the wake-up: advanceGenerationAndWake().
AdvanceGeneration ==
  /\ Control("advance", "wake")
  /\ wake' = wake + 1
  /\ UNCHANGED <<active, mail, worker, toggles>>

WakeWorker ==
  /\ Control("wake", "idle")
  /\ FutexWake
  /\ UNCHANGED <<active, mail, wake, waitFor, observed, seen, toggles>>

\* Without an inference thread the policy runs inside update().
RunSynchronously ==
  /\ Control("idle", "run")
  /\ loopRunning /\ ~async /\ active
  /\ UNCHANGED <<active, mail, wake, worker, toggles>>

SynchronousRunEnds ==
  /\ Control("run", "idle")
  /\ UNCHANGED <<active, mail, wake, worker, toggles>>

EndLoop ==
  /\ Control("idle", "ended")
  /\ ~loopRunning
  /\ UNCHANGED <<active, mail, wake, worker, toggles>>

-----------------------------------------------------------------------------
(* The main thread: waitForShutdown(), ~LeggedHWLoop() and, once the loop is *)
(* joined, ~AcController() with stopInferenceThread().                       *)

Main(from, to) ==
  /\ mainAt = from /\ mainAt' = to
  /\ UNCHANGED <<async, mail, rosOk, controlAt, toggles>>

\* ros::ok() turns false at any moment.
RosShutdown ==
  /\ rosOk
  /\ rosOk' = FALSE
  /\ UNCHANGED <<async, active, running, mail, wake, loopRunning, watcherRunning, terminated,
                 controlAt, mainAt, worker, watcherAt, toggles>>

StopLoop ==
  /\ Main("up", "joinLoop")
  /\ ~rosOk
  /\ loopRunning' = FALSE
  /\ UNCHANGED <<active, running, wake, watcherRunning, terminated, worker, watcherAt>>

JoinLoop ==
  /\ Main("joinLoop", "deactivate")
  /\ controlAt = "ended"
  /\ UNCHANGED <<active, running, wake, loopRunning, watcherRunning, terminated, worker,
                 watcherAt>>

Deactivate ==
  /\ Main("deactivate", "halt")
  /\ active' = FALSE
  /\ UNCHANGED <<running, wake, loopRunning, watcherRunning, terminated, worker, watcherAt>>

HaltInference ==
  /\ Main("halt", "advance")
  /\ running' = FALSE
  /\ UNCHANGED <<active, wake, loopRunning, watcherRunning, terminated, worker, watcherAt>>

AdvanceLast ==
  /\ Main("advance", "wake")
  /\ wake' = wake + 1
  /\ UNCHANGED <<active, running, loopRunning, watcherRunning, terminated, worker, watcherAt>>

WakeLast ==
  /\ Main("wake", "stopWatcher")
  /\ FutexWake
  /\ UNCHANGED <<active, running, wake, loopRunning, watcherRunning, terminated, waitFor,
                 observed, seen, watcherAt>>

StopWatcher ==
  /\ Main("stopWatcher", "notifyWatcher")
  /\ watcherRunning' = FALSE
  /\ UNCHANGED <<active, running, wake, loopRunning, terminated, worker, watcherAt>>

\* notify_all() without the watcher's mutex: it is lost on a watcher that has
\* looked at its predicate and does not wait yet.
NotifyWatcher ==
  /\ Main("notifyWatcher", "terminate")
  /\ watcherAt' = IF watcherAt = "waiting" THEN "head" ELSE watcherAt
  /\ UNCHANGED <<active, running, wake, loopRunning, watcherRunning, terminated, worker>>

\* requestInferenceTermination(): every run, now and later, returns.
TerminateRuns ==
  /\ Main("terminate", "joinWatcher")
  /\ terminated' = TRUE
  /\ UNCHANGED <<active, running, wake, loopRunning, watcherRunning, worker, watcherAt>>

JoinWatcher ==
  /\ Main("joinWatcher", "joinWorker")
  /\ watcherAt = "done"
  /\ UNCHANGED <<active, running, wake, loopRunning, watcherRunning, terminated, worker,
                 watcherAt>>

JoinWorker ==
  /\ Main("joinWorker", "done")
  /\ workerAt = "done"
  /\ UNCHANGED <<active, running, wake, loopRunning, watcherRunning, terminated, worker,
                 watcherAt>>

\* The process ends.
Exit == mainAt = "done" /\ UNCHANGED vars

-----------------------------------------------------------------------------
(* The inference thread: inferenceLoop(). *)

Others == <<async, active, running, notified, submitted, wake, flags, controlAt, mainAt,
            watcherAt, toggles>>

Worker(from) == workerAt = from /\ UNCHANGED Others

LookRunning ==
  /\ Worker("loop")
  /\ workerAt' = IF running THEN "active" ELSE "done"
  /\ UNCHANGED <<box, waitFor, check, observed, seen>>

Wait(for) == workerAt' = "check" /\ waitFor' = for /\ check' = 1

LookActive ==
  /\ Worker("active")
  /\ IF active THEN workerAt' = "consume" /\ UNCHANGED <<waitFor, check>> ELSE Wait("activation")
  /\ UNCHANGED <<box, observed, seen>>

ConsumeObservation ==
  /\ Worker("consume")
  /\ box' = FALSE
  /\ IF box THEN workerAt' = "observe" /\ UNCHANGED <<waitFor, check>> ELSE Wait("observation")
  /\ UNCHANGED <<observed, seen>>

\* A mutant: the futex word is taken for the notification generation.
BugNotificationGeneration == wake
NotificationGeneration == notified

ObserveNotification ==
  /\ Worker("observe")
  /\ observed' = NotificationGeneration
  /\ workerAt' = "gate"
  /\ UNCHANGED <<box, waitFor, check, seen>>

\* An observation of a stopped controller or of a policy that has been left
\* (its epoch, not modelled here) is dropped.
DropOrRun ==
  /\ Worker("gate")
  /\ \/ workerAt' = "loop"
     \/ active /\ workerAt' = "run"
  /\ UNCHANGED <<box, waitFor, check, observed, seen>>

RunEnds ==
  /\ Worker("run")
  /\ workerAt' = "loop"
  /\ UNCHANGED <<box, waitFor, check, observed, seen>>

\* waitForObservationNotification() and waitUntilInferenceActive() look at
\* these in turn, once in the loop condition and once more after the snapshot
\* of the futex word.
Conditions(for) ==
  IF for = "observation" THEN <<"quiet", "running", "active">> ELSE <<"inactive", "running">>

Holds(condition) ==
  CASE condition = "quiet"    -> notified = observed
    [] condition = "running"  -> running
    [] condition = "active"   -> active
    [] condition = "inactive" -> ~active

LookCondition(from, to) ==
  /\ Worker(from)
  /\ IF ~Holds(Conditions(waitFor)[check])
     THEN workerAt' = "refresh" /\ check' = 1
     ELSE IF check < Len(Conditions(waitFor))
          THEN workerAt' = from /\ check' = check + 1
          ELSE workerAt' = to /\ check' = 1
  /\ UNCHANGED <<box, waitFor, observed, seen>>

LookBefore == LookCondition("check", "snapshot")
LookAgain == LookCondition("recheck", "sleep")

\* A mutant: no second look at the conditions.
BugAfterSnapshot == "sleep"
AfterSnapshot == "recheck"

SnapshotGeneration ==
  /\ Worker("snapshot")
  /\ seen' = wake
  /\ workerAt' = AfterSnapshot
  /\ UNCHANGED <<box, waitFor, check, observed>>

FutexWait ==
  /\ Worker("sleep")
  /\ workerAt' = IF FutexSleeps(seen) THEN "asleep" ELSE "check"
  /\ UNCHANGED <<box, waitFor, check, observed, seen>>

\* EINTR.
InterruptedWait ==
  /\ Worker("asleep")
  /\ workerAt' = "check"
  /\ UNCHANGED <<box, waitFor, check, observed, seen>>

RefreshNotification ==
  /\ Worker("refresh")
  /\ observed' = NotificationGeneration
  /\ workerAt' = "loop"
  /\ UNCHANGED <<box, waitFor, check, seen>>

-----------------------------------------------------------------------------
(* The shutdown watcher: shutdownWatcherLoop(). *)

Watcher(from) ==
  /\ watcherAt = from
  /\ UNCHANGED <<async, active, running, mail, wake, rosOk, loopRunning, watcherRunning,
                 controlAt, mainAt, worker, toggles>>

WatcherLoops ==
  /\ Watcher("head")
  /\ watcherAt' = IF watcherRunning /\ rosOk THEN "predicate" ELSE "decide"
  /\ UNCHANGED terminated

WatcherPredicate ==
  /\ Watcher("predicate")
  /\ watcherAt' = IF watcherRunning THEN "waiting" ELSE "head"
  /\ UNCHANGED terminated

\* A mutant: wait() in place of wait_for().
BugWaitTimesOut == FALSE
WaitTimesOut == TRUE

\* The 10 ms are over.
WatcherTimeout ==
  /\ Watcher("waiting")
  /\ WaitTimesOut
  /\ watcherAt' = "head"
  /\ UNCHANGED terminated

WatcherDecides ==
  /\ Watcher("decide")
  /\ terminated' = (terminated \/ (watcherRunning /\ ~rosOk))
  /\ watcherAt' = "done"

-----------------------------------------------------------------------------
ControlMayStep == StartOrStopController \/ PublishObservation \/ RunSynchronously
ControlMustStep ==
  \/ NotifyObservation \/ AdvanceGeneration \/ WakeWorker \/ EndLoop
  \/ terminated /\ SynchronousRunEnds
MainStep ==
  \/ StopLoop \/ JoinLoop \/ Deactivate \/ HaltInference \/ AdvanceLast \/ WakeLast
  \/ StopWatcher \/ NotifyWatcher \/ TerminateRuns \/ JoinWatcher \/ JoinWorker
WorkerMustStep ==
  \/ LookRunning \/ LookActive \/ ConsumeObservation \/ ObserveNotification \/ DropOrRun
  \/ LookBefore \/ LookAgain \/ SnapshotGeneration \/ FutexWait \/ RefreshNotification
  \/ terminated /\ RunEnds
WatcherStep == WatcherLoops \/ WatcherPredicate \/ WatcherTimeout \/ WatcherDecides

Next ==
  \/ ControlMayStep \/ ControlMustStep \/ SynchronousRunEnds
  \/ RosShutdown \/ MainStep \/ Exit
  \/ WorkerMustStep \/ RunEnds \/ InterruptedWait
  \/ WatcherStep

Spec == Init /\ [][Next]_vars

\* Every thread is scheduled, and an aborted run returns; a run that is not
\* aborted need not, and nobody counts on an interrupted wait.
FairSpec ==
  /\ Spec
  /\ WF_vars(ControlMustStep) /\ WF_vars(MainStep)
  /\ WF_vars(WorkerMustStep) /\ WF_vars(WatcherStep)

-----------------------------------------------------------------------------
(* Properties. *)

\* The flags, the counters, the worker's locals (values it has read) and where
\* each thread is.
FlagTypes ==
  /\ async \in BOOLEAN
  /\ active \in BOOLEAN /\ running \in BOOLEAN /\ box \in BOOLEAN
  /\ rosOk \in BOOLEAN /\ loopRunning \in BOOLEAN
  /\ watcherRunning \in BOOLEAN /\ terminated \in BOOLEAN
CounterTypes ==
  /\ notified \in Nat /\ wake \in Nat /\ submitted \in Nat /\ toggles \in Nat
  /\ observed \in 0..notified /\ seen \in 0..wake
CheckTypes ==
  /\ waitFor \in {"observation", "activation"}
  /\ check \in 1..Len(Conditions(waitFor))
PlaceTypes ==
  /\ controlAt \in {"idle", "notify", "advance", "wake", "run", "ended"}
  /\ mainAt \in {"up", "joinLoop", "deactivate", "halt", "advance", "wake", "stopWatcher",
                 "notifyWatcher", "terminate", "joinWatcher", "joinWorker", "done"}
  /\ workerAt \in {"loop", "active", "consume", "observe", "gate", "run", "check", "snapshot",
                   "recheck", "sleep", "asleep", "refresh", "done"}
  /\ watcherAt \in {"head", "predicate", "waiting", "decide", "done"}

\* Every variable keeps its type.
TypeOK == FlagTypes /\ CounterTypes /\ CheckTypes /\ PlaceTypes

\* Somebody has changed what the worker waits for and has yet to wake it.
WakeUnderWay ==
  controlAt \in {"notify", "advance", "wake"} \/ mainAt \in {"halt", "advance", "wake"}

\* A wake-up is never lost: a worker that sleeps has nothing to do (no
\* observation, an inactive controller) or is about to be woken, wherever the
\* publication, the activation or the shutdown fell between its two looks at
\* the conditions, its snapshot of the futex word and its going to sleep.
NoLostWakeup ==
  workerAt = "asleep" /\ ~WakeUnderWay =>
    /\ running
    /\ waitFor = "activation" => ~active
    /\ waitFor = "observation" => active /\ ~box

\* Shutting ROS down ends the process: the loop, the watcher and the inference
\* thread are all joined, even with a policy run that would never return by
\* itself and with the notification of the watcher lost.
ShutdownCompletes == ~rosOk ~> mainAt = "done"

\* An observation is picked up, unless the worker is stuck in a run, the
\* controller has been stopped meanwhile, or the process ends.
ObservationsAreTaken ==
  box ~> (~box \/ workerAt = "run" \/ ~active \/ ~rosOk)
=============================================================================
