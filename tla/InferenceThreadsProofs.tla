------------------------ MODULE InferenceThreadsProofs ------------------------
(***************************************************************************)
(* No wake-up of the inference thread is ever lost, however many           *)
(* observations are submitted and however often the controller is started  *)
(* and stopped.                                                            *)
(*                                                                         *)
(* NoLostWakeup is not inductive: it says nothing of a worker on its way   *)
(* to sleep.  What is preserved is that everything the worker has looked   *)
(* at since its snapshot still holds as long as the futex word has not     *)
(* moved (SnapshotIsBinding), that it sleeps on the current word unless it *)
(* is being woken (SleepsOnCurrentWord), and that an observation it missed *)
(* shows in the notification generation (MissedIsNotified).                *)
(***************************************************************************)
EXTENDS InferenceThreads, TLAPS

\* A change of the worker's conditions that the futex word does not show yet.
Unsettled == controlAt \in {"notify", "advance"} \/ mainAt \in {"halt", "advance"}

\* The conditions the worker has found to hold since its snapshot.
Confirmed ==
  CASE workerAt = "recheck" -> 1..check - 1
    [] workerAt \in {"sleep", "asleep"} -> 1..Len(Conditions(waitFor))
    [] OTHER -> {}

SnapshotIsBinding ==
  seen = wake /\ ~Unsettled => \A i \in Confirmed : Holds(Conditions(waitFor)[i])

SnapshotIsFresh == workerAt = "snapshot" => check = 1

SleepsOnCurrentWord ==
  workerAt = "asleep" /\ ~WakeUnderWay => seen = wake

LoopIsJoinedFirst == mainAt \notin {"up", "joinLoop"} => controlAt = "ended"

MissedIsNotified ==
  /\ waitFor = "observation"
  /\ workerAt \in {"check", "snapshot", "recheck", "sleep", "asleep"}
  /\ notified = observed
  /\ controlAt # "notify"
  => ~box

IInv ==
  /\ TypeOK
  /\ SnapshotIsFresh
  /\ SnapshotIsBinding
  /\ SleepsOnCurrentWord
  /\ LoopIsJoinedFirst
  /\ MissedIsNotified

\* Initially the worker is awake.
LEMMA InitIInv == Init => IInv
<1> SUFFICES ASSUME Init PROVE IInv
  OBVIOUS
<1> USE InferenceThreadsAssumption DEF Init
<1>1. TypeOK
  <2>1. FlagTypes
    BY DEF FlagTypes
  <2>2. CounterTypes /\ CheckTypes /\ PlaceTypes
    BY DEF CounterTypes, CheckTypes, PlaceTypes, Conditions
  <2>3. QED
    BY <2>1, <2>2 DEF TypeOK
<1>2. SnapshotIsBinding
  BY DEF SnapshotIsBinding, Confirmed
<1>3. SnapshotIsFresh /\ SleepsOnCurrentWord /\ LoopIsJoinedFirst /\ MissedIsNotified
  BY DEF SnapshotIsFresh, SleepsOnCurrentWord, LoopIsJoinedFirst, MissedIsNotified
<1>4. QED
  BY <1>1, <1>2, <1>3 DEF IInv

\* Who touches nothing the worker looks at does not disturb its snapshot.
LEMMA Bystander ==
  ASSUME SnapshotIsBinding, UNCHANGED <<active, running, notified, wake>>, UNCHANGED worker,
         Unsettled' = Unsettled
  PROVE  SnapshotIsBinding'
<1>1. Confirmed' = Confirmed /\ Conditions(waitFor)' = Conditions(waitFor)
  BY DEF worker, Confirmed, Conditions
<1>2. \A c : Holds(c)' <=> Holds(c)
  BY DEF worker, Holds
<1>3. QED
  BY <1>1, <1>2 DEF SnapshotIsBinding, worker

\* The control loop: it settles what it has changed by moving the futex word, and
\* it wakes the worker before it goes on.
LEMMA ControlKeeps ==
  IInv /\ (StartOrStopController \/ PublishObservation \/ NotifyObservation \/
           AdvanceGeneration \/ WakeWorker \/ RunSynchronously \/ SynchronousRunEnds \/
           EndLoop) => IInv'
<1> SUFFICES ASSUME IInv, StartOrStopController \/ PublishObservation \/ NotifyObservation
                          \/ AdvanceGeneration \/ WakeWorker \/ RunSynchronously \/
                          SynchronousRunEnds \/ EndLoop
             PROVE  IInv'
  OBVIOUS
<1> USE DEF IInv
<1>1. CASE StartOrStopController
  <2> USE <1>1 DEF StartOrStopController, Control, flags, mail, worker
  <2>1. TypeOK'
    <3>1. FlagTypes'
      BY DEF TypeOK, FlagTypes
    <3>2. CounterTypes'
      BY DEF TypeOK, CounterTypes
    <3>3. CheckTypes'
      BY DEF TypeOK, CheckTypes, Conditions
    <3>4. PlaceTypes'
      BY DEF TypeOK, PlaceTypes
    <3>5. QED
      BY <3>1, <3>2, <3>3, <3>4 DEF TypeOK
  <2>2. SnapshotIsBinding'
    BY DEF TypeOK, CounterTypes, CheckTypes, SnapshotIsBinding, Unsettled, Confirmed,
           Conditions, Holds
  <2>3. SnapshotIsFresh' /\ SleepsOnCurrentWord'
    BY DEF SnapshotIsFresh, SleepsOnCurrentWord, WakeUnderWay, TypeOK, CounterTypes
  <2>4. LoopIsJoinedFirst' /\ MissedIsNotified'
    BY DEF LoopIsJoinedFirst, MissedIsNotified, TypeOK, CounterTypes
  <2>5. QED
    BY <2>1, <2>2, <2>3, <2>4
<1>2. CASE PublishObservation
  <2> USE <1>2 DEF PublishObservation, Control, flags, mail, worker
  <2>1. TypeOK'
    <3>1. FlagTypes'
      BY DEF TypeOK, FlagTypes
    <3>2. CounterTypes'
      BY DEF TypeOK, CounterTypes
    <3>3. CheckTypes'
      BY DEF TypeOK, CheckTypes, Conditions
    <3>4. PlaceTypes'
      BY DEF TypeOK, PlaceTypes
    <3>5. QED
      BY <3>1, <3>2, <3>3, <3>4 DEF TypeOK
  <2>2. SnapshotIsBinding'
    BY DEF TypeOK, CounterTypes, CheckTypes, SnapshotIsBinding, Unsettled, Confirmed,
           Conditions, Holds
  <2>3. SnapshotIsFresh' /\ SleepsOnCurrentWord'
    BY DEF SnapshotIsFresh, SleepsOnCurrentWord, WakeUnderWay, TypeOK, CounterTypes
  <2>4. LoopIsJoinedFirst' /\ MissedIsNotified'
    BY DEF LoopIsJoinedFirst, MissedIsNotified, TypeOK, CounterTypes
  <2>5. QED
    BY <2>1, <2>2, <2>3, <2>4
<1>3. CASE NotifyObservation
  <2> USE <1>3 DEF NotifyObservation, Control, flags, mail, worker
  <2>1. TypeOK'
    <3>1. FlagTypes'
      BY DEF TypeOK, FlagTypes
    <3>2. CounterTypes'
      BY DEF TypeOK, CounterTypes
    <3>3. CheckTypes'
      BY DEF TypeOK, CheckTypes, Conditions
    <3>4. PlaceTypes'
      BY DEF TypeOK, PlaceTypes
    <3>5. QED
      BY <3>1, <3>2, <3>3, <3>4 DEF TypeOK
  <2>2. SnapshotIsBinding'
    BY DEF TypeOK, CounterTypes, CheckTypes, SnapshotIsBinding, Unsettled, Confirmed,
           Conditions, Holds
  <2>3. SnapshotIsFresh' /\ SleepsOnCurrentWord'
    BY DEF SnapshotIsFresh, SleepsOnCurrentWord, WakeUnderWay, TypeOK, CounterTypes
  <2>4. LoopIsJoinedFirst' /\ MissedIsNotified'
    BY DEF LoopIsJoinedFirst, MissedIsNotified, TypeOK, CounterTypes
  <2>5. QED
    BY <2>1, <2>2, <2>3, <2>4
<1>4. CASE AdvanceGeneration
  <2> USE <1>4 DEF AdvanceGeneration, Control, flags, mail, worker
  <2>1. TypeOK'
    <3>1. FlagTypes'
      BY DEF TypeOK, FlagTypes
    <3>2. CounterTypes'
      BY DEF TypeOK, CounterTypes
    <3>3. CheckTypes'
      BY DEF TypeOK, CheckTypes, Conditions
    <3>4. PlaceTypes'
      BY DEF TypeOK, PlaceTypes
    <3>5. QED
      BY <3>1, <3>2, <3>3, <3>4 DEF TypeOK
  <2>2. SnapshotIsBinding'
    BY DEF TypeOK, CounterTypes, CheckTypes, SnapshotIsBinding, Unsettled, Confirmed,
           Conditions, Holds
  <2>3. SnapshotIsFresh' /\ SleepsOnCurrentWord'
    BY DEF SnapshotIsFresh, SleepsOnCurrentWord, WakeUnderWay, TypeOK, CounterTypes
  <2>4. LoopIsJoinedFirst' /\ MissedIsNotified'
    BY DEF LoopIsJoinedFirst, MissedIsNotified, TypeOK, CounterTypes
  <2>5. QED
    BY <2>1, <2>2, <2>3, <2>4
<1>5. CASE WakeWorker
  <2> USE <1>5 DEF WakeWorker, Control, flags, mail, worker, FutexWake
  <2>1. TypeOK'
    <3>1. FlagTypes'
      BY DEF TypeOK, FlagTypes
    <3>2. CounterTypes'
      BY DEF TypeOK, CounterTypes
    <3>3. CheckTypes'
      BY DEF TypeOK, CheckTypes, Conditions
    <3>4. PlaceTypes'
      BY DEF TypeOK, PlaceTypes
    <3>5. QED
      BY <3>1, <3>2, <3>3, <3>4 DEF TypeOK
  <2>2. SnapshotIsBinding'
    BY DEF TypeOK, CounterTypes, CheckTypes, SnapshotIsBinding, Unsettled, Confirmed,
           Conditions, Holds
  <2>3. SnapshotIsFresh' /\ SleepsOnCurrentWord'
    BY DEF SnapshotIsFresh, SleepsOnCurrentWord, WakeUnderWay, TypeOK, CounterTypes
  <2>4. LoopIsJoinedFirst' /\ MissedIsNotified'
    BY DEF LoopIsJoinedFirst, MissedIsNotified, TypeOK, CounterTypes
  <2>5. QED
    BY <2>1, <2>2, <2>3, <2>4
<1>6. CASE RunSynchronously \/ SynchronousRunEnds \/ EndLoop
  <2> USE <1>6 DEF RunSynchronously, SynchronousRunEnds, EndLoop, Control, flags, mail,
         worker
  <2>1. TypeOK'
    <3>1. FlagTypes'
      BY DEF TypeOK, FlagTypes
    <3>2. CounterTypes'
      BY DEF TypeOK, CounterTypes
    <3>3. CheckTypes'
      BY DEF TypeOK, CheckTypes, Conditions
    <3>4. PlaceTypes'
      BY DEF TypeOK, PlaceTypes
    <3>5. QED
      BY <3>1, <3>2, <3>3, <3>4 DEF TypeOK
  <2>2. SnapshotIsBinding'
    <3>1. UNCHANGED <<active, running, notified, wake>> /\ UNCHANGED worker
      BY DEF worker
    <3>2. Unsettled' = Unsettled
      BY DEF Unsettled
    <3>3. QED
      BY <3>1, <3>2, Bystander
  <2>3. SnapshotIsFresh' /\ SleepsOnCurrentWord'
    BY DEF SnapshotIsFresh, SleepsOnCurrentWord, WakeUnderWay, TypeOK, CounterTypes
  <2>4. LoopIsJoinedFirst' /\ MissedIsNotified'
    BY DEF LoopIsJoinedFirst, MissedIsNotified, TypeOK, CounterTypes
  <2>5. QED
    BY <2>1, <2>2, <2>3, <2>4
<1>7. QED
  BY <1>1, <1>2, <1>3, <1>4, <1>5, <1>6

\* The main thread does the same once the loop is joined.
LEMMA MainKeeps ==
  IInv /\ (Deactivate \/ HaltInference \/ AdvanceLast \/ WakeLast \/ RosShutdown \/
           StopLoop \/ JoinLoop \/ StopWatcher \/ NotifyWatcher \/ TerminateRuns \/
           JoinWatcher \/ JoinWorker) => IInv'
<1> SUFFICES ASSUME IInv, Deactivate \/ HaltInference \/ AdvanceLast \/ WakeLast \/
                          RosShutdown \/ StopLoop \/ JoinLoop \/ StopWatcher \/
                          NotifyWatcher \/ TerminateRuns \/ JoinWatcher \/ JoinWorker
             PROVE  IInv'
  OBVIOUS
<1> USE DEF IInv
<1>1. CASE Deactivate
  <2> USE <1>1 DEF Deactivate, Main, mail, worker, flags
  <2>1. TypeOK'
    <3>1. FlagTypes'
      BY DEF TypeOK, FlagTypes
    <3>2. CounterTypes'
      BY DEF TypeOK, CounterTypes
    <3>3. CheckTypes'
      BY DEF TypeOK, CheckTypes, Conditions
    <3>4. PlaceTypes'
      BY DEF TypeOK, PlaceTypes
    <3>5. QED
      BY <3>1, <3>2, <3>3, <3>4 DEF TypeOK
  <2>2. SnapshotIsBinding'
    BY DEF TypeOK, CounterTypes, CheckTypes, SnapshotIsBinding, Unsettled, Confirmed,
           Conditions, Holds
  <2>3. SnapshotIsFresh' /\ SleepsOnCurrentWord'
    BY DEF SnapshotIsFresh, SleepsOnCurrentWord, WakeUnderWay, TypeOK, CounterTypes
  <2>4. LoopIsJoinedFirst' /\ MissedIsNotified'
    BY DEF LoopIsJoinedFirst, MissedIsNotified, TypeOK, CounterTypes
  <2>5. QED
    BY <2>1, <2>2, <2>3, <2>4
<1>2. CASE HaltInference
  <2> USE <1>2 DEF HaltInference, Main, mail, worker, flags
  <2>1. TypeOK'
    <3>1. FlagTypes'
      BY DEF TypeOK, FlagTypes
    <3>2. CounterTypes'
      BY DEF TypeOK, CounterTypes
    <3>3. CheckTypes'
      BY DEF TypeOK, CheckTypes, Conditions
    <3>4. PlaceTypes'
      BY DEF TypeOK, PlaceTypes
    <3>5. QED
      BY <3>1, <3>2, <3>3, <3>4 DEF TypeOK
  <2>2. SnapshotIsBinding'
    BY DEF TypeOK, CounterTypes, CheckTypes, SnapshotIsBinding, Unsettled, Confirmed,
           Conditions, Holds
  <2>3. SnapshotIsFresh' /\ SleepsOnCurrentWord'
    BY DEF SnapshotIsFresh, SleepsOnCurrentWord, WakeUnderWay, TypeOK, CounterTypes
  <2>4. LoopIsJoinedFirst' /\ MissedIsNotified'
    BY DEF LoopIsJoinedFirst, MissedIsNotified, TypeOK, CounterTypes
  <2>5. QED
    BY <2>1, <2>2, <2>3, <2>4
<1>3. CASE AdvanceLast
  <2> USE <1>3 DEF AdvanceLast, Main, mail, worker, flags
  <2>1. TypeOK'
    <3>1. FlagTypes'
      BY DEF TypeOK, FlagTypes
    <3>2. CounterTypes'
      BY DEF TypeOK, CounterTypes
    <3>3. CheckTypes'
      BY DEF TypeOK, CheckTypes, Conditions
    <3>4. PlaceTypes'
      BY DEF TypeOK, PlaceTypes
    <3>5. QED
      BY <3>1, <3>2, <3>3, <3>4 DEF TypeOK
  <2>2. SnapshotIsBinding'
    BY DEF TypeOK, CounterTypes, CheckTypes, SnapshotIsBinding, Unsettled, Confirmed,
           Conditions, Holds
  <2>3. SnapshotIsFresh' /\ SleepsOnCurrentWord'
    BY DEF SnapshotIsFresh, SleepsOnCurrentWord, WakeUnderWay, TypeOK, CounterTypes
  <2>4. LoopIsJoinedFirst' /\ MissedIsNotified'
    BY DEF LoopIsJoinedFirst, MissedIsNotified, TypeOK, CounterTypes
  <2>5. QED
    BY <2>1, <2>2, <2>3, <2>4
<1>4. CASE WakeLast
  <2> USE <1>4 DEF WakeLast, Main, mail, worker, flags, FutexWake
  <2>1. TypeOK'
    <3>1. FlagTypes'
      BY DEF TypeOK, FlagTypes
    <3>2. CounterTypes'
      BY DEF TypeOK, CounterTypes
    <3>3. CheckTypes'
      BY DEF TypeOK, CheckTypes, Conditions
    <3>4. PlaceTypes'
      BY DEF TypeOK, PlaceTypes
    <3>5. QED
      BY <3>1, <3>2, <3>3, <3>4 DEF TypeOK
  <2>2. SnapshotIsBinding'
    BY DEF TypeOK, CounterTypes, CheckTypes, SnapshotIsBinding, Unsettled, Confirmed,
           Conditions, Holds
  <2>3. SnapshotIsFresh' /\ SleepsOnCurrentWord'
    BY DEF SnapshotIsFresh, SleepsOnCurrentWord, WakeUnderWay, TypeOK, CounterTypes
  <2>4. LoopIsJoinedFirst' /\ MissedIsNotified'
    BY DEF LoopIsJoinedFirst, MissedIsNotified, TypeOK, CounterTypes
  <2>5. QED
    BY <2>1, <2>2, <2>3, <2>4
<1>5. CASE RosShutdown \/ StopLoop \/ JoinLoop
  <2> USE <1>5 DEF RosShutdown, StopLoop, JoinLoop, Main, mail, worker, flags
  <2>1. TypeOK'
    <3>1. FlagTypes'
      BY DEF TypeOK, FlagTypes
    <3>2. CounterTypes'
      BY DEF TypeOK, CounterTypes
    <3>3. CheckTypes'
      BY DEF TypeOK, CheckTypes, Conditions
    <3>4. PlaceTypes'
      BY DEF TypeOK, PlaceTypes
    <3>5. QED
      BY <3>1, <3>2, <3>3, <3>4 DEF TypeOK
  <2>2. SnapshotIsBinding'
    <3>1. UNCHANGED <<active, running, notified, wake>> /\ UNCHANGED worker
      BY DEF worker
    <3>2. Unsettled' = Unsettled
      BY DEF Unsettled
    <3>3. QED
      BY <3>1, <3>2, Bystander
  <2>3. SnapshotIsFresh' /\ SleepsOnCurrentWord'
    BY DEF SnapshotIsFresh, SleepsOnCurrentWord, WakeUnderWay, TypeOK, CounterTypes
  <2>4. LoopIsJoinedFirst' /\ MissedIsNotified'
    BY DEF LoopIsJoinedFirst, MissedIsNotified, TypeOK, CounterTypes
  <2>5. QED
    BY <2>1, <2>2, <2>3, <2>4
<1>6. CASE StopWatcher \/ NotifyWatcher \/ TerminateRuns \/ JoinWatcher \/ JoinWorker
  <2> USE <1>6 DEF StopWatcher, NotifyWatcher, TerminateRuns, JoinWatcher, JoinWorker,
         Main, mail, worker, flags
  <2>1. TypeOK'
    <3>1. FlagTypes'
      BY DEF TypeOK, FlagTypes
    <3>2. CounterTypes'
      BY DEF TypeOK, CounterTypes
    <3>3. CheckTypes'
      BY DEF TypeOK, CheckTypes, Conditions
    <3>4. PlaceTypes'
      BY DEF TypeOK, PlaceTypes
    <3>5. QED
      BY <3>1, <3>2, <3>3, <3>4 DEF TypeOK
  <2>2. SnapshotIsBinding'
    <3>1. UNCHANGED <<active, running, notified, wake>> /\ UNCHANGED worker
      BY DEF worker
    <3>2. Unsettled' = Unsettled
      BY DEF Unsettled
    <3>3. QED
      BY <3>1, <3>2, Bystander
  <2>3. SnapshotIsFresh' /\ SleepsOnCurrentWord'
    BY DEF SnapshotIsFresh, SleepsOnCurrentWord, WakeUnderWay, TypeOK, CounterTypes
  <2>4. LoopIsJoinedFirst' /\ MissedIsNotified'
    BY DEF LoopIsJoinedFirst, MissedIsNotified, TypeOK, CounterTypes
  <2>5. QED
    BY <2>1, <2>2, <2>3, <2>4
<1>7. QED
  BY <1>1, <1>2, <1>3, <1>4, <1>5, <1>6

\* The worker: what it has looked at is confirmed.
LEMMA WorkerKeeps ==
  IInv /\ (LookRunning \/ LookActive \/ DropOrRun \/ RunEnds \/ ConsumeObservation \/
           ObserveNotification \/ RefreshNotification \/ LookBefore \/ SnapshotGeneration
           \/ LookAgain \/ FutexWait \/ InterruptedWait) => IInv'
<1> SUFFICES ASSUME IInv, LookRunning \/ LookActive \/ DropOrRun \/ RunEnds \/
                          ConsumeObservation \/ ObserveNotification \/ RefreshNotification
                          \/ LookBefore \/ SnapshotGeneration \/ LookAgain \/ FutexWait \/
                          InterruptedWait
             PROVE  IInv'
  OBVIOUS
<1> USE DEF IInv
<1>1. CASE LookRunning \/ LookActive \/ DropOrRun \/ RunEnds
  <2> USE <1>1 DEF LookRunning, LookActive, DropOrRun, RunEnds, Worker, Others, flags, Wait
  <2>1. TypeOK'
    <3>1. FlagTypes'
      BY DEF TypeOK, FlagTypes
    <3>2. CounterTypes'
      BY DEF TypeOK, CounterTypes
    <3>3. CheckTypes'
      BY DEF TypeOK, CheckTypes, Conditions
    <3>4. PlaceTypes'
      BY DEF TypeOK, PlaceTypes
    <3>5. QED
      BY <3>1, <3>2, <3>3, <3>4 DEF TypeOK
  <2>2. SnapshotIsBinding'
    BY DEF TypeOK, CounterTypes, CheckTypes, SnapshotIsBinding, Unsettled, Confirmed,
           Conditions, Holds
  <2>3. SnapshotIsFresh' /\ SleepsOnCurrentWord'
    BY DEF SnapshotIsFresh, SleepsOnCurrentWord, WakeUnderWay, TypeOK, CounterTypes
  <2>4. LoopIsJoinedFirst' /\ MissedIsNotified'
    BY DEF LoopIsJoinedFirst, MissedIsNotified, TypeOK, CounterTypes
  <2>5. QED
    BY <2>1, <2>2, <2>3, <2>4
<1>2. CASE ConsumeObservation
  <2> USE <1>2 DEF ConsumeObservation, Worker, Others, flags, Wait
  <2>1. TypeOK'
    <3>1. FlagTypes'
      BY DEF TypeOK, FlagTypes
    <3>2. CounterTypes'
      BY DEF TypeOK, CounterTypes
    <3>3. CheckTypes'
      BY DEF TypeOK, CheckTypes, Conditions
    <3>4. PlaceTypes'
      BY DEF TypeOK, PlaceTypes
    <3>5. QED
      BY <3>1, <3>2, <3>3, <3>4 DEF TypeOK
  <2>2. SnapshotIsBinding'
    BY DEF TypeOK, CounterTypes, CheckTypes, SnapshotIsBinding, Unsettled, Confirmed,
           Conditions, Holds
  <2>3. SnapshotIsFresh' /\ SleepsOnCurrentWord'
    BY DEF SnapshotIsFresh, SleepsOnCurrentWord, WakeUnderWay, TypeOK, CounterTypes
  <2>4. LoopIsJoinedFirst' /\ MissedIsNotified'
    BY DEF LoopIsJoinedFirst, MissedIsNotified, TypeOK, CounterTypes
  <2>5. QED
    BY <2>1, <2>2, <2>3, <2>4
<1>3. CASE ObserveNotification \/ RefreshNotification
  <2> USE <1>3 DEF ObserveNotification, RefreshNotification, Worker, Others, flags,
         NotificationGeneration
  <2>1. TypeOK'
    <3>1. FlagTypes'
      BY DEF TypeOK, FlagTypes
    <3>2. CounterTypes'
      BY DEF TypeOK, CounterTypes
    <3>3. CheckTypes'
      BY DEF TypeOK, CheckTypes, Conditions
    <3>4. PlaceTypes'
      BY DEF TypeOK, PlaceTypes
    <3>5. QED
      BY <3>1, <3>2, <3>3, <3>4 DEF TypeOK
  <2>2. SnapshotIsBinding'
    BY DEF TypeOK, CounterTypes, CheckTypes, SnapshotIsBinding, Unsettled, Confirmed,
           Conditions, Holds
  <2>3. SnapshotIsFresh' /\ SleepsOnCurrentWord'
    BY DEF SnapshotIsFresh, SleepsOnCurrentWord, WakeUnderWay, TypeOK, CounterTypes
  <2>4. LoopIsJoinedFirst' /\ MissedIsNotified'
    BY DEF LoopIsJoinedFirst, MissedIsNotified, TypeOK, CounterTypes
  <2>5. QED
    BY <2>1, <2>2, <2>3, <2>4
<1>4. CASE LookBefore
  <2> USE <1>4 DEF LookBefore, Worker, Others, flags, LookCondition
  <2>1. TypeOK'
    <3>1. FlagTypes'
      BY DEF TypeOK, FlagTypes
    <3>2. CounterTypes'
      BY DEF TypeOK, CounterTypes
    <3>3. CheckTypes'
      BY DEF TypeOK, CheckTypes, Conditions
    <3>4. PlaceTypes'
      BY DEF TypeOK, PlaceTypes
    <3>5. QED
      BY <3>1, <3>2, <3>3, <3>4 DEF TypeOK
  <2>2. SnapshotIsBinding'
    BY DEF TypeOK, CounterTypes, CheckTypes, SnapshotIsBinding, Unsettled, Confirmed,
           Conditions, Holds
  <2>3. SnapshotIsFresh' /\ SleepsOnCurrentWord'
    BY DEF SnapshotIsFresh, SleepsOnCurrentWord, WakeUnderWay, TypeOK, CounterTypes
  <2>4. LoopIsJoinedFirst' /\ MissedIsNotified'
    BY DEF LoopIsJoinedFirst, MissedIsNotified, TypeOK, CounterTypes
  <2>5. QED
    BY <2>1, <2>2, <2>3, <2>4
<1>5. CASE SnapshotGeneration
  <2> USE <1>5 DEF SnapshotGeneration, Worker, Others, flags, AfterSnapshot
  <2>1. TypeOK'
    <3>1. FlagTypes'
      BY DEF TypeOK, FlagTypes
    <3>2. CounterTypes'
      BY DEF TypeOK, CounterTypes
    <3>3. CheckTypes'
      BY DEF TypeOK, CheckTypes, Conditions
    <3>4. PlaceTypes'
      BY DEF TypeOK, PlaceTypes
    <3>5. QED
      BY <3>1, <3>2, <3>3, <3>4 DEF TypeOK
  <2>2. SnapshotIsBinding'
    <3>1. Confirmed' = {}
      BY DEF Confirmed, SnapshotIsFresh
    <3>2. QED
      BY <3>1 DEF SnapshotIsBinding
  <2>3. SnapshotIsFresh' /\ SleepsOnCurrentWord'
    BY DEF SnapshotIsFresh, SleepsOnCurrentWord, WakeUnderWay, TypeOK, CounterTypes
  <2>4. LoopIsJoinedFirst' /\ MissedIsNotified'
    BY DEF LoopIsJoinedFirst, MissedIsNotified, TypeOK, CounterTypes
  <2>5. QED
    BY <2>1, <2>2, <2>3, <2>4
<1>6. CASE LookAgain
  <2> USE <1>6 DEF LookAgain, Worker, Others, flags, LookCondition
  <2>1. TypeOK'
    <3>1. FlagTypes'
      BY DEF TypeOK, FlagTypes
    <3>2. CounterTypes'
      BY DEF TypeOK, CounterTypes
    <3>3. CheckTypes'
      BY DEF TypeOK, CheckTypes, Conditions
    <3>4. PlaceTypes'
      BY DEF TypeOK, PlaceTypes
    <3>5. QED
      BY <3>1, <3>2, <3>3, <3>4 DEF TypeOK
  <2>2. SnapshotIsBinding'
    <3> DEFINE found == Holds(Conditions(waitFor)[check])
    <3>1. Conditions(waitFor)' = Conditions(waitFor) /\ (\A c : Holds(c)' <=> Holds(c))
      BY DEF Conditions, Holds
    <3>2. CASE ~found
      BY <3>2 DEF SnapshotIsBinding, Confirmed
    <3>3. CASE found
      <4>1. Confirmed' \subseteq Confirmed \cup {check}
        BY <3>3, <3>1 DEF Confirmed, TypeOK, CheckTypes, Conditions
      <4>2. QED
        BY <3>1, <3>3, <4>1 DEF SnapshotIsBinding, Unsettled
    <3>4. QED
      BY <3>2, <3>3
  <2>3. SnapshotIsFresh' /\ SleepsOnCurrentWord'
    BY DEF SnapshotIsFresh, SleepsOnCurrentWord, WakeUnderWay, TypeOK, CounterTypes
  <2>4. LoopIsJoinedFirst' /\ MissedIsNotified'
    BY DEF LoopIsJoinedFirst, MissedIsNotified, TypeOK, CounterTypes
  <2>5. QED
    BY <2>1, <2>2, <2>3, <2>4
<1>7. CASE FutexWait
  <2> USE <1>7 DEF FutexWait, Worker, Others, flags, FutexSleeps
  <2>1. TypeOK'
    <3>1. FlagTypes'
      BY DEF TypeOK, FlagTypes
    <3>2. CounterTypes'
      BY DEF TypeOK, CounterTypes
    <3>3. CheckTypes'
      BY DEF TypeOK, CheckTypes, Conditions
    <3>4. PlaceTypes'
      BY DEF TypeOK, PlaceTypes
    <3>5. QED
      BY <3>1, <3>2, <3>3, <3>4 DEF TypeOK
  <2>2. SnapshotIsBinding'
    BY DEF TypeOK, CounterTypes, CheckTypes, SnapshotIsBinding, Unsettled, Confirmed,
           Conditions, Holds
  <2>3. SnapshotIsFresh' /\ SleepsOnCurrentWord'
    BY DEF SnapshotIsFresh, SleepsOnCurrentWord, WakeUnderWay, TypeOK, CounterTypes
  <2>4. LoopIsJoinedFirst' /\ MissedIsNotified'
    BY DEF LoopIsJoinedFirst, MissedIsNotified, TypeOK, CounterTypes
  <2>5. QED
    BY <2>1, <2>2, <2>3, <2>4
<1>8. CASE InterruptedWait
  <2> USE <1>8 DEF InterruptedWait, Worker, Others, flags
  <2>1. TypeOK'
    <3>1. FlagTypes'
      BY DEF TypeOK, FlagTypes
    <3>2. CounterTypes'
      BY DEF TypeOK, CounterTypes
    <3>3. CheckTypes'
      BY DEF TypeOK, CheckTypes, Conditions
    <3>4. PlaceTypes'
      BY DEF TypeOK, PlaceTypes
    <3>5. QED
      BY <3>1, <3>2, <3>3, <3>4 DEF TypeOK
  <2>2. SnapshotIsBinding'
    BY DEF TypeOK, CounterTypes, CheckTypes, SnapshotIsBinding, Unsettled, Confirmed,
           Conditions, Holds
  <2>3. SnapshotIsFresh' /\ SleepsOnCurrentWord'
    BY DEF SnapshotIsFresh, SleepsOnCurrentWord, WakeUnderWay, TypeOK, CounterTypes
  <2>4. LoopIsJoinedFirst' /\ MissedIsNotified'
    BY DEF LoopIsJoinedFirst, MissedIsNotified, TypeOK, CounterTypes
  <2>5. QED
    BY <2>1, <2>2, <2>3, <2>4
<1>9. QED
  BY <1>1, <1>2, <1>3, <1>4, <1>5, <1>6, <1>7, <1>8

\* The watcher touches none of it.
LEMMA WatcherKeeps ==
  IInv /\ (WatcherLoops \/ WatcherPredicate \/ WatcherTimeout \/ WatcherDecides) => IInv'
<1> SUFFICES ASSUME IInv, WatcherLoops \/ WatcherPredicate \/ WatcherTimeout \/
                          WatcherDecides
             PROVE  IInv'
  OBVIOUS
<1> USE DEF IInv
<1>1. CASE WatcherLoops \/ WatcherPredicate \/ WatcherTimeout \/ WatcherDecides
  <2> USE <1>1 DEF WatcherLoops, WatcherPredicate, WatcherTimeout, WatcherDecides,
         Watcher, mail, worker
  <2>1. TypeOK'
    <3>1. FlagTypes'
      BY DEF TypeOK, FlagTypes
    <3>2. CounterTypes'
      BY DEF TypeOK, CounterTypes
    <3>3. CheckTypes'
      BY DEF TypeOK, CheckTypes, Conditions
    <3>4. PlaceTypes'
      BY DEF TypeOK, PlaceTypes
    <3>5. QED
      BY <3>1, <3>2, <3>3, <3>4 DEF TypeOK
  <2>2. SnapshotIsBinding'
    <3>1. UNCHANGED <<active, running, notified, wake>> /\ UNCHANGED worker
      BY DEF worker
    <3>2. Unsettled' = Unsettled
      BY DEF Unsettled
    <3>3. QED
      BY <3>1, <3>2, Bystander
  <2>3. SnapshotIsFresh' /\ SleepsOnCurrentWord'
    BY DEF SnapshotIsFresh, SleepsOnCurrentWord, WakeUnderWay, TypeOK, CounterTypes
  <2>4. LoopIsJoinedFirst' /\ MissedIsNotified'
    BY DEF LoopIsJoinedFirst, MissedIsNotified, TypeOK, CounterTypes
  <2>5. QED
    BY <2>1, <2>2, <2>3, <2>4
<1>2. QED
  BY <1>1

LEMMA StepIInv == IInv /\ [Next]_vars => IInv'
<1> SUFFICES ASSUME IInv, [Next]_vars PROVE IInv'
  OBVIOUS
<1>1. CASE UNCHANGED vars
  <2> USE <1>1 DEF vars, flags, mail, worker
  <2>1. TypeOK'
    BY DEF IInv, TypeOK, FlagTypes, CounterTypes, CheckTypes, PlaceTypes, Conditions
  <2>2. SnapshotIsBinding'
    BY DEF IInv, SnapshotIsBinding, Unsettled, Confirmed, Conditions, Holds
  <2>3. SnapshotIsFresh' /\ SleepsOnCurrentWord' /\ LoopIsJoinedFirst' /\ MissedIsNotified'
    BY DEF IInv, SnapshotIsFresh, SleepsOnCurrentWord, WakeUnderWay, LoopIsJoinedFirst,
           MissedIsNotified
  <2>4. QED
    BY <2>1, <2>2, <2>3 DEF IInv
<1>2. CASE Next
  BY <1>1, <1>2, ControlKeeps, MainKeeps, WorkerKeeps, WatcherKeeps
     DEF Next, ControlMayStep, ControlMustStep, MainStep, Exit, WorkerMustStep, WatcherStep
<1>3. QED
  BY <1>1, <1>2

LEMMA AlwaysIInv == Spec => []IInv
<1>1. QED
  BY InitIInv, StepIInv, PTL DEF Spec

\* Every variable of the inference threads keeps its type.
THEOREM TypeCorrect == Spec => []TypeOK
<1>1. IInv => TypeOK
  BY DEF IInv
<1>2. QED
  BY <1>1, AlwaysIInv, PTL

\* The futex protocol never loses a wake-up: a sleeping inference thread has
\* nothing to do or is about to be woken.
THEOREM WakeupsArrive == Spec => []NoLostWakeup
<1>1. IInv => NoLostWakeup
  <2> SUFFICES ASSUME IInv, workerAt = "asleep", ~WakeUnderWay
               PROVE  /\ running
                      /\ waitFor = "activation" => ~active
                      /\ waitFor = "observation" => active /\ ~box
    BY DEF NoLostWakeup
  <2>1. \A i \in 1..Len(Conditions(waitFor)) : Holds(Conditions(waitFor)[i])
    BY DEF IInv, SleepsOnCurrentWord, SnapshotIsBinding, Confirmed, WakeUnderWay, Unsettled
  <2>2. CASE waitFor = "observation"
    <3>1. Holds("quiet") /\ Holds("running") /\ Holds("active")
      BY <2>1, <2>2 DEF Conditions
    <3>2. QED
      BY <2>2, <3>1 DEF Holds, IInv, MissedIsNotified, WakeUnderWay
  <2>3. CASE waitFor = "activation"
    <3>1. Holds("inactive") /\ Holds("running")
      BY <2>1, <2>3 DEF Conditions
    <3>2. QED
      BY <2>3, <3>1 DEF Holds
  <2>4. QED
    BY <2>2, <2>3 DEF IInv, TypeOK, CheckTypes
<1>2. QED
  BY <1>1, AlwaysIInv, PTL
=============================================================================
