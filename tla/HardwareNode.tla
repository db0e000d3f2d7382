----------------------------- MODULE HardwareNode -----------------------------
(***************************************************************************)
(* The life of the hardware node (legged_e2_hw.cpp): the main thread opens *)
(* the bus, starts the threads one after the other and takes them down     *)
(* again, after a shutdown or from any step of the start that fails.       *)
(*                                                                         *)
(* The real-time loop (LeggedHWLoop) waits on a condition variable until   *)
(* it is configured, then runs read(), update() and write().  read() feeds *)
(* the ring of MotorFeedback and the queue of CAN events, which the        *)
(* publisher drains; the queue is the atomic one that SpscRingBuffer       *)
(* implements, an event its serial number.  The other threads only watch a *)
(* flag.  A loop that meets the bound on its reads pauses until the end.   *)
(***************************************************************************)
EXTENDS MotorFeedback, FiniteSets

CONSTANTS
  EventCapacity,   \* the events canEventBuffer_ holds
  MaxEvents,       \* bound on the CAN events
  Attempts         \* the tries of rt_ethercat_init()

ASSUME HardwareNodeAssumption ==
  /\ EventCapacity \in Nat \ {0} /\ MaxEvents \in Nat
  /\ Attempts \in Nat \ {0}

\* ecatcheck(), ankleDebugLoggerLoop(), LeggedHWLoop::timingPublisherLoop().
Helpers == {"monitor", "logger", "timing"}

VARIABLES
  mainAt,               \* the main thread's next step
  attempt,              \* the tries of rt_ethercat_init() so far, 0 after it
  inOP,                 \* the bus is open
  helper,               \* each helper: "none", "running", "told" to stop, "ended"
  mutexFree,            \* startMutex_
  configured,           \* loopThreadConfigured_
  loopRunning,          \* loopRunning_
  loopAt,               \* the real-time thread's next step, "none" before its start
  publisherRunning,     \* motorFeedbackPublisherRunning_
  publisherAt,          \* the publisher's next step, "none" before its start
  events,               \* canEventBuffer_
  dropped,              \* canEventDropped_
  logOpen,              \* canEventLogFile_
  raised, logged, told  \* history: events raised, logged, reported as dropped

mainVars == <<mainAt, attempt, inOP, helper, logOpen>>
startVars == <<mutexFree, configured, loopRunning>>
eventVars == <<events, dropped, raised, logged, told>>
publisherVars == <<publisherRunning, publisherAt>>
nodeVars == <<vars, mainVars, startVars, loopAt, publisherVars, eventVars>>

NodeInit ==
  /\ Init
  /\ mainAt = "init" /\ attempt = 0 /\ inOP = FALSE
  /\ helper = [h \in Helpers |-> "none"]
  /\ mutexFree = TRUE /\ configured = FALSE /\ loopRunning = TRUE
  /\ loopAt = "none"
  /\ publisherRunning = FALSE /\ publisherAt = "none"
  /\ events = <<>> /\ dropped = 0 /\ logOpen = FALSE
  /\ raised = 0 /\ logged = <<>> /\ told = 0

-----------------------------------------------------------------------------
(* The main thread starts the node: E2HW::init() and LeggedHWLoop's        *)
(* constructor.  Whatever fails, the stack is unwound to "destroy".        *)

MainGoes(from, to) == mainAt = from /\ mainAt' = to

\* E2HW::init() up to the bus: parameters, configuration and the event log (which
\* opens here; without it the events go to the console alone).
InitHardware ==
  /\ \/ MainGoes("init", "open bus")
     \/ MainGoes("init", "destroy")
  /\ logOpen' = (mainAt' = "open bus")
  /\ UNCHANGED <<vars, attempt, inOP, helper, startVars, loopAt, publisherVars, eventVars>>

\* run_ethercat(): from here to its end the main thread uses SOEM.
TryBus ==
  /\ MainGoes("open bus", "opening")
  /\ attempt' = attempt + 1
  /\ UNCHANGED <<vars, inOP, helper, logOpen, startVars, loopAt, publisherVars, eventVars>>

BusOpens ==
  /\ MainGoes("opening", "start monitor")
  /\ inOP' = TRUE
  /\ attempt' = 0
  /\ UNCHANGED <<vars, helper, logOpen, startVars, loopAt, publisherVars, eventVars>>

BusFails ==
  /\ MainGoes("opening", IF attempt < Attempts THEN "open bus" ELSE "destroy")
  /\ UNCHANGED <<vars, attempt, inOP, helper, logOpen, startVars, loopAt, publisherVars, eventVars>>

\* The thread of a helper is created, or it is not.
Starts(h) == helper' = [helper EXCEPT ![h] = "running"]

StartMonitor ==
  /\ \/ MainGoes("start monitor", "start logger") /\ Starts("monitor") /\ UNCHANGED inOP
     \/ MainGoes("start monitor", "destroy") /\ inOP' = FALSE /\ UNCHANGED helper
  /\ UNCHANGED <<vars, attempt, logOpen, startVars, loopAt, publisherVars, eventVars>>

\* The rest of E2HW::init(), with the ankle log.
StartLogger ==
  /\ \/ MainGoes("start logger", "start publisher") /\ Starts("logger")
     \/ MainGoes("start logger", "destroy") /\ UNCHANGED helper
  /\ UNCHANGED <<vars, attempt, inOP, logOpen, startVars, loopAt, publisherVars, eventVars>>

StartPublisher ==
  /\ publisherRunning' = TRUE
  /\ \/ MainGoes("start publisher", "start loop") /\ publisherAt' = "check"
     \/ MainGoes("start publisher", "destroy") /\ UNCHANGED publisherAt
  /\ UNCHANGED <<vars, attempt, inOP, helper, logOpen, startVars, loopAt, eventVars>>

StartLoop ==
  /\ \/ MainGoes("start loop", "configure") /\ loopAt' = "lock"
     \/ MainGoes("start loop", "destroy") /\ UNCHANGED loopAt
  /\ UNCHANGED <<vars, attempt, inOP, helper, logOpen, startVars, publisherVars, eventVars>>

\* A mutant: the flag is changed without the mutex.
BugMayTell == TRUE
\* The flag the waiting loop looks at is changed under the mutex.
MayTell == mutexFree

\* The thread is configured, or require_realtime and it cannot be.
Configure ==
  /\ MayTell
  /\ \/ MainGoes("configure", "notify") /\ configured' = TRUE /\ UNCHANGED loopRunning
     \/ MainGoes("configure", "notify to end") /\ loopRunning' = FALSE /\ UNCHANGED configured
  /\ UNCHANGED <<vars, attempt, inOP, helper, logOpen, mutexFree, loopAt, publisherVars, eventVars>>

\* notify_one() wakes the loop if it is blocked.
Notify ==
  /\ \/ MainGoes("notify", "start timing")
     \/ MainGoes("notify to end", "join loop")
  /\ loopAt' = IF loopAt = "blocked" THEN "lock" ELSE loopAt
  /\ UNCHANGED <<vars, attempt, inOP, helper, logOpen, startVars, publisherVars, eventVars>>

StartTiming ==
  /\ \/ MainGoes("start timing", "up") /\ Starts("timing") /\ UNCHANGED loopRunning
     \/ MainGoes("start timing", "join loop") /\ loopRunning' = FALSE /\ UNCHANGED helper
  /\ UNCHANGED <<vars, attempt, inOP, logOpen, mutexFree, configured, loopAt, publisherVars, eventVars>>

-----------------------------------------------------------------------------
(* ... and takes it down: ~LeggedHWLoop() and ~E2HW(). *)

\* ros::waitForShutdown() returns.
Shutdown ==
  /\ MainGoes("up", "stop loop")
  /\ UNCHANGED <<vars, attempt, inOP, helper, logOpen, startVars, loopAt, publisherVars, eventVars>>

StopLoop ==
  /\ MayTell
  /\ MainGoes("stop loop", "notify to end")
  /\ loopRunning' = FALSE /\ configured' = TRUE
  /\ UNCHANGED <<vars, attempt, inOP, helper, logOpen, mutexFree, loopAt, publisherVars, eventVars>>

\* A mutant: the thread is left to itself.
BugMayJoin(at) == TRUE
MayJoin(at) == at \in {"none", "ended"}

JoinLoop ==
  /\ MainGoes("join loop", "stop timing")
  /\ MayJoin(loopAt)
  /\ UNCHANGED <<vars, attempt, inOP, helper, logOpen, startVars, loopAt, publisherVars, eventVars>>

Told(h) == helper' = [helper EXCEPT ![h] = IF @ = "running" THEN "told" ELSE @]

\* The flag of a helper is cleared, and the helper joined.
StopHelper(h, from, to) ==
  /\ MainGoes(from, to)
  /\ Told(h)
  /\ UNCHANGED <<vars, attempt, inOP, logOpen, startVars, loopAt, publisherVars, eventVars>>

JoinHelper(h, from, to) ==
  /\ MainGoes(from, to)
  /\ helper[h] \in {"none", "ended"}
  /\ UNCHANGED <<vars, attempt, inOP, helper, logOpen, startVars, loopAt, publisherVars, eventVars>>

StopPublisher ==
  /\ MainGoes("stop publisher", "join publisher")
  /\ publisherRunning' = FALSE
  /\ UNCHANGED <<vars, attempt, inOP, helper, logOpen, startVars, loopAt, publisherAt, eventVars>>

JoinPublisher ==
  /\ MainGoes("join publisher", "close log")
  /\ publisherAt \in {"none", "ended"}
  /\ UNCHANGED <<vars, attempt, inOP, helper, logOpen, startVars, loopAt, publisherVars, eventVars>>

CloseLog ==
  /\ MainGoes("close log", "stop monitor")
  /\ logOpen' = FALSE
  /\ UNCHANGED <<vars, attempt, inOP, helper, startVars, loopAt, publisherVars, eventVars>>

\* rt_ethercat_shutdown() uses SOEM once more, and only if the bus is open.
CloseBus ==
  /\ MainGoes("close bus", "down")
  /\ inOP' = FALSE
  /\ UNCHANGED <<vars, attempt, helper, logOpen, startVars, loopAt, publisherVars, eventVars>>

TakeDown ==
  \/ JoinLoop
  \/ StopHelper("timing", "stop timing", "join timing")
  \/ JoinHelper("timing", "join timing", "destroy")
  \/ StopHelper("logger", "destroy", "join logger")
  \/ JoinHelper("logger", "join logger", "stop publisher")
  \/ StopPublisher \/ JoinPublisher \/ CloseLog
  \/ StopHelper("monitor", "stop monitor", "join monitor")
  \/ JoinHelper("monitor", "join monitor", "close bus")
  \/ CloseBus

-----------------------------------------------------------------------------
(* The real-time thread: the wait for the start, and update(). *)

LoopGoes(from, to) == loopAt = from /\ loopAt' = to

LoopLocks ==
  /\ LoopGoes("lock", "predicate")
  /\ mutexFree /\ mutexFree' = FALSE
  /\ UNCHANGED <<vars, mainVars, configured, loopRunning, publisherVars, eventVars>>

\* wait() looks at the predicate, and if it has to it unlocks and blocks at once.
LoopLooks ==
  /\ IF configured \/ ~loopRunning
     THEN LoopGoes("predicate", "while") /\ mutexFree' = TRUE
     ELSE LoopGoes("predicate", "block") /\ UNCHANGED mutexFree
  /\ UNCHANGED <<vars, mainVars, configured, loopRunning, publisherVars, eventVars>>

LoopBlocks ==
  /\ LoopGoes("block", "blocked")
  /\ mutexFree' = TRUE
  /\ UNCHANGED <<vars, mainVars, configured, loopRunning, publisherVars, eventVars>>

LoopEnds ==
  /\ LoopGoes("while", "ended")
  /\ ~loopRunning
  /\ UNCHANGED <<vars, mainVars, startVars, publisherVars, eventVars>>

\* read() of a valid cycle unpacks the process data first ...
Unpack ==
  /\ LoopGoes("while", "unpack")
  /\ loopRunning /\ reads < MaxReads
  /\ UNCHANGED <<vars, mainVars, startVars, publisherVars, eventVars>>

\* ... and queues the events of the CAN channels.
RaiseEvent ==
  /\ loopAt = "unpack"
  /\ raised < MaxEvents
  /\ raised' = raised + 1
  /\ IF Len(events) < EventCapacity
     THEN events' = Append(events, raised + 1) /\ UNCHANGED dropped
     ELSE dropped' = dropped + 1 /\ UNCHANGED events
  /\ UNCHANGED <<vars, mainVars, startVars, loopAt, publisherVars, logged, told>>

\* enqueueMotorFeedbackSample(), of an invalid cycle or a valid one.
NodeRead ==
  /\ \/ LoopGoes("while", "queue") /\ loopRunning /\ Read(FALSE)
     \/ LoopGoes("unpack", "queue") /\ Read(TRUE)
  /\ UNCHANGED <<mainVars, startVars, publisherVars, eventVars>>

NodeQueue ==
  /\ loopAt = "queue" /\ UNCHANGED loopAt
  /\ WriteSlot \/ StoreHead
  /\ UNCHANGED <<mainVars, startVars, publisherVars, eventVars>>

\* The controllers' update(), and the exchange in write().
BeginExchange ==
  /\ LoopGoes("queue", "exchange")
  /\ producerAt = "idle"
  /\ UNCHANGED <<vars, mainVars, startVars, publisherVars, eventVars>>

EndExchange ==
  /\ LoopGoes("exchange", "while")
  /\ UNCHANGED <<vars, mainVars, startVars, publisherVars, eventVars>>

LoopStep ==
  \/ LoopLocks \/ LoopLooks \/ LoopBlocks \/ LoopEnds
  \/ Unpack \/ RaiseEvent \/ NodeRead \/ NodeQueue \/ BeginExchange \/ EndExchange

\* A condition variable may wake up by itself.
SpuriousWakeup ==
  /\ LoopGoes("blocked", "lock")
  /\ UNCHANGED <<vars, mainVars, startVars, publisherVars, eventVars>>

-----------------------------------------------------------------------------
(* The publisher and the helpers. *)

PublisherGoes(from, to) == publisherAt = from /\ publisherAt' = to
ReportDropped == told' = told + dropped /\ dropped' = 0

\* A mutant: nothing is drained once the flag is cleared.
BugLastPass == "ended"
LastPass == "last events"

\* The flag, and the count of dropped events, read and reset in one exchange: no
\* other thread writes both.
PublisherLooks ==
  /\ \/ publisherRunning /\ PublisherGoes("check", "events") /\ ReportDropped
     \/ ~publisherRunning /\ PublisherGoes("check", LastPass) /\ UNCHANGED <<dropped, told>>
  /\ UNCHANGED <<vars, mainVars, startVars, loopAt, publisherRunning, events, raised, logged>>

PopEvent ==
  /\ publisherAt \in {"events", "last events"}
  /\ events # <<>>
  /\ events' = Tail(events)
  /\ logged' = Append(logged, Head(events))
  /\ UNCHANGED <<vars, mainVars, startVars, loopAt, publisherVars, dropped, raised, told>>

EventsDone ==
  /\ events = <<>>
  /\ \/ PublisherGoes("events", "samples") /\ UNCHANGED <<dropped, told>>
     \/ PublisherGoes("last events", "ended") /\ ReportDropped
  /\ UNCHANGED <<vars, mainVars, startVars, loopAt, publisherRunning, events, raised, logged>>

\* The batch of samples; an empty ring ends the pass.
NodePublish ==
  /\ publisherAt = "samples"
  /\ PublisherStep
  /\ publisherAt' = IF consumerAt = "idle" /\ consumerAt' = "idle" THEN "check" ELSE "samples"
  /\ UNCHANGED <<mainVars, startVars, loopAt, publisherRunning, eventVars>>

PublishingStep ==
  PublisherLooks \/ PopEvent \/ EventsDone \/ NodePublish

HelperEnds(h) ==
  /\ helper[h] = "told"
  /\ helper' = [helper EXCEPT ![h] = "ended"]
  /\ UNCHANGED <<vars, mainAt, attempt, inOP, logOpen, startVars, loopAt, publisherVars, eventVars>>

-----------------------------------------------------------------------------
StartUp ==
  \/ InitHardware \/ TryBus \/ BusOpens \/ BusFails
  \/ StartMonitor \/ StartLogger \/ StartPublisher \/ StartLoop
  \/ Configure \/ Notify \/ StartTiming

MainStep == StartUp \/ StopLoop \/ TakeDown

Terminated == mainAt = "down" /\ UNCHANGED nodeVars

NodeNext ==
  \/ MainStep \/ Shutdown
  \/ LoopStep \/ SpuriousWakeup
  \/ PublishingStep
  \/ \E h \in Helpers : HelperEnds(h)
  \/ Terminated

NodeSpec == NodeInit /\ [][NodeNext]_nodeVars

\* Every thread is scheduled.  None of these steps waits for anything but a mutex
\* that is free again after a few steps or a thread to join, the controllers'
\* update() returns, and the real-time thread gets the mutex since nobody else
\* takes it again and again.  A shutdown is never certain.
FairNodeSpec ==
  /\ NodeSpec
  /\ WF_nodeVars(MainStep) /\ WF_nodeVars(LoopStep) /\ WF_nodeVars(PublishingStep)
  /\ \A h \in Helpers : WF_nodeVars(HelperEnds(h))

-----------------------------------------------------------------------------
(* Properties. *)

\* Every variable keeps its type.
NodeTypeOK ==
  /\ TypeOK
  /\ mainAt \in {"init", "open bus", "opening", "start monitor", "start logger",
                 "start publisher", "start loop", "configure", "notify", "notify to end",
                 "start timing", "up", "stop loop", "join loop", "stop timing", "join timing",
                 "destroy", "join logger", "stop publisher", "join publisher", "close log",
                 "stop monitor", "join monitor", "close bus", "down"}
  /\ attempt \in 0..Attempts /\ inOP \in BOOLEAN /\ logOpen \in BOOLEAN
  /\ helper \in [Helpers -> {"none", "running", "told", "ended"}]
  /\ mutexFree \in BOOLEAN /\ configured \in BOOLEAN /\ loopRunning \in BOOLEAN
  /\ loopAt \in {"none", "lock", "predicate", "block", "blocked", "while", "unpack",
                 "queue", "exchange", "ended"}
  /\ publisherRunning \in BOOLEAN
  /\ publisherAt \in {"none", "check", "events", "samples", "last events", "ended"}
  /\ events \in Seq(Nat) /\ logged \in Seq(Nat)
  /\ dropped \in Nat /\ raised \in 0..MaxEvents /\ told \in Nat

\* The threads that use SOEM or the process image it maps.
SoemUsers ==
  {t \in {"main", "loop"} :
     \/ t = "main" /\ mainAt = "opening"
     \/ t = "main" /\ mainAt = "close bus" /\ inOP
     \/ t = "loop" /\ loopAt \in {"unpack", "exchange"}}

\* SOEM is used by one thread at a time, by the real-time thread only on an open
\* bus, on every path through the start, its failures and the shutdown; when the
\* hardware is gone so is every thread that used it, and the bus is closed.
TeardownIsOrdered ==
  /\ Cardinality(SoemUsers) <= 1
  /\ "loop" \in SoemUsers => inOP
  /\ mainAt = "down" =>
       /\ ~inOP /\ ~logOpen
       /\ loopAt \in {"none", "ended"} /\ publisherAt \in {"none", "ended"}
       /\ \A h \in Helpers : helper[h] \in {"none", "ended"}

\* What the comment in motorFeedbackPublisherLoop() promises: before the log is
\* closed, every CAN event that was accepted has been logged, once and in order;
\* the others have been reported as dropped.
EventsAreAccountedFor ==
  /\ \A i, j \in DOMAIN logged : i < j => logged[i] < logged[j]
  /\ mainAt \in {"close log", "stop monitor", "join monitor", "close bus", "down"} =>
       Len(logged) + told = raised

\* The node comes down, after a shutdown and after a start that failed: no
\* wake-up of the waiting loop is lost and no join waits for ever.
NodeStops == mainAt \in {"stop loop", "notify to end", "destroy"} ~> mainAt = "down"

\* The newest sample queued: its place in the ring is not used again before the
\* next one.
Newest == slots[(head + Capacity - 1) % Capacity]

\* Publication catches up: while the publisher is not told to stop, it is the
\* newest sample queued, a change of validity or not, that is published in the end.
PublicationCatchesUp == []<>(published = Newest \/ ~publisherRunning)
=============================================================================
