# Verification of the E2 control software

This directory holds TLA+ models of the control software of the E2 humanoid
(`src/src/legged_rl`), the TLC configurations that check them on small
instances, and TLAPS proofs of the main results for every value of the
constants. Paths below are relative to `src/src/legged_rl`; `RC` stands for
`rl_controller/rl_controllers`, `HW` for `legged_robot/e2_hw/legged_e2_hw`,
`LB` for `legged_base`.

Run `tlc -config X.cfg M` and `tlapm MProofs.tla` in this directory. The run
names, configurations and mutants are listed in `PROJECT.json`, which also maps
every definition to the lines it models.

## The system

One real-time thread (`LB/legged_hw/src/LeggedHWLoop.cpp`) runs a 500 Hz cycle
of `read()`, `update()`, `write()`. `update()` is
`RLControllerBase::update()` with the mode handlers of `AcController`.
Around it run three ROS spinner threads with the topic callbacks, an inference
thread that executes ONNX policies, a watcher that aborts inference on
shutdown, timing publishers, and the EtherCAT thread of the hardware.

| Component | State | Operations | Interacts with | What is hard |
|---|---|---|---|---|
| Control loop core (`RC/src/RLControllerBase.cpp`) | emergency generation and latch, reset target, shutdown flag, pending requests, joystick flags, mode, start_control | callbacks, `update()`, `starting()` | callbacks by atomics only | a message may fall between any two accesses of a cycle; a reset races a new emergency |
| Mode state machine (`RC/src/core/ControlStateMachine.cpp`) | mode, start_control | `applyControlRequest`, `joystickDisconnectFallback` | called by the loop | authority over the joints depends on the sequence of requests |
| Policy modes (`RC/src/policies/*Mode.cpp`, `RC/src/AcController.cpp`) | active policy, end-of-motion flags, DOWN latch and fade, UP preparation and blend | enter, play, complete, fault, leave | joint commands, inference | flags of one visit surviving into the next |
| Latest-value buffer (`RC/include/rl_controllers/LatestTripleBuffer.h`) | one atomic word, three slots | `producerBuffer`, `publish`, `consumeLatest` | one producer, one consumer | lock-free slot ownership |
| Inference threads (`RC/src/AcController.cpp`, `RC/src/inference/PolicyInferenceRuntimeState.cpp`) | futex word, notification generation, running/active flags, watcher | publish, sleep, wake, stop, join | control loop, main thread | lost wake-ups, a run that never returns, shutdown order |
| Inference data path (same files) | policy epoch, observation and action sequence numbers, timestamps, action buffers | submit, execute, apply, time out | mailboxes in both directions | stale actions, completion that waits for a lost action |
| Request intake (`RLControllerBase.cpp:354-382`) | last received and last accepted times | release gap, debounce, arbitration | teleop nodes | a press that means stop is swallowed |
| Inference statistics (`AcController.cpp:978-1058`) | four slots with writer counts | begin, accumulate, end, publish | three threads | slot reuse under a writer |
| SPSC ring (`LB/legged_common/include/legged_common/SpscRingBuffer.h`) | head, tail | push, pop | RT thread, publisher | full and empty boundaries |
| Hardware node (`LB/legged_hw/src/LeggedHWLoop.cpp`, `HW/src/legged_e2_hw.cpp`, `HW/src/E2HW.cpp`) | bus, six threads with their flags, start handshake | open, start, configure, run, stop, join, close | controller manager, SOEM | a start that fails at any step, a shutdown at any time |
| EtherCAT/CAN monitoring (`HW/include/*.h`, `HW/src/E2HW.cpp`) | working-counter windows, error counters, latches | observe, latch, fail closed | EtherCAT thread, RT thread | counter wrap, windows, one bad cycle among good ones |
| Teleop (`RC/src/rl_controllers_teleop/*.py`) | the radio's last state and its age, button edges | read frames, tick, publish topics | callbacks | outages, repeats and reconnects, two time-outs in a row |
| Motor fault log (`HW/user/e2-core/hardware/can_protocol_func.cpp`) | fault state of each motor, queue of records, count of dropped ones | unpack a motor, enqueue, write, announce, stop | real-time thread, logger's worker | a lost record makes the log tell a false story |
| Frame packing, kinematics, ONNX, simulation, tools, vendored code | - | - | - | data and I/O |

What makes each correct, as stated here: a stop acts within its cycle and is
never undone by a stale reset; motion needs START; only the current mode's
policy runs; a lost joystick leaves the robot standing; a motion completes only
when it was played; packets are never torn or reordered; the inference thread
never misses work and shutdown always ends; joints are driven only by actions of
the current visit that are fresh enough; a hardware fault is latched for good and
none is invented; no command outlives its cycle; subscribers see the validity of
the feedback as it changed; nothing uses the bus before it is open or after it is
closed, and no event is forgotten on the way down; a press acts once, a
deliberate one acts, and the robot stops when the stick is back or silent; each
visit's statistics are reported once and complete; the log of the motors' faults
is right or says that it may not be.

## What is modelled

### LatestMailbox, LatestTripleBuffer

`LatestMailbox` is what the buffer promises: one slot, a newer value replaces
an unconsumed one, the consumer gets the newest value once.
`LatestTripleBuffer` models `producerBuffer()/publish()/consumeLatest()` one
atomic access per action: the producer's filling of its slot is two steps
(first half, second half), so is the consumer's reading, and the consumer's
load and compare-exchange are separate. The word `middleState_` is the slot
index with the dirty bit. It is checked where it is used, as the
`commandBuffer_` of `OperatorInput`: no read is torn, and the buffer implements
the mailbox. Both, and the types, are proved for every number of packets, in
`OperatorInputProofs`. The invariant is that back, middle and front slots are always a permutation of the three slots
and that the front slot holds one whole packet. Memory order is not modelled:
each access is atomic and sequentially consistent, which acquire/release on a
single word together with the ownership proved here justifies.

### ControlStateMachine, AuthorityLadder, ControlLoop, ControlLoopProofs

`ControlStateMachine` translates the two pure functions of the state machine
into operators: which request is accepted, the mode it leads to, what becomes
of start_control, and the joystick fallback. `ControlLoop` is one cycle of
`update()` after another. Every access to an atomic that a callback writes is
an action of its own, with `at` as the program counter; whatever only the
real-time thread touches is folded into the preceding step. The callbacks are
actions that may fall anywhere (the reset callback and the joystick callback
with two each, as they make two accesses). The mode handlers are one action
per way they can end. `Stopping` and `Starting` are the controller manager's.

Abstracted to nondeterminism: which requests are still in their debounce
window, whether a command is fresh and non-zero, whether a policy run faults or
times out, whether the final action has been applied, whether a fade or blend
is over. Left out: state estimation, clipping, joint values (only who commands
the joints is kept in `output`), logging and event publication, an invalid
hardware read (every cycle is taken to be valid), the 32-bit wrap of the
emergency generation.

`AuthorityLadder` is the abstract specification: limp, lying, standing, walking,
playing a motion. The robot climbs one rung at a time, beyond the first only
while control has been started, and may come down any number of rungs at any
moment. `Ladder!Spec`, with the mode mapped to its rung and start_control to
`armed`, is the PROPERTY `ImplementsLadder` of the run `motions`.

Runs (module `ControlLoop`):

| Run | Bounds | What it shows |
|---|---|---|
| `stops` | two emergencies; START, POSITION, LIE_TO_STAND, WALK; the joystick may only be lost | stops act in their cycle; resets discard queued requests; a stale reset never clears a newer emergency; a stop is eventually obeyed. Two emergencies are the least with which a reset bound to the first meets the second |
| `motions` | START, POSITION, SWITCH_MODE, WALK, DOWN, UP; joystick reports of both values; no emergency | the active policy is the mode's; a cycle that finds the joystick gone ends limp or standing, with none of the requests then queued; no completion by a previous visit's flags; motion needs START; the loop implements the ladder. The requests lead to every mode but DANCE, which has the handler of UP without its preparation |
| `down_hook`, `down_fade`, `reset_disabled` | the smallest constants that show it | three disagreements of code and comment, below |

Fairness: `WF_vars(Update)` only. `LeggedHWLoop` calls `update()` for as long
as it runs and nothing in `update()` blocks; the callbacks, the faults and the
restarts get no fairness.

### InferenceThreads, InferenceThreadsProofs

Four threads, one action per access to a shared atomic: the control loop
(start, stop, submit, notify, advance the futex word, wake), the inference
thread (`inferenceLoop()` with both waits of
`PolicyInferenceRuntimeState`), the shutdown watcher and the main thread
(`~LeggedHWLoop()` joins the loop before `~AcController()` runs
`stopInferenceThread()`). FUTEX_WAIT compares and sleeps in one step, as the
kernel does; interrupted waits may happen and are never counted on. A policy
run may take for ever unless termination was requested. The mailbox is a
boolean (its own module covers it); epochs are left out, so an observation may
be dropped. A throw of `SetTerminate()` is left out.

Run `inference` (two observations, three starts and stops, the configurations
with and without an inference thread) checks that a sleeping worker has nothing
to do or is about to be woken, that observations are picked up, and that ROS
shutdown ends the process: without an inference thread a run sits inside
`update()`, where only the watcher can end it. Two observations suffice for one
to be overwritten while the worker is anywhere in its wait; three toggles for a
stop and a restart. Fairness is weak fairness of each thread: the threads are
scheduled by the kernel and every step other than an unaborted policy run
returns. Deadlock is checked; the end of the process is an explicit stutter.

### PolicyPipeline, PolicyPipelineProofs

The data path that `ControlLoop` abstracts to "the final action has been
applied" and `InferenceThreads` to a boolean. The mode handlers are split at
their accesses to the mailboxes: enter the policy (or find it active), then
submit an observation, skip the tick, complete, interpolate or fault; then
consume an action, then drive the joints or fault. The inference thread's look
at `controllerActive`, its take, its gate on epoch and its publication are
separate actions, so an epoch may end between any two of them; without an
inference thread the run is a step of the handler that time may pass in. The
mailboxes are single slots of the latest packet, as `Implementation` in
`OperatorInputProofs` proves the triple buffer to be. The history `visit` numbers the entries into a policy and
`driven` is the sequence number that reached the joints last.

Nondeterministic: which handler runs next, whether a tick is due, faults of the
data, failing runs. Left out: observations and actions of the wrong size, the
traces, the arithmetic of the UP blend (the joints are driven by the policy's
action whether blended or not).

Run `pipeline` (motion UP, time-out 2, period 1, epochs up to 5, sequence
numbers up to 2, time up to 5): the epochs allow a policy to be left with a run
on its way and entered again, also by way of a restart, which starts the
sequence numbers over so that an old action has a number the new visit
expects. `MotionsEnd` speaks only of states from which the time-out fits before
the end of the bounded clock, and assumes the code's default, a time-out. The
bounds stop the model, so deadlock is not checked. Fairness: time passes, and
the control loop keeps calling handlers, as in `ControlLoop`; nothing is assumed
of the inference thread, so a motion must end even if it hangs.

### OperatorInput, OperatorInputProofs

The path from the operator's hand to the command the robot follows, with two
devices. SBUS: the reader thread that accepts or rejects a frame and puts the
controls into their safe state after `signal_timeout`; the 20 ms timer that
publishes the velocity, resynchronises the buttons when the signal is new or back
instead of acting on them, and sends START at a rising edge. Joystick: the
callback that publishes what each message holds. Then the topics with their
queues of one message (a velocity may be lost), `cmdVelCallback()` as producer
of the triple buffer, `enqueueControlRequest()` with its release gap between two
atomics, and the part of `update()` that reads the clock, takes the newest command, judges
its age and takes the pending START through its debounce. Everything that
another thread can come between is an action of its own. START stands for the
other requests, which pass the same code with other time-outs.

Time: the code's 200 ms (both time-outs), 250 ms (gap) and 500 ms (debounce)
become 1, 2 and 3 units, in their order; the proofs hold for any,
that of `DeliberatePressActs` for any gap no longer than the debounce. What is under way when
a unit begins is finished before the next but one (`due`). This is the one
assumption on the speed of the parts, and a generous one: the timer has 20 ms,
the loop 2 ms, and the topics are local. Frames and joystick messages come or
stay away as they like.

Run `operator`: either device, and either the stick or START, which share no
state but the radio's. Three messages of `/cmd_vel` arrive: enough for the
buffer's word to come back while `update()` is between its load and its
exchange; how many more are sent and lost is not bounded. With three presses one can start control,
one stop it and one fall into an outage, in any order.

* `StickBehindMotion`: the robot moves only if the stick was seen deflected at
  most `SignalTimeout + CommandTimeout + 5` units ago. Five hops each may take
  the rest of a unit; with four the check fails.
* `PressActsOnce`: a press acts at most once however long it is held and
  repeated, and not at all if it was made while the signal was lost.
* `DeliberatePressActs`: a press after a release that neither timer can mistake
  acts within five units. The length of the release (`Debounce + 5`) is tight
  in the same way.
* `NoTornRead`, `ImplementsMailbox`: the buffer, under its real producer and
  consumer.

The bounds stop the model, so deadlock is not checked. A restart of the
controller, which clears the requests' time stamps, is not part of the module.

### SpscRingBuffer, BoundedQueue, MotorFeedback, HardwareNode and their proofs

`SpscRingBuffer` is `push()` and `pop()`, one action per access to the other
thread's index, to a slot or to the own index. `BoundedQueue` is what they
promise: a first-in first-out queue that refuses a value exactly when it holds
`Capacity - 1` and returns nothing exactly when it is empty; the contents of the
ring are mapped to the queue, the store of the index is where an operation takes
effect. As for the triple buffer, accesses are sequentially consistent; the
ring's acquire and release order each slot access between the two stores.

`MotorFeedback` composes a ring with its producer
(`E2HW::enqueueMotorFeedbackSample()`, which queues every few reads and at every
change of validity, and acknowledges the change only when it is queued) and its
consumer (`motorFeedbackPublisherLoop()`, which publishes changes at once and of
the rest only the latest of a batch). A sample is the number of its read, its
validity and its mark (`validityTransition`, which tells the publisher what to
publish at once and is not part of the message). A change that meets a full ring and is undone before the
next read is never queued, although the comment at `E2HW.cpp:814-816` reads as
if it were; what still holds is `MarksAreTrue`: the `data_valid` that subscribers
see changes exactly at the samples marked as changes.

`HardwareNode` extends it to the life of the node. The main thread opens the bus
(three tries), starts the bus monitor, the loggers, the publisher and the
real-time loop, configures the loop and wakes it, and takes everything down in the order of
the destructors, from wherever the start failed. The loop waits for its
configuration on a condition variable (lock, predicate, block and spurious
wake-ups are separate) and then repeats `read()` and the exchange; `read()`
queues samples and CAN events, of which some do not fit and are counted. The
publisher drains both, reports what was dropped and makes a last pass once it has been told
to stop. The three helper threads only watch a flag.

Run `node` (three slots, decimation 2, four reads, one place for events and two
events: ring and queue fill up, refuse, and the indices wrap):

* `TeardownIsOrdered`: SOEM is used by one thread at a time and only on an open
  bus, on each of the paths; at the end no thread is left.
* `EventsAreAccountedFor`: each CAN event is logged once and in order, or counted
  as dropped and reported, up to the last pass.
* `PublishedInOrder`, `MarksAreTrue`, `ImplementsQueue`: subscribers see samples
  in order, and their `data_valid` changes exactly at the samples published at
  once as changes, never at one that was held back.
* `PublicationCatchesUp`, `NodeStops`: the newest sample queued is published in
  the end while the publisher runs; a failed start or a shutdown ends with the
  node down.

Deadlock is checked; a node that is down stutters. Fairness is weak fairness of
each thread: each is scheduled and none of its calls blocks but for the waits
modelled. Nothing is assumed of the shutdown request or of spurious wake-ups.

### InferenceStats, ReportProofs

The statistics of policy runs (`AcController.cpp:978-1058`): slots of atomics
that the control loop takes with an epoch, the inference thread adds to and a
publisher reports and frees, one access per action. On shutdown the main thread
publishes while the timer thread still does. Accesses are in one order, as the
locked increments and stores of x86 give it. A run's time is one unit, and WALK,
which is not counted, is no policy.

A slot is reused after `Slots` epochs whether or not its summary is out. The
history `crowded` holds the visits whose slot was needed or still written by a
thread of an earlier epoch; the code promises nothing of those, so that a writer
count that wraps under a writer of an earlier epoch and the reuse of a slot whose
summary is not out are modelled but outside the properties. Of all others the run
`stats` (two slots, four epochs, two runs: a slot is taken a second time with a
writer or a publisher of its first visit anywhere in its steps; writer counts
modulo 8) shows that they are reported once (`ReportedOnce`), with every run that
was let in before the end and none that was not made (`SummariesAreTrue`), and
in the end, by the flush if need be (`SummariesArrive`). Fairness is weak fairness
of each thread.

### MotorLog, ReportProofs

The log of the motors' faults. `UnpackMotor` is what `unpack_pvt_data_ex()` does
with the error code of the next motor in a valid image: a fault begins or
changes, lasts (the clock is read every `Stride` samples, a record is due after
a `Period`), ends, or was not there (with a status record once in a period if so
configured). A record that does not fit in the queue is counted. The logger's worker
takes a batch, exchanges the count, announces it, writes the batch, and after
`Stop()` writes what is left. The queue is the atomic one that `SpscRingBuffer`
implements.

The module includes the reader of the log: what he believes of each motor, with a
line about dropped records making him unsure of all motors and of the records
that may be older than the line, which the code writes below it. Against him the run
`motor_log` (two motors, one fault code, two places, batches of one) checks

* `LastWordIsTrue`: when nothing of a motor is on its way, the log says what the
  motor last said, or the reader has been warned;
* `GapsAreAnnounced`: no record contradicts the one before it unless a warning
  stands between them;
* `FaultsBecomeKnown`: if images keep coming and the motors' states change no
  more, every lasting fault is the log's last word in the end, also when its
  first record was dropped.

Time passes only when all that was queued is written: a unit is a hundred
of the worker's pauses of 10 ms. Two motors and two places are the least with
which one motor's records displace the other's; one place would starve the
second motor's summaries for ever, which 1023 places do not. With two fault codes,
a fault that changes included, the properties hold as well (statuses off), in a
run too long to repeat each time. Fairness: the worker, `Stop()` and time; none of
the images. Deadlock is checked. What the code does not promise: records
dropped after the worker's last round are not announced, and a dropped
`RECOVERED` is not repeated, it only leaves the reader warned.

### HardwareCycle, HardwareCycleProofs

One real-time cycle: `E2HW::read()` with the CAN error detector and its latch,
the controllers, `E2HW::write()` with the fail-closed condition and the check for
finite commands, and the exchange of process data with the working-counter
window. A command is where its values come from (`damping` as `read()` leaves
it, a `controller`, the `zero` frame, or `not finite`). The error counters wrap
modulo `Width` and may start over; `image` is what the last valid exchange
brought. Which exchange is valid, which counters grow by how much and which
values are not finite is any.

History says what has truly happened: the validity of the last `WindowCycles`
exchanges, each channel's errors since the last valid one, and for how many
valid exchanges in a row there was a burst. Against it the run `hardware`
(two motors, one channel, a window of three with one loss allowed, faults and
recoveries of two samples, counters modulo 6 that grow by 0 or 2) checks both
directions: every such fault closes the way to the motors for good, and no latch
closes without one. For the working counter the code's window is fixed, not
sliding, so the guarantee that holds wherever it falls is
`2 * MaxErrors` losses among any `WindowCycles` exchanges. A counter that wraps or starts
over between two samples hides a burst: it may delay a fault and never
causes one. Deadlock is checked.

## What is proved

`tlapm` checks, for all values of the constants:

* `ControlLoopProofs`: `TypeCorrect`, `StopsAreObeyed`, `ResetsDiscard`,
  `MotionIsStarted`, `OnePolicy`, `LostJoystick`, `ResetsAreFresh`,
  `MotionsAreCompleted`, `Implementation`. The inductive invariant adds to the
  type invariant `ResetsAreBound` (every reset state held anywhere, in the
  callback, the mailbox or the cycle's local, is a latched emergency that
  existed, and one that equals the present state stands for a reset since the
  last trigger) and `Protocol` (what has been established at each point of the
  cycle: where a stop is still to be seen, that a stop that has been seen has
  left the mode DEFAULT, that the active policy is NONE or the mode's once the
  handler ran). None of the properties is inductive alone: each speaks of the
  end of a cycle and says nothing in its middle.
* `InferenceThreadsProofs`: `TypeCorrect`, `WakeupsArrive`. The invariant ties
  the worker's snapshot to the futex word: if the snapshot is the present word
  and nobody is about to change it, the conditions the worker looked at still
  hold.

* `PolicyPipelineProofs`: `TypeCorrect`, `VisitsAreSeparate`,
  `ActionsAreFresh`, `LastFramesAreDriven`. The invariant says of each packet,
  wherever it is (mailboxes, inference thread, action vectors), that its epoch
  is a past one or the present one, and of the present epoch's packets that they
  are of this visit (`PacketsAreBound`); that the action vector holds the packet
  with the number and stamp applied last (`BooksMatch`); and that the last frame
  has the last number (`LastFrameIsLast`). The properties look at the joints
  only; what makes them true is what the packets on their way carry.
* `HardwareCycleProofs`: `TypeCorrect`, `MotorFaultsAreFinal`,
  `BusFaultsAreFinal`, `CommandsAreOfTheirCycle`, `FramesAreWhole`,
  `NoFalseAlarm`. The invariant counts the window's losses in the history
  (`WindowIsCounted`; more than twice the limit in a row puts more than the limit
  into one of the two fixed windows it touches), keeps each detector's streak
  between the bursts that showed and all bursts (`StreaksAreBounded`), and says
  where in the cycle each fault is latched (`FaultsAreLatched`) and what the
  commands are (`CommandsAreFresh`, `Frames`).
* `SpscRingBufferProofs.Implementation` and `HardwareNodeProofs.Implementation`:
  the ring, alone and inside the node, is the bounded queue. The invariant
  is what each thread may rely on after its one look at the other's index:
  there is still room (`RoomStays`), there is still a value (`ValueStays`).
* `HardwareNodeProofs`: `NodeImplements` (each step of the node is one of
  `MotorFeedback`'s or leaves its state alone), `OrderIsKept`, `MarksTell`,
  `TeardownOrder`, `EventsAccounted`, `TypeCorrect`. `FeedbackInv` looks at
  the samples on their way: they are younger than what is published or held
  back, in order, and each one's mark compares it with the one before it in the
  ring or, for the first, with the last one published; the acknowledged
  validity is that of the last one. `NodeInv` says at which of the main thread's
  steps each thread can be where. `EventInv` counts the events raised against
  those queued, logged, dropped and reported.
* `OperatorInputProofs`, the buffer first: `TypeCorrect`, `ReadsAreWhole` and
  `Implementation` of `LatestTripleBuffer`, from the ownership and the contents of
  the three slots. Then `BufferInside` (the buffer inside takes only its own
  steps), with it `CommandsAreWhole` and `CommandsAreTheLatest`; `OperatorTypes`,
  `StickIsObeyed`, `PressesActOnce`, `DeliberatePressesAct`. `StickInv` bounds the
  age of the stick's deflection behind each place a velocity can be in (radio,
  topic, callback, slot, `command_`) by the time-outs passed and the hops already
  due there. `OnceInv` says that a press that has acted can be nowhere else with a
  gap behind it: what keeps the two apart is, for the radio, the dispatcher's edge,
  for the joystick the release gap that the repeated messages prolong. `ActInv` has
  two halves. `Drained` bounds from above how long the button can have been released
  while a press is still in a hop, or a timer still runs; so a long release finds
  all hops empty and both timers out (`LongRelease`). `Underway` says for each unit
  a press has waited which hop it has reached, one more unit per hop while that hop
  is due. This theorem has a hypothesis of its own, `ReleaseGap <= Debounce`: 250 ms
  and 500 ms in the code. With a gap long enough to outlast the release that
  the property asks for, the press would fall in it.
* `ReportProofs`, about `InferenceStats`: `StatisticsKeepTypes`,
  `SummariesCountTheRuns`, `VisitsAreReportedOnce`. `SummariesAreTrue` compares a
  reported summary with the runs admitted by the end of the visit; nothing in it
  says why a publisher that saw no writer has read them all. `StatsIInv` says it of
  every visit that has its slot to itself: the slot counts exactly the writer inside
  and its books are what has been admitted but for the additions still to come
  (`BooksKept`); once a publisher has passed its look at the writers, nothing
  admitted by the end is still to come (`AdmittedAdded`), and what it has read so
  far covers that (`ReadersRight`); the flag `ended` and a publisher at work stand
  for each other, one publisher per end (`PublishedOnce`). The loop takes a slot back
  without asking: `FreshEpochs` says that nothing has heard of the new epoch before
  the slot is stored, `Reopened` that the slot of a visit that is alone in it stays
  clear while it is being cleared word by word.
* `ReportProofs`, about `MotorLog`: `TheLastWordIsTrue`, `TheGapsAreAnnounced`.
  `LogIInv` reads the batch and the queue behind it as one sequence of lines: each
  line continues the line before it of its motor, or what the reader believes if
  there is none (`Linked`), and the last one says what the motor last said
  (`LastIs`). When a record has been dropped and nothing is announced yet, only the
  batch that is being written is known to be linked; the announcement restores the
  rest by leaving the reader unsure of everything older than itself. No induction
  over the sequence is needed: each line speaks of one earlier line.

But for that one hypothesis the only assumptions are those named in the modules
(`StatsAssumption` and `MotorLogAssumption` for `ReportProofs`), which say of the
constants what the code does; TLC evaluates them in the runs (the ring's is a
definition, proved of the feedback's constants in `HardwareNodeProofs`). The types
of most modules are proved and no longer checked by the runs.

Only model-checked:

* the liveness properties, which rest on fairness and are out of the prover's
  reach: `StopIsEventuallyObeyed`, `ShutdownCompletes`, `ObservationsAreTaken`,
  `MotionsEnd`, `PublicationCatchesUp`, `NodeStops`, `SummariesArrive`,
  `FaultsBecomeKnown`;
* that an action is taken at all (no deadlock), which needs ENABLED;
* the three disagreements below, which are counterexamples and nothing to prove.

Every safety invariant and every safety action property that a passing run checks,
and every refinement, is stated by a theorem.

## Findings

1. `down_hook`: a DOWN asked for from WALK can skip its motion and go limp
   (`RC/src/policies/DownMode.cpp:13`), contrary to the comment above it.
2. `down_fade`: the fade after DOWN captures commands that `E2HW::read()` has
   already cleared, so it does not start from the policy's command.
3. `reset_disabled`: in the cycle after an emergency and its reset a POSITION
   request drives the joints, without START, although a comment and a log message say a START is needed.
`PROJECT.json` quotes the lines.

## Plan

Done: the modules above. What is left, in order of weight:

1. `PlaybackClock`: the tick arithmetic of a motion against a definition, and the
   deadline grid of `LeggedHWLoop::update()`.
2. A restart of the controller in `OperatorInput`, and the joystick's connection
   monitor (`joy_connection.py`).
3. The safety half of the liveness properties as theorems: at each state of
   `InferenceThreads`, `HardwareNode` and `MotorLog` that is not an end, which
   thread can go on.

## Not modelled

* Frame packing and scaling, parallel-joint kinematics, state estimation, the
  interpolation of poses and the ONNX execution: floating-point data without
  control state.
* Parameter loading, log files, formatting, ROS parameter and service plumbing.
* The Gazebo back end, the onboard test state machine of the e2-core and the
  tools: the robot's node does not run them.
* Vendored libraries (nlohmann/json, SOEM, ParamHandler, inih). They are more
  than half of the repository's lines, so the share of all lines that the models
  map stays small however much of the E2 software they cover.
