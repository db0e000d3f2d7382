---------------------------- MODULE OperatorInput ----------------------------
(***************************************************************************)
(* From the operator's stick and START button to the command the robot     *)
(* follows: the radio's reader thread (sbus_driver.py) and the 20 ms timer *)
(* of the SBUS teleop node (ros_teleop.py), or the joystick's callback     *)
(* (joy_teleop.py); the topics /cmd_vel and /start_control with their      *)
(* queues of one message; the controller's callbacks, with the release gap *)
(* and commandBuffer_, which is the buffer of LatestTripleBuffer step by   *)
(* step; and the part of RLControllerBase::update() that takes the newest  *)
(* command and the pending request, with the freshness and the debounce.   *)
(*                                                                         *)
(* Time passes in units, an age is a number of them, capped where it stops *)
(* to matter.  What is under way is done before the next unit but one      *)
(* begins (`due'): that is the only assumption on the speed of the parts.  *)
(* Frames and joystick messages come, or do not come, at any time.         *)
(*                                                                         *)
(* A press of the button has a number, kept while the button is held; 0 is *)
(* the released button.  A packet of the buffer holds a Command.           *)
(***************************************************************************)
EXTENDS LatestTripleBuffer

CONSTANTS
  Devices,          \* teleop_type of the launch file: "sbus", "joy"
  CommandSets,      \* what the node is configured to send: "walk", "start"
  SignalTimeout,    \* signal_timeout of the serial configuration
  CommandTimeout,   \* cmdVelTimeoutNs_
  ReleaseGap,       \* kReleaseGapNs
  Debounce,         \* debounceNs of START
  MaxPresses        \* bound on the presses of START

ASSUME OperatorInputAssumption ==
  /\ Devices \subseteq {"sbus", "joy"}
  /\ CommandSets \subseteq SUBSET {"walk", "start"}
  /\ SignalTimeout \in Nat /\ CommandTimeout \in Nat
  /\ ReleaseGap \in Nat \ {0} /\ Debounce \in Nat
  /\ MaxPresses \in Nat

Presses == 1..MaxPresses
Button == 0..MaxPresses
Command == [move: BOOLEAN, age: 0..CommandTimeout + 2, later: BOOLEAN]
\* A command that does not move the robot; its stamp is of no use.
Zero == [move |-> FALSE, age |-> CommandTimeout + 2, later |-> FALSE]
Controls == [valid: BOOLEAN, stick: BOOLEAN, button: Button]
Safe == [valid |-> FALSE, stick |-> FALSE, button |-> 0]

VARIABLES
  device, commands,     \* the configuration
  radio,                \* SbusDriver: _signal_valid and _state, under _state_lock
  frameAge,             \* SbusDriver: age of _last_valid_frame
  input,                \* _input_initialized and _input_valid: "new", "lost", "valid"
  held,                 \* CommandDispatcher: START's button in _last_buttons and _matched
  velocityTopic, startTopic,   \* the undelivered message, if there is one
  velocityMessage,      \* cmdVelCallback(): the message it was called with
  startMessage,         \* enqueueControlRequest() between its two atomics
  content,              \* the Command in each slot of the buffer
  requestReceived,      \* age of requestLastReceivedNs_[START]
  pending,              \* START in pendingControlRequests_: the press, or 0
  requestAccepted,      \* age of requestLastAcceptedNs_[START]
  loopAt,               \* update()'s next step
  lag,                  \* age of steadyNowNsValue in update()
  command,              \* command_
  due,                  \* what has to be done before the next unit of time
  button, presses,      \* the operator's button, and the presses so far
  silence,              \* age of the joystick's last message
  stickAge, quiet, waiting, spent   \* history, see the properties

config     == <<device, commands>>
driver     == <<radio, frameAge>>
teleop     == <<input, held>>
topics     == <<velocityTopic, startTopic>>
intake     == <<startMessage, requestReceived, pending, requestAccepted>>
loop       == <<loopAt, lag, command>>
operator   == <<button, presses, silence>>
history    == <<stickAge, quiet, waiting, spent>>
operatorVars == <<vars, config, driver, teleop, topics, velocityMessage, intake, content,
                  loop, due, operator, history>>

\* The hops from a frame to the motion, each of which can take the rest of one unit:
\* the reader's check or the timer, the topic, the callback, the cycle of update()
\* under way, and the next one.
Hops == 5
MaxAge == SignalTimeout + CommandTimeout + Hops
\* A release as long as this is one that neither timer can mistake.
Quiet == Debounce + Hops
\* The units a press may take to act.
Response == Hops

Older(age, cap) == IF age < cap THEN age + 1 ELSE cap

OperatorInit ==
  /\ Init
  /\ device \in Devices /\ commands \in CommandSets
  /\ radio = Safe /\ frameAge = SignalTimeout + 1
  /\ input = "new" /\ held = FALSE
  /\ velocityTopic = {} /\ startTopic = {}
  /\ velocityMessage = FALSE /\ startMessage = 0
  /\ content = [s \in Slot |-> Zero]
  /\ requestReceived = ReleaseGap + 1 /\ pending = 0 /\ requestAccepted = Debounce + 2
  /\ loopAt = "idle" /\ lag = 0
  /\ command = Zero
  /\ due = {}
  /\ button = 0 /\ presses = 0 /\ silence = ReleaseGap
  /\ stickAge = MaxAge + 1 /\ quiet = Quiet /\ waiting = 0 /\ spent = {}

-----------------------------------------------------------------------------
(* The operator, as far as frames and joystick messages show. *)

\* A press nobody has seen yet begins with the frame that shows it.
NewPress == IF presses < MaxPresses THEN {presses + 1} ELSE {}

\* A press that comes after a long release, and is held until it has acted.
Deliberate(b) == b # button /\ b # 0 /\ quiet >= Quiet

\* The operator's controls are seen in the position s, b.
Shown(s, b) ==
  /\ s => "walk" \in commands
  /\ b # 0 => "start" \in commands
  /\ button' = b
  /\ presses' = IF b > presses THEN b ELSE presses
  /\ stickAge' = IF s THEN 0 ELSE stickAge
  /\ quiet' = IF b # 0 THEN 0 ELSE quiet

-----------------------------------------------------------------------------
(* SbusDriver, on its reader thread. *)

\* What _accept_frame() makes of a good frame.
Accepted(s, b) == [valid |-> TRUE, stick |-> s, button |-> b]

\* _accept_frame() with a good frame.
AcceptFrame(s, b) ==
  /\ device = "sbus"
  /\ b \in {0, button} \cup (IF button = 0 \/ ~radio.valid THEN NewPress ELSE {})
  /\ Shown(s, b)
  /\ waiting' = IF b # button
                THEN IF Deliberate(b) /\ input = "valid" /\ radio.valid THEN 1 ELSE 0
                ELSE waiting
  /\ spent' = IF b \notin {0, button} /\ input # "valid" THEN spent \cup {b} ELSE spent
  /\ radio' = Accepted(s, b)
  /\ frameAge' = 0
  /\ due' = due \ {"reader"}
  /\ UNCHANGED <<vars, config, teleop, topics, velocityMessage, intake, content, loop,
                 silence>>

\* A mutant: the last axes stay, and count as received.
BugSafeState == radio
\* What _set_safe() leaves in _state and _signal_valid.
SafeState == Safe

SetSafe ==
  /\ radio' = SafeState
  /\ waiting' = 0
  /\ due' = due \ {"reader"}
  /\ UNCHANGED <<vars, config, frameAge, teleop, topics, velocityMessage, intake, content,
                 loop, operator, stickAge, quiet, spent>>

\* A frame with the failsafe or the frame-lost flag, a malformed one, or a receiver
\* that is gone.
RejectFrame == device = "sbus" /\ radio.valid /\ SetSafe

\* _check_timeout(), on every byte that does not come.
CheckTimeout == radio.valid /\ frameAge > SignalTimeout /\ SetSafe

-----------------------------------------------------------------------------
(* The teleop nodes.  A topic's queue holds one message, the newest. *)

\* CommandDispatcher.commands_to_run() for a button that sends a fixed value: on the
\* change from released to pressed.
RisingEdge(b) == b # 0 /\ ~held

\* SbusTeleopNode._tick() works on one snapshot, taken under the driver's lock; what
\* it sends from it may be late in a topic.
TickEnds ==
  /\ device = "sbus"
  /\ due' = due \ {"teleop"}
  /\ UNCHANGED <<vars, config, driver, velocityMessage, intake, content, loop, operator,
                 history>>

SendVelocity(s) ==
  velocityTopic' = IF "walk" \in commands THEN {s} ELSE velocityTopic

\* Without a signal the continuous commands are zeroed and nothing else is sent.
TickWithoutSignal ==
  /\ ~radio.valid
  /\ SendVelocity(FALSE)
  /\ input' = IF input = "new" THEN "new" ELSE "lost"
  /\ TickEnds
  /\ UNCHANGED <<held, startTopic>>

\* A mutant: the first tick after an outage compares with the buttons before it.
BugMustSynchronize == input = "new"
MustSynchronize == input # "valid"

\* The first frame, and the first one after an outage, only tell where the switches are.
TickSynchronizes ==
  /\ radio.valid /\ MustSynchronize
  /\ held' = (radio.button # 0)
  /\ input' = "valid"
  /\ TickEnds
  /\ UNCHANGED topics

TickDispatches ==
  /\ radio.valid /\ ~MustSynchronize
  /\ SendVelocity(radio.stick)
  /\ IF RisingEdge(radio.button)
     THEN startTopic' = {radio.button}
     ELSE UNCHANGED startTopic
  /\ held' = (radio.button # 0)
  /\ input' = "valid"
  /\ TickEnds

Tick == TickWithoutSignal \/ TickSynchronizes \/ TickDispatches

\* JoyTeleopNode._joy_callback(): here START is a continuous command, which sends the
\* button's value with every message, and zero after the first.  A hold that is
\* interrupted for as long as the release gap, less the unit a message may be late,
\* is a new press.
JoyMessage(s, b) ==
  /\ device = "joy"
  /\ b \in {0} \cup (IF silence < ReleaseGap THEN {button} ELSE {})
              \cup (IF silence >= ReleaseGap \/ button = 0 THEN NewPress ELSE {})
  /\ Shown(s, b)
  /\ waiting' = IF b # button
                THEN IF Deliberate(b) /\ input = "valid" THEN 1 ELSE 0
                ELSE waiting
  /\ input' = "valid"
  /\ SendVelocity(s /\ input = "valid")
  /\ startTopic' = IF "start" \in commands
                   THEN {IF input = "valid" THEN b ELSE 0}
                   ELSE startTopic
  /\ silence' = 0
  /\ UNCHANGED <<vars, config, driver, held, velocityMessage, intake, content,
                 loop, due, spent>>

-----------------------------------------------------------------------------
(* The controller's callbacks; one topic's messages are handled one by one. *)

\* A velocity that does not reach the controller: those who send and those who receive
\* come and go.  What MaxPackets bounds are the messages that arrive.
LoseVelocity ==
  /\ velocityTopic # {}
  /\ velocityTopic' = {}
  /\ due' = due \ {"velocityTopic"}
  /\ UNCHANGED <<vars, config, driver, teleop, startTopic, velocityMessage, intake, content,
                 loop, operator, history>>

\* cmdVelCallback(): the message is written into the producer's slot, ...
WriteCommand ==
  /\ BeginFill
  /\ velocityTopic # {}
  /\ velocityMessage' = (velocityTopic = {TRUE})
  /\ velocityTopic' = {}
  /\ due' = due \ {"velocityTopic"}
  /\ UNCHANGED <<config, driver, teleop, startTopic, intake, content, loop, operator, history>>

\* ... stamped with the time of its arrival ...
StampCommand ==
  /\ EndFill
  /\ content' = [content EXCEPT ![back] =
                   IF velocityMessage THEN [move |-> TRUE, age |-> 0, later |-> loopAt # "idle"]
                   ELSE Zero]
  /\ UNCHANGED <<config, driver, teleop, topics, velocityMessage, intake, loop, due, operator,
                 history>>

\* ... and published.
PublishCommand ==
  /\ Publish
  /\ content' = [content EXCEPT ![middle.idx] = Zero]
  /\ velocityMessage' = FALSE
  /\ due' = due \ {"velocityCallback"}
  /\ UNCHANGED <<config, driver, teleop, topics, intake, loop, operator, history>>

\* A mutant: the zeros of a released button count as its messages.
BugPressed(b) == TRUE
\* startControlCallback() looks at the value.
Pressed(b) == b # 0

\* Less than the release gap after the last message.
SamePress == requestReceived <= ReleaseGap

\* enqueueControlRequest() replaces the time of the last message ...
ReceiveStart ==
  /\ startMessage = 0
  /\ \E b \in startTopic :
       /\ requestReceived' = IF Pressed(b) THEN 0 ELSE requestReceived
       /\ startMessage' = IF Pressed(b) /\ ~SamePress THEN b ELSE 0
  /\ startTopic' = {}
  /\ due' = due \ {"startTopic"}
  /\ UNCHANGED <<vars, config, driver, teleop, velocityTopic, velocityMessage, pending,
                 requestAccepted, content, loop, operator, history>>

\* ... and sets the request's bit.
EnqueueStart ==
  /\ startMessage # 0
  /\ pending' = startMessage
  /\ startMessage' = 0
  /\ due' = due \ {"startCallback"}
  /\ UNCHANGED <<vars, config, driver, teleop, topics, velocityMessage, requestReceived,
                 requestAccepted, content, loop, operator, history>>

-----------------------------------------------------------------------------
(* update(), on the real-time thread. *)

\* steadyNowNsValue is read once; what is stamped from now on is later than it.
SampleClock ==
  /\ loopAt = "idle"
  /\ loopAt' = "consume"
  /\ lag' = 0
  /\ content' = [s \in Slot |-> [content[s] EXCEPT !.later = FALSE]]
  /\ UNCHANGED <<vars, config, driver, teleop, topics, velocityMessage, intake, command, due,
                 operator, history>>

\* commandFresh, on the clock that was read at the start of the cycle.
Fresh(c) == ~c.later /\ c.age <= CommandTimeout + lag

\* A command that is not fresh is zeroed, and stays so.
Judge(c) ==
  /\ command' = IF c.move /\ Fresh(c) THEN c ELSE Zero
  /\ loopAt' = "take"

InUpdate == UNCHANGED <<config, driver, teleop, topics, velocityMessage, operator>>

LoadCommand ==
  /\ loopAt = "consume"
  /\ Load
  /\ UNCHANGED <<intake, content, loop, due, history>> /\ InUpdate

ConsumeCommand ==
  /\ loopAt = "consume"
  /\ ExchangeSucceeds
  /\ UNCHANGED <<intake, content, loop, due, history>> /\ InUpdate

RetryCommand ==
  /\ loopAt = "consume"
  /\ ExchangeFails
  /\ IF middle.dirty THEN UNCHANGED <<loopAt, command>> ELSE Judge(command)
  /\ UNCHANGED <<intake, content, lag, due, history>> /\ InUpdate

CopyCommand ==
  /\ loopAt = "consume"
  /\ EndRead
  /\ Judge(content[front])
  /\ content' = [content EXCEPT ![front] = Zero]
  /\ UNCHANGED <<intake, lag, due, history>> /\ InUpdate

NoNewCommand ==
  /\ loopAt = "consume" /\ consumerAt = "idle" /\ ~middle.dirty
  /\ Judge(command)
  /\ UNCHANGED <<vars, intake, content, lag, due, history>> /\ InUpdate

EndOfCycle ==
  /\ loopAt = "take" /\ loopAt' = "idle"
  /\ lag' = 0
  /\ pending' = 0
  /\ due' = due \ {"loop"}
  /\ UNCHANGED <<vars, command, startMessage, requestReceived, content, stickAge,
                 quiet>>
  /\ InUpdate

\* acceptControlRequest(): not accepted a short time ago.
Debounced == requestAccepted > Debounce + lag

NoRequest == pending = 0 /\ EndOfCycle /\ UNCHANGED <<requestAccepted, waiting, spent>>

RefuseStart ==
  /\ pending # 0 /\ ~Debounced
  /\ EndOfCycle
  /\ UNCHANGED <<requestAccepted, waiting, spent>>

\* START is accepted, and control is started or stopped.
ActOnStart ==
  /\ pending # 0 /\ Debounced
  /\ EndOfCycle
  /\ requestAccepted' = lag
  /\ waiting' = IF pending = button THEN 0 ELSE waiting
  /\ spent' = spent \cup {pending}

-----------------------------------------------------------------------------
(* Time. *)

\* What may not take longer than the unit that begins.
Owed ==
  {"loop"} \cup (IF device = "sbus" THEN {"teleop"} ELSE {})
           \cup (IF radio.valid /\ frameAge >= SignalTimeout THEN {"reader"} ELSE {})
           \cup (IF velocityTopic # {} THEN {"velocityTopic"} ELSE {})
           \cup (IF producerAt # "idle" THEN {"velocityCallback"} ELSE {})
           \cup (IF startTopic # {} THEN {"startTopic"} ELSE {})
           \cup (IF startMessage # 0 THEN {"startCallback"} ELSE {})

PassTime ==
  /\ due = {}
  /\ due' = Owed
  /\ frameAge' = Older(frameAge, SignalTimeout + 1)
  /\ content' = [s \in Slot |-> [content[s] EXCEPT !.age = Older(@, CommandTimeout + 2)]]
  /\ command' = [command EXCEPT !.age = Older(@, CommandTimeout + 2)]
  /\ lag' = IF loopAt = "idle" THEN 0 ELSE 1
  /\ requestReceived' = Older(requestReceived, ReleaseGap + 1)
  /\ requestAccepted' = Older(requestAccepted, Debounce + 2)
  /\ silence' = Older(silence, ReleaseGap)
  /\ stickAge' = Older(stickAge, MaxAge + 1)
  /\ quiet' = IF button = 0 THEN Older(quiet, Quiet) ELSE 0
  /\ waiting' = IF waiting = 0 THEN 0 ELSE Older(waiting, Response + 1)
  /\ UNCHANGED <<vars, config, radio, teleop, topics, velocityMessage, startMessage, pending,
                 loopAt, button, presses, spent>>

OperatorNext ==
  \/ \E s \in BOOLEAN, b \in Button : AcceptFrame(s, b) \/ JoyMessage(s, b)
  \/ RejectFrame \/ CheckTimeout
  \/ Tick
  \/ LoseVelocity \/ WriteCommand \/ StampCommand \/ PublishCommand
  \/ ReceiveStart \/ EnqueueStart
  \/ SampleClock \/ LoadCommand \/ ConsumeCommand \/ RetryCommand \/ CopyCommand
  \/ NoNewCommand \/ NoRequest \/ RefuseStart \/ ActOnStart
  \/ PassTime

OperatorSpec == OperatorInit /\ [][OperatorNext]_operatorVars

-----------------------------------------------------------------------------
(* Properties. *)

\* Every variable keeps its type, those of the buffer included.
OperatorTypeOK ==
  /\ TypeOK
  /\ device \in Devices /\ commands \in CommandSets
  /\ radio \in Controls
  /\ frameAge \in 0..SignalTimeout + 1
  /\ input \in {"new", "lost", "valid"}
  /\ held \in BOOLEAN /\ velocityMessage \in BOOLEAN
  /\ velocityTopic \subseteq BOOLEAN /\ startTopic \subseteq Button
  /\ startMessage \in Button /\ pending \in Button /\ button \in Button
  /\ presses \in Button /\ spent \subseteq Presses
  /\ content \in [Slot -> Command] /\ command \in Command
  /\ requestReceived \in 0..ReleaseGap + 1
  /\ requestAccepted \in 0..Debounce + 2
  /\ loopAt \in {"idle", "consume", "take"} /\ lag \in 0..1
  /\ due \subseteq {"reader", "teleop", "velocityTopic", "velocityCallback", "startTopic",
                    "startCallback", "loop"}
  /\ silence \in 0..ReleaseGap /\ stickAge \in 0..MaxAge + 1
  /\ quiet \in 0..Quiet /\ waiting \in 0..Response + 1

\* The robot moves only if the stick was seen deflected a short time ago: the
\* timeouts of the radio and of the command, and the hops between them, bound how
\* long it goes on after the stick is back, the radio silent or the joystick gone.
StickBehindMotion == command.move => stickAge <= MaxAge

\* A press of START starts or stops control once, however often it is repeated while
\* the button is held, and never if the button was pressed while the signal was lost.
PressActsOnce == [][ActOnStart => pending \notin spent]_operatorVars

\* A press that comes after a long release, and is held, is taken neither for the
\* press before it nor for a bounce: it acts within a few units.
DeliberatePressActs == waiting <= Response
=============================================================================
