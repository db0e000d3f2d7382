------------------------- MODULE OperatorInputProofs -------------------------
(***************************************************************************)
(* From stick and button to command, for any time-outs, release gap,       *)
(* debounce and number of presses and packets (DeliberatePressesAct: with  *)
(* a release gap no longer than the debounce).                             *)
(*                                                                         *)
(* The buffer comes first: LatestTripleBuffer for any number of packets.   *)
(* NoTornRead is not inductive: it needs to know that the three slots are  *)
(* always owned by three different parties (Ownership) and what each owned *)
(* slot holds.  The same invariant makes every step of the buffer a step   *)
(* of the abstract mailbox, or a stutter.  The buffer inside the operator's*)
(* input is that buffer (BufferInside), so what is proved of it holds here.*)
(***************************************************************************)
EXTENDS OperatorInput, TLAPS

-----------------------------------------------------------------------------
(* The buffer. *)

\* Producer, consumer and word own a slot each, never the same one.
Ownership ==
  /\ back # middle.idx
  /\ front # middle.idx
  /\ back # front

\* What the owned slots hold.
Contents ==
  /\ producerAt = "filled" => slots[back] = published + 1
  /\ producerAt # "idle" => published < MaxPackets
  /\ consumerAt = "exchange" => expected.dirty
  /\ middle.dirty => slots[middle.idx] = published /\ published # 0
  /\ consumerAt = "reading" => slots[front] = consumed /\ consumed # Torn

IInv == TypeOK /\ Ownership /\ Contents

\* Initially the slots are 2 (producer), 1 (word) and 0 (consumer), all empty.
LEMMA InitIInv == Init => IInv
  BY MaxPacketsAssumption
  DEF Init, IInv, TypeOK, Ownership, Contents, Slot, Word, Torn

\* Every step keeps the slots apart and their contents as described.
LEMMA StepIInv == IInv /\ [Next]_vars => IInv'
<1> SUFFICES ASSUME IInv, [Next]_vars
             PROVE  IInv'
  OBVIOUS
<1> USE MaxPacketsAssumption DEF IInv, TypeOK, Ownership, Contents, Slot, Word, Torn
<1>1. CASE BeginFill
  BY <1>1 DEF BeginFill
<1>2. CASE EndFill
  BY <1>2 DEF EndFill
<1>3. CASE Publish
  BY <1>3 DEF Publish, OfferBack, NextBack
<1>4. CASE Load
  BY <1>4 DEF Load
<1>5. CASE ExchangeSucceeds
  BY <1>5 DEF ExchangeSucceeds, WordMatches, OfferFront
<1>6. CASE ExchangeFails
  BY <1>6 DEF ExchangeFails
<1>7. CASE EndRead
  BY <1>7 DEF EndRead
<1>8. CASE UNCHANGED vars
  BY <1>8 DEF vars
<1>9. QED
  BY <1>1, <1>2, <1>3, <1>4, <1>5, <1>6, <1>7, <1>8 DEF Next

LEMMA AlwaysIInv == Spec => []IInv
  BY InitIInv, StepIInv, PTL DEF Spec

\* The types are right for any number of packets (LatestTripleBuffer's fields).
THEOREM TypeCorrect == Spec => []TypeOK
<1>1. IInv => TypeOK
  BY DEF IInv
<1>2. QED
  BY AlwaysIInv, <1>1, PTL

\* consumeLatest() never hands out a slot the producer writes to: the packet
\* behind the returned pointer is whole and does not change under the reader.
THEOREM ReadsAreWhole == Spec => []NoTornRead
<1>1. IInv => NoTornRead
  BY DEF IInv, Contents, NoTornRead
<1>2. QED
  BY AlwaysIInv, <1>1, PTL

\* publish() and consumeLatest() implement the one-packet mailbox: newest
\* packet only, each at most once, every replaced one reported.
THEOREM Implementation == Spec => ImplementsMailbox
<1>1. Init => Mailbox!Init
  BY DEF Init, Mailbox!Init, Pending
<1>2. IInv /\ IInv' /\ [Next]_vars => [Mailbox!Next]_(Mailbox!mailboxVars)
  <2> SUFFICES ASSUME IInv, IInv', [Next]_vars
               PROVE  [Mailbox!Next]_(Mailbox!mailboxVars)
    OBVIOUS
  <2> USE MaxPacketsAssumption
      DEF IInv, TypeOK, Ownership, Contents, Slot, Word, Torn, Pending,
          Mailbox!Next, Mailbox!Deposit, Mailbox!Collect, Mailbox!mailboxVars
  <2>1. CASE BeginFill
    BY <2>1 DEF BeginFill
  <2>2. CASE EndFill
    BY <2>2 DEF EndFill
  <2>3. CASE Publish
    BY <2>3 DEF Publish, OfferBack, NextBack
  <2>4. CASE Load
    BY <2>4 DEF Load
  <2>5. CASE ExchangeSucceeds
    BY <2>5 DEF ExchangeSucceeds, WordMatches, OfferFront
  <2>6. CASE ExchangeFails
    BY <2>6 DEF ExchangeFails
  <2>7. CASE EndRead
    BY <2>7 DEF EndRead
  <2>8. CASE UNCHANGED vars
    BY <2>8 DEF vars
  <2>9. QED
    BY <2>1, <2>2, <2>3, <2>4, <2>5, <2>6, <2>7, <2>8 DEF Next
<1>3. QED
  BY <1>1, <1>2, AlwaysIInv, PTL DEF Spec, ImplementsMailbox, Mailbox!Spec

-----------------------------------------------------------------------------
(* The buffer inside. *)

\* Every step is a step of the buffer's producer or consumer, or leaves it alone.
LEMMA StepsOfTheBuffer == [OperatorNext]_operatorVars => [Next]_vars
<1> SUFFICES ASSUME [OperatorNext]_operatorVars
             PROVE  [Next]_vars
  OBVIOUS
<1>1. CASE WriteCommand \/ StampCommand \/ PublishCommand
  BY <1>1 DEF WriteCommand, StampCommand, PublishCommand, Next
<1>2. CASE LoadCommand \/ ConsumeCommand \/ RetryCommand \/ CopyCommand
  BY <1>2 DEF LoadCommand, ConsumeCommand, RetryCommand, CopyCommand, Next
<1>3. CASE \E s \in BOOLEAN, b \in Button : AcceptFrame(s, b) \/ JoyMessage(s, b)
  BY <1>3 DEF AcceptFrame, JoyMessage
<1>4. CASE RejectFrame \/ CheckTimeout \/ Tick
  BY <1>4 DEF RejectFrame, CheckTimeout, SetSafe, Tick, TickEnds, TickWithoutSignal,
              TickSynchronizes, TickDispatches
<1>5. CASE LoseVelocity \/ ReceiveStart \/ EnqueueStart
  BY <1>5 DEF LoseVelocity, ReceiveStart, EnqueueStart
<1>6. CASE SampleClock \/ NoNewCommand \/ NoRequest \/ RefuseStart \/ ActOnStart
  BY <1>6 DEF SampleClock, NoNewCommand, NoRequest, RefuseStart, ActOnStart, EndOfCycle
<1>7. CASE PassTime
  BY <1>7 DEF PassTime
<1>8. CASE UNCHANGED operatorVars
  BY <1>8 DEF operatorVars
<1>9. QED
  BY <1>1, <1>2, <1>3, <1>4, <1>5, <1>6, <1>7, <1>8 DEF OperatorNext

\* commandBuffer_ between cmdVelCallback() and update() is a triple buffer with one
\* producer and one consumer.
THEOREM BufferInside == OperatorSpec => Spec
<1>1. OperatorInit => Init
  BY DEF OperatorInit
<1>2. QED
  BY <1>1, StepsOfTheBuffer, PTL DEF OperatorSpec, Spec

\* update() never copies a command that cmdVelCallback() is writing.
THEOREM CommandsAreWhole == OperatorSpec => []NoTornRead
  BY BufferInside, ReadsAreWhole, PTL

\* /cmd_vel goes through a mailbox of the latest command: each is taken at most once,
\* in order, and the newest one there is.
THEOREM CommandsAreTheLatest == OperatorSpec => ImplementsMailbox
  BY BufferInside, Implementation, PTL

-----------------------------------------------------------------------------
(* Types. *)

\* The types by group, without the buffer's.
InputTypes ==
  /\ radio \in Controls /\ frameAge \in 0..SignalTimeout + 1
  /\ input \in {"new", "lost", "valid"}
  /\ velocityTopic \subseteq BOOLEAN /\ velocityMessage \in BOOLEAN
  /\ stickAge \in 0..MaxAge + 1

PressTypes ==
  /\ startTopic \subseteq Button
  /\ startMessage \in Button /\ pending \in Button /\ button \in Button
  /\ presses \in Button /\ spent \subseteq Presses
  /\ held \in BOOLEAN
  /\ requestReceived \in 0..ReleaseGap + 1 /\ silence \in 0..ReleaseGap

TimerTypes ==
  /\ requestAccepted \in 0..Debounce + 2
  /\ quiet \in 0..Quiet /\ waiting \in 0..Response + 1

CommandTypes ==
  /\ content \in [Slot -> Command] /\ command \in Command
  /\ loopAt \in {"idle", "consume", "take"} /\ lag \in 0..1

ConfigTypes ==
  /\ device \in Devices /\ commands \in CommandSets
  /\ due \subseteq {"reader", "teleop", "velocityTopic", "velocityCallback", "startTopic",
                    "startCallback", "loop"}

OwnTypes == InputTypes /\ PressTypes /\ TimerTypes /\ CommandTypes /\ ConfigTypes

\* An age stays below its cap.
LEMMA OlderIs ==
  ASSUME NEW cap \in Nat, NEW age \in 0..cap
  PROVE  /\ Older(age, cap) \in 0..cap
         /\ Older(age, cap) <= age + 1
         /\ age < cap => Older(age, cap) = age + 1
         /\ age = cap => Older(age, cap) = cap
BY DEF Older

LEMMA Bounds ==
  /\ Quiet \in Nat /\ Response \in Nat /\ MaxAge \in Nat /\ Hops \in Nat
  /\ SignalTimeout + 1 \in Nat /\ MaxAge + 1 \in Nat /\ ReleaseGap + 1 \in Nat
  /\ ReleaseGap \in Nat /\ Debounce + 2 \in Nat /\ Response + 1 \in Nat
  /\ CommandTimeout + 2 \in Nat
BY OperatorInputAssumption DEF Quiet, Response, MaxAge, Hops

LEMMA CommandIs ==
  /\ Zero \in Command /\ ~Zero.move
  /\ \A c \in Command : /\ c.move \in BOOLEAN /\ c.later \in BOOLEAN
                        /\ c.age \in 0..CommandTimeout + 2
BY OperatorInputAssumption DEF Zero, Command

LEMMA ControlsIs ==
  /\ Safe \in Controls /\ ~Safe.valid /\ ~Safe.stick /\ Safe.button = 0
  /\ \A c \in Controls : c.valid \in BOOLEAN /\ c.stick \in BOOLEAN /\ c.button \in Button
  /\ \A s \in BOOLEAN, b \in Button :
       /\ Accepted(s, b) \in Controls /\ Accepted(s, b).valid
       /\ Accepted(s, b).stick = s /\ Accepted(s, b).button = b
BY OperatorInputAssumption DEF Safe, Controls, Button, Accepted

LEMMA ButtonIs ==
  /\ 0 \in Button /\ Presses = Button \ {0}
  /\ \A b \in Button : b \in Nat /\ b <= MaxPresses
BY OperatorInputAssumption DEF Button, Presses

\* What the longer actions do, without their guards.
LEMMA ShownIs ==
  ASSUME NEW s \in BOOLEAN, NEW b \in Button, Shown(s, b)
  PROVE  /\ button' = b /\ presses' = (IF b > presses THEN b ELSE presses)
         /\ stickAge' = (IF s THEN 0 ELSE stickAge) /\ (quiet' = 0 \/ quiet' = quiet)
BY DEF Shown

LEMMA AcceptIs ==
  ASSUME NEW s \in BOOLEAN, NEW b \in Button, AcceptFrame(s, b)
  PROVE  /\ Shown(s, b) /\ radio' = Accepted(s, b) /\ frameAge' = 0
         /\ due' = due \ {"reader"}
         /\ waiting' \in {0, 1, waiting}
         /\ spent' = spent \/ (spent' = spent \cup {b} /\ b \notin {0, button})
         /\ b \in {0, button} \cup NewPress
         /\ UNCHANGED <<vars, config, teleop, topics, velocityMessage, intake, content, loop, silence>>
<1>1. /\ Shown(s, b) /\ radio' = Accepted(s, b) /\ frameAge' = 0 /\ due' = due \ {"reader"}
      /\ b \in {0, button} \cup NewPress
      /\ UNCHANGED <<vars, config, teleop, topics, velocityMessage, intake, content, loop, silence>>
  BY DEF AcceptFrame
<1>2. waiting' \in {0, 1, waiting}
  BY Zenon DEF AcceptFrame
<1>3. spent' = spent \/ (spent' = spent \cup {b} /\ b \notin {0, button})
  BY Zenon DEF AcceptFrame
<1>4. QED
  BY <1>1, <1>2, <1>3, Zenon

LEMMA JoyIs ==
  ASSUME NEW s \in BOOLEAN, NEW b \in Button, JoyMessage(s, b)
  PROVE  /\ Shown(s, b) /\ silence' = 0 /\ input' = "valid"
         /\ waiting' \in {0, 1, waiting}
         /\ b \in {0, button} \cup NewPress
         /\ startTopic' \in {startTopic, {b}, {0}}
         /\ \/ velocityTopic' = velocityTopic
            \/ velocityTopic' = {FALSE}
            \/ s /\ velocityTopic' = {TRUE}
         /\ UNCHANGED <<vars, config, driver, held, velocityMessage, intake, content, loop, due, spent>>
<1>1. /\ Shown(s, b) /\ silence' = 0 /\ input' = "valid"
      /\ UNCHANGED <<vars, config, driver, held, velocityMessage, intake, content, loop, due, spent>>
  BY DEF JoyMessage
<1>2. b \in {0, button} \cup NewPress
  BY DEF JoyMessage
<1>3. waiting' \in {0, 1, waiting}
  BY Zenon DEF JoyMessage
<1>4. startTopic' \in {startTopic, {b}, {0}}
  BY Zenon DEF JoyMessage
<1>5. \/ velocityTopic' = velocityTopic
      \/ velocityTopic' = {FALSE}
      \/ s /\ velocityTopic' = {TRUE}
  BY Zenon DEF JoyMessage, SendVelocity
<1>6. QED
  BY <1>1, <1>2, <1>3, <1>4, <1>5

LEMMA CycleEnds ==
  ASSUME NoRequest \/ RefuseStart \/ ActOnStart
  PROVE  /\ loopAt = "take" /\ loopAt' = "idle" /\ lag' = 0 /\ pending' = 0
         /\ due' = due \ {"loop"}
         /\ \/ UNCHANGED <<requestAccepted, waiting, spent>>
            \/ /\ pending # 0 /\ requestAccepted' = lag /\ waiting' \in {0, waiting}
               /\ spent' = spent \cup {pending}
         /\ UNCHANGED <<config, driver, teleop, topics, velocityMessage, operator>>
         /\ UNCHANGED <<vars, command, startMessage, requestReceived, content, stickAge, quiet>>
<1>1. /\ loopAt = "take" /\ loopAt' = "idle" /\ lag' = 0 /\ pending' = 0
      /\ due' = due \ {"loop"}
      /\ UNCHANGED <<config, driver, teleop, topics, velocityMessage, operator>>
      /\ UNCHANGED <<vars, command, startMessage, requestReceived, content, stickAge, quiet>>
  BY DEF NoRequest, RefuseStart, ActOnStart, EndOfCycle, InUpdate
<1>2. CASE NoRequest \/ RefuseStart
  BY <1>1, <1>2, Zenon DEF NoRequest, RefuseStart
<1>3. CASE ActOnStart
  <2>1. pending # 0 /\ requestAccepted' = lag /\ spent' = spent \cup {pending}
    BY <1>3 DEF ActOnStart
  <2>2. waiting' \in {0, waiting}
    BY <1>3, Zenon DEF ActOnStart
  <2>3. QED
    BY <1>1, <2>1, <2>2, Zenon
<1>4. QED
  BY <1>2, <1>3

LEMMA InitTypes == OperatorInit => OwnTypes
<1> SUFFICES ASSUME OperatorInit PROVE OwnTypes
  OBVIOUS
<1> USE OperatorInputAssumption DEF OperatorInit
<1>1. InputTypes
  <2>1. radio = Safe /\ frameAge = SignalTimeout + 1 /\ stickAge = MaxAge + 1
    OBVIOUS
  <2>2. frameAge \in 0..SignalTimeout + 1 /\ stickAge \in 0..MaxAge + 1
    BY <2>1, Bounds
  <2>3. QED
    BY <2>1, <2>2, ControlsIs DEF InputTypes
<1>2. PressTypes
  <2>1. requestReceived \in 0..ReleaseGap + 1 /\ silence \in 0..ReleaseGap
    BY Bounds
  <2>2. QED
    BY <2>1, ButtonIs DEF PressTypes
<1>3. TimerTypes
  BY DEF TimerTypes, Quiet, Response, Hops
<1>4. CommandTypes
  BY CommandIs DEF CommandTypes
<1>5. ConfigTypes
  BY DEF ConfigTypes
<1>6. QED
  BY <1>1, <1>2, <1>3, <1>4, <1>5 DEF OwnTypes

LEMMA StepTypes ==
  ASSUME OwnTypes, IInv, [OperatorNext]_operatorVars
  PROVE  OwnTypes'
<1> USE DEF OwnTypes
<1>1. ASSUME NEW s \in BOOLEAN, NEW b \in Button, AcceptFrame(s, b)
      PROVE  OwnTypes'
  <2>1. InputTypes'
    <3>1. /\ radio' = Accepted(s, b) /\ frameAge' = 0 /\ stickAge' \in {0, stickAge}
          /\ UNCHANGED <<teleop, topics, velocityMessage>>
      BY <1>1, AcceptIs, ShownIs
    <3>2. radio' \in Controls
      BY <3>1, ControlsIs
    <3>3. frameAge' \in 0..SignalTimeout + 1 /\ stickAge' \in 0..MaxAge + 1
      BY <3>1, Bounds DEF InputTypes
    <3>4. /\ velocityTopic' \subseteq BOOLEAN /\ velocityMessage' \in BOOLEAN
          /\ input' \in {"new", "lost", "valid"}
      BY <3>1 DEF InputTypes, teleop, topics
    <3>5. QED
      BY <3>2, <3>3, <3>4 DEF InputTypes
  <2>2. PressTypes'
    <3>1. /\ UNCHANGED <<teleop, topics, intake, silence>>
          /\ button' = b /\ presses' \in {presses, b}
          /\ spent' = spent \/ (spent' = spent \cup {b} /\ b # 0)
      BY <1>1, AcceptIs, ShownIs
    <3>2. QED
      BY <3>1, ButtonIs DEF PressTypes, teleop, topics, intake
  <2>3. TimerTypes'
    BY <1>1, AcceptIs, ShownIs, Bounds DEF TimerTypes, intake
  <2>4. CommandTypes' /\ ConfigTypes'
    BY <1>1, AcceptIs DEF CommandTypes, ConfigTypes, loop, config
  <2>5. QED
    BY <2>1, <2>2, <2>3, <2>4
<1>2. ASSUME NEW s \in BOOLEAN, NEW b \in Button, JoyMessage(s, b)
      PROVE  OwnTypes'
  <2>1. InputTypes'
    <3>1. /\ velocityTopic' \subseteq BOOLEAN /\ velocityMessage' \in BOOLEAN
          /\ input' \in {"new", "lost", "valid"}
      <4>1. input' = "valid" /\ velocityMessage' = velocityMessage
        BY <1>2, JoyIs
      <4>2. velocityTopic' = velocityTopic \/ velocityTopic' = {FALSE} \/ velocityTopic' = {TRUE}
        BY <1>2, JoyIs
      <4>3. QED
        BY <4>1, <4>2 DEF InputTypes
    <3>2. UNCHANGED driver /\ stickAge' \in {0, stickAge}
      BY <1>2, JoyIs, ShownIs
    <3>3. /\ stickAge' \in 0..MaxAge + 1
          /\ radio' \in Controls /\ frameAge' \in 0..SignalTimeout + 1
      BY <3>2, Bounds DEF InputTypes, driver
    <3>4. QED
      BY <3>1, <3>3 DEF InputTypes
  <2>2. PressTypes'
    <3>1. UNCHANGED <<held, intake, spent>> /\ silence' = 0 /\ startTopic' \in {startTopic, {b}, {0}}
      BY <1>2, JoyIs
    <3>2. button' = b /\ presses' \in {presses, b}
      BY <1>2, JoyIs, ShownIs
    <3>3. QED
      BY <3>1, <3>2, ButtonIs, Bounds DEF PressTypes, intake
  <2>3. TimerTypes'
    <3>1. UNCHANGED intake /\ waiting' \in {0, 1, waiting} /\ quiet' \in {0, quiet}
      BY <1>2, JoyIs, ShownIs
    <3>2. QED
      BY <3>1, Bounds DEF TimerTypes, intake, Response, Hops
  <2>4. CommandTypes' /\ ConfigTypes'
    BY <1>2, JoyIs DEF CommandTypes, ConfigTypes, loop, config
  <2>5. QED
    BY <2>1, <2>2, <2>3, <2>4
<1>3. CASE SetSafe
  <2>1. InputTypes'
    BY <1>3, ControlsIs DEF SetSafe, SafeState, InputTypes, teleop, topics
  <2>2. PressTypes' /\ TimerTypes'
    BY <1>3, Bounds DEF SetSafe, PressTypes, TimerTypes, teleop, topics, intake, operator
  <2>3. CommandTypes' /\ ConfigTypes'
    BY <1>3 DEF SetSafe, CommandTypes, ConfigTypes, loop, config
  <2>4. QED
    BY <2>1, <2>2, <2>3
<1>4. CASE Tick
  <2>1. InputTypes'
    BY <1>4 DEF Tick, TickWithoutSignal, TickSynchronizes, TickDispatches, TickEnds, SendVelocity,
                InputTypes, Controls, driver, history, topics
  <2>2. PressTypes'
    BY <1>4 DEF Tick, TickWithoutSignal, TickSynchronizes, TickDispatches, TickEnds,
                PressTypes, InputTypes, Controls, intake, operator, history, topics
  <2>3. TimerTypes' /\ CommandTypes' /\ ConfigTypes'
    BY <1>4 DEF Tick, TickWithoutSignal, TickSynchronizes, TickDispatches, TickEnds,
                TimerTypes, CommandTypes, ConfigTypes, intake, loop, config, history
  <2>4. QED
    BY <2>1, <2>2, <2>3
<1>5. CASE LoseVelocity \/ WriteCommand \/ PublishCommand
  <2>1. InputTypes'
    BY <1>5 DEF LoseVelocity, WriteCommand, PublishCommand, InputTypes, driver, teleop, topics, history
  <2>2. PressTypes' /\ TimerTypes'
    BY <1>5 DEF LoseVelocity, WriteCommand, PublishCommand, PressTypes, TimerTypes,
                teleop, topics, intake, operator, history
  <2>3. CommandTypes' /\ ConfigTypes'
    BY <1>5, CommandIs DEF LoseVelocity, WriteCommand, PublishCommand, CommandTypes, ConfigTypes, loop, config
  <2>4. QED
    BY <2>1, <2>2, <2>3
<1>6. CASE StampCommand
  <2>1. InputTypes' /\ PressTypes' /\ TimerTypes' /\ ConfigTypes'
    BY <1>6 DEF StampCommand, InputTypes, PressTypes, TimerTypes, ConfigTypes,
                driver, teleop, topics, intake, operator, history, config
  <2>2. [move |-> TRUE, age |-> 0, later |-> loopAt # "idle"] \in Command
    BY OperatorInputAssumption DEF Command
  <2>3. CommandTypes'
    BY <1>6, <2>2, CommandIs DEF StampCommand, CommandTypes, loop
  <2>4. QED
    BY <2>1, <2>3
<1>7. CASE ReceiveStart \/ EnqueueStart
  <2>1. InputTypes' /\ TimerTypes' /\ CommandTypes' /\ ConfigTypes'
    BY <1>7 DEF ReceiveStart, EnqueueStart, InputTypes, TimerTypes, CommandTypes, ConfigTypes,
                driver, teleop, topics, history, loop, config
  <2>2. PressTypes'
    <3>1. CASE ReceiveStart
      <4>1. /\ startTopic' = {} /\ startMessage' \in {0} \cup startTopic
            /\ requestReceived' \in {0, requestReceived}
        BY <3>1, Zenon DEF ReceiveStart
      <4>2. UNCHANGED <<teleop, pending, operator, history>>
        BY <3>1 DEF ReceiveStart
      <4>3. QED
        BY <4>1, <4>2, ButtonIs, Bounds DEF PressTypes, teleop, operator, history
    <3>2. CASE EnqueueStart
      BY <3>2, ButtonIs DEF EnqueueStart, PressTypes, teleop, topics, operator, history
    <3>3. QED
      BY <1>7, <3>1, <3>2
  <2>3. QED
    BY <2>1, <2>2
<1>8. CASE SampleClock
  <2>1. InputTypes' /\ PressTypes' /\ TimerTypes' /\ ConfigTypes'
    BY <1>8 DEF SampleClock, InputTypes, PressTypes, TimerTypes, ConfigTypes,
                driver, teleop, topics, intake, operator, history, config
  <2>2. \A t \in Slot : [content[t] EXCEPT !.later = FALSE] \in Command
    BY DEF CommandTypes, Command
  <2>3. CommandTypes'
    BY <1>8, <2>2 DEF SampleClock, CommandTypes
  <2>4. QED
    BY <2>1, <2>3
<1>9. CASE LoadCommand \/ ConsumeCommand \/ RetryCommand \/ CopyCommand \/ NoNewCommand
  <2>1. InputTypes' /\ PressTypes' /\ TimerTypes' /\ ConfigTypes'
    BY <1>9 DEF LoadCommand, ConsumeCommand, RetryCommand, CopyCommand, NoNewCommand, InUpdate,
                InputTypes, PressTypes, TimerTypes, ConfigTypes,
                driver, teleop, topics, intake, operator, history, config
  <2>2. \A c \in Command : Judge(c) => command' \in Command /\ loopAt' = "take"
    BY CommandIs DEF Judge
  <2>3. content[front] \in Command
    BY DEF CommandTypes, IInv, TypeOK
  <2>4. CommandTypes'
    <3>1. CASE LoadCommand \/ ConsumeCommand
      BY <3>1 DEF LoadCommand, ConsumeCommand, CommandTypes, loop
    <3>2. CASE RetryCommand \/ NoNewCommand
      BY <2>2, <3>2 DEF RetryCommand, NoNewCommand, CommandTypes
    <3>3. CASE CopyCommand
      BY <2>2, <2>3, <3>3, CommandIs DEF CopyCommand, CommandTypes
    <3>4. QED
      BY <1>9, <3>1, <3>2, <3>3
  <2>5. QED
    BY <2>1, <2>4
<1>10. CASE NoRequest \/ RefuseStart \/ ActOnStart
  <2>1. InputTypes' /\ CommandTypes' /\ ConfigTypes'
    <3>1. UNCHANGED <<config, driver, teleop, topics, velocityMessage, command, content, stickAge>>
      BY <1>10, CycleEnds
    <3>2. loopAt' = "idle" /\ lag' = 0 /\ due' = due \ {"loop"}
      BY <1>10, CycleEnds
    <3>3. InputTypes' /\ ConfigTypes'
      BY <3>1, <3>2 DEF InputTypes, ConfigTypes, driver, teleop, topics, config
    <3>4. CommandTypes'
      BY <3>1, <3>2 DEF CommandTypes
    <3>5. QED
      BY <3>3, <3>4
  <2>2. PressTypes'
    BY <1>10, CycleEnds, ButtonIs DEF PressTypes, teleop, topics, operator
  <2>3. TimerTypes'
    <3>1. quiet' = quiet /\ waiting' \in {0, waiting} /\ requestAccepted' \in {requestAccepted, lag}
      BY <1>10, CycleEnds
    <3>2. lag \in 0..1
      BY DEF CommandTypes
    <3>3. QED
      BY <3>1, <3>2, Bounds, OperatorInputAssumption DEF TimerTypes
  <2>4. QED
    BY <2>1, <2>2, <2>3
<1>11. CASE PassTime
  <2>1. InputTypes'
    BY <1>11, Bounds, OlderIs DEF PassTime, InputTypes, teleop, topics
  <2>2. PressTypes'
    BY <1>11, Bounds, OlderIs DEF PassTime, PressTypes, teleop, topics
  <2>3. TimerTypes'
    BY <1>11, Bounds, OlderIs DEF PassTime, TimerTypes
  <2>4. CommandTypes'
    <3>1. \A c \in Command : [c EXCEPT !.age = Older(@, CommandTimeout + 2)] \in Command
      BY Bounds, OlderIs DEF Command
    <3>2. QED
      BY <1>11, <3>1 DEF PassTime, CommandTypes
  <2>5. ConfigTypes'
    BY <1>11 DEF PassTime, ConfigTypes, Owed, config
  <2>6. QED
    BY <2>1, <2>2, <2>3, <2>4, <2>5
<1>12. CASE UNCHANGED operatorVars
  BY <1>12 DEF operatorVars, config, driver, teleop, topics, intake, loop, operator, history,
               InputTypes, PressTypes, TimerTypes, CommandTypes, ConfigTypes
<1>13. QED
  BY <1>1, <1>2, <1>3, <1>4, <1>5, <1>6, <1>7, <1>8, <1>9, <1>10, <1>11, <1>12
  DEF OperatorNext, RejectFrame, CheckTimeout

LEMMA AlwaysOwnTypes == OperatorSpec => []OwnTypes
BY InitTypes, StepTypes, BufferInside, AlwaysIInv, PTL DEF OperatorSpec

\* The types are right for all the constants.
THEOREM OperatorTypes == OperatorSpec => []OperatorTypeOK
<1>1. OwnTypes /\ IInv => OperatorTypeOK
  BY DEF OwnTypes, InputTypes, PressTypes, TimerTypes, CommandTypes, ConfigTypes, OperatorTypeOK, IInv
<1>2. QED
  BY <1>1, AlwaysOwnTypes, BufferInside, AlwaysIInv, PTL

-----------------------------------------------------------------------------
(* The stick.  StickBehindMotion is not inductive: a sum of ages, one hop after the
   other, from the radio's frame over the topic, the callback and the buffer to the
   command, each with a unit more while it is due. *)

Late(part) == IF part \in due THEN 1 ELSE 0

\* The radio's axes are as old as its last frame, and gone once that is too old.
StickSeen ==
  /\ radio.valid /\ frameAge = SignalTimeout + 1 => "reader" \in due
  /\ radio.valid /\ radio.stick => stickAge <= frameAge

\* A deflection in the topic, and in the callback.
StickSent == TRUE \in velocityTopic => stickAge <= SignalTimeout + 1 + Late("velocityTopic")
StickReceived ==
  velocityMessage => /\ stickAge <= SignalTimeout + 2 + Late("velocityCallback")
                     /\ producerAt # "idle"

\* A command that can still be fresh is behind the stick by its age and those hops.
Behind(c) == stickAge <= c.age + SignalTimeout + 3
StickStamped ==
  \A t \in Slot : content[t].move /\ content[t].age < CommandTimeout + 2 => Behind(content[t])

\* The command that is followed is judged once more before it is too old.
StickFollowed ==
  /\ lag = 1 => "loop" \in due
  /\ command.move =>
     /\ Behind(command)
     /\ loopAt = "take" /\ command.age = CommandTimeout + 1 => "loop" \in due
     /\ command.age = CommandTimeout + 2 => "loop" \in due /\ loopAt # "take"

StickInv == OwnTypes /\ IInv /\ StickSeen /\ StickSent /\ StickReceived /\ StickStamped /\ StickFollowed

LEMMA StickStarts == OperatorInit => StickSeen /\ StickSent /\ StickReceived /\ StickStamped /\ StickFollowed
<1> SUFFICES ASSUME OperatorInit
             PROVE  StickSeen /\ StickSent /\ StickReceived /\ StickStamped /\ StickFollowed
  OBVIOUS
<1>1. ~radio.valid /\ velocityTopic = {} /\ velocityMessage = FALSE /\ lag = 0
  BY ControlsIs DEF OperatorInit
<1>2. ~command.move /\ \A t \in Slot : ~content[t].move
  BY CommandIs DEF OperatorInit
<1>3. QED
  BY <1>1, <1>2 DEF StickSeen, StickSent, StickReceived, StickStamped, StickFollowed

\* What the steps do to the parts the ages are said of.
LEMMA TickIs ==
  ASSUME Tick
  PROVE  /\ UNCHANGED <<vars, driver, velocityMessage, content, loop, stickAge>>
         /\ due' = due \ {"teleop"}
         /\ \/ velocityTopic' = velocityTopic
            \/ velocityTopic' = {FALSE}
            \/ velocityTopic' = {radio.stick} /\ radio.valid
<1>1. /\ UNCHANGED <<vars, driver, velocityMessage, content, loop, stickAge>>
      /\ due' = due \ {"teleop"}
  BY DEF Tick, TickWithoutSignal, TickSynchronizes, TickDispatches, TickEnds, history
<1>2. \/ velocityTopic' = velocityTopic
      \/ velocityTopic' = {FALSE}
      \/ velocityTopic' = {radio.stick} /\ radio.valid
  BY Zenon DEF Tick, TickWithoutSignal, TickSynchronizes, TickDispatches, SendVelocity, topics
<1>3. QED
  BY <1>1, <1>2

LEMMA SafeIs ==
  ASSUME SetSafe
  PROVE  /\ UNCHANGED <<vars, topics, velocityMessage, content, loop, stickAge>>
         /\ due' = due \ {"reader"} /\ ~radio'.valid
BY ControlsIs DEF SetSafe, SafeState

LEMMA RequestIs ==
  ASSUME ReceiveStart \/ EnqueueStart
  PROVE  /\ UNCHANGED <<vars, driver, velocityTopic, velocityMessage, content, loop, stickAge>>
         /\ due' = due \ {"startTopic"} \/ due' = due \ {"startCallback"}
<1>1. CASE ReceiveStart
  BY <1>1 DEF ReceiveStart, history
<1>2. CASE EnqueueStart
  BY <1>2 DEF EnqueueStart, history, topics
<1>3. QED
  BY <1>1, <1>2

LEMMA TakeIs ==
  ASSUME LoadCommand \/ ConsumeCommand \/ RetryCommand \/ CopyCommand \/ NoNewCommand
  PROVE  /\ UNCHANGED <<driver, velocityTopic, velocityMessage, producerAt, lag, due, stickAge>>
         /\ \/ UNCHANGED <<content, loopAt, command>>
            \/ UNCHANGED content /\ Judge(command)
            \/ Judge(content[front]) /\ content' = [content EXCEPT ![front] = Zero]
<1>1. CASE LoadCommand \/ ConsumeCommand
  BY <1>1 DEF LoadCommand, ConsumeCommand, InUpdate, Load, ExchangeSucceeds, history, topics, loop
<1>2. CASE RetryCommand
  BY <1>2 DEF RetryCommand, InUpdate, ExchangeFails, history, topics
<1>3. CASE CopyCommand
  BY <1>3 DEF CopyCommand, InUpdate, EndRead, history, topics
<1>4. CASE NoNewCommand
  BY <1>4 DEF NoNewCommand, InUpdate, vars, history, topics
<1>5. QED
  BY <1>1, <1>2, <1>3, <1>4

LEMMA CommandSentIs ==
  /\ LoseVelocity =>
       /\ UNCHANGED <<vars, driver, velocityMessage, content, loop, stickAge>>
       /\ velocityTopic' = {} /\ due' = due \ {"velocityTopic"}
  /\ WriteCommand =>
       /\ UNCHANGED <<driver, content, loop, stickAge>>
       /\ velocityMessage' = (velocityTopic = {TRUE}) /\ producerAt' = "filling"
       /\ velocityTopic' = {} /\ due' = due \ {"velocityTopic"}
  /\ StampCommand =>
       /\ UNCHANGED <<driver, velocityTopic, velocityMessage, loop, due, stickAge>>
       /\ producerAt' = "filled"
       /\ content' = [content EXCEPT ![back] =
            IF velocityMessage THEN [move |-> TRUE, age |-> 0, later |-> loopAt # "idle"]
            ELSE Zero]
  /\ PublishCommand =>
       /\ UNCHANGED <<driver, velocityTopic, loop, stickAge>>
       /\ velocityMessage' = FALSE /\ due' = due \ {"velocityCallback"}
       /\ content' = [content EXCEPT ![middle.idx] = Zero]
<1>1. LoseVelocity =>
       /\ UNCHANGED <<vars, driver, velocityMessage, content, loop, stickAge>>
       /\ velocityTopic' = {} /\ due' = due \ {"velocityTopic"}
  BY DEF LoseVelocity, history
<1>2. WriteCommand =>
       /\ UNCHANGED <<driver, content, loop, stickAge>>
       /\ velocityMessage' = (velocityTopic = {TRUE}) /\ producerAt' = "filling"
       /\ velocityTopic' = {} /\ due' = due \ {"velocityTopic"}
  BY DEF WriteCommand, BeginFill, history
<1>3. StampCommand =>
       /\ UNCHANGED <<driver, velocityTopic, velocityMessage, loop, due, stickAge>>
       /\ producerAt' = "filled"
       /\ content' = [content EXCEPT ![back] =
            IF velocityMessage THEN [move |-> TRUE, age |-> 0, later |-> loopAt # "idle"]
            ELSE Zero]
  BY DEF StampCommand, EndFill, history, topics
<1>4. PublishCommand =>
       /\ UNCHANGED <<driver, velocityTopic, loop, stickAge>>
       /\ velocityMessage' = FALSE /\ due' = due \ {"velocityCallback"}
       /\ content' = [content EXCEPT ![middle.idx] = Zero]
  BY DEF PublishCommand, history, topics
<1>5. QED
  BY <1>1, <1>2, <1>3, <1>4

LEMMA SampleIs ==
  ASSUME SampleClock
  PROVE  /\ UNCHANGED <<vars, driver, topics, velocityMessage, command, due, stickAge>>
         /\ loopAt' = "consume" /\ lag' = 0
         /\ content' = [t \in Slot |-> [content[t] EXCEPT !.later = FALSE]]
BY DEF SampleClock, history

LEMMA TimeIs ==
  ASSUME PassTime
  PROVE  /\ due = {} /\ due' = Owed
         /\ frameAge' = Older(frameAge, SignalTimeout + 1)
         /\ stickAge' = Older(stickAge, MaxAge + 1)
         /\ content' = [t \in Slot |-> [content[t] EXCEPT !.age = Older(@, CommandTimeout + 2)]]
         /\ command' = [command EXCEPT !.age = Older(@, CommandTimeout + 2)]
         /\ UNCHANGED <<vars, radio, topics, velocityMessage, loopAt>>
BY DEF PassTime

\* The steps that have no part in the way from the stick to the buffer.
Aside ==
  \/ ReceiveStart \/ EnqueueStart
  \/ LoadCommand \/ ConsumeCommand \/ RetryCommand \/ CopyCommand \/ NoNewCommand
  \/ SampleClock \/ NoRequest \/ RefuseStart \/ ActOnStart

LEMMA AsideIs ==
  ASSUME Aside
  PROVE  /\ UNCHANGED <<driver, velocityTopic, velocityMessage, producerAt, stickAge>>
         /\ \A part \in {"reader", "velocityTopic", "velocityCallback"} :
              part \in due' <=> part \in due
<1>1. CASE ReceiveStart \/ EnqueueStart
  BY <1>1, RequestIs DEF vars
<1>2. CASE LoadCommand \/ ConsumeCommand \/ RetryCommand \/ CopyCommand \/ NoNewCommand
  BY <1>2, TakeIs
<1>3. CASE SampleClock
  BY <1>3, SampleIs DEF topics, vars
<1>4. CASE NoRequest \/ RefuseStart \/ ActOnStart
  BY <1>4, CycleEnds DEF topics, vars
<1>5. QED
  BY <1>1, <1>2, <1>3, <1>4 DEF Aside

LEMMA SeenStep ==
  ASSUME StickInv, OwnTypes', [OperatorNext]_operatorVars
  PROVE  StickSeen'
<1> DEFINE Kept == /\ UNCHANGED driver /\ stickAge' \in {0, stickAge}
                   /\ "reader" \in due => "reader" \in due'
<1>1. /\ radio \in Controls /\ frameAge \in 0..SignalTimeout + 1 /\ stickAge \in 0..MaxAge + 1
      /\ StickSeen
  BY DEF StickInv, OwnTypes, InputTypes
<1>2. ASSUME Kept PROVE StickSeen'
  BY <1>1, <1>2, Bounds DEF StickSeen, driver
<1>3. ASSUME NEW s \in BOOLEAN, NEW b \in Button, AcceptFrame(s, b)
      PROVE  StickSeen'
  <2>1. frameAge' = 0 /\ radio'.stick = s /\ stickAge' = (IF s THEN 0 ELSE stickAge)
    BY <1>3, AcceptIs, ShownIs, ControlsIs
  <2>2. frameAge' # SignalTimeout + 1
    BY <2>1, OperatorInputAssumption
  <2>3. radio'.stick => stickAge' <= frameAge'
    BY <2>1
  <2>4. QED
    BY <2>2, <2>3 DEF StickSeen
<1>4. CASE SetSafe
  BY <1>4, SafeIs DEF StickSeen
<1>5. CASE PassTime
  <2>1. /\ UNCHANGED radio /\ due = {} /\ due' = Owed
        /\ frameAge' = Older(frameAge, SignalTimeout + 1)
        /\ stickAge' = Older(stickAge, MaxAge + 1)
    BY <1>5, TimeIs
  <2>2. SUFFICES ASSUME radio.valid PROVE StickSeen'
    BY <2>1 DEF StickSeen
  <2>3. frameAge <= SignalTimeout
    BY <1>1, <2>1, <2>2, OperatorInputAssumption DEF StickSeen
  <2>4. frameAge' = frameAge + 1 /\ stickAge' <= stickAge + 1
    <3>1. stickAge' <= stickAge + 1
      BY <1>1, <2>1, OlderIs, Bounds
    <3>2. frameAge \in 0..SignalTimeout + 1 /\ frameAge < SignalTimeout + 1
      BY <1>1, <2>3, OperatorInputAssumption
    <3>3. Older(frameAge, SignalTimeout + 1) = frameAge + 1
      BY <3>2, OlderIs, Bounds
    <3>4. QED
      BY <2>1, <3>1, <3>3
  <2>5. frameAge' = SignalTimeout + 1 => "reader" \in due'
    <3>1. frameAge' = SignalTimeout + 1 => frameAge >= SignalTimeout
      BY <1>1, <2>4, OperatorInputAssumption
    <3>2. frameAge >= SignalTimeout => "reader" \in due'
      BY <2>1, <2>2 DEF Owed
    <3>3. QED
      BY <3>1, <3>2
  <2>6. radio.stick => stickAge' <= frameAge'
    BY <1>1, <2>1, <2>2, <2>4, <1>5, Bounds DEF StickSeen
  <2>7. QED
    BY <2>1, <2>5, <2>6 DEF StickSeen
<1>6. ASSUME NEW s \in BOOLEAN, NEW b \in Button, JoyMessage(s, b)
      PROVE  StickSeen'
  BY <1>2, <1>6, JoyIs, ShownIs
<1>7. CASE Tick
  BY <1>2, <1>7, TickIs
<1>8. CASE LoseVelocity \/ WriteCommand \/ StampCommand \/ PublishCommand
  BY <1>2, <1>8, CommandSentIs
<1>9. CASE Aside
  BY <1>2, <1>9, AsideIs
<1>10. CASE UNCHANGED operatorVars
  BY <1>2, <1>10 DEF operatorVars, history
<1>11. QED
  BY <1>3, <1>4, <1>5, <1>6, <1>7, <1>8, <1>9, <1>10 DEF OperatorNext, RejectFrame, CheckTimeout, Aside

LEMMA SentStep ==
  ASSUME StickInv, OwnTypes', [OperatorNext]_operatorVars
  PROVE  StickSent'
<1>1. /\ radio \in Controls /\ frameAge \in 0..SignalTimeout + 1 /\ stickAge \in 0..MaxAge + 1
      /\ stickAge' \in 0..MaxAge + 1 /\ SignalTimeout \in Nat
      /\ StickSeen /\ StickSent
  BY OperatorInputAssumption DEF StickInv, OwnTypes, InputTypes
<1>2. ASSUME stickAge' \in {0, stickAge}, TRUE \in velocityTopic' => TRUE \in velocityTopic,
             "velocityTopic" \in due => "velocityTopic" \in due'
      PROVE  StickSent'
  BY <1>1, <1>2, Bounds DEF StickSent, Late
<1>3. ASSUME TRUE \notin velocityTopic' PROVE StickSent'
  BY <1>3 DEF StickSent
<1>4. ASSUME stickAge' <= SignalTimeout + 1 PROVE StickSent'
  BY <1>1, <1>4 DEF StickSent, Late
<1>5. ASSUME NEW s \in BOOLEAN, NEW b \in Button, AcceptFrame(s, b)
      PROVE  StickSent'
  <2>1. UNCHANGED velocityTopic /\ due' = due \ {"reader"} /\ stickAge' \in {0, stickAge}
    BY <1>5, AcceptIs, ShownIs DEF topics
  <2>2. QED
    BY <1>2, <2>1
<1>6. CASE SetSafe
  BY <1>2, <1>6, SafeIs DEF topics
<1>7. CASE PassTime
  <2>1. UNCHANGED velocityTopic /\ due = {} /\ due' = Owed /\ stickAge' = Older(stickAge, MaxAge + 1)
    BY <1>7, TimeIs DEF topics
  <2>2. SUFFICES ASSUME TRUE \in velocityTopic PROVE StickSent'
    BY <2>1 DEF StickSent
  <2>3. "velocityTopic" \in due'
    BY <2>1, <2>2 DEF Owed
  <2>4. stickAge <= SignalTimeout + 1 /\ stickAge' <= stickAge + 1
    BY <1>1, <2>1, <2>2, OlderIs, Bounds DEF StickSent, Late
  <2>5. stickAge' <= SignalTimeout + 2
    BY <1>1, <2>4
  <2>6. QED
    BY <1>1, <2>3, <2>5 DEF StickSent, Late
<1>8. ASSUME NEW s \in BOOLEAN, NEW b \in Button, JoyMessage(s, b)
      PROVE  StickSent'
  <2>1. UNCHANGED due /\ stickAge' = (IF s THEN 0 ELSE stickAge)
        /\ (TRUE \in velocityTopic' => TRUE \in velocityTopic \/ s)
    BY <1>8, JoyIs, ShownIs
  <2>2. CASE s
    BY <1>1, <1>4, <2>1, <2>2
  <2>3. CASE ~s
    BY <1>2, <2>1, <2>3
  <2>4. QED
    BY <2>2, <2>3
<1>9. CASE Tick
  <2>1. UNCHANGED stickAge /\ due' = due \ {"teleop"}
    BY <1>9, TickIs
  <2>2. CASE velocityTopic' = velocityTopic \/ velocityTopic' = {FALSE}
    BY <1>2, <2>1, <2>2
  <2>3. CASE velocityTopic' = {radio.stick} /\ radio.valid
    <3>1. radio.stick => stickAge <= SignalTimeout + 1
      BY <1>1, <2>3 DEF StickSeen
    <3>2. ~radio.stick => TRUE \notin velocityTopic'
      BY <1>1, <2>3, ControlsIs
    <3>3. QED
      BY <1>3, <1>4, <2>1, <3>1, <3>2
  <2>4. QED
    BY <1>9, <2>2, <2>3, TickIs
<1>10. CASE LoseVelocity \/ WriteCommand
  BY <1>3, <1>10, CommandSentIs
<1>11. CASE StampCommand \/ PublishCommand
  BY <1>2, <1>11, CommandSentIs
<1>12. CASE Aside
  BY <1>2, <1>12, AsideIs
<1>13. CASE UNCHANGED operatorVars
  BY <1>2, <1>13 DEF operatorVars, topics, history
<1>14. QED
  BY <1>5, <1>6, <1>7, <1>8, <1>9, <1>10, <1>11, <1>12, <1>13 DEF OperatorNext, RejectFrame, CheckTimeout, Aside

LEMMA ReceivedStep ==
  ASSUME StickInv, OwnTypes', [OperatorNext]_operatorVars
  PROVE  StickReceived'
<1>1. /\ stickAge \in 0..MaxAge + 1 /\ stickAge' \in 0..MaxAge + 1 /\ SignalTimeout \in Nat
      /\ StickSent /\ StickReceived
  BY OperatorInputAssumption DEF StickInv, OwnTypes, InputTypes
<1>2. ASSUME stickAge' \in {0, stickAge}, UNCHANGED velocityMessage,
             producerAt # "idle" => producerAt' # "idle",
             "velocityCallback" \in due => "velocityCallback" \in due'
      PROVE  StickReceived'
  <2>1. SUFFICES ASSUME velocityMessage
                 PROVE  /\ stickAge' <= SignalTimeout + 2 + Late("velocityCallback")'
                        /\ producerAt' # "idle"
    BY <1>2 DEF StickReceived
  <2>2. producerAt' # "idle" /\ stickAge <= SignalTimeout + 2 + Late("velocityCallback")
    BY <1>1, <1>2, <2>1 DEF StickReceived
  <2>3. Late("velocityCallback") \in {0, 1} /\ Late("velocityCallback")' \in {0, 1}
        /\ Late("velocityCallback") <= Late("velocityCallback")'
    BY <1>2 DEF Late
  <2>4. QED
    BY <1>1, <1>2, <2>2, <2>3
<1>3. ASSUME NEW s \in BOOLEAN, NEW b \in Button, AcceptFrame(s, b)
      PROVE  StickReceived'
  <2>1. UNCHANGED <<velocityMessage, producerAt>> /\ due' = due \ {"reader"}
        /\ stickAge' \in {0, stickAge}
    BY <1>3, AcceptIs, ShownIs DEF vars
  <2>2. QED
    BY <1>2, <2>1
<1>4. ASSUME NEW s \in BOOLEAN, NEW b \in Button, JoyMessage(s, b)
      PROVE  StickReceived'
  <2>1. UNCHANGED <<velocityMessage, producerAt, due>> /\ stickAge' \in {0, stickAge}
    BY <1>4, JoyIs, ShownIs DEF vars
  <2>2. QED
    BY <1>2, <2>1
<1>5. CASE SetSafe
  BY <1>2, <1>5, SafeIs DEF vars
<1>6. CASE Tick
  BY <1>2, <1>6, TickIs DEF vars
<1>7. CASE LoseVelocity
  BY <1>2, <1>7, CommandSentIs DEF vars
<1>8. CASE WriteCommand
  <2>1. UNCHANGED stickAge /\ producerAt' = "filling" /\ velocityMessage' = (velocityTopic = {TRUE})
    BY <1>8, CommandSentIs
  <2>2. ASSUME velocityMessage' PROVE stickAge' <= SignalTimeout + 2
    <3>1. TRUE \in velocityTopic
      BY <2>1, <2>2
    <3>2. Late("velocityTopic") \in {0, 1}
      BY DEF Late
    <3>3. stickAge <= SignalTimeout + 1 + Late("velocityTopic")
      BY <1>1, <3>1 DEF StickSent
    <3>4. QED
      BY <1>1, <2>1, <3>2, <3>3
  <2>3. Late("velocityCallback")' \in {0, 1}
    BY DEF Late
  <2>4. velocityMessage' => stickAge' <= SignalTimeout + 2 + Late("velocityCallback")'
    BY <1>1, <2>2, <2>3
  <2>5. QED
    BY <2>1, <2>4 DEF StickReceived
<1>9. CASE StampCommand
  BY <1>2, <1>9, CommandSentIs
<1>10. CASE PublishCommand
  BY <1>10, CommandSentIs DEF StickReceived
<1>11. CASE Aside
  BY <1>2, <1>11, AsideIs
<1>12. CASE PassTime
  <2>1. UNCHANGED <<velocityMessage, producerAt>> /\ due = {} /\ due' = Owed
        /\ stickAge' = Older(stickAge, MaxAge + 1)
    BY <1>12, TimeIs DEF vars
  <2>2. SUFFICES ASSUME velocityMessage PROVE StickReceived'
    BY <2>1 DEF StickReceived
  <2>3. producerAt' # "idle" /\ stickAge <= SignalTimeout + 2
    BY <1>1, <2>1, <2>2 DEF StickReceived, Late
  <2>4. "velocityCallback" \in due'
    BY <2>1, <2>3 DEF Owed
  <2>5. stickAge' <= stickAge + 1
    BY <1>1, <2>1, OlderIs, Bounds
  <2>6. stickAge' <= SignalTimeout + 3
    BY <1>1, <2>3, <2>5
  <2>7. Late("velocityCallback")' = 1
    BY <2>4 DEF Late
  <2>8. QED
    BY <1>1, <2>3, <2>6, <2>7 DEF StickReceived
<1>13. CASE UNCHANGED operatorVars
  BY <1>2, <1>13 DEF operatorVars, vars, history
<1>14. QED
  BY <1>3, <1>4, <1>5, <1>6, <1>7, <1>8, <1>9, <1>10, <1>11, <1>12, <1>13
  DEF OperatorNext, RejectFrame, CheckTimeout, Aside

LEMMA StampedStep ==
  ASSUME StickInv, OwnTypes', [OperatorNext]_operatorVars
  PROVE  StickStamped'
<1>1. /\ stickAge \in 0..MaxAge + 1 /\ stickAge' \in 0..MaxAge + 1
      /\ SignalTimeout \in Nat /\ CommandTimeout \in Nat
      /\ content \in [Slot -> Command] /\ content' \in [Slot -> Command]
      /\ back \in Slot /\ front \in Slot /\ middle.idx \in Slot
      /\ StickReceived /\ StickStamped
  BY OperatorInputAssumption DEF StickInv, OwnTypes, InputTypes, CommandTypes, IInv, TypeOK, Word
<1>2. \A t \in Slot : content[t].age \in 0..CommandTimeout + 2 /\ content'[t].age \in 0..CommandTimeout + 2
  BY <1>1, CommandIs
<1>3. ASSUME stickAge' \in {0, stickAge},
             \A t \in Slot : content'[t].move =>
               content[t].move /\ content'[t].age = content[t].age
      PROVE  StickStamped'
  BY <1>1, <1>2, <1>3 DEF StickStamped, Behind
<1>4. ASSUME NEW s \in BOOLEAN, NEW b \in Button, AcceptFrame(s, b) \/ JoyMessage(s, b)
      PROVE  StickStamped'
  <2>1. UNCHANGED content /\ stickAge' \in {0, stickAge}
    BY <1>4, AcceptIs, JoyIs, ShownIs
  <2>2. QED
    BY <1>3, <2>1
<1>5. CASE SetSafe \/ Tick \/ LoseVelocity \/ WriteCommand
  BY <1>3, <1>5, SafeIs, TickIs, CommandSentIs
<1>6. CASE ReceiveStart \/ EnqueueStart \/ NoRequest \/ RefuseStart \/ ActOnStart
  BY <1>3, <1>6, RequestIs, CycleEnds
<1>7. CASE StampCommand
  <2>1. /\ UNCHANGED stickAge
        /\ content' = [content EXCEPT ![back] =
             IF velocityMessage THEN [move |-> TRUE, age |-> 0, later |-> loopAt # "idle"]
             ELSE Zero]
    BY <1>7, CommandSentIs
  <2>2. velocityMessage => stickAge <= SignalTimeout + 3
    BY <1>1 DEF StickReceived, Late
  <2>3. ASSUME NEW t \in Slot, content'[t].move, content'[t].age < CommandTimeout + 2
        PROVE  Behind(content[t])'
    <3>1. CASE t # back
      BY <1>1, <2>1, <2>3, <3>1 DEF StickStamped, Behind
    <3>2. CASE t = back
      <4>1. velocityMessage /\ content'[t].age = 0
        BY <1>1, <2>1, <2>3, <3>2, CommandIs
      <4>2. QED
        BY <1>1, <2>1, <2>2, <4>1 DEF Behind
    <3>3. QED
      BY <3>1, <3>2
  <2>4. QED
    BY <2>3 DEF StickStamped
<1>8. CASE PublishCommand
  BY <1>1, <1>3, <1>8, CommandSentIs, CommandIs
<1>9. CASE SampleClock
  <2>1. UNCHANGED stickAge
        /\ content' = [t \in Slot |-> [content[t] EXCEPT !.later = FALSE]]
    BY <1>9, SampleIs
  <2>2. \A t \in Slot : content'[t].move = content[t].move /\ content'[t].age = content[t].age
    BY <1>1, <2>1 DEF Command
  <2>3. QED
    BY <1>3, <2>1, <2>2
<1>10. CASE LoadCommand \/ ConsumeCommand \/ RetryCommand \/ CopyCommand \/ NoNewCommand
  BY <1>1, <1>3, <1>10, TakeIs, CommandIs
<1>11. CASE PassTime
  <2>1. /\ stickAge' = Older(stickAge, MaxAge + 1)
        /\ content' = [t \in Slot |-> [content[t] EXCEPT !.age = Older(@, CommandTimeout + 2)]]
    BY <1>11, TimeIs
  <2>2. stickAge' <= stickAge + 1
    BY <1>1, <2>1, OlderIs, Bounds
  <2>3. ASSUME NEW t \in Slot, content'[t].move, content'[t].age < CommandTimeout + 2
        PROVE  Behind(content[t])'
    <3>1. content[t].move /\ content'[t].age = Older(content[t].age, CommandTimeout + 2)
      BY <1>1, <2>1, <2>3 DEF Command
    <3>2. content[t].age < CommandTimeout + 2 /\ content'[t].age = content[t].age + 1
      BY <1>1, <1>2, <2>3, <3>1 DEF Older
    <3>3. stickAge <= content[t].age + SignalTimeout + 3
      BY <1>1, <3>1, <3>2 DEF StickStamped, Behind
    <3>4. stickAge' <= content'[t].age + SignalTimeout + 3
      BY <1>1, <1>2, <2>2, <3>2, <3>3
    <3>5. QED
      BY <3>4 DEF Behind
  <2>4. QED
    BY <2>3 DEF StickStamped
<1>12. CASE UNCHANGED operatorVars
  BY <1>3, <1>12 DEF operatorVars, history
<1>13. QED
  BY <1>4, <1>5, <1>6, <1>7, <1>8, <1>9, <1>10, <1>11, <1>12 DEF OperatorNext, RejectFrame, CheckTimeout

\* What is judged fresh can be followed until it is judged again.
LEMMA JudgedIsFollowed ==
  ASSUME NEW c \in Command, Judge(c), c.move /\ c.age < CommandTimeout + 2 => Behind(c),
         UNCHANGED <<lag, due, stickAge>>, lag \in 0..1, stickAge \in Nat,
         lag = 1 => "loop" \in due
  PROVE  StickFollowed'
<1>1. loopAt' = "take" /\ (command' = Zero \/ (command' = c /\ c.move /\ Fresh(c)))
  BY DEF Judge
<1>2. c.age \in 0..CommandTimeout + 2 /\ CommandTimeout \in Nat
  BY CommandIs, OperatorInputAssumption
<1>3. CASE command' = Zero
  BY <1>3, CommandIs DEF StickFollowed
<1>4. CASE command' = c /\ c.move /\ Fresh(c)
  <2>1. c.age <= CommandTimeout + lag
    BY <1>4 DEF Fresh
  <2>2. c.age < CommandTimeout + 2 /\ (c.age = CommandTimeout + 1 => lag = 1)
    BY <1>2, <2>1
  <2>3. Behind(c)' /\ command' = c
    BY <1>4, <2>2 DEF Behind
  <2>4. c.age # CommandTimeout + 2 /\ (c.age = CommandTimeout + 1 => "loop" \in due')
    BY <1>2, <2>2
  <2>5. Behind(command)'
    BY <2>3 DEF Behind
  <2>6. QED
    BY <2>3, <2>4, <2>5 DEF StickFollowed
<1>5. QED
  BY <1>1, <1>3, <1>4

LEMMA FollowedStep ==
  ASSUME StickInv, OwnTypes', [OperatorNext]_operatorVars
  PROVE  StickFollowed'
<1>1. /\ stickAge \in 0..MaxAge + 1 /\ stickAge' \in 0..MaxAge + 1
      /\ SignalTimeout \in Nat /\ CommandTimeout \in Nat /\ lag \in 0..1
      /\ content \in [Slot -> Command] /\ command \in Command /\ command' \in Command
      /\ front \in Slot /\ loopAt \in {"idle", "consume", "take"}
      /\ StickStamped /\ StickFollowed
  BY OperatorInputAssumption DEF StickInv, OwnTypes, InputTypes, CommandTypes, IInv, TypeOK
<1>2. /\ command.age \in 0..CommandTimeout + 2 /\ command.move \in BOOLEAN
      /\ command'.age \in 0..CommandTimeout + 2
  BY <1>1, CommandIs
<1>3. ASSUME stickAge' \in {0, stickAge}, UNCHANGED loop, "loop" \in due => "loop" \in due'
      PROVE  StickFollowed'
  <2>1. command.move => Behind(command)'
    BY <1>1, <1>2, <1>3 DEF StickFollowed, Behind, loop
  <2>2. QED
    BY <1>1, <1>3, <2>1 DEF StickFollowed, Behind, loop
<1>4. ASSUME NEW s \in BOOLEAN, NEW b \in Button, AcceptFrame(s, b) \/ JoyMessage(s, b)
      PROVE  StickFollowed'
  <2>1. UNCHANGED loop /\ stickAge' \in {0, stickAge} /\ ("loop" \in due => "loop" \in due')
    BY <1>4, AcceptIs, JoyIs, ShownIs
  <2>2. QED
    BY <1>3, <2>1
<1>5. CASE SetSafe \/ Tick
  BY <1>3, <1>5, SafeIs, TickIs
<1>6. CASE LoseVelocity \/ WriteCommand \/ StampCommand \/ PublishCommand
  BY <1>3, <1>6, CommandSentIs
<1>7. CASE ReceiveStart \/ EnqueueStart
  BY <1>3, <1>7, RequestIs
<1>8. CASE LoadCommand \/ ConsumeCommand \/ RetryCommand \/ CopyCommand \/ NoNewCommand
  <2>1. UNCHANGED <<lag, due, stickAge>> /\ (lag = 1 => "loop" \in due)
    BY <1>1, <1>8, TakeIs DEF StickFollowed
  <2>2. CASE UNCHANGED <<content, loopAt, command>>
    BY <1>3, <2>1, <2>2 DEF loop
  <2>3. CASE Judge(command)
    <3>1. command.move => Behind(command)
      BY <1>1 DEF StickFollowed
    <3>2. QED
      BY <1>1, <2>1, <2>3, <3>1, JudgedIsFollowed, Bounds
  <2>4. CASE Judge(content[front])
    <3>1. content[front] \in Command
      BY <1>1
    <3>2. content[front].move /\ content[front].age < CommandTimeout + 2 => Behind(content[front])
      BY <1>1 DEF StickStamped
    <3>3. QED
      BY <1>1, <2>1, <2>4, <3>1, <3>2, JudgedIsFollowed, Bounds
  <2>5. QED
    BY <1>8, <2>2, <2>3, <2>4, TakeIs
<1>9. CASE SampleClock
  <2>1. UNCHANGED <<command, due, stickAge>> /\ loopAt' = "consume" /\ lag' = 0
    BY <1>9, SampleIs
  <2>2. QED
    BY <1>1, <2>1 DEF StickFollowed, Behind
<1>10. CASE NoRequest \/ RefuseStart \/ ActOnStart
  <2>1. loopAt = "take" /\ loopAt' = "idle" /\ lag' = 0 /\ UNCHANGED <<command, stickAge>>
    BY <1>10, CycleEnds
  <2>2. command.move => command.age # CommandTimeout + 2 /\ Behind(command)
    BY <1>1, <2>1 DEF StickFollowed
  <2>3. QED
    BY <2>1, <2>2 DEF StickFollowed, Behind
<1>11. CASE PassTime
  <2>1. /\ due = {} /\ due' = Owed /\ UNCHANGED loopAt
        /\ stickAge' = Older(stickAge, MaxAge + 1)
        /\ command' = [command EXCEPT !.age = Older(@, CommandTimeout + 2)]
    BY <1>11, TimeIs
  <2>2. "loop" \in due'
    BY <2>1 DEF Owed
  <2>3. SUFFICES ASSUME command.move PROVE StickFollowed'
    BY <1>1, <2>1, <2>2 DEF StickFollowed, Command
  <2>4. /\ command.age # CommandTimeout + 2 /\ Behind(command)
        /\ loopAt = "take" => command.age # CommandTimeout + 1
    BY <1>1, <2>1, <2>3 DEF StickFollowed
  <2>5. command.age + 1 \in 0..CommandTimeout + 2 /\ command'.age = command.age + 1
        /\ command'.move
    BY <1>1, <1>2, <2>1, <2>3, <2>4 DEF Older, Command
  <2>6. stickAge' <= stickAge + 1
    BY <1>1, <2>1, OlderIs, Bounds
  <2>7. Behind(command)'
    BY <1>1, <1>2, <2>4, <2>5, <2>6 DEF Behind
  <2>8. loopAt' = "take" => command'.age # CommandTimeout + 2
    BY <1>1, <1>2, <2>1, <2>4, <2>5
  <2>9. QED
    BY <2>2, <2>7, <2>8 DEF StickFollowed
<1>12. CASE UNCHANGED operatorVars
  BY <1>3, <1>12 DEF operatorVars, history
<1>13. QED
  BY <1>4, <1>5, <1>6, <1>7, <1>8, <1>9, <1>10, <1>11, <1>12 DEF OperatorNext, RejectFrame, CheckTimeout

LEMMA AlwaysStickInv == OperatorSpec => []StickInv
<1>1. OperatorInit /\ OwnTypes /\ IInv => StickInv
  BY StickStarts DEF StickInv
<1>2. StickInv /\ OwnTypes' /\ IInv' /\ [OperatorNext]_operatorVars => StickInv'
  BY SeenStep, SentStep, ReceivedStep, StampedStep, FollowedStep DEF StickInv
<1>3. QED
  BY <1>1, <1>2, AlwaysOwnTypes, BufferInside, AlwaysIInv, PTL DEF OperatorSpec

\* However the radio, the joystick and the parts fail: the robot follows no stick that
\* was last seen deflected longer ago than the two time-outs and the five hops.
THEOREM StickIsObeyed == OperatorSpec => []StickBehindMotion
<1>1. StickInv => StickBehindMotion
  <2>1. ASSUME StickInv, command.move
        PROVE  stickAge <= MaxAge
    <3>1. stickAge \in Nat /\ command.age \in 0..CommandTimeout + 2
      BY <2>1, CommandIs, Bounds DEF StickInv, OwnTypes, InputTypes, CommandTypes
    <3>2. stickAge <= command.age + SignalTimeout + 3
      BY <2>1 DEF StickInv, StickFollowed, Behind
    <3>3. QED
      BY <3>1, <3>2, OperatorInputAssumption DEF MaxAge, Hops
  <2>2. QED
    BY <2>1 DEF StickBehindMotion
<1>2. QED
  BY <1>1, AlwaysStickInv, PTL

-----------------------------------------------------------------------------
(* The button.  A press is used once it has passed the release gap, or was pressed
   without a signal; no used press may pass the gap again.  From the radio it is sent
   once only; from the joystick again and again, and it is the gap that stops it. *)

Used == spent \cup ({startMessage, pending} \ {0})

\* What has been seen of a press.
Seen == {button, startMessage, pending} \cup startTopic \cup spent

OneOfEach ==
  /\ startMessage \notin spent /\ (startMessage # 0 => startMessage # pending)
  /\ pending \notin spent
  /\ \A p \in Seen : p <= presses

ByRadio ==
  device = "sbus" =>
  /\ radio.valid => radio.button = button
  /\ input = "valid" /\ ~held /\ button # 0 => button \notin Used \cup startTopic
  /\ startTopic \cap Used = {}

\* The message before this one came so recently that the next comes in the gap.
InGap == requestReceived + (1 - Late("startTopic")) <= ReleaseGap

ByJoystick ==
  device = "joy" =>
  /\ startTopic \subseteq {0, button} /\ \A p, q \in startTopic : p = q
  /\ button # 0 => "start" \in commands
  /\ input # "valid" => Used = {} /\ startTopic = {}
  /\ button \in Used /\ silence < ReleaseGap /\ button \notin startTopic
     => requestReceived <= silence
  /\ button \in Used /\ button \in startTopic => InGap

OnceInv == OwnTypes /\ OneOfEach /\ ByRadio /\ ByJoystick

\* The number of a press not seen before belongs to no other.
LEMMA NewIsFresh ==
  ASSUME PressTypes, OneOfEach, NEW b \in NewPress
  PROVE  b = presses + 1 /\ b # 0 /\ b \notin Seen /\ b \notin Used \cup startTopic
<1>1. presses \in Nat /\ b = presses + 1
  BY ButtonIs DEF PressTypes, NewPress
<1>2. b \notin Seen
  BY <1>1 DEF OneOfEach
<1>3. QED
  BY <1>1, <1>2 DEF Used, Seen

LEMMA OnceStarts == OperatorInit => OneOfEach /\ ByRadio /\ ByJoystick
<1> SUFFICES ASSUME OperatorInit PROVE OneOfEach /\ ByRadio /\ ByJoystick
  OBVIOUS
<1>1. /\ startTopic = {} /\ startMessage = 0 /\ pending = 0 /\ button = 0
      /\ presses = 0 /\ spent = {} /\ ~radio.valid
  BY ControlsIs DEF OperatorInit
<1>2. Used = {}
  BY <1>1 DEF Used
<1>3. OneOfEach
  BY <1>1 DEF OneOfEach, Seen
<1>4. ByRadio
  BY <1>1, <1>2 DEF ByRadio
<1>5. ByJoystick
  BY <1>1, <1>2 DEF ByJoystick
<1>6. QED
  BY <1>3, <1>4, <1>5

\* A frame shows the press it showed before, none, or a new one.
LEMMA OnceAccept ==
  ASSUME OnceInv, NEW s \in BOOLEAN, NEW b \in Button, AcceptFrame(s, b)
  PROVE  OneOfEach' /\ ByRadio' /\ ByJoystick'
<1>1. /\ radio' = Accepted(s, b) /\ button' = b /\ b \in {0, button} \cup NewPress
      /\ presses' = (IF b > presses THEN b ELSE presses)
      /\ spent' = spent \/ (spent' = spent \cup {b} /\ b \notin {0, button})
      /\ UNCHANGED <<device, input, held, startTopic, startMessage, pending>>
  BY AcceptIs, ShownIs DEF config, teleop, topics, intake
<1>2. device = "sbus" /\ (spent' # spent => input # "valid")
  <2>1. spent' # spent => input # "valid"
    BY Zenon DEF AcceptFrame
  <2>2. device = "sbus"
    BY DEF AcceptFrame
  <2>3. QED
    BY <2>1, <2>2
<1>3. /\ presses \in Nat /\ button \in Nat /\ startTopic \subseteq Nat /\ spent \subseteq Nat
      /\ startMessage \in Nat /\ pending \in Nat
  BY ButtonIs DEF OnceInv, OwnTypes, PressTypes
<1>4. b \in NewPress => /\ b = presses + 1 /\ b \notin Used \cup startTopic
                        /\ b \notin {button, startMessage, pending} \cup spent
  BY NewIsFresh DEF OnceInv, OwnTypes, Seen
<1>5. spent' = spent \/ (spent' = spent \cup {b} /\ b \in NewPress)
  BY <1>1
<1>6. OneOfEach'
  <2>1. startMessage' \notin spent' /\ pending' \notin spent'
        /\ (startMessage' # 0 => startMessage' # pending')
    BY <1>1, <1>4, <1>5 DEF OnceInv, OneOfEach
  <2>2. \A p \in Seen : p <= presses
    BY DEF OnceInv, OneOfEach
  <2>3. presses' \in Nat /\ presses <= presses' /\ b <= presses'
    BY <1>1, <1>3, ButtonIs
  <2>4. Seen' \subseteq Seen \cup {b}
    BY <1>1 DEF Seen
  <2>5. Seen \subseteq Nat
    BY <1>3 DEF Seen
  <2>6. \A p \in Seen' : p <= presses'
    BY <1>3, <2>2, <2>3, <2>4, <2>5
  <2>7. QED
    BY <2>1, <2>6 DEF OneOfEach
<1>7. ByRadio'
  <2>1. radio'.button = button'
    BY <1>1, ControlsIs
  <2>2. Used' = Used \/ (Used' = Used \cup {b} /\ b \in NewPress)
    BY <1>1, <1>5 DEF Used
  <2>3. startTopic' \cap Used' = {}
    BY <1>1, <1>2, <1>4, <2>2 DEF OnceInv, ByRadio
  <2>4. ASSUME input' = "valid", ~held', button' # 0
        PROVE  button' \notin Used' \cup startTopic'
    <3>1. spent' = spent /\ Used' = Used
      BY <1>1, <1>2, <2>4 DEF Used
    <3>2. b = button \/ b \in NewPress
      BY <1>1, <2>4
    <3>3. b = button => button \notin Used \cup startTopic
      BY <1>1, <1>2, <2>4 DEF OnceInv, ByRadio
    <3>4. QED
      BY <1>1, <1>4, <3>1, <3>2, <3>3
  <2>5. QED
    BY <2>1, <2>3, <2>4 DEF ByRadio
<1>8. ByJoystick'
  BY <1>1, <1>2 DEF ByJoystick
<1>9. QED
  BY <1>6, <1>7, <1>8

\* A message of the joystick while the button is held comes in the gap.
LEMMA OnceJoy ==
  ASSUME OnceInv, NEW s \in BOOLEAN, NEW b \in Button, JoyMessage(s, b)
  PROVE  OneOfEach' /\ ByRadio' /\ ByJoystick'
<1>1. /\ button' = b /\ silence' = 0 /\ input' = "valid"
      /\ presses' = (IF b > presses THEN b ELSE presses)
      /\ startTopic' \in {startTopic, {b}, {0}}
      /\ UNCHANGED <<device, commands, radio, held, startMessage, requestReceived, pending, due, spent>>
  BY JoyIs, ShownIs DEF config, driver, intake
<1>2. device = "joy" /\ (b # 0 => "start" \in commands)
  BY DEF JoyMessage, Shown
<1>3. /\ presses \in Nat /\ button \in Nat /\ startTopic \subseteq Nat /\ spent \subseteq Nat
      /\ startMessage \in Nat /\ pending \in Nat /\ requestReceived \in Nat /\ silence \in Nat
      /\ ReleaseGap \in Nat \ {0}
  BY ButtonIs, OperatorInputAssumption DEF OnceInv, OwnTypes, PressTypes
<1>4. b \in NewPress => b = presses + 1 /\ b \notin Used
  BY NewIsFresh DEF OnceInv, OwnTypes
<1>5. b \in {0} \cup NewPress \/ (b = button /\ silence < ReleaseGap)
  BY DEF JoyMessage
<1>6. OneOfEach'
  <2>1. startMessage' \notin spent' /\ pending' \notin spent'
        /\ (startMessage' # 0 => startMessage' # pending')
    BY <1>1 DEF OnceInv, OneOfEach
  <2>2. \A p \in Seen : p <= presses
    BY DEF OnceInv, OneOfEach
  <2>3. presses' \in Nat /\ presses <= presses' /\ b <= presses'
    BY <1>1, <1>3, ButtonIs
  <2>4. Seen' \subseteq Seen \cup {b, 0} /\ Seen \subseteq Nat
    BY <1>1, <1>3 DEF Seen
  <2>5. \A p \in Seen' : p <= presses'
    BY <1>3, <2>2, <2>3, <2>4
  <2>6. QED
    BY <2>1, <2>5 DEF OneOfEach
<1>7. ByRadio'
  BY <1>1, <1>2 DEF ByRadio
<1>8. ByJoystick'
  <2>1. Used' = Used /\ 0 \notin Used
    BY <1>1 DEF Used, OnceInv, OwnTypes, PressTypes, Presses
  <2>2. startTopic' \subseteq {0, button'}
    <3>1. startTopic' = startTopic => "start" \notin commands
          \/ startTopic' \in {{b}, {0}}
      BY Zenon DEF JoyMessage
    <3>2. "start" \notin commands => button = 0 /\ startTopic \subseteq {0, button}
      BY <1>1, <1>2 DEF OnceInv, ByJoystick
    <3>3. QED
      BY <1>1, <3>1, <3>2
  <2>3. ASSUME b \in Used
        PROVE  b = button /\ silence < ReleaseGap /\ input = "valid" /\ "start" \in commands
    <3>1. b = button /\ silence < ReleaseGap
      BY <1>4, <1>5, <2>1, <2>3
    <3>2. input = "valid"
      BY <1>1, <1>2, <2>3 DEF OnceInv, ByJoystick
    <3>3. "start" \in commands
      BY <1>2, <2>1, <2>3
    <3>4. QED
      BY <3>1, <3>2, <3>3
  <2>4. ASSUME b \in Used PROVE b \in startTopic'
    <3>1. input = "valid" /\ "start" \in commands
      BY <2>3, <2>4
    <3>2. startTopic' = {b}
      BY <3>1, Zenon DEF JoyMessage
    <3>3. QED
      BY <3>2
  <2>5. ASSUME b \in Used PROVE InGap'
    <3>1. button \in Used /\ silence < ReleaseGap
      BY <2>3, <2>5
    <3>2. Late("startTopic") \in {0, 1} /\ Late("startTopic")' = Late("startTopic")
      BY <1>1 DEF Late
    <3>3. CASE button \in startTopic
      <4>1. InGap
        BY <1>1, <1>2, <3>1, <3>3 DEF OnceInv, ByJoystick
      <4>2. QED
        BY <1>1, <3>2, <4>1 DEF InGap
    <3>4. CASE button \notin startTopic
      <4>1. requestReceived <= silence
        BY <1>1, <1>2, <3>1, <3>4 DEF OnceInv, ByJoystick
      <4>2. requestReceived + (1 - Late("startTopic")) <= ReleaseGap
        BY <1>3, <3>1, <3>2, <4>1
      <4>3. QED
        BY <1>1, <3>2, <4>2 DEF InGap
    <3>5. QED
      BY <3>3, <3>4
  <2>6. \A p, q \in startTopic' : p = q
    BY <1>1, <1>2 DEF OnceInv, ByJoystick
  <2>7. QED
    BY <1>1, <1>2, <2>1, <2>2, <2>4, <2>5, <2>6 DEF ByJoystick
<1>9. QED
  BY <1>6, <1>7, <1>8

\* The radio's node sends a press on its rising edge, and never one it began with.
LEMMA OnceTick ==
  ASSUME OnceInv, Tick
  PROVE  OneOfEach' /\ ByRadio' /\ ByJoystick'
<1>1. /\ device = "sbus"
      /\ UNCHANGED <<device, radio, startMessage, pending, spent, button, presses>>
  BY DEF Tick, TickWithoutSignal, TickSynchronizes, TickDispatches, TickEnds, config, driver,
         intake, operator, history
<1>2. /\ startTopic \cap Used = {} /\ (radio.valid => radio.button = button)
      /\ (input = "valid" /\ ~held /\ button # 0 => button \notin Used \cup startTopic)
  BY <1>1 DEF OnceInv, ByRadio
<1>3. startTopic' = startTopic
      \/ (startTopic' = {button} /\ button # 0 /\ ~held /\ input = "valid" /\ held')
  <2>1. CASE TickWithoutSignal \/ TickSynchronizes
    BY <2>1 DEF TickWithoutSignal, TickSynchronizes, topics
  <2>2. CASE TickDispatches
    <3>1. radio.valid /\ input = "valid" /\ held' = (radio.button # 0)
      BY <2>2 DEF TickDispatches, MustSynchronize
    <3>2. IF RisingEdge(radio.button) THEN startTopic' = {radio.button} ELSE UNCHANGED startTopic
      BY <2>2 DEF TickDispatches
    <3>3. QED
      BY <1>2, <3>1, <3>2 DEF RisingEdge
  <2>3. QED
    BY <2>1, <2>2 DEF Tick
<1>4. Used' = Used /\ startTopic' \cap Used' = {}
  BY <1>1, <1>2, <1>3 DEF Used
<1>5. OneOfEach'
  <2>1. Seen' \subseteq Seen
    BY <1>1, <1>3 DEF Seen
  <2>2. QED
    BY <1>1, <2>1 DEF OnceInv, OneOfEach
<1>6. input' = "valid" /\ ~held' /\ button' # 0 => button' \notin Used' \cup startTopic'
  <2>1. CASE TickWithoutSignal
    BY <1>1, <2>1 DEF TickWithoutSignal
  <2>2. CASE TickSynchronizes \/ TickDispatches
    <3>1. radio.valid /\ held' = (radio.button # 0)
      BY <2>2 DEF TickSynchronizes, TickDispatches
    <3>2. QED
      BY <1>1, <1>2, <3>1
  <2>3. QED
    BY <2>1, <2>2 DEF Tick
<1>7. ByRadio'
  BY <1>1, <1>2, <1>4, <1>6 DEF ByRadio
<1>8. ByJoystick'
  BY <1>1 DEF ByJoystick
<1>9. QED
  BY <1>5, <1>7, <1>8

\* What the release gap lets through has not been used: a used press comes in the gap.
LEMMA OnceReceive ==
  ASSUME OnceInv, ReceiveStart
  PROVE  OneOfEach' /\ ByRadio' /\ ByJoystick'
<1>1. /\ UNCHANGED <<device, commands, radio, input, held, pending, spent, button, presses, silence>>
      /\ startTopic' = {} /\ startMessage = 0 /\ due' = due \ {"startTopic"}
  BY DEF ReceiveStart, config, driver, teleop, operator, history
<1>2. PICK b \in startTopic : /\ requestReceived' = (IF Pressed(b) THEN 0 ELSE requestReceived)
                              /\ startMessage' = (IF Pressed(b) /\ ~SamePress THEN b ELSE 0)
  BY DEF ReceiveStart
<1>3. /\ startTopic \subseteq Nat /\ silence \in Nat /\ requestReceived \in Nat /\ ReleaseGap \in Nat
      /\ pending \in Nat
  BY ButtonIs, OperatorInputAssumption DEF OnceInv, OwnTypes, PressTypes
<1>4. Used = spent \cup ({pending} \ {0}) /\ Used' = Used \cup ({startMessage'} \ {0})
  BY <1>1 DEF Used
<1>5. startMessage' # 0 => startMessage' = b /\ b \notin Used
  <2>1. SUFFICES ASSUME startMessage' # 0, b \in Used PROVE FALSE
    BY <1>2
  <2>2. b # 0 /\ startMessage' = b /\ ~SamePress
    BY <1>2, <2>1
  <2>3. CASE device = "sbus"
    BY <1>2, <2>1, <2>3 DEF OnceInv, ByRadio
  <2>4. CASE device = "joy"
    <3>1. b = button
      BY <1>2, <2>2, <2>4 DEF OnceInv, ByJoystick
    <3>2. InGap
      BY <1>2, <2>1, <2>4, <3>1 DEF OnceInv, ByJoystick
    <3>3. Late("startTopic") \in {0, 1}
      BY DEF Late
    <3>4. SamePress
      BY <1>3, <3>2, <3>3 DEF InGap, SamePress
    <3>5. QED
      BY <2>2, <3>4
  <2>5. QED
    BY <2>3, <2>4, OperatorInputAssumption DEF OnceInv, OwnTypes, ConfigTypes
<1>6. OneOfEach'
  <2>1. 0 \notin spent /\ startMessage \notin spent /\ pending \notin spent
    BY DEF OnceInv, OneOfEach, OwnTypes, PressTypes, Presses
  <2>2. startMessage' \notin spent' /\ (startMessage' # 0 => startMessage' # pending') /\ pending' \notin spent'
    BY <1>1, <1>4, <1>5, <2>1
  <2>3. Seen' \subseteq Seen
    BY <1>1, <1>2 DEF Seen
  <2>4. QED
    BY <1>1, <2>2, <2>3 DEF OnceInv, OneOfEach
<1>7. ByRadio'
  <2>1. startTopic' \cap Used' = {}
    BY <1>1
  <2>2. Used' \cup startTopic' \subseteq Used \cup startTopic
    BY <1>1, <1>2, <1>4
  <2>3. QED
    BY <1>1, <2>1, <2>2 DEF OnceInv, ByRadio
<1>8. ByJoystick'
  <2>1. SUFFICES ASSUME device = "joy" PROVE ByJoystick'
    BY <1>1 DEF ByJoystick
  <2>2. input' = "valid"
    BY <1>1, <1>2, <2>1 DEF OnceInv, ByJoystick
  <2>3. button' # 0 => "start" \in commands'
    BY <1>1, <2>1 DEF OnceInv, ByJoystick
  <2>4. ASSUME button' \in Used', silence' < ReleaseGap
        PROVE  requestReceived' <= silence'
    <3>1. 0 \notin Used'
      BY <1>4 DEF OnceInv, OneOfEach, OwnTypes, PressTypes, Presses
    <3>2. button # 0 /\ button \in Used \cup ({startMessage'} \ {0})
      BY <1>1, <1>4, <2>4, <3>1
    <3>3. CASE b = button
      BY <1>1, <1>2, <1>3, <3>2, <3>3 DEF Pressed
    <3>4. CASE b # button
      <4>1. b = 0
        BY <1>2, <2>1, <3>4 DEF OnceInv, ByJoystick
      <4>2. startMessage' = 0 /\ requestReceived' = requestReceived
        BY <1>2, <4>1 DEF Pressed
      <4>3. button \in Used
        BY <3>2, <4>2
      <4>4. CASE button \notin startTopic
        BY <1>1, <2>1, <2>4, <4>2, <4>3, <4>4 DEF OnceInv, ByJoystick
      <4>5. CASE button \in startTopic
        BY <1>2, <2>1, <3>4, <4>5 DEF OnceInv, ByJoystick
      <4>6. QED
        BY <4>4, <4>5
    <3>5. QED
      BY <3>3, <3>4
  <2>5. QED
    BY <1>1, <2>2, <2>3, <2>4 DEF ByJoystick
<1>9. QED
  BY <1>6, <1>7, <1>8

\* A step that takes a press further, or leaves all of them where they are.
LEMMA OnceFurther ==
  ASSUME OnceInv,
         UNCHANGED <<device, commands, input, held, startTopic, button, presses, silence,
                     requestReceived>>,
         radio' = radio \/ ~radio'.valid,
         Late("startTopic")' = Late("startTopic"),
         Used' \subseteq Used, Seen' \subseteq Seen \cup {0},
         startMessage' \notin spent', startMessage' # 0 => startMessage' # pending',
         pending' \notin spent'
  PROVE  OneOfEach' /\ ByRadio' /\ ByJoystick'
<1>1. presses \in Nat
  BY ButtonIs DEF OnceInv, OwnTypes, PressTypes
<1>2. OneOfEach'
  <2>1. \A p \in Seen : p <= presses
    BY DEF OnceInv, OneOfEach
  <2>2. \A p \in Seen' : p <= presses'
    BY <1>1, <2>1
  <2>3. QED
    BY <2>2 DEF OneOfEach
<1>3. ByRadio'
  BY DEF OnceInv, ByRadio
<1>4. ByJoystick'
  <2>1. SUFFICES ASSUME device = "joy" PROVE ByJoystick'
    BY DEF ByJoystick
  <2>2. InGap' = InGap
    BY DEF InGap
  <2>3. QED
    BY <2>1, <2>2 DEF OnceInv, ByJoystick
<1>5. QED
  BY <1>2, <1>3, <1>4

LEMMA OnceEnqueue ==
  ASSUME OnceInv, EnqueueStart
  PROVE  OneOfEach' /\ ByRadio' /\ ByJoystick'
<1>1. /\ UNCHANGED <<device, commands, radio, input, held, startTopic, spent, button, presses,
                     silence, requestReceived>>
      /\ pending' = startMessage /\ startMessage' = 0
  BY DEF EnqueueStart, config, driver, teleop, topics, operator, history
<1>2. Late("startTopic")' = Late("startTopic")
  BY DEF EnqueueStart, Late
<1>3. Used' \subseteq Used /\ Seen' \subseteq Seen \cup {0}
  BY <1>1 DEF Used, Seen
<1>4. startMessage \notin spent /\ 0 \notin spent
  BY DEF OnceInv, OneOfEach, OwnTypes, PressTypes, Presses
<1>5. QED
  BY <1>1, <1>2, <1>3, <1>4, OnceFurther

\* The cycle uses up the press that is pending, whether it acts on it or not.
LEMMA OnceCycle ==
  ASSUME OnceInv, NoRequest \/ RefuseStart \/ ActOnStart
  PROVE  OneOfEach' /\ ByRadio' /\ ByJoystick'
<1>1. /\ UNCHANGED <<device, commands, radio, input, held, startTopic, startMessage, button,
                     presses, silence, requestReceived>>
      /\ pending' = 0 /\ due' = due \ {"loop"}
      /\ spent' = spent \/ (pending # 0 /\ spent' = spent \cup {pending})
  BY CycleEnds DEF config, driver, teleop, topics, operator
<1>2. Late("startTopic")' = Late("startTopic")
  BY <1>1 DEF Late
<1>3. Used' \subseteq Used /\ Seen' \subseteq Seen \cup {0}
  BY <1>1 DEF Used, Seen
<1>4. /\ startMessage \notin spent /\ 0 \notin spent
      /\ startMessage # 0 => startMessage # pending
  BY DEF OnceInv, OneOfEach, OwnTypes, PressTypes, Presses
<1>5. /\ startMessage' \notin spent' /\ pending' \notin spent'
      /\ startMessage' # 0 => startMessage' # pending'
  BY <1>1, <1>4
<1>6. QED
  BY <1>1, <1>2, <1>3, <1>5, OnceFurther

\* The gap outgrows the silence by no more than the unit a message may be late.
LEMMA OnceTime ==
  ASSUME OnceInv, PassTime
  PROVE  OneOfEach' /\ ByRadio' /\ ByJoystick'
<1>1. /\ UNCHANGED <<device, commands, radio, input, held, startTopic, startMessage, pending,
                     spent, button, presses>>
      /\ due = {} /\ due' = Owed
      /\ requestReceived' = Older(requestReceived, ReleaseGap + 1)
      /\ silence' = Older(silence, ReleaseGap)
  BY DEF PassTime, config, teleop, topics
<1>2. /\ requestReceived \in 0..ReleaseGap + 1 /\ silence \in 0..ReleaseGap
      /\ ReleaseGap \in Nat
  BY Bounds DEF OnceInv, OwnTypes, PressTypes
<1>3. Used' = Used /\ Seen' = Seen
  BY <1>1 DEF Used, Seen
<1>4. OneOfEach'
  BY <1>1, <1>3 DEF OnceInv, OneOfEach
<1>5. ByRadio'
  BY <1>1, <1>3 DEF OnceInv, ByRadio
<1>6. ByJoystick'
  <2>1. SUFFICES ASSUME device = "joy" PROVE ByJoystick'
    BY <1>1 DEF ByJoystick
  <2>2. ASSUME button \in Used, silence' < ReleaseGap, button \notin startTopic
        PROVE  requestReceived' <= silence'
    <3>1. silence < ReleaseGap /\ silence' = silence + 1
      BY <1>1, <1>2, <2>2 DEF Older
    <3>2. requestReceived <= silence
      BY <2>1, <2>2, <3>1 DEF OnceInv, ByJoystick
    <3>3. requestReceived' <= requestReceived + 1
      BY <1>1, <1>2 DEF Older
    <3>4. requestReceived' \in Nat
      BY <1>1, <1>2 DEF Older
    <3>5. QED
      BY <1>2, <3>1, <3>2, <3>3, <3>4
  <2>3. ASSUME button \in Used, button \in startTopic PROVE InGap'
    <3>1. InGap /\ Late("startTopic") = 0
      BY <1>1, <2>1, <2>3 DEF OnceInv, ByJoystick, Late
    <3>2. Late("startTopic")' = 1
      BY <1>1, <2>3 DEF Owed, Late
    <3>3. requestReceived' <= requestReceived + 1 /\ requestReceived' \in Nat
      BY <1>1, <1>2 DEF Older
    <3>4. requestReceived + 1 <= ReleaseGap
      BY <3>1 DEF InGap
    <3>5. requestReceived' + (1 - Late("startTopic")') <= ReleaseGap
      BY <1>2, <3>2, <3>3, <3>4
    <3>6. ReleaseGap' = ReleaseGap
      OBVIOUS
    <3>7. QED
      BY <3>5 DEF InGap
  <2>4. QED
    BY <1>1, <1>3, <2>1, <2>2, <2>3 DEF OnceInv, ByJoystick
<1>7. QED
  BY <1>4, <1>5, <1>6

LEMMA OnceRest ==
  ASSUME OnceInv,
         \/ SetSafe
         \/ LoseVelocity \/ WriteCommand \/ StampCommand \/ PublishCommand
         \/ LoadCommand \/ ConsumeCommand \/ RetryCommand \/ CopyCommand \/ NoNewCommand
         \/ SampleClock
         \/ UNCHANGED operatorVars
  PROVE  OneOfEach' /\ ByRadio' /\ ByJoystick'
<1>1. /\ UNCHANGED <<device, commands, input, held, startTopic, startMessage, pending, spent,
                     button, presses, silence, requestReceived>>
      /\ radio' = radio \/ ~radio'.valid
      /\ Late("startTopic")' = Late("startTopic")
  <2>1. CASE SetSafe
    <3>1. ~radio'.valid
      BY <2>1, SafeIs
    <3>2. QED
      BY <2>1, <3>1 DEF SetSafe, config, teleop, topics, intake, operator, Late
  <2>2. CASE LoseVelocity \/ WriteCommand \/ StampCommand \/ PublishCommand
    BY <2>2 DEF LoseVelocity, WriteCommand, StampCommand, PublishCommand, config, driver, teleop,
                topics, intake, operator, history, Late
  <2>3. CASE LoadCommand \/ ConsumeCommand \/ RetryCommand \/ CopyCommand \/ NoNewCommand
    BY <2>3 DEF LoadCommand, ConsumeCommand, RetryCommand, CopyCommand, NoNewCommand, InUpdate,
                config, driver, teleop, topics, intake, operator, history, Late
  <2>4. CASE SampleClock \/ UNCHANGED operatorVars
    BY <2>4 DEF SampleClock, operatorVars, config, driver, teleop, topics, intake, operator,
                history, Late
  <2>5. QED
    BY <2>1, <2>2, <2>3, <2>4
<1>2. Used' \subseteq Used /\ Seen' \subseteq Seen \cup {0}
  BY <1>1 DEF Used, Seen
<1>3. /\ startMessage \notin spent /\ pending \notin spent
      /\ startMessage # 0 => startMessage # pending
  BY DEF OnceInv, OneOfEach
<1>4. QED
  BY <1>1, <1>2, <1>3, OnceFurther

LEMMA AlwaysOnceInv == OperatorSpec => []OnceInv
<1>1. OperatorInit /\ OwnTypes => OnceInv
  BY OnceStarts DEF OnceInv
<1>2. OnceInv /\ OwnTypes' /\ [OperatorNext]_operatorVars => OnceInv'
  <2> SUFFICES ASSUME OnceInv, OwnTypes', [OperatorNext]_operatorVars
               PROVE  OneOfEach' /\ ByRadio' /\ ByJoystick'
    BY DEF OnceInv
  <2>1. CASE \E s \in BOOLEAN, b \in Button : AcceptFrame(s, b) \/ JoyMessage(s, b)
    BY <2>1, OnceAccept, OnceJoy
  <2>2. CASE Tick
    BY <2>2, OnceTick
  <2>3. CASE ReceiveStart
    BY <2>3, OnceReceive
  <2>4. CASE EnqueueStart
    BY <2>4, OnceEnqueue
  <2>5. CASE NoRequest \/ RefuseStart \/ ActOnStart
    BY <2>5, OnceCycle
  <2>6. CASE PassTime
    BY <2>6, OnceTime
  <2>7. CASE SetSafe \/ SampleClock \/ UNCHANGED operatorVars
    BY <2>7, OnceRest
  <2>8. CASE LoseVelocity \/ WriteCommand \/ StampCommand \/ PublishCommand
    BY <2>8, OnceRest
  <2>9. CASE LoadCommand \/ ConsumeCommand \/ RetryCommand \/ CopyCommand \/ NoNewCommand
    BY <2>9, OnceRest
  <2>10. QED
    BY <2>1, <2>2, <2>3, <2>4, <2>5, <2>6, <2>7, <2>8, <2>9 DEF OperatorNext, RejectFrame, CheckTimeout
<1>3. QED
  BY <1>1, <1>2, AlwaysOwnTypes, PTL DEF OperatorSpec

\* A press starts or stops control at most once, whatever the device, the number of
\* messages that repeat it and the time they take.
THEOREM PressesActOnce == OperatorSpec => PressActsOnce
<1>1. OnceInv => [ActOnStart => pending \notin spent]_operatorVars
  BY DEF OnceInv, OneOfEach
<1>2. QED
  BY <1>1, AlwaysOnceInv, PTL DEF PressActsOnce

-----------------------------------------------------------------------------
(* The press that acts.  DeliberatePressActs is not inductive: it takes that a long
   release has emptied every hop and let both timers run out (Drained), and where the
   press has got to by each unit it has waited (Underway). *)

\* The node has seen what the frames show, a release within the unit.
ReleaseSeen ==
  /\ radio.valid => device = "sbus" /\ radio.button = button
  /\ held => device = "sbus"
  /\ device = "sbus" => 0 \notin startTopic
  /\ button # 0 => quiet = 0
  /\ input = "valid" /\ held /\ button = 0 => quiet <= Late("teleop")

\* A press that is still under way, or still in a timer, was released only just now.
Drained ==
  /\ \A p \in startTopic : p # 0 => quiet <= Late("startTopic")
  /\ startMessage # 0 => quiet <= 1 + Late("startCallback")
  /\ pending # 0 => quiet <= 2 + Late("loop")
  /\ requestReceived <= ReleaseGap => quiet <= requestReceived + 1
  /\ requestAccepted <= Debounce + 1 => quiet <= requestAccepted + 3

\* Nothing of START is in the controller, and a message would be a new press.
Unanswered == startMessage = 0 /\ pending = 0 /\ requestReceived > ReleaseGap
NodeHolds == device = "sbus" => held

\* The four hops of the press, each a unit later, and one more while it is due.
PressShown ==
  /\ device = "sbus" /\ ~held /\ startTopic = {} /\ Unanswered
  /\ waiting <= 1 + Late("teleop")
PressSent ==
  /\ NodeHolds /\ startTopic = {button} /\ Unanswered
  /\ waiting <= 2 + Late("startTopic")
PressReceived == NodeHolds /\ startMessage = button /\ waiting <= 3 + Late("startCallback")
PressPending == NodeHolds /\ pending = button /\ waiting <= 4 + Late("loop")

Underway ==
  waiting > 0 =>
  /\ button # 0 /\ input = "valid" /\ requestAccepted = Debounce + 2
  /\ device = "sbus" => radio.valid
  /\ startMessage \in {0, button} /\ pending \in {0, button} /\ startTopic \subseteq {button}
  /\ PressShown \/ PressSent \/ PressReceived \/ PressPending

ActInv == OwnTypes /\ ReleaseSeen /\ Drained /\ Underway

LEMMA LateIs == \A part \in {"teleop", "startTopic", "startCallback", "loop"} : Late(part) \in {0, 1}
BY DEF Late

\* The numbers, without the rest of their types.
LEMMA ActTypes ==
  ASSUME OwnTypes
  PROVE  /\ quiet \in Nat /\ quiet <= Quiet /\ waiting \in Nat /\ waiting <= Response + 1
         /\ requestReceived \in Nat /\ requestReceived <= ReleaseGap + 1
         /\ requestAccepted \in Nat /\ requestAccepted <= Debounce + 2
         /\ lag \in {0, 1}
         /\ button \in Nat /\ startMessage \in Nat /\ pending \in Nat /\ startTopic \subseteq Nat
         /\ device \in {"sbus", "joy"}
<1>1. quiet \in Nat /\ quiet <= Quiet /\ waiting \in Nat /\ waiting <= Response + 1
  BY Bounds DEF OwnTypes, TimerTypes
<1>2. requestAccepted \in Nat /\ requestAccepted <= Debounce + 2
  BY Bounds DEF OwnTypes, TimerTypes
<1>3. requestReceived \in Nat /\ requestReceived <= ReleaseGap + 1
  BY Bounds DEF OwnTypes, PressTypes
<1>4. button \in Nat /\ startMessage \in Nat /\ pending \in Nat /\ startTopic \subseteq Nat
  BY ButtonIs DEF OwnTypes, PressTypes
<1>5. lag \in {0, 1}
  BY DEF OwnTypes, CommandTypes
<1>6. device \in {"sbus", "joy"}
  BY OperatorInputAssumption DEF OwnTypes, ConfigTypes
<1>7. QED
  BY <1>1, <1>2, <1>3, <1>4, <1>5, <1>6

LEMMA ActStarts == OperatorInit => ReleaseSeen /\ Drained /\ Underway
<1> SUFFICES ASSUME OperatorInit PROVE ReleaseSeen /\ Drained /\ Underway
  OBVIOUS
<1>1. /\ ~radio.valid /\ held = FALSE /\ startTopic = {} /\ startMessage = 0 /\ pending = 0
      /\ button = 0 /\ waiting = 0
      /\ requestReceived = ReleaseGap + 1 /\ requestAccepted = Debounce + 2
  BY ControlsIs DEF OperatorInit
<1>2. ReleaseGap \in Nat /\ Debounce \in Nat
  BY OperatorInputAssumption
<1>3. QED
  BY <1>1, <1>2 DEF ReleaseSeen, Drained, Underway

\* A long release leaves nothing of an earlier press, in a hop or in a timer, if the
\* release gap is no longer than the debounce.
LEMMA LongRelease ==
  ASSUME ActInv, quiet >= Quiet, ReleaseGap <= Debounce
  PROVE  /\ button = 0 /\ Unanswered /\ requestAccepted = Debounce + 2
         /\ \A p \in startTopic : p = 0
         /\ input = "valid" => ~held
         /\ device = "sbus" => startTopic = {}
<1>1. quiet \in Nat /\ quiet >= Debounce + 5 /\ Debounce \in Nat /\ ReleaseGap \in Nat
  BY ActTypes, OperatorInputAssumption DEF ActInv, Quiet, Hops
<1>2. /\ requestReceived \in Nat /\ requestAccepted \in Nat /\ requestAccepted <= Debounce + 2
  BY ActTypes DEF ActInv
<1>3. /\ Late("teleop") \in {0, 1} /\ Late("startTopic") \in {0, 1}
      /\ Late("startCallback") \in {0, 1} /\ Late("loop") \in {0, 1}
  BY LateIs
<1>4. button = 0 /\ (input = "valid" => ~held)
  BY <1>1, <1>3 DEF ActInv, ReleaseSeen
<1>5. startMessage = 0 /\ pending = 0 /\ (\A p \in startTopic : p = 0)
  BY <1>1, <1>3 DEF ActInv, Drained
<1>6. requestReceived > ReleaseGap /\ requestAccepted = Debounce + 2
  BY <1>1, <1>2 DEF ActInv, Drained
<1>7. device = "sbus" => startTopic = {}
  BY <1>5 DEF ActInv, ReleaseSeen
<1>8. QED
  BY <1>4, <1>5, <1>6, <1>7 DEF Unanswered

\* What stays as it is, and what can only shrink.
LEMMA ActRest ==
  ASSUME ActInv,
         UNCHANGED <<device, input, held, startTopic, startMessage, pending, button, quiet,
                     requestReceived, requestAccepted>>,
         \/ radio' = radio /\ waiting' = waiting
         \/ ~radio'.valid /\ waiting' = 0,
         \A part \in {"teleop", "startTopic", "startCallback", "loop"} : Late(part)' = Late(part)
  PROVE  ReleaseSeen' /\ Drained' /\ Underway'
<1>1. /\ Late("teleop")' = Late("teleop") /\ Late("startTopic")' = Late("startTopic")
      /\ Late("startCallback")' = Late("startCallback") /\ Late("loop")' = Late("loop")
  OBVIOUS
<1>2. ReleaseSeen'
  BY <1>1 DEF ActInv, ReleaseSeen
<1>3. Drained'
  BY <1>1 DEF ActInv, Drained
<1>4. Underway'
  <2>1. CASE waiting' = 0
    BY <2>1 DEF Underway
  <2>2. CASE radio' = radio /\ waiting' = waiting
    BY <1>1, <2>2 DEF ActInv, Underway, PressShown, PressSent, PressReceived, PressPending,
                      NodeHolds, Unanswered
  <2>3. QED
    BY <2>1, <2>2
<1>5. QED
  BY <1>2, <1>3, <1>4

\* A frame begins a press, keeps it up, or ends it.
LEMMA ActAccept ==
  ASSUME ActInv, ReleaseGap <= Debounce, NEW s \in BOOLEAN, NEW b \in Button, AcceptFrame(s, b)
  PROVE  ReleaseSeen' /\ Drained' /\ Underway'
<1>1. /\ radio'.valid /\ radio'.button = b /\ button' = b
      /\ UNCHANGED <<device, input, held, startTopic, startMessage, pending, requestReceived,
                     requestAccepted>>
  BY AcceptIs, ShownIs, ControlsIs DEF config, teleop, topics, intake
<1>2. /\ device = "sbus" /\ quiet' = (IF b # 0 THEN 0 ELSE quiet)
      /\ waiting' = (IF b # button
                     THEN IF Deliberate(b) /\ input = "valid" /\ radio.valid THEN 1 ELSE 0
                     ELSE waiting)
  BY DEF AcceptFrame, Shown
<1>3. Late("teleop")' = Late("teleop") /\ Late("startTopic")' = Late("startTopic")
      /\ Late("startCallback")' = Late("startCallback") /\ Late("loop")' = Late("loop")
  BY AcceptIs DEF Late
<1>4. quiet \in Nat /\ quiet' <= quiet /\ quiet' \in Nat /\ (button # 0 => quiet = 0)
  BY <1>2, ActTypes DEF ActInv, ReleaseSeen
<1>5. Late("teleop") \in {0, 1} /\ Late("startTopic") \in {0, 1}
      /\ Late("startCallback") \in {0, 1} /\ Late("loop") \in {0, 1}
  BY LateIs
<1>6. ReleaseSeen'
  <2>1. input' = "valid" /\ held' /\ button' = 0 => quiet' <= Late("teleop")'
    BY <1>1, <1>3, <1>4, <1>5 DEF ActInv, ReleaseSeen
  <2>2. QED
    BY <1>1, <1>2, <2>1 DEF ActInv, ReleaseSeen
<1>7. Drained'
  <2>1. requestReceived \in Nat /\ requestAccepted \in Nat
    BY ActTypes DEF ActInv
  <2>2. QED
    BY <1>1, <1>3, <1>4, <1>5, <2>1 DEF ActInv, Drained
<1>8. Underway'
  <2>1. CASE waiting' = 0
    BY <2>1 DEF Underway
  <2>2. CASE b = button
    <3>1. waiting' = waiting /\ button' = button
      BY <1>1, <1>2, <2>2
    <3>2. QED
      BY <1>1, <1>2, <1>3, <3>1
         DEF ActInv, Underway, PressShown, PressSent, PressReceived, PressPending, NodeHolds,
             Unanswered
  <2>3. CASE b # button /\ Deliberate(b) /\ input = "valid"
    <3>1. waiting' \in {0, 1}
      BY <1>2, <2>3, Zenon
    <3>2. b # 0 /\ quiet >= Quiet
      BY <2>3 DEF Deliberate
    <3>3. Unanswered /\ requestAccepted = Debounce + 2 /\ ~held /\ startTopic = {}
      BY <1>2, <2>3, <3>2, LongRelease
    <3>4. waiting' <= 1 + Late("teleop")'
      BY <1>3, <1>5, <3>1
    <3>5. PressShown'
      BY <1>1, <1>2, <3>3, <3>4 DEF PressShown, Unanswered
    <3>6. QED
      BY <1>1, <2>3, <3>2, <3>3, <3>5 DEF Underway, Unanswered
  <2>4. QED
    BY <1>2, <2>1, <2>2, <2>3
<1>9. QED
  BY <1>6, <1>7, <1>8

\* A joystick's message does the same, and sends it.
LEMMA ActJoy ==
  ASSUME ActInv, ReleaseGap <= Debounce, NEW s \in BOOLEAN, NEW b \in Button, JoyMessage(s, b)
  PROVE  ReleaseSeen' /\ Drained' /\ Underway'
<1>1. /\ button' = b /\ input' = "valid"
      /\ startTopic' \in {startTopic, {b}, {0}}
      /\ UNCHANGED <<device, radio, held, startMessage, pending, requestReceived,
                     requestAccepted, due>>
  BY JoyIs, ShownIs DEF config, driver, intake
<1>2. /\ device = "joy" /\ quiet' = (IF b # 0 THEN 0 ELSE quiet)
      /\ waiting' = (IF b # button
                     THEN IF Deliberate(b) /\ input = "valid" THEN 1 ELSE 0
                     ELSE waiting)
      /\ b # 0 => "start" \in commands
  BY DEF JoyMessage, Shown
<1>3. Late("teleop")' = Late("teleop") /\ Late("startTopic")' = Late("startTopic")
      /\ Late("startCallback")' = Late("startCallback") /\ Late("loop")' = Late("loop")
  BY <1>1 DEF Late
<1>4. quiet \in Nat /\ quiet' <= quiet /\ quiet' \in Nat /\ (button # 0 => quiet = 0)
  BY <1>2, ActTypes DEF ActInv, ReleaseSeen
<1>5. Late("teleop") \in {0, 1} /\ Late("startTopic") \in {0, 1}
      /\ Late("startCallback") \in {0, 1} /\ Late("loop") \in {0, 1}
  BY LateIs
<1>6. ReleaseSeen'
  BY <1>1, <1>2 DEF ActInv, ReleaseSeen
<1>7. Drained'
  <2>1. requestReceived \in Nat /\ requestAccepted \in Nat
    BY ActTypes DEF ActInv
  <2>2. \A p \in startTopic' : p # 0 => quiet' <= Late("startTopic")'
    <3>1. SUFFICES ASSUME NEW p \in startTopic', p # 0 PROVE quiet' <= Late("startTopic")'
      OBVIOUS
    <3>2. p \in startTopic \/ p = b
      BY <1>1, <3>1
    <3>3. CASE p \in startTopic
      BY <1>3, <1>4, <1>5, <3>1, <3>3 DEF ActInv, Drained
    <3>4. CASE p = b
      BY <1>2, <1>3, <1>5, <3>1, <3>4
    <3>5. QED
      BY <3>2, <3>3, <3>4
  <2>3. QED
    BY <1>1, <1>3, <1>4, <1>5, <2>1, <2>2 DEF ActInv, Drained
<1>8. Underway'
  <2>1. CASE waiting' = 0
    BY <2>1 DEF Underway
  <2>2. ASSUME b # 0, input = "valid" PROVE startTopic' = {b}
    <3>1. "start" \in commands
      BY <1>2, <2>2
    <3>2. startTopic' = IF "start" \in commands THEN {IF input = "valid" THEN b ELSE 0} ELSE startTopic
      BY DEF JoyMessage
    <3>3. QED
      BY <2>2, <3>1, <3>2
  <2>3. CASE b = button /\ waiting' # 0
    <3>1. waiting' = waiting /\ button' = button /\ waiting > 0
      BY <1>1, <1>2, <2>3, ActTypes DEF ActInv
    <3>2. /\ button # 0 /\ input = "valid" /\ requestAccepted = Debounce + 2
          /\ startMessage \in {0, button} /\ pending \in {0, button}
          /\ PressSent \/ PressReceived \/ PressPending
      BY <1>2, <3>1 DEF ActInv, Underway, PressShown
    <3>3. startTopic' = {button}
      BY <2>2, <2>3, <3>2
    <3>4. PressSent' \/ PressReceived' \/ PressPending'
      BY <1>1, <1>2, <1>3, <3>1, <3>2, <3>3
         DEF PressSent, PressReceived, PressPending, NodeHolds, Unanswered
    <3>5. QED
      BY <1>1, <1>2, <3>1, <3>2, <3>3, <3>4 DEF Underway
  <2>4. CASE b # button /\ Deliberate(b) /\ input = "valid"
    <3>1. waiting' \in {0, 1}
      BY <1>2, <2>4, Zenon
    <3>2. b # 0 /\ quiet >= Quiet
      BY <2>4 DEF Deliberate
    <3>3. Unanswered /\ requestAccepted = Debounce + 2
      BY <3>2, LongRelease
    <3>4. startTopic' = {b}
      BY <2>2, <2>4, <3>2
    <3>5. waiting' <= 2 + Late("startTopic")'
      BY <1>3, <1>5, <3>1
    <3>6. PressSent'
      BY <1>1, <1>2, <3>3, <3>4, <3>5 DEF PressSent, NodeHolds, Unanswered
    <3>7. QED
      BY <1>1, <1>2, <3>2, <3>3, <3>4, <3>6 DEF Underway, Unanswered
  <2>5. QED
    BY <1>2, <2>1, <2>3, <2>4
<1>9. QED
  BY <1>6, <1>7, <1>8

\* The radio's node sends the press it is shown, once.
LEMMA ActTick ==
  ASSUME ActInv, Tick
  PROVE  ReleaseSeen' /\ Drained' /\ Underway'
<1>1. /\ device = "sbus" /\ due' = due \ {"teleop"}
      /\ UNCHANGED <<device, radio, startMessage, pending, requestReceived, requestAccepted,
                     button, quiet, waiting>>
  BY DEF Tick, TickWithoutSignal, TickSynchronizes, TickDispatches, TickEnds, config, driver,
         intake, operator, history
<1>2. /\ Late("teleop")' = 0 /\ Late("startTopic")' = Late("startTopic")
      /\ Late("startCallback")' = Late("startCallback") /\ Late("loop")' = Late("loop")
  BY <1>1 DEF Late
<1>3. /\ radio.valid => radio.button = button
      /\ 0 \notin startTopic /\ (button # 0 => quiet = 0)
  BY <1>1 DEF ActInv, ReleaseSeen
<1>4. Late("teleop") \in {0, 1} /\ Late("startTopic") \in {0, 1} /\ waiting \in Nat /\ quiet \in Nat
  BY LateIs, ActTypes DEF ActInv
<1>5. CASE TickWithoutSignal
  <2>1. /\ ~radio.valid /\ UNCHANGED <<held, startTopic>> /\ input' # "valid"
    BY <1>5 DEF TickWithoutSignal
  <2>2. ReleaseSeen'
    BY <1>1, <2>1 DEF ActInv, ReleaseSeen
  <2>3. Drained'
    BY <1>1, <1>2, <2>1 DEF ActInv, Drained
  <2>4. waiting = 0
    BY <1>1, <1>4, <2>1 DEF ActInv, Underway
  <2>5. QED
    BY <1>1, <2>2, <2>3, <2>4 DEF Underway
<1>6. CASE TickSynchronizes \/ TickDispatches
  <2>1. radio.valid /\ held' = (button # 0) /\ input' = "valid"
    BY <1>3, <1>6 DEF TickSynchronizes, TickDispatches
  <2>2. \/ UNCHANGED startTopic
        \/ startTopic' = {button} /\ button # 0
    <3>1. CASE TickSynchronizes
      BY <3>1 DEF TickSynchronizes, topics
    <3>2. CASE TickDispatches
      <4>1. IF RisingEdge(button) THEN startTopic' = {button} ELSE UNCHANGED startTopic
        BY <1>3, <2>1, <3>2 DEF TickDispatches
      <4>2. QED
        BY <4>1 DEF RisingEdge
    <3>3. QED
      BY <1>6, <3>1, <3>2
  <2>3. ReleaseSeen'
    BY <1>1, <1>3, <2>1, <2>2 DEF ActInv, ReleaseSeen
  <2>4. Drained'
    <3>1. \A p \in startTopic' : p # 0 => quiet' <= Late("startTopic")'
      BY <1>1, <1>2, <1>3, <1>4, <2>2 DEF ActInv, Drained
    <3>2. QED
      BY <1>1, <1>2, <3>1 DEF ActInv, Drained
  <2>5. Underway'
    <3>1. SUFFICES ASSUME waiting > 0 PROVE Underway'
      BY <1>1 DEF Underway
    <3>2. /\ button # 0 /\ input = "valid" /\ requestAccepted = Debounce + 2
          /\ startMessage \in {0, button} /\ pending \in {0, button} /\ startTopic \subseteq {button}
          /\ PressShown \/ PressSent \/ PressReceived \/ PressPending
      BY <3>1 DEF ActInv, Underway
    <3>3. ASSUME PressShown PROVE PressSent'
      <4>1. ~held /\ Unanswered /\ waiting <= 1 + Late("teleop")
        BY <3>3 DEF PressShown
      <4>2. startTopic' = {button}
        <5>1. ~TickSynchronizes
          BY <3>2 DEF TickSynchronizes, MustSynchronize
        <5>2. IF RisingEdge(button) THEN startTopic' = {button} ELSE UNCHANGED startTopic
          BY <1>3, <1>6, <2>1, <5>1 DEF TickDispatches
        <5>3. QED
          BY <3>2, <4>1, <5>2 DEF RisingEdge
      <4>3. waiting' <= 2 + Late("startTopic")'
        BY <1>1, <1>2, <1>4, <4>1
      <4>4. QED
        BY <1>1, <2>1, <3>2, <4>1, <4>2, <4>3 DEF PressSent, NodeHolds, Unanswered
    <3>4. ASSUME PressSent PROVE PressSent'
      <4>1. startTopic' = {button} /\ Unanswered /\ waiting <= 2 + Late("startTopic")
        BY <2>2, <3>4 DEF PressSent
      <4>2. QED
        BY <1>1, <1>2, <2>1, <3>2, <4>1 DEF PressSent, NodeHolds, Unanswered
    <3>5. PressReceived => PressReceived'
      BY <1>1, <1>2, <2>1, <3>2 DEF PressReceived, NodeHolds
    <3>6. PressPending => PressPending'
      BY <1>1, <1>2, <2>1, <3>2 DEF PressPending, NodeHolds
    <3>7. QED
      BY <1>1, <2>1, <2>2, <3>2, <3>3, <3>4, <3>5, <3>6 DEF Underway
  <2>6. QED
    BY <2>3, <2>4, <2>5
<1>7. QED
  BY <1>5, <1>6 DEF Tick

\* The press's first message is not taken for a repetition.
LEMMA ActReceive ==
  ASSUME ActInv, ReceiveStart
  PROVE  ReleaseSeen' /\ Drained' /\ Underway'
<1>1. /\ UNCHANGED <<device, radio, input, held, pending, requestAccepted, button, quiet, waiting>>
      /\ startTopic' = {} /\ startMessage = 0 /\ due' = due \ {"startTopic"}
  BY DEF ReceiveStart, config, driver, teleop, operator, history
<1>2. PICK b \in startTopic : /\ requestReceived' = (IF Pressed(b) THEN 0 ELSE requestReceived)
                              /\ startMessage' = (IF Pressed(b) /\ ~SamePress THEN b ELSE 0)
  BY DEF ReceiveStart
<1>3. /\ Late("teleop")' = Late("teleop") /\ Late("startCallback")' = Late("startCallback")
      /\ Late("loop")' = Late("loop")
  BY <1>1 DEF Late
<1>4. /\ Late("startTopic") \in {0, 1} /\ Late("startCallback") \in {0, 1}
      /\ waiting \in Nat /\ quiet \in Nat /\ requestReceived \in Nat /\ ReleaseGap \in Nat
  BY LateIs, ActTypes, OperatorInputAssumption DEF ActInv
<1>5. b # 0 => quiet <= 1
  BY <1>4 DEF ActInv, Drained
<1>6. ReleaseSeen'
  BY <1>1, <1>3 DEF ActInv, ReleaseSeen
<1>7. Drained'
  <2>1. startMessage' # 0 => quiet <= 1 + Late("startCallback")
    BY <1>2, <1>4, <1>5
  <2>2. requestReceived' <= ReleaseGap => quiet <= requestReceived' + 1
    <3>1. CASE b = 0
      BY <1>2, <3>1 DEF ActInv, Drained, Pressed
    <3>2. CASE b # 0
      BY <1>2, <1>5, <3>2 DEF Pressed
    <3>3. QED
      BY <3>1, <3>2
  <2>3. QED
    BY <1>1, <1>3, <2>1, <2>2 DEF ActInv, Drained
<1>8. Underway'
  <2>1. SUFFICES ASSUME waiting > 0 PROVE Underway'
    BY <1>1 DEF Underway
  <2>2. /\ button # 0 /\ input = "valid" /\ requestAccepted = Debounce + 2
        /\ device = "sbus" => radio.valid
        /\ pending \in {0, button} /\ startTopic \subseteq {button}
        /\ PressShown \/ PressSent \/ PressReceived \/ PressPending
    BY <2>1 DEF ActInv, Underway
  <2>3. b = button /\ startMessage' \in {0, button}
    BY <1>2, <2>2
  <2>4. ASSUME PressSent PROVE PressReceived'
    <3>1. requestReceived > ReleaseGap /\ NodeHolds /\ waiting <= 2 + Late("startTopic")
      BY <2>4 DEF PressSent, Unanswered
    <3>2. ~SamePress
      BY <1>4, <3>1 DEF SamePress
    <3>3. startMessage' = button
      BY <1>2, <2>2, <2>3, <3>2 DEF Pressed
    <3>4. waiting' <= 3 + Late("startCallback")'
      BY <1>1, <1>3, <1>4, <3>1
    <3>5. QED
      BY <1>1, <3>1, <3>3, <3>4 DEF PressReceived, NodeHolds
  <2>5. PressPending => PressPending'
    BY <1>1, <1>3 DEF PressPending, NodeHolds
  <2>6. ~PressShown /\ ~PressReceived
    BY <1>1, <2>2, <2>3 DEF PressShown, PressReceived
  <2>7. QED
    BY <1>1, <2>2, <2>3, <2>4, <2>5, <2>6 DEF Underway
<1>9. QED
  BY <1>6, <1>7, <1>8

LEMMA ActEnqueue ==
  ASSUME ActInv, EnqueueStart
  PROVE  ReleaseSeen' /\ Drained' /\ Underway'
<1>1. /\ UNCHANGED <<device, radio, input, held, startTopic, requestReceived, requestAccepted,
                     button, quiet, waiting>>
      /\ startMessage # 0 /\ pending' = startMessage /\ startMessage' = 0
      /\ due' = due \ {"startCallback"}
  BY DEF EnqueueStart, config, driver, teleop, topics, operator, history
<1>2. /\ Late("teleop")' = Late("teleop") /\ Late("startTopic")' = Late("startTopic")
      /\ Late("loop")' = Late("loop")
  BY <1>1 DEF Late
<1>3. /\ Late("startCallback") \in {0, 1} /\ Late("loop") \in {0, 1}
      /\ waiting \in Nat /\ quiet \in Nat
  BY LateIs, ActTypes DEF ActInv
<1>4. ReleaseSeen'
  BY <1>1, <1>2 DEF ActInv, ReleaseSeen
<1>5. Drained'
  <2>1. quiet <= 2 + Late("loop")
    BY <1>1, <1>3 DEF ActInv, Drained
  <2>2. QED
    BY <1>1, <1>2, <2>1 DEF ActInv, Drained
<1>6. Underway'
  <2>1. SUFFICES ASSUME waiting > 0 PROVE Underway'
    BY <1>1 DEF Underway
  <2>2. /\ button # 0 /\ input = "valid" /\ requestAccepted = Debounce + 2
        /\ device = "sbus" => radio.valid
        /\ startMessage = button /\ startTopic \subseteq {button}
        /\ PressReceived \/ PressPending
    BY <1>1, <2>1 DEF ActInv, Underway, PressShown, PressSent, Unanswered
  <2>3. PressPending'
    BY <1>1, <1>2, <1>3, <2>2 DEF PressReceived, PressPending, NodeHolds
  <2>4. QED
    BY <1>1, <2>2, <2>3 DEF Underway
<1>7. QED
  BY <1>4, <1>5, <1>6

\* The cycle that finds the press acts on it: the debounce has run out.
LEMMA ActCycle ==
  ASSUME ActInv, NoRequest \/ RefuseStart \/ ActOnStart
  PROVE  ReleaseSeen' /\ Drained' /\ Underway'
<1>1. /\ UNCHANGED <<device, radio, input, held, startTopic, startMessage, requestReceived,
                     button, quiet>>
      /\ pending' = 0 /\ due' = due \ {"loop"}
      /\ \/ UNCHANGED <<requestAccepted, waiting>>
         \/ pending # 0 /\ requestAccepted' = lag /\ waiting' \in {0, waiting}
  BY CycleEnds DEF config, driver, teleop, topics, operator
<1>2. /\ Late("teleop")' = Late("teleop") /\ Late("startTopic")' = Late("startTopic")
      /\ Late("startCallback")' = Late("startCallback")
  BY <1>1 DEF Late
<1>3. /\ Late("loop") \in {0, 1} /\ lag \in {0, 1} /\ quiet \in Nat /\ waiting \in Nat
      /\ Debounce \in Nat
  BY LateIs, ActTypes, OperatorInputAssumption DEF ActInv
<1>4. ReleaseSeen'
  BY <1>1, <1>2 DEF ActInv, ReleaseSeen
<1>5. Drained'
  <2>1. requestAccepted' <= Debounce + 1 => quiet <= requestAccepted' + 3
    <3>1. CASE UNCHANGED requestAccepted
      BY <3>1 DEF ActInv, Drained
    <3>2. CASE pending # 0 /\ requestAccepted' = lag
      BY <1>3, <3>2 DEF ActInv, Drained
    <3>3. QED
      BY <1>1, <3>1, <3>2
  <2>2. QED
    BY <1>1, <1>2, <2>1 DEF ActInv, Drained
<1>6. Underway'
  <2>1. SUFFICES ASSUME waiting' > 0 PROVE Underway'
    BY DEF Underway
  <2>2. waiting' = waiting /\ waiting > 0
    BY <1>1, <1>3, <2>1
  <2>3. /\ button # 0 /\ input = "valid" /\ requestAccepted = Debounce + 2
        /\ device = "sbus" => radio.valid
        /\ startMessage \in {0, button} /\ pending \in {0, button} /\ startTopic \subseteq {button}
        /\ PressShown \/ PressSent \/ PressReceived \/ PressPending
    BY <2>2 DEF ActInv, Underway
  <2>4. pending = 0 /\ UNCHANGED requestAccepted
    <3>1. Debounced
      BY <1>3, <2>3 DEF Debounced
    <3>2. CASE ActOnStart
      <4>1. pending # 0 /\ waiting' = (IF pending = button THEN 0 ELSE waiting)
        BY <3>2 DEF ActOnStart
      <4>2. QED
        BY <1>3, <2>1, <2>3, <4>1
    <3>3. CASE NoRequest
      BY <3>3 DEF NoRequest
    <3>4. QED
      BY <3>1, <3>2, <3>3 DEF RefuseStart
  <2>5. PressShown' \/ PressSent' \/ PressReceived'
    BY <1>1, <1>2, <2>2, <2>3, <2>4
       DEF PressShown, PressSent, PressReceived, PressPending, NodeHolds, Unanswered
  <2>6. QED
    BY <1>1, <2>3, <2>4, <2>5 DEF Underway
<1>7. QED
  BY <1>4, <1>5, <1>6

\* A unit that begins finds every hop of the unit before done, and puts its own off by
\* one unit at most.
LEMMA ActTime ==
  ASSUME ActInv, PassTime
  PROVE  ReleaseSeen' /\ Drained' /\ Underway'
<1>1. /\ UNCHANGED <<device, radio, input, held, startTopic, startMessage, pending, button>>
      /\ due = {} /\ due' = Owed
      /\ requestReceived' = Older(requestReceived, ReleaseGap + 1)
      /\ requestAccepted' = Older(requestAccepted, Debounce + 2)
      /\ quiet' = (IF button = 0 THEN Older(quiet, Quiet) ELSE 0)
      /\ waiting' = (IF waiting = 0 THEN 0 ELSE Older(waiting, Response + 1))
  BY DEF PassTime, config, teleop, topics
<1>2. /\ Late("teleop") = 0 /\ Late("startTopic") = 0 /\ Late("startCallback") = 0
      /\ Late("loop") = 0
  BY <1>1 DEF Late
<1>3. /\ device = "sbus" => Late("teleop")' = 1
      /\ startTopic # {} => Late("startTopic")' = 1
      /\ startMessage # 0 => Late("startCallback")' = 1
      /\ Late("loop")' = 1
  BY <1>1 DEF Late, Owed
<1>4. /\ quiet \in Nat /\ waiting \in Nat /\ requestReceived \in Nat /\ requestAccepted \in Nat
      /\ requestReceived <= ReleaseGap + 1 /\ requestAccepted <= Debounce + 2
      /\ ReleaseGap \in Nat /\ Debounce \in Nat /\ quiet <= Quiet /\ waiting <= Response + 1
  BY ActTypes, OperatorInputAssumption DEF ActInv
<1>5. Quiet \in Nat /\ Response \in Nat
  BY Bounds
<1>6. /\ quiet' \in Nat /\ quiet' <= quiet + 1 /\ (button # 0 => quiet' = 0)
      /\ waiting' \in Nat /\ waiting' <= waiting + 1 /\ (waiting = 0 => waiting' = 0)
  BY <1>1, <1>4, <1>5 DEF Older
<1>7. /\ requestReceived' \in Nat
      /\ requestReceived <= ReleaseGap => requestReceived' = requestReceived + 1
      /\ requestReceived > ReleaseGap => requestReceived' = requestReceived
  BY <1>1, <1>4 DEF Older
<1>8. /\ requestAccepted' \in Nat
      /\ requestAccepted <= Debounce + 1 => requestAccepted' = requestAccepted + 1
      /\ requestAccepted > Debounce + 1 => requestAccepted' = requestAccepted
  BY <1>1, <1>4 DEF Older
<1>9. ReleaseSeen'
  <2>1. ASSUME input = "valid", held, button = 0 PROVE quiet' <= Late("teleop")'
    <3>1. quiet <= 0 /\ device = "sbus"
      BY <1>2, <2>1 DEF ActInv, ReleaseSeen
    <3>2. QED
      BY <1>3, <1>4, <1>6, <3>1
  <2>2. QED
    BY <1>1, <1>6, <2>1 DEF ActInv, ReleaseSeen
<1>10. Drained'
  <2>1. ASSUME NEW p \in startTopic, p # 0 PROVE quiet' <= Late("startTopic")'
    <3>1. quiet <= 0 /\ Late("startTopic")' = 1
      BY <1>2, <1>3, <2>1 DEF ActInv, Drained
    <3>2. QED
      BY <1>4, <1>6, <3>1
  <2>2. startMessage # 0 => quiet' <= 1 + Late("startCallback")'
    BY <1>2, <1>3, <1>4, <1>6 DEF ActInv, Drained
  <2>3. pending # 0 => quiet' <= 2 + Late("loop")'
    BY <1>2, <1>3, <1>4, <1>6 DEF ActInv, Drained
  <2>4. requestReceived' <= ReleaseGap => quiet' <= requestReceived' + 1
    <3>1. requestReceived <= ReleaseGap => quiet <= requestReceived + 1
      BY DEF ActInv, Drained
    <3>2. quiet \in Nat /\ requestReceived \in Nat /\ ReleaseGap \in Nat
      BY <1>4
    <3>3. CASE requestReceived <= ReleaseGap
      BY <1>6, <1>7, <3>1, <3>2, <3>3
    <3>4. CASE requestReceived > ReleaseGap
      BY <1>7, <3>2, <3>4
    <3>5. QED
      BY <3>2, <3>3, <3>4
  <2>5. requestAccepted' <= Debounce + 1 => quiet' <= requestAccepted' + 3
    <3>1. requestAccepted <= Debounce + 1 => quiet <= requestAccepted + 3
      BY DEF ActInv, Drained
    <3>2. quiet \in Nat /\ requestAccepted \in Nat /\ Debounce + 1 \in Nat
      BY <1>4
    <3>3. CASE requestAccepted <= Debounce + 1
      BY <1>6, <1>8, <3>1, <3>2, <3>3
    <3>4. CASE requestAccepted > Debounce + 1
      BY <1>8, <3>2, <3>4
    <3>5. QED
      BY <3>2, <3>3, <3>4
  <2>6. QED
    BY <1>1, <2>1, <2>2, <2>3, <2>4, <2>5 DEF Drained
<1>11. Underway'
  <2>1. SUFFICES ASSUME waiting > 0 PROVE Underway'
    BY <1>4, <1>6 DEF Underway
  <2>2. /\ button # 0 /\ input = "valid" /\ requestAccepted = Debounce + 2
        /\ device = "sbus" => radio.valid
        /\ startMessage \in {0, button} /\ pending \in {0, button} /\ startTopic \subseteq {button}
        /\ PressShown \/ PressSent \/ PressReceived \/ PressPending
    BY <2>1 DEF ActInv, Underway
  <2>3. requestAccepted' = Debounce + 2
    BY <1>4, <1>8, <2>2
  <2>4. Unanswered => Unanswered'
    BY <1>1, <1>7 DEF Unanswered
  <2>5. NodeHolds' = NodeHolds
    BY <1>1 DEF NodeHolds
  <2>6. PressShown => PressShown'
    BY <1>1, <1>2, <1>3, <1>4, <1>6, <2>4 DEF PressShown
  <2>7. PressSent => PressSent'
    BY <1>1, <1>2, <1>3, <1>4, <1>6, <2>4, <2>5 DEF PressSent
  <2>8. PressReceived => PressReceived'
    BY <1>1, <1>2, <1>3, <1>4, <1>6, <2>2, <2>5 DEF PressReceived
  <2>9. PressPending => PressPending'
    BY <1>1, <1>2, <1>3, <1>4, <1>6, <2>5 DEF PressPending
  <2>10. QED
    BY <1>1, <2>2, <2>3, <2>6, <2>7, <2>8, <2>9 DEF Underway
<1>12. QED
  BY <1>9, <1>10, <1>11

\* The rest moves no press.
LEMMA ActAside ==
  ASSUME ActInv,
         \/ SetSafe
         \/ LoseVelocity \/ WriteCommand \/ StampCommand \/ PublishCommand
         \/ LoadCommand \/ ConsumeCommand \/ RetryCommand \/ CopyCommand \/ NoNewCommand
         \/ SampleClock
         \/ UNCHANGED operatorVars
  PROVE  ReleaseSeen' /\ Drained' /\ Underway'
<1>1. CASE SetSafe
  <2>1. ~radio'.valid /\ waiting' = 0
    BY <1>1, SafeIs DEF SetSafe
  <2>2. /\ UNCHANGED <<device, input, held, startTopic, startMessage, pending, button, quiet,
                       requestReceived, requestAccepted>>
        /\ due' = due \ {"reader"}
    BY <1>1 DEF SetSafe, config, teleop, topics, intake, operator
  <2>3. QED
    BY <2>1, <2>2, ActRest DEF Late
<1>2. CASE LoseVelocity \/ WriteCommand \/ StampCommand \/ PublishCommand
  <2>1. /\ UNCHANGED <<device, input, held, startTopic, startMessage, pending, button, quiet,
                       requestReceived, requestAccepted, radio, waiting>>
        /\ due' \in {due, due \ {"velocityTopic"}, due \ {"velocityCallback"}}
    BY <1>2 DEF LoseVelocity, WriteCommand, StampCommand, PublishCommand, config, driver, teleop,
                topics, intake, operator, history
  <2>2. QED
    BY <2>1, ActRest DEF Late
<1>3. CASE LoadCommand \/ ConsumeCommand \/ RetryCommand \/ CopyCommand \/ NoNewCommand
  <2>1. UNCHANGED <<device, input, held, startTopic, startMessage, pending, button, quiet,
                    requestReceived, requestAccepted, radio, waiting, due>>
    BY <1>3 DEF LoadCommand, ConsumeCommand, RetryCommand, CopyCommand, NoNewCommand, InUpdate,
                config, driver, teleop, topics, intake, operator, history
  <2>2. QED
    BY <2>1, ActRest DEF Late
<1>4. CASE SampleClock \/ UNCHANGED operatorVars
  <2>1. UNCHANGED <<device, input, held, startTopic, startMessage, pending, button, quiet,
                    requestReceived, requestAccepted, radio, waiting, due>>
    BY <1>4 DEF SampleClock, operatorVars, config, driver, teleop, topics, intake, operator, history
  <2>2. QED
    BY <2>1, ActRest DEF Late
<1>5. QED
  BY <1>1, <1>2, <1>3, <1>4

LEMMA AlwaysActInv ==
  ASSUME ReleaseGap <= Debounce
  PROVE  OperatorSpec => []ActInv
<1>1. OperatorInit /\ OwnTypes => ActInv
  BY ActStarts DEF ActInv
<1>2. ActInv /\ OwnTypes' /\ [OperatorNext]_operatorVars => ActInv'
  <2> SUFFICES ASSUME ActInv, OwnTypes', [OperatorNext]_operatorVars
               PROVE  ReleaseSeen' /\ Drained' /\ Underway'
    BY DEF ActInv
  <2>1. CASE \E s \in BOOLEAN, b \in Button : AcceptFrame(s, b) \/ JoyMessage(s, b)
    BY <2>1, ActAccept, ActJoy
  <2>2. CASE Tick
    BY <2>2, ActTick
  <2>3. CASE ReceiveStart
    BY <2>3, ActReceive
  <2>4. CASE EnqueueStart
    BY <2>4, ActEnqueue
  <2>5. CASE NoRequest \/ RefuseStart \/ ActOnStart
    BY <2>5, ActCycle
  <2>6. CASE PassTime
    BY <2>6, ActTime
  <2>7. CASE SetSafe \/ SampleClock \/ UNCHANGED operatorVars
    BY <2>7, ActAside
  <2>8. CASE LoseVelocity \/ WriteCommand \/ StampCommand \/ PublishCommand
    BY <2>8, ActAside
  <2>9. CASE LoadCommand \/ ConsumeCommand \/ RetryCommand \/ CopyCommand \/ NoNewCommand
    BY <2>9, ActAside
  <2>10. QED
    BY <2>1, <2>2, <2>3, <2>4, <2>5, <2>6, <2>7, <2>8, <2>9 DEF OperatorNext, RejectFrame, CheckTimeout
<1>3. QED
  BY <1>1, <1>2, AlwaysOwnTypes, PTL DEF OperatorSpec

\* A press after a long release, held, acts within five units, whatever the device and
\* the timers, if the release gap is no longer than the debounce: the code has 250 ms
\* and 500 ms.  With a gap that outlasts the debounce and the hops, a press would still
\* fall in the gap after the release that counts as long.
THEOREM DeliberatePressesAct ==
  ASSUME ReleaseGap <= Debounce
  PROVE  OperatorSpec => []DeliberatePressActs
<1>1. ActInv => DeliberatePressActs
  <2> SUFFICES ASSUME ActInv PROVE waiting <= Response
    BY DEF DeliberatePressActs
  <2>1. waiting \in Nat /\ Response = 5
    BY ActTypes DEF ActInv, Response, Hops
  <2>2. Late("teleop") \in {0, 1} /\ Late("startTopic") \in {0, 1}
        /\ Late("startCallback") \in {0, 1} /\ Late("loop") \in {0, 1}
    BY LateIs
  <2>3. CASE waiting > 0
    <3>1. PressShown \/ PressSent \/ PressReceived \/ PressPending
      BY <2>3 DEF ActInv, Underway
    <3>2. QED
      BY <2>1, <2>2, <3>1 DEF PressShown, PressSent, PressReceived, PressPending
  <2>4. QED
    BY <2>1, <2>3
<1>2. QED
  BY <1>1, AlwaysActInv, PTL

=============================================================================
