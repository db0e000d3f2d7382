---------------------------- MODULE HardwareCycle ----------------------------
(***************************************************************************)
(* The real-time cycle of the hardware: E2HW::read(), the controllers'     *)
(* commands, E2HW::write() and the exchange of process data                *)
(* (rt_ethercat_run()), with the monitors that may latch a fault: the      *)
(* working-counter window (EthercatWkcMonitor), the CAN error counters     *)
(* (CanErrorDetector, CanFaultLatch) and the check for finite commands.    *)
(*                                                                         *)
(* A command is where its values come from.  The error counters of the     *)
(* boards wrap at Width; what the monitors read of them is their image in  *)
(* the last valid exchange.  Which exchange succeeds, which counters grow  *)
(* or start over and which values are not finite is any.  Motor feedback   *)
(* and the publication of events (MotorFeedback), conversions, and start-  *)
(* up and shutdown of the bus are left out.                                *)
(***************************************************************************)
EXTENDS Naturals, Sequences, FiniteSets

CONSTANTS
  Motors, Channels,
  WindowCycles, MaxErrors,           \* of EthercatWkcMonitor
  DeltaThreshold, FaultSamples, RecoverySamples, Enabled,  \* of CanErrorDetector
  Width,                             \* the error counters count modulo this
  Growth                             \* by how much a counter may grow in a cycle

ASSUME HardwareCycleAssumption ==
  /\ Enabled \subseteq Channels
  /\ WindowCycles \in Nat \ {0} /\ MaxErrors \in Nat
  /\ DeltaThreshold \in Nat
  /\ FaultSamples \in Nat \ {0} /\ RecoverySamples \in Nat \ {0}
  /\ Width \in Nat \ {0} /\ Growth \subseteq 0..Width-1

VARIABLES
  at,                        \* where the cycle is
  dataValid,                 \* last_cycle_valid, snapshot_.dataValid
  cycleCount, errorCount,    \* of the window
  ethercatFault,             \* ethercat_fault_latched
  counters, image,           \* of the boards, and as received
  monitors,                  \* monitors_
  latched,                   \* latchedMask_; activeMask_ is what monitors say is at fault
  nonFinite,                 \* nonFiniteCommandFaultLatched_
  commands, frame,           \* joint_data_[i]'s command; the last frame sent
  commanded,                 \* history: has a controller set commands in this cycle?
  recent,                    \* history: the validity of the latest exchanges
  errors, restarted,         \* history: a channel's errors, and whether its counter
                             \*   wrapped or was reset, since the last valid exchange
  bursts, plainBursts,       \* history: for how many valid exchanges in a row the errors
                             \*   were over the threshold (and the counter showed it)
  condemned                  \* history: the faults that have occurred

window == <<cycleCount, errorCount, ethercatFault>>
can == <<monitors, latched>>
boards == <<counters, image>>
history == <<recent, errors, restarted, bursts, plainBursts, condemned>>
vars == <<at, dataValid, window, boards, can, nonFinite, commands, frame, commanded, history>>

NoMonitor == [lastValue |-> 0, bad |-> 0, good |-> 0, fault |-> FALSE, initialized |-> FALSE]
AllMotors(command) == [m \in Motors |-> command]
AllChannels(x) == [c \in Channels |-> x]

\* The boards may have been counting before the process starts.
Init ==
  /\ at = "read"
  /\ dataValid = FALSE
  /\ cycleCount = 0 /\ errorCount = 0 /\ ethercatFault = FALSE
  /\ counters \in [Channels -> 0..Width-1] /\ image = AllChannels(0)
  /\ monitors = AllChannels(NoMonitor)
  /\ latched = {}
  /\ nonFinite = FALSE
  /\ commands = AllMotors("damping") /\ frame = AllMotors("zero")
  /\ commanded = FALSE
  /\ recent = <<>>
  /\ errors = AllChannels(0) /\ restarted = AllChannels(FALSE)
  /\ bursts = AllChannels(0) /\ plainBursts = AllChannels(0)
  /\ condemned = {}

Cycle(from, to) == at = from /\ at' = to

-----------------------------------------------------------------------------
(* read(): CanErrorDetector::updateChannel(), and CanFaultLatch::update()  *)
(* for the event it may emit.                                              *)

\* A mutant: the streaks are counted on and on.
BugSaturated(n, limit) == n + 1
Saturated(n, limit) == IF n < limit THEN n + 1 ELSE n

\* A mutant: the unsigned difference, which a reset of the board makes large.
BugDelta(monitor, current) == (current + Width - monitor.lastValue) % Width
Delta(monitor, current) ==
  IF current >= monitor.lastValue THEN current - monitor.lastValue ELSE 0

UpdateChannel(monitor, current) ==
  IF ~monitor.initialized
  THEN [monitor EXCEPT !.lastValue = current, !.initialized = TRUE]
  ELSE IF Delta(monitor, current) > DeltaThreshold
  THEN LET bad == Saturated(monitor.bad, FaultSamples)
       IN  [monitor EXCEPT !.lastValue = current, !.bad = bad, !.good = 0,
                           !.fault = @ \/ bad >= FaultSamples]
  ELSE LET good == Saturated(monitor.good, RecoverySamples)
       IN  [monitor EXCEPT !.lastValue = current, !.bad = 0, !.good = good,
                           !.fault = @ /\ good < RecoverySamples]

Faulted(states) == {c \in Channels : states[c].fault}

\* A mutant: recovery clears the latch with the live mask.
BugLatchedAfter(states) == Faulted(states)
LatchedAfter(states) == latched \cup Faulted(states)

\* A valid read clears what a controller had set; an invalid one leaves it.
Read ==
  /\ Cycle("read", "update")
  /\ commanded' = FALSE
  /\ IF dataValid
     THEN LET states == [c \in Channels |-> IF c \in Enabled
                                            THEN UpdateChannel(monitors[c], image[c])
                                            ELSE monitors[c]]
          IN  /\ monitors' = states
              /\ latched' = LatchedAfter(states)
              /\ commands' = AllMotors("damping")
     ELSE UNCHANGED <<can, commands>>
  /\ UNCHANGED <<dataValid, window, boards, nonFinite, frame, history>>

\* A controller sets commands, or none is running.
Update(sets) ==
  /\ Cycle("update", "write")
  /\ commanded' = sets
  /\ commands' = IF sets THEN AllMotors("controller") ELSE commands
  /\ UNCHANGED <<dataValid, window, boards, can, nonFinite, frame, history>>

-----------------------------------------------------------------------------
(* write(): the commands become a frame. *)

\* A mutant: a lost exchange does not close the way to the motors.
BugFailClosed == ethercatFault \/ latched # {} \/ nonFinite
FailClosed == ~dataValid \/ ethercatFault \/ latched # {} \/ nonFinite

\* A mutant: only the motors with a bad value get the zero command.
BugZeroed(bad) == bad
Zeroed(bad) == IF bad = {} THEN {} ELSE Motors

\* bad: the motors whose values are not finite after conversion.
Write(bad) ==
  /\ Cycle("write", "exchange")
  /\ commands' = IF FailClosed THEN AllMotors("damping") ELSE commands
  /\ frame' = [m \in Motors |-> IF m \in Zeroed(bad) THEN "zero"
                                ELSE IF m \in bad THEN "not finite"
                                ELSE commands'[m]]
  /\ nonFinite' = (nonFinite \/ bad # {})
  /\ condemned' = IF bad # {} THEN condemned \cup {"command"} ELSE condemned
  /\ UNCHANGED <<dataValid, window, boards, can, commanded, recent, errors, restarted,
                 bursts, plainBursts>>

-----------------------------------------------------------------------------
(* rt_ethercat_run(): the exchange and its working counter. *)

\* A mutant: the window rolls over before the sample at its end is evaluated.
BugThresholdExceeded(count, n) == count < WindowCycles /\ n > MaxErrors
ThresholdExceeded(count, n) == n > MaxErrors

Observe(ok) ==
  LET count == cycleCount + 1
      n == IF ok THEN errorCount ELSE errorCount + 1
      rolls == count >= WindowCycles
  IN  /\ cycleCount' = IF rolls THEN 0 ELSE count
      /\ errorCount' = IF rolls THEN 0 ELSE n
      /\ ethercatFault' = (ethercatFault \/ ThresholdExceeded(count, n))

Invalid(s) == Cardinality({i \in DOMAIN s : ~s[i]})

\* The history of an exchange.  Errors are bursts when they are over the
\* threshold since the last valid exchange (the first one has none before it).
Grown(c, step) == errors[c] + step[c]
Hidden(c, reset) == restarted[c] \/ c \in reset \/ counters'[c] < counters[c]
Burst(c, step) == monitors[c].initialized /\ Grown(c, step) > DeltaThreshold

Remember(ok) ==
  recent' = IF Len(recent) < WindowCycles THEN Append(recent, ok) ELSE Append(Tail(recent), ok)

Account(ok, step, reset) ==
  /\ Remember(ok)
  /\ IF ok
     THEN /\ errors' = AllChannels(0) /\ restarted' = AllChannels(FALSE)
          /\ bursts' = [c \in Channels |->
               IF Burst(c, step) THEN Saturated(bursts[c], FaultSamples) ELSE 0]
          /\ plainBursts' = [c \in Channels |->
               IF Burst(c, step) /\ ~Hidden(c, reset)
               THEN Saturated(plainBursts[c], FaultSamples) ELSE 0]
     ELSE /\ errors' = [c \in Channels |-> IF Grown(c, step) > DeltaThreshold
                                           THEN DeltaThreshold + 1 ELSE Grown(c, step)]
          /\ restarted' = [c \in Channels |-> Hidden(c, reset)]
          /\ UNCHANGED <<bursts, plainBursts>>
  /\ condemned' = condemned
       \cup {f \in {"bus"} : Invalid(recent') > 2 * MaxErrors}
       \cup {f \in {"can"} : \E c \in Enabled : plainBursts'[c] = FaultSamples}

\* step: by how much the counters grow; reset: the channels that start over at 0.
Exchange(ok, step, reset) ==
  /\ Cycle("exchange", "read")
  /\ dataValid' = ok
  /\ Observe(ok)
  /\ counters' = [c \in Channels |-> IF c \in reset THEN 0
                                     ELSE (counters[c] + step[c]) % Width]
  /\ image' = IF ok THEN counters' ELSE image
  /\ Account(ok, step, reset)
  /\ UNCHANGED <<can, nonFinite, commands, frame, commanded>>

-----------------------------------------------------------------------------
Next ==
  \/ Read
  \/ \E sets \in BOOLEAN : Update(sets)
  \/ \E bad \in SUBSET Motors : Write(bad)
  \/ \E ok \in BOOLEAN, step \in [Channels -> Growth], reset \in SUBSET Channels :
       Exchange(ok, step, reset)

Spec == Init /\ [][Next]_vars

-----------------------------------------------------------------------------
(* Properties. *)

Monitor == [lastValue: 0..Width-1, bad: 0..FaultSamples, good: 0..RecoverySamples,
            fault: BOOLEAN, initialized: BOOLEAN]

\* Every variable keeps its type.
TypeOK ==
  /\ at \in {"read", "update", "write", "exchange"}
  /\ dataValid \in BOOLEAN
  /\ cycleCount \in 0..WindowCycles-1 /\ errorCount \in 0..cycleCount
  /\ ethercatFault \in BOOLEAN
  /\ counters \in [Channels -> 0..Width-1] /\ image \in [Channels -> 0..Width-1]
  /\ monitors \in [Channels -> Monitor] /\ latched \in SUBSET Enabled
  /\ nonFinite \in BOOLEAN
  /\ commands \in [Motors -> {"damping", "controller"}]
  /\ frame \in [Motors -> {"damping", "controller", "zero", "not finite"}]
  /\ commanded \in BOOLEAN
  /\ recent \in Seq(BOOLEAN)
  /\ errors \in [Channels -> 0..DeltaThreshold+1] /\ restarted \in [Channels -> BOOLEAN]
  /\ bursts \in [Channels -> 0..FaultSamples] /\ plainBursts \in [Channels -> 0..FaultSamples]
  /\ condemned \in SUBSET {"bus", "can", "command"}

SafeFrame == \A m \in Motors : frame[m] \in {"damping", "zero"}
Sent == at = "exchange"

\* After an enabled channel had a burst of errors in FaultSamples valid exchanges
\* in a row (its counter neither wrapping nor reset), or a command was not
\* finite, no controller's command reaches the motors again: not in the cycle
\* that finds out, and not when the channel recovers.
MotorFaultsFailClosed == Sent /\ condemned \cap {"can", "command"} # {} => SafeFrame

\* The window of the working counter is fixed, yet wherever it falls: with more
\* than twice MaxErrors lost exchanges among any WindowCycles in a row the robot
\* is damped for good.
BusFaultsFailClosed == Sent /\ "bus" \in condemned => SafeFrame

\* No false alarm: a channel is latched only after FaultSamples valid exchanges
\* in a row with a burst of errors, whatever wraps, resets of the board and
\* exchanges lost in between do to the counter; the bus only after more than
\* MaxErrors lost exchanges among the last WindowCycles.
LatchesAreJustified ==
  [][/\ \A c \in latched' \ latched : bursts[c] = FaultSamples
     /\ ethercatFault' # ethercatFault => Invalid(recent') > MaxErrors]_vars

\* The motors follow a controller's command only in the cycle in which it was
\* set, and only if that cycle's feedback was valid: a command that an invalid
\* read left behind is never sent.
NoLeftoverCommand ==
  Sent /\ (\E m \in Motors : frame[m] = "controller") => commanded /\ dataValid

\* A frame is of one kind: one bad value makes it a zero frame as a whole.
WholeFrames ==
  Sent /\ (\E m \in Motors : frame[m] \in {"zero", "not finite"}) =>
    \A m \in Motors : frame[m] = "zero"
=============================================================================
