----------------------------- MODULE ControlLoop -----------------------------
(***************************************************************************)
(* One control cycle after another: RLControllerBase::update() on the      *)
(* real-time thread with AcController's mode handlers, interleaved with    *)
(* the ROS callbacks of the spinner threads.                               *)
(*                                                                         *)
(* Each access of update() to an atomic that a callback writes is a step   *)
(* of its own (`at' is the program counter); what only the real-time       *)
(* thread touches is folded into the step before it.  Time, joint values   *)
(* and inference results are nondeterministic choices: which requests are  *)
(* still inside their debounce window, whether a command is fresh and      *)
(* moving, whether a policy cycle faults, plays on, or has applied its     *)
(* final action.  Every hardware read is taken to be valid.                *)
(***************************************************************************)
EXTENDS ControlStateMachine

CONSTANTS
  Requests,        \* the request topics somebody publishes on
  MaxGeneration,   \* bound on the number of emergency-stop messages
  JoystickReports  \* the values /joystick_connected carries

ASSUME ControlLoopAssumption ==
  /\ Requests \subseteq Request
  /\ MaxGeneration \in Nat
  /\ JoystickReports \subseteq BOOLEAN

VARIABLES
  estop,          \* emergencyStopState_: generation and latch bit
  resetTarget,    \* emergencyStopResetTarget_
  pending,        \* pendingControlRequests_
  shutdown,       \* shutdownControlRequested_
  joyReceived, joyConnected,   \* joystickStatusReceived_, joystickConnected_
  resetSeen,      \* reset callback: the state it has loaded and not yet stored
  joyStored,      \* joystick callback: first of its two stores done
  running,        \* between starting() and stopping()
  at, casTarget,  \* locals of update()
  joyLost,        \* the joystick was found gone in this cycle
  moving,         \* command_ is not zero
  mode, started,  \* mode_, start_control
  active,         \* activePolicy_
  downHold,       \* down_.dampingAfterCompletion
  fade,           \* downTorqueFadeActive_ and the command the fade set out from
  ended,          \* the motions whose runtime().endPending is set
  upPrep,         \* upPreparationActive_
  upBlend,        \* upPolicyBlendActive_
  output,         \* the joint commands: last written by read() or by update()
  mustStop, staleRequests, resetSince  \* history, see the properties

shared    == <<estop, resetTarget, pending, shutdown, joyReceived, joyConnected>>
callbacks == <<resetSeen, joyStored>>
locals    == <<at, casTarget, joyLost, moving>>
control   == <<mode, started>>
playback  == <<downHold, fade, ended, upPrep, upBlend>>
policy    == <<active, playback>>
history   == <<mustStop, staleRequests, resetSince>>
vars == <<shared, callbacks, running, locals, control, policy, output, history>>

Steps == {"idle", "estop", "reset", "resetCas", "resetClear", "shutdown", "dropReset",
          "shutdownAgain", "take", "joystick", "dispatch", "late", "lateShutdown",
          "lateJoystick"}
NoTarget == [gen |-> 0, on |-> FALSE]
EstopState == [gen: 0..MaxGeneration, on: BOOLEAN]

\* Who commands the joints: nobody (read() has zeroed the gains), DEFAULT's
\* damping, a pose interpolation, a policy, DOWN's fade-out or the hold after it.
Output == {"none", "damping", "pose", "policy", "fade", "hold"}

\* The controller has been loaded and started once.
Init ==
  /\ estop = NoTarget
  /\ resetTarget = NoTarget
  /\ pending = {}
  /\ shutdown = FALSE
  /\ joyReceived = FALSE
  /\ joyConnected = TRUE
  /\ resetSeen = NoTarget
  /\ joyStored = FALSE
  /\ running = TRUE
  /\ at = "idle"
  /\ casTarget = NoTarget
  /\ joyLost = FALSE
  /\ moving = FALSE
  /\ mode = "DEFAULT"
  /\ started = FALSE
  /\ active = "NONE"
  /\ downHold = FALSE
  /\ fade = "off"
  /\ ended = {}
  /\ upPrep = FALSE
  /\ upBlend = FALSE
  /\ output = "none"
  /\ mustStop = FALSE
  /\ staleRequests = {}
  /\ resetSince = FALSE

-----------------------------------------------------------------------------
(* ROS callbacks, on the spinner threads. *)

\* Will update() look at the emergency latch (the shutdown flag) once more in
\* this cycle?
EmergencyStillSeen == at \notin {"idle", "lateShutdown", "lateJoystick"}
ShutdownStillSeen == at \notin {"idle", "lateJoystick"}

\* A mutant: a trigger while latched adds two generations.
BugLatched(state) == [gen |-> state.gen + (IF state.on THEN 2 ELSE 1), on |-> TRUE]
Latched(state) == [gen |-> state.gen + 1, on |-> TRUE]

\* latchEmergencyStop(): the compare-exchange loop takes effect at once.
EmergencyStopMessage ==
  /\ estop.gen < MaxGeneration
  /\ estop' = Latched(estop)
  /\ resetSince' = FALSE
  /\ mustStop' = (mustStop \/ EmergencyStillSeen)
  /\ UNCHANGED <<resetTarget, pending, shutdown, joyReceived, joyConnected, callbacks,
                 running, locals, control, policy, output, staleRequests>>

\* The reset callback loads the state ...
ResetMessageLoad ==
  /\ resetSeen = NoTarget
  /\ estop.on
  /\ resetSeen' = estop
  /\ resetSince' = TRUE
  /\ UNCHANGED <<shared, joyStored, running, locals, control, policy, output, mustStop,
                 staleRequests>>

\* ... and stores it as the target of the next reset.
ResetMessageStore ==
  /\ resetSeen # NoTarget
  /\ resetTarget' = resetSeen
  /\ resetSeen' = NoTarget
  /\ UNCHANGED <<estop, pending, shutdown, joyReceived, joyConnected, joyStored, running,
                 locals, control, policy, output, history>>

ShutdownMessage ==
  /\ shutdown' = TRUE
  /\ mustStop' = (mustStop \/ ShutdownStillSeen)
  /\ UNCHANGED <<estop, resetTarget, pending, joyReceived, joyConnected, callbacks, running,
                 locals, control, policy, output, staleRequests, resetSince>>

\* enqueueControlRequest(); a message inside the release gap changes nothing.
RequestMessage(r) ==
  /\ pending' = pending \cup {r}
  /\ staleRequests' = staleRequests \ {r}
  /\ UNCHANGED <<estop, resetTarget, shutdown, joyReceived, joyConnected, callbacks, running,
                 locals, control, policy, output, mustStop, resetSince>>

\* joystickConnectedCallback(): two stores, the value before the "received".
JoystickMessageValue(connected) ==
  /\ ~joyStored
  /\ joyConnected' = connected
  /\ joyStored' = TRUE
  /\ UNCHANGED <<estop, resetTarget, pending, shutdown, joyReceived, resetSeen, running,
                 locals, control, policy, output, history>>

JoystickMessageReceived ==
  /\ joyStored
  /\ joyReceived' = TRUE
  /\ joyStored' = FALSE
  /\ UNCHANGED <<estop, resetTarget, pending, shutdown, joyConnected, resetSeen, running,
                 locals, control, policy, output, history>>

-----------------------------------------------------------------------------
(* update(), up to the mode handler. *)

\* A mutant: start_control survives the stop.
BugStartedAfterStop == started
StartedAfterStop == FALSE

\* What applyImmediateStop() and the shutdown request do to the control state.
DropControl ==
  /\ started' = StartedAfterStop
  /\ mode' = "DEFAULT"
  /\ pending' = {}
  /\ shutdown' = FALSE
  /\ staleRequests' = {}

ImmediateStop == DropControl /\ moving' = FALSE

\* The hardware read has zeroed the joint gains; the newest command is taken
\* and zeroed unless it is fresh.
StartCycle(m) ==
  /\ running /\ at = "idle"
  /\ at' = "estop"
  /\ output' = "none"
  /\ moving' = m
  /\ joyLost' = FALSE
  /\ mustStop' = (estop.on \/ shutdown)
  /\ UNCHANGED <<shared, callbacks, running, casTarget, control, policy, staleRequests,
                 resetSince>>

CheckEmergency ==
  /\ at = "estop"
  /\ IF estop.on
     THEN ImmediateStop /\ at' = "reset"
     ELSE at' = "shutdown" /\ UNCHANGED <<control, pending, shutdown, moving, staleRequests>>
  /\ UNCHANGED <<estop, resetTarget, joyReceived, joyConnected, callbacks, running, casTarget,
                 joyLost, policy, output, mustStop, resetSince>>

\* resetEmergencyStopIfRequested(): take the target ...
TakeResetTarget ==
  /\ at = "reset"
  /\ resetTarget' = NoTarget
  /\ casTarget' = resetTarget
  /\ at' = IF resetTarget.on THEN "resetCas" ELSE "joystick"
  /\ UNCHANGED <<estop, pending, shutdown, joyReceived, joyConnected, callbacks, running,
                 joyLost, moving, control, policy, output, history>>

\* A mutant: the latch bit is cleared whatever the generation (fetch_and).
BugResetMatches(target) == estop.on
ResetMatches(target) == estop = target

\* ... and clear the latch only if it is still the emergency that was observed.
ExchangeEmergency ==
  /\ at = "resetCas"
  /\ IF ResetMatches(casTarget)
     THEN /\ estop' = [estop EXCEPT !.on = FALSE]
          /\ at' = "resetClear"
          /\ staleRequests' = pending
     ELSE /\ at' = "joystick"
          /\ UNCHANGED <<estop, staleRequests>>
  /\ casTarget' = NoTarget
  /\ UNCHANGED <<resetTarget, pending, shutdown, joyReceived, joyConnected, callbacks,
                 running, joyLost, moving, control, policy, output, mustStop, resetSince>>

\* A mutant: the second clearPendingControlRequests() is missing.
BugRequestsAfterReset == pending
RequestsAfterReset == {}

\* A successful reset throws away what was requested while the latch was set.
ClearAfterReset ==
  /\ at = "resetClear"
  /\ pending' = RequestsAfterReset
  /\ shutdown' = FALSE
  /\ staleRequests' = staleRequests \cap pending'
  /\ at' = "joystick"
  /\ UNCHANGED <<estop, resetTarget, joyReceived, joyConnected, callbacks, running, casTarget,
                 joyLost, moving, control, policy, output, mustStop, resetSince>>

CheckShutdown ==
  /\ at = "shutdown"
  /\ IF shutdown
     THEN ImmediateStop /\ at' = "joystick"
     ELSE at' = "dropReset" /\ UNCHANGED <<control, pending, shutdown, moving, staleRequests>>
  /\ UNCHANGED <<estop, resetTarget, joyReceived, joyConnected, callbacks, running, casTarget,
                 joyLost, policy, output, mustStop, resetSince>>

\* A reset command is not kept for some future emergency.
DropResetTarget ==
  /\ at = "dropReset"
  /\ resetTarget' = NoTarget
  /\ at' = "shutdownAgain"
  /\ UNCHANGED <<estop, pending, shutdown, joyReceived, joyConnected, callbacks, running,
                 casTarget, joyLost, moving, control, policy, output, history>>

\* processControlRequests(): shutdown comes before every request.
CheckShutdownAgain ==
  /\ at = "shutdownAgain"
  /\ IF shutdown
     THEN DropControl /\ at' = "joystick"
     ELSE at' = "take" /\ UNCHANGED <<control, pending, shutdown, staleRequests>>
  /\ UNCHANGED <<estop, resetTarget, joyReceived, joyConnected, callbacks, running, casTarget,
                 joyLost, moving, policy, output, mustStop, resetSince>>

\* Fixed priority: the smaller goes first.
Priority ==
  [START |-> 1, STAND_TO_LIE |-> 2, WALK_TO_STAND |-> 3, POSITION |-> 4, SWITCH_MODE |-> 5,
   LIE_TO_STAND |-> 6, WALK |-> 7, DANCE |-> 8, DOWN |-> 9, UP |-> 10]

\* controlRequestAllowed(): UP only out of DOWN's completed hold.
Allowed(r) == r = "UP" => mode = "DOWN" /\ downHold /\ active = "NONE"

Selected(r, candidates) ==
  r \in candidates /\ \A q \in candidates : Priority[r] <= Priority[q]

\* One snapshot of the request mailbox is arbitrated and the rest discarded.
\* tooSoon: the requests still inside their debounce window.
TakeRequests(tooSoon) ==
  LET candidates == {r \in pending \ tooSoon : Allowed(r)} IN
  /\ at = "take"
  /\ pending' = {}
  /\ staleRequests' = {}
  /\ at' = "joystick"
  /\ \/ /\ \A r \in candidates : Selected(r, candidates) => ~Accepts(mode, started, r)
        /\ UNCHANGED control
     \/ \E r \in candidates :
          /\ Selected(r, candidates)
          /\ Accepts(mode, started, r)
          /\ mode' = RequestMode(mode, started, r)
          /\ started' = RequestStarts(started, r)
  /\ UNCHANGED <<estop, resetTarget, shutdown, joyReceived, joyConnected, callbacks, running,
                 casTarget, joyLost, moving, policy, output, mustStop, resetSince>>

\* One evaluation of both flags: "received" is only ever cleared by starting().
JoystickGone == joyReceived /\ ~joyConnected

\* A mutant: the pending /cmd_vel survives a lost joystick.
BugFallbackMoving == moving
FallbackMoving == FALSE

\* A mutant: the requests that came between their snapshot and the look at the joystick
\* stay queued.
BugRequestsAfterLoss == pending
RequestsAfterLoss == {}

\* applyJoystickDisconnect().
ApplyJoystickDisconnect ==
  /\ moving' = FallbackMoving
  /\ pending' = RequestsAfterLoss
  /\ staleRequests' = pending \cap pending'
  /\ mode' = FallbackMode(mode)
  /\ started' = FallbackStarts(mode, started)
  /\ joyLost' = TRUE

CheckJoystick ==
  /\ at = "joystick"
  /\ at' = "dispatch"
  /\ IF JoystickGone
     THEN ApplyJoystickDisconnect
     ELSE UNCHANGED <<joyLost, moving, pending, staleRequests, control>>
  /\ UNCHANGED <<estop, resetTarget, shutdown, joyReceived, joyConnected, callbacks, running,
                 casTarget, policy, output, mustStop, resetSince>>

-----------------------------------------------------------------------------
(* The mode handlers: dispatchControlMode(). *)

Dispatch(m) ==
  /\ at = "dispatch" /\ mode = m
  /\ at' = "late"
  /\ UNCHANGED <<shared, callbacks, running, casTarget, joyLost, moving, started, history>>

\* A mutant: the policy is not left.
BugGoLimp == output' = "damping" /\ UNCHANGED active
\* leavePolicyMode() followed by the damping of handleDefaultMode().
GoLimp == active' = "NONE" /\ output' = "damping"

\* What every handler does about a policy error, a stale or non-finite action.
Fault == GoLimp /\ mode' = "DEFAULT"

HandleDefaultMode == Dispatch("DEFAULT") /\ GoLimp /\ UNCHANGED <<mode, playback>>

HandleLieOrStandMode(m) ==
  /\ Dispatch(m)
  /\ active' = "NONE"
  /\ output' = "pose"
  /\ UNCHANGED <<mode, playback>>

HandleWalkMode ==
  /\ Dispatch("WALK")
  /\ \/ Fault
     \/ active' = "WALK" /\ output' = "policy" /\ UNCHANGED mode
  /\ UNCHANGED playback

\* handleDownCompletionDamping(): the fade may be over in any cycle of it.
FadeOrHold ==
  IF fade = "off" THEN output' = "hold" /\ UNCHANGED fade
                  ELSE output' = "fade" /\ fade' \in {fade, "off"}

HoldAfterDown == downHold /\ active = "NONE"

HandleDownHold ==
  /\ Dispatch("DOWN")
  /\ HoldAfterDown
  /\ FadeOrHold
  /\ UNCHANGED <<mode, active, downHold, ended, upPrep, upBlend>>

\* A mutant: the entry hook forgets to clear endPending.
BugEndedOnEntry(k) == ended
\* resetMotionPlaybackClock() of the entry hook.
EndedOnEntry(k) == ended \ {k}

\* enterPolicyMode(k) has changed endPending before the handler reads it.
EndedAtEntry(k) == IF active = k THEN ended ELSE EndedOnEntry(k)

\* The final action has been applied: DOWN fades the commands it finds on the
\* joints into a hold, the others go back to WALK and command nothing this cycle.
CompleteMotion(k) ==
  /\ active' = "NONE"
  /\ IF k = "DOWN"
     THEN /\ downHold' = TRUE
          /\ output' = "fade"
          /\ fade' \in {output, "off"}
          /\ UNCHANGED mode
     ELSE /\ mode' = "WALK"
          /\ UNCHANGED <<downHold, fade, output>>
  /\ UNCHANGED <<ended, upPrep, upBlend>>

\* A policy cycle of motion k; the one that submits the last frame sets endPending.
PlayMotion(k) ==
  /\ IF k = "DOWN" /\ active # k
     THEN downHold' = FALSE /\ fade' = "off"
     ELSE UNCHANGED <<downHold, fade>>
  /\ ended' \in {EndedAtEntry(k), EndedAtEntry(k) \cup {k}}
  /\ UNCHANGED <<upPrep, upBlend>>
  /\ \/ Fault
     \/ active' = k /\ output' = "policy" /\ UNCHANGED mode

HandleMotionMode(k) ==
  /\ Dispatch(k)
  /\ k = "DOWN" => ~HoldAfterDown
  /\ k = "UP" => active = "UP" /\ ~upPrep /\ ~upBlend
  /\ \/ k \in EndedAtEntry(k) /\ CompleteMotion(k)
     \/ PlayMotion(k)

\* UP first interpolates to frame zero (entering it always starts that over) ...
PrepareUp ==
  /\ Dispatch("UP")
  /\ active = "UP" => upPrep
  /\ ended' = ended \ {"UP"}
  /\ \/ Fault /\ upPrep' = FALSE /\ UNCHANGED upBlend
     \/ active' = "UP" /\ output' = "policy" /\ upPrep' = TRUE /\ UNCHANGED <<mode, upBlend>>
     \/ /\ active = "UP"
        /\ upPrep' = FALSE /\ upBlend' = TRUE
        /\ output' = "policy"
        /\ UNCHANGED <<mode, active>>
  /\ UNCHANGED <<downHold, fade>>

\* ... and then blends into the policy's output, inferring at frame zero only.
BlendUp ==
  /\ Dispatch("UP")
  /\ active = "UP" /\ ~upPrep /\ upBlend
  /\ \/ Fault /\ UNCHANGED <<ended, upBlend>>
     \/ /\ output' = "policy"
        /\ \/ upBlend' = FALSE /\ ended' = ended \ {"UP"}
           \/ UNCHANGED <<ended, upBlend>>
        /\ UNCHANGED <<mode, active>>
  /\ UNCHANGED <<downHold, fade, upPrep>>

-----------------------------------------------------------------------------
(* update(), after the mode handler: a stop that arrived while it ran. *)

\* A mutant: the commands the handler has written stay on the joints.
BugLateOutput == output
LateOutput == "damping"

LateStop(seen, next) ==
  /\ IF seen
     THEN ImmediateStop /\ active' = "NONE" /\ output' = LateOutput /\ at' = "idle"
     ELSE /\ at' = next
          /\ UNCHANGED <<control, pending, shutdown, moving, staleRequests, active, output>>
  /\ UNCHANGED <<estop, resetTarget, joyReceived, joyConnected, callbacks, running, casTarget,
                 joyLost, playback, mustStop, resetSince>>

LateCheckEmergency == at = "late" /\ LateStop(estop.on, "lateShutdown")
LateCheckShutdown == at = "lateShutdown" /\ LateStop(shutdown, "lateJoystick")

LateCheckJoystick ==
  /\ at = "lateJoystick"
  /\ at' = "idle"
  /\ IF ~joyLost /\ JoystickGone
     THEN ApplyJoystickDisconnect /\ GoLimp
     ELSE UNCHANGED <<joyLost, moving, pending, staleRequests, control, active, output>>
  /\ UNCHANGED <<estop, resetTarget, shutdown, joyReceived, joyConnected, callbacks, running,
                 casTarget, playback, mustStop, resetSince>>

-----------------------------------------------------------------------------
(* The controller manager stops and restarts the controller between cycles. *)

Stopping ==
  /\ running /\ at = "idle"
  /\ running' = FALSE
  /\ active' = "NONE"
  /\ output' = "none"
  /\ UNCHANGED <<shared, callbacks, locals, control, playback, history>>

Starting ==
  /\ ~running
  /\ running' = TRUE
  /\ started' = FALSE
  /\ mode' = "DEFAULT"
  /\ pending' = {}
  /\ shutdown' = FALSE
  /\ resetTarget' = NoTarget
  /\ joyConnected' = TRUE
  /\ joyReceived' = FALSE
  /\ active' = "NONE"
  /\ upPrep' = FALSE
  /\ upBlend' = FALSE
  /\ fade' = "off"
  /\ staleRequests' = {}
  /\ mustStop' = FALSE
  /\ UNCHANGED <<estop, callbacks, locals, downHold, ended, output, resetSince>>

-----------------------------------------------------------------------------
Callback ==
  \/ EmergencyStopMessage \/ ResetMessageLoad \/ ResetMessageStore \/ ShutdownMessage
  \/ \E r \in Requests : RequestMessage(r)
  \/ \E connected \in JoystickReports : JoystickMessageValue(connected)
  \/ JoystickMessageReceived

Update ==
  \/ \E m \in BOOLEAN : StartCycle(m)
  \/ CheckEmergency \/ TakeResetTarget \/ ExchangeEmergency \/ ClearAfterReset
  \/ CheckShutdown \/ DropResetTarget \/ CheckShutdownAgain
  \/ \E tooSoon \in SUBSET pending : TakeRequests(tooSoon)
  \/ CheckJoystick
  \/ HandleDefaultMode \/ \E m \in {"LIE", "STAND"} : HandleLieOrStandMode(m)
  \/ HandleWalkMode \/ HandleDownHold \/ \E k \in Motion : HandleMotionMode(k)
  \/ PrepareUp \/ BlendUp
  \/ LateCheckEmergency \/ LateCheckShutdown \/ LateCheckJoystick

Next == Callback \/ Update \/ Stopping \/ Starting

Spec == Init /\ [][Next]_vars

\* LeggedHWLoop keeps calling update() for as long as the controller runs.
FairSpec == Spec /\ WF_vars(Update)

-----------------------------------------------------------------------------
(* Properties. *)

\* The types of the latch, the requests, the modes and the flags.
EmergencyTypes ==
  /\ estop \in EstopState /\ resetTarget \in EstopState
  /\ resetSeen \in EstopState /\ casTarget \in EstopState
RequestTypes == pending \subseteq Requests /\ staleRequests \subseteq Requests
ModeTypes ==
  /\ at \in Steps
  /\ mode \in Mode
  /\ active \in {"NONE"} \cup Policy
  /\ ended \subseteq Motion
  /\ fade \in Output \cup {"off"}
  /\ output \in Output
FlagTypes ==
  /\ shutdown \in BOOLEAN /\ joyReceived \in BOOLEAN /\ joyConnected \in BOOLEAN
  /\ joyStored \in BOOLEAN /\ running \in BOOLEAN /\ joyLost \in BOOLEAN
  /\ moving \in BOOLEAN /\ started \in BOOLEAN /\ downHold \in BOOLEAN
  /\ upPrep \in BOOLEAN /\ upBlend \in BOOLEAN
  /\ mustStop \in BOOLEAN /\ resetSince \in BOOLEAN

\* Every variable keeps its type.
TypeOK == EmergencyTypes /\ RequestTypes /\ ModeTypes /\ FlagTypes

\* A stop message takes effect in the cycle it arrives in: whenever a cycle
\* that could still see an emergency stop or a shutdown (however late, even
\* while the mode handler was running) hands its commands to write(), the joints
\* are damped, the mode is DEFAULT and control has to be started again.
StopsWithinTheCycle ==
  running /\ at = "idle" /\ mustStop =>
    output = "damping" /\ mode = "DEFAULT" /\ ~started

\* The latch is only ever cleared by a reset that saw the latest emergency: a
\* reset bound to an earlier one fails its exchange, whatever the interleaving
\* of reset callback, emergency callback and control cycle.
StaleResetNeverClears == [][estop.on /\ ~estop'.on => resetSince]_vars

\* What was requested while the latch was still set is never acted on once a
\* reset has cleared it (a request that arrives after the exchange may be): only
\* between the exchange and the second clearing is any of it still queued.
ResetDiscardsRequests == at # "resetClear" => staleRequests = {}

\* No interleaving of requests, faults, disconnects and restarts leads into a
\* standing or moving mode without start_control, although WALK, DANCE, DOWN
\* and UP requests are accepted without looking at it.
MotionNeedsStart == mode \in {"STAND"} \cup Policy => started

\* When a cycle ends, the policy that runs inference is the one of the current
\* mode: actions of a policy that has been left are never fed to another mode.
ActivePolicyMatchesMode == at = "idle" => active \in {"NONE", mode}

\* A motion is completed only after it has been played in this visit: the
\* endPending of an earlier, aborted visit never completes the next one.
CompletionNeedsPlaying ==
  [][at = "dispatch" /\ at' = "late" /\ mode \in Motion /\ active' = "NONE" /\ mode' # "DEFAULT"
       => active = mode \/ (mode = "DOWN" /\ HoldAfterDown)]_vars

\* A cycle that found the joystick gone, before or after the mode handler, ends
\* either limp or in WALK with a zero command, and no request that was queued when it
\* was found gone is left over for the next cycle (one that comes later may be).
LostJoystickStandsStill ==
  at = "idle" /\ joyLost =>
    mode \in {"WALK", "DEFAULT"} /\ ~moving /\ staleRequests = {}

\* Seen from outside, the modes are a ladder of authority over the joints.
Ladder == INSTANCE AuthorityLadder WITH rung <- Rung(mode), armed <- started

\* Authority grows one rung at a time and beyond the first only when started.
ImplementsLadder == Ladder!Spec

\* An emergency or a shutdown ends in a limp, stopped robot, or the controller
\* itself has been stopped: no stream of requests and joystick messages can keep
\* update() from getting there.
StopIsEventuallyObeyed ==
  (estop.on \/ shutdown) ~> (~running \/ (mode = "DEFAULT" /\ ~started))

-----------------------------------------------------------------------------
(* What comments and messages of the code say, and the code does not do. *)

\* policies/DownMode.cpp:9-12: "A new DOWN request can only arrive through WALK,
\* in which case WALK is still the active policy here", so that the latch of the
\* previous DOWN does not make handleDownMode() skip the motion.
NewDownRunsItsEntryHook ==
  [][mode # "DOWN" /\ mode' = "DOWN" => ~HoldAfterDown]_vars

\* policies/DanceMode.cpp:155-157: "Fade the final policy command into the
\* low-damping hold before removing position-control authority."
FadeStartsFromPolicyCommand == fade # "off" => fade = "policy"

\* RLControllerBase.cpp:579-580 and :852: after an emergency has been reset
\* "control remains disabled until a new start request".  Only a reset clears the bit
\* of a generation that was latched.
EmergencyWasReset == estop.gen > 0 /\ ~estop.on
DisabledUntilStarted ==
  at = "idle" /\ EmergencyWasReset /\ ~started => output \notin {"pose", "policy"}
=============================================================================
