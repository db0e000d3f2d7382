-------------------------- MODULE ControlLoopProofs --------------------------
(***************************************************************************)
(* ControlLoop is correct for every set of requests, every number of       *)
(* emergencies and every sequence of joystick reports.                     *)
(*                                                                         *)
(* None of its properties is inductive by itself.  A stop is obeyed        *)
(* because it is always somewhere on its way (StopIsUnderWay); a stale     *)
(* reset fails because every target in flight is bound to the emergency it *)
(* was read from (ResetsAreBound); the authority ladder needs              *)
(* MotionNeedsStart for the requests that do not look at start_control.    *)
(***************************************************************************)
EXTENDS ControlLoop, TLAPS

-----------------------------------------------------------------------------
(* The inductive invariant. *)

Stopped == mode = "DEFAULT" /\ ~started
StoppedAndDamped == Stopped /\ output = "damping"

\* A reset target that is still bound to the current emergency has been
\* observed since that emergency; no target is bound to a future one.
BoundToThePast(t) ==
  /\ t.gen <= estop.gen
  /\ t.on /\ t = estop => resetSince
ResetsAreBound ==
  /\ BoundToThePast(resetTarget)
  /\ BoundToThePast(resetSeen)
  /\ BoundToThePast(casTarget)

\* Where a stop that has to be obeyed in this cycle is: still in its flag, to be
\* seen by a check that is yet to come, or already carried out.
StopIsUnderWay ==
  /\ at \in {"reset", "resetCas", "resetClear"} => Stopped
  /\ mustStop /\ running =>
       /\ at \in {"estop", "shutdown", "dropReset", "shutdownAgain", "take"} =>
            estop.on \/ shutdown
       /\ at \in {"joystick", "dispatch"} => estop.on \/ shutdown \/ Stopped
       /\ at = "late" => estop.on \/ shutdown \/ StoppedAndDamped
       /\ at = "lateShutdown" => shutdown \/ StoppedAndDamped
       /\ at \in {"lateJoystick", "idle"} => StoppedAndDamped

\* A cycle runs only while the controller does.
CyclesRun == at # "idle" => running

\* After the handler, whether or not the cycle is over yet.
HandlersLeaveTheirPolicy ==
  at \in {"late", "lateShutdown", "lateJoystick", "idle"} => active \in {"NONE", mode}
LostJoystickHolds ==
  joyLost =>
    /\ at \in {"dispatch", "late", "lateShutdown", "lateJoystick", "idle"}
    /\ mode \in {"WALK", "DEFAULT"}
    /\ ~moving

Protocol ==
  /\ StopIsUnderWay
  /\ CyclesRun
  /\ HandlersLeaveTheirPolicy
  /\ LostJoystickHolds
  /\ MotionNeedsStart
  /\ ResetDiscardsRequests

IInv == TypeOK /\ ResetsAreBound /\ Protocol

\* Initially nothing is latched, pending or playing.
LEMMA InitIInv == Init => IInv
<1> SUFFICES ASSUME Init PROVE IInv
  OBVIOUS
<1> USE ControlLoopAssumption DEF Init
<1>1. EmergencyTypes /\ RequestTypes
  BY DEF EmergencyTypes, RequestTypes, EstopState, NoTarget
<1>2. ModeTypes
  BY DEF ModeTypes, Steps, Mode, Output
<1>3. FlagTypes
  BY DEF FlagTypes
<1>4. ResetsAreBound
  BY DEF ResetsAreBound, BoundToThePast, NoTarget
<1>5. Protocol
  BY DEF Protocol, StopIsUnderWay, CyclesRun, HandlersLeaveTheirPolicy, LostJoystickHolds,
         MotionNeedsStart, ResetDiscardsRequests, Policy, Motion
<1>6. QED
  BY <1>1, <1>2, <1>3, <1>4, <1>5 DEF IInv, TypeOK

LEMMA CallbackIInv == IInv /\ Callback => IInv'
<1> SUFFICES ASSUME IInv, Callback PROVE IInv'
  OBVIOUS
<1> USE ControlLoopAssumption
    DEF IInv, TypeOK, shared, callbacks, locals, control, playback, policy, history
<1>1. CASE EmergencyStopMessage
  <2> USE <1>1 DEF EmergencyStopMessage, EmergencyStillSeen, Latched
  <2>1. EmergencyTypes' /\ RequestTypes' /\ ResetsAreBound'
    BY DEF EmergencyTypes, RequestTypes, EstopState, NoTarget, ResetsAreBound,
           BoundToThePast
  <2>2. ModeTypes'
    BY DEF ModeTypes
  <2>3. FlagTypes'
    BY DEF FlagTypes
  <2>4. Protocol'
    BY DEF Protocol, StopIsUnderWay, CyclesRun, Stopped, StoppedAndDamped,
           HandlersLeaveTheirPolicy,
           LostJoystickHolds, MotionNeedsStart, ResetDiscardsRequests, Policy, Motion
  <2>5. QED
    BY <2>1, <2>2, <2>3, <2>4
<1>2. CASE ResetMessageLoad
  <2> USE <1>2 DEF ResetMessageLoad
  <2>1. EmergencyTypes' /\ RequestTypes' /\ ResetsAreBound'
    BY DEF EmergencyTypes, RequestTypes, EstopState, NoTarget, ResetsAreBound,
           BoundToThePast
  <2>2. ModeTypes'
    BY DEF ModeTypes
  <2>3. FlagTypes'
    BY DEF FlagTypes
  <2>4. Protocol'
    BY DEF Protocol, StopIsUnderWay, CyclesRun, Stopped, StoppedAndDamped,
           HandlersLeaveTheirPolicy,
           LostJoystickHolds, MotionNeedsStart, ResetDiscardsRequests, Policy, Motion
  <2>5. QED
    BY <2>1, <2>2, <2>3, <2>4
<1>3. CASE ResetMessageStore
  <2> USE <1>3 DEF ResetMessageStore
  <2>1. EmergencyTypes' /\ RequestTypes' /\ ResetsAreBound'
    BY DEF EmergencyTypes, RequestTypes, EstopState, NoTarget, ResetsAreBound,
           BoundToThePast
  <2>2. ModeTypes'
    BY DEF ModeTypes
  <2>3. FlagTypes'
    BY DEF FlagTypes
  <2>4. Protocol'
    BY DEF Protocol, StopIsUnderWay, CyclesRun, Stopped, StoppedAndDamped,
           HandlersLeaveTheirPolicy,
           LostJoystickHolds, MotionNeedsStart, ResetDiscardsRequests, Policy, Motion
  <2>5. QED
    BY <2>1, <2>2, <2>3, <2>4
<1>4. CASE ShutdownMessage
  <2> USE <1>4 DEF ShutdownMessage, ShutdownStillSeen
  <2>1. EmergencyTypes' /\ RequestTypes' /\ ResetsAreBound'
    BY DEF EmergencyTypes, RequestTypes, EstopState, NoTarget, ResetsAreBound,
           BoundToThePast
  <2>2. ModeTypes'
    BY DEF ModeTypes
  <2>3. FlagTypes'
    BY DEF FlagTypes
  <2>4. Protocol'
    BY DEF Protocol, StopIsUnderWay, CyclesRun, Stopped, StoppedAndDamped,
           HandlersLeaveTheirPolicy,
           LostJoystickHolds, MotionNeedsStart, ResetDiscardsRequests, Policy, Motion
  <2>5. QED
    BY <2>1, <2>2, <2>3, <2>4
<1>5. ASSUME NEW r \in Requests, RequestMessage(r) PROVE IInv'
  <2> USE <1>5 DEF RequestMessage
  <2>1. EmergencyTypes' /\ RequestTypes' /\ ResetsAreBound'
    BY DEF EmergencyTypes, RequestTypes, EstopState, NoTarget, ResetsAreBound,
           BoundToThePast
  <2>2. ModeTypes'
    BY DEF ModeTypes
  <2>3. FlagTypes'
    BY DEF FlagTypes
  <2>4. Protocol'
    BY DEF Protocol, StopIsUnderWay, CyclesRun, Stopped, StoppedAndDamped,
           HandlersLeaveTheirPolicy,
           LostJoystickHolds, MotionNeedsStart, ResetDiscardsRequests, Policy, Motion
  <2>5. QED
    BY <2>1, <2>2, <2>3, <2>4
<1>6. ASSUME NEW connected \in JoystickReports, JoystickMessageValue(connected) PROVE IInv'
  <2> USE <1>6 DEF JoystickMessageValue
  <2>1. EmergencyTypes' /\ RequestTypes' /\ ResetsAreBound'
    BY DEF EmergencyTypes, RequestTypes, EstopState, NoTarget, ResetsAreBound,
           BoundToThePast
  <2>2. ModeTypes'
    BY DEF ModeTypes
  <2>3. FlagTypes'
    BY DEF FlagTypes
  <2>4. Protocol'
    BY DEF Protocol, StopIsUnderWay, CyclesRun, Stopped, StoppedAndDamped,
           HandlersLeaveTheirPolicy,
           LostJoystickHolds, MotionNeedsStart, ResetDiscardsRequests, Policy, Motion
  <2>5. QED
    BY <2>1, <2>2, <2>3, <2>4
<1>7. CASE JoystickMessageReceived
  <2> USE <1>7 DEF JoystickMessageReceived
  <2>1. EmergencyTypes' /\ RequestTypes' /\ ResetsAreBound'
    BY DEF EmergencyTypes, RequestTypes, EstopState, NoTarget, ResetsAreBound,
           BoundToThePast
  <2>2. ModeTypes'
    BY DEF ModeTypes
  <2>3. FlagTypes'
    BY DEF FlagTypes
  <2>4. Protocol'
    BY DEF Protocol, StopIsUnderWay, CyclesRun, Stopped, StoppedAndDamped,
           HandlersLeaveTheirPolicy,
           LostJoystickHolds, MotionNeedsStart, ResetDiscardsRequests, Policy, Motion
  <2>5. QED
    BY <2>1, <2>2, <2>3, <2>4
<1>8. QED
  BY <1>1, <1>2, <1>3, <1>4, <1>5, <1>6, <1>7 DEF Callback

LEMMA UpdateIInv == IInv /\ Update => IInv'
<1> SUFFICES ASSUME IInv, Update PROVE IInv'
  OBVIOUS
<1> USE ControlLoopAssumption
    DEF IInv, TypeOK, shared, callbacks, locals, control, playback, policy, history
<1>1. ASSUME NEW m \in BOOLEAN, StartCycle(m) PROVE IInv'
  <2> USE <1>1 DEF StartCycle
  <2>1. EmergencyTypes' /\ RequestTypes' /\ ResetsAreBound'
    BY DEF EmergencyTypes, RequestTypes, EstopState, NoTarget, ResetsAreBound,
           BoundToThePast
  <2>2. ModeTypes'
    BY DEF ModeTypes, Steps, Output
  <2>3. FlagTypes'
    BY ZenonT(40) DEF FlagTypes
  <2>4. Protocol'
    BY DEF Protocol, StopIsUnderWay, CyclesRun, Stopped, StoppedAndDamped,
           HandlersLeaveTheirPolicy,
           LostJoystickHolds, MotionNeedsStart, ResetDiscardsRequests, Policy, Motion
  <2>5. QED
    BY <2>1, <2>2, <2>3, <2>4
<1>2. CASE CheckEmergency
  <2> USE <1>2 DEF CheckEmergency, ImmediateStop, DropControl, StartedAfterStop
  <2>1. EmergencyTypes' /\ RequestTypes' /\ ResetsAreBound'
    BY DEF EmergencyTypes, RequestTypes, EstopState, NoTarget, ResetsAreBound,
           BoundToThePast
  <2>2. ModeTypes'
    BY DEF ModeTypes, Steps, Mode
  <2>3. FlagTypes'
    BY ZenonT(40) DEF FlagTypes
  <2>4. Protocol'
    BY DEF Protocol, StopIsUnderWay, CyclesRun, Stopped, StoppedAndDamped,
           HandlersLeaveTheirPolicy,
           LostJoystickHolds, MotionNeedsStart, ResetDiscardsRequests, Policy, Motion
  <2>5. QED
    BY <2>1, <2>2, <2>3, <2>4
<1>3. CASE TakeResetTarget
  <2> USE <1>3 DEF TakeResetTarget
  <2>1. EmergencyTypes' /\ RequestTypes' /\ ResetsAreBound'
    BY DEF EmergencyTypes, RequestTypes, EstopState, NoTarget, ResetsAreBound,
           BoundToThePast
  <2>2. ModeTypes'
    BY DEF ModeTypes, Steps
  <2>3. FlagTypes'
    BY DEF FlagTypes
  <2>4. Protocol'
    BY DEF Protocol, StopIsUnderWay, CyclesRun, Stopped, StoppedAndDamped,
           HandlersLeaveTheirPolicy,
           LostJoystickHolds, MotionNeedsStart, ResetDiscardsRequests, Policy, Motion
  <2>5. QED
    BY <2>1, <2>2, <2>3, <2>4
<1>4. CASE ExchangeEmergency
  <2> USE <1>4 DEF ExchangeEmergency, ResetMatches
  <2>1. EmergencyTypes' /\ RequestTypes' /\ ResetsAreBound'
    <3> USE DEF EmergencyTypes, RequestTypes, ResetsAreBound, BoundToThePast
    <3>1. NoTarget \in EstopState /\ NoTarget.gen = 0 /\ NoTarget.on = FALSE
      BY DEF NoTarget, EstopState
    <3>2. CASE estop = casTarget
      <4>1. estop' \in EstopState /\ estop'.gen = estop.gen /\ estop'.on = FALSE
        BY <3>2 DEF EstopState
      <4>2. QED
        BY <3>1, <3>2, <4>1 DEF EstopState
    <3>3. CASE estop # casTarget
      BY <3>1, <3>3 DEF EstopState
    <3>4. QED
      BY <3>2, <3>3
  <2>2. ModeTypes'
    BY DEF ModeTypes, Steps
  <2>3. FlagTypes'
    BY DEF FlagTypes
  <2>4. Protocol'
    BY DEF Protocol, StopIsUnderWay, CyclesRun, Stopped, StoppedAndDamped,
           HandlersLeaveTheirPolicy,
           LostJoystickHolds, MotionNeedsStart, ResetDiscardsRequests, Policy, Motion
  <2>5. QED
    BY <2>1, <2>2, <2>3, <2>4
<1>5. CASE ClearAfterReset
  <2> USE <1>5 DEF ClearAfterReset, RequestsAfterReset
  <2>1. EmergencyTypes' /\ RequestTypes' /\ ResetsAreBound'
    BY DEF EmergencyTypes, RequestTypes, EstopState, NoTarget, ResetsAreBound,
           BoundToThePast
  <2>2. ModeTypes'
    BY DEF ModeTypes, Steps
  <2>3. FlagTypes'
    BY ZenonT(40) DEF FlagTypes
  <2>4. Protocol'
    BY DEF Protocol, StopIsUnderWay, CyclesRun, Stopped, StoppedAndDamped,
           HandlersLeaveTheirPolicy,
           LostJoystickHolds, MotionNeedsStart, ResetDiscardsRequests, Policy, Motion
  <2>5. QED
    BY <2>1, <2>2, <2>3, <2>4
<1>6. CASE CheckShutdown
  <2> USE <1>6 DEF CheckShutdown, ImmediateStop, DropControl, StartedAfterStop
  <2>1. EmergencyTypes' /\ RequestTypes' /\ ResetsAreBound'
    BY DEF EmergencyTypes, RequestTypes, EstopState, NoTarget, ResetsAreBound,
           BoundToThePast
  <2>2. ModeTypes'
    BY DEF ModeTypes, Steps, Mode
  <2>3. FlagTypes'
    BY ZenonT(40) DEF FlagTypes
  <2>4. Protocol'
    BY DEF Protocol, StopIsUnderWay, CyclesRun, Stopped, StoppedAndDamped,
           HandlersLeaveTheirPolicy,
           LostJoystickHolds, MotionNeedsStart, ResetDiscardsRequests, Policy, Motion
  <2>5. QED
    BY <2>1, <2>2, <2>3, <2>4
<1>7. CASE DropResetTarget
  <2> USE <1>7 DEF DropResetTarget
  <2>1. EmergencyTypes' /\ RequestTypes' /\ ResetsAreBound'
    BY DEF EmergencyTypes, RequestTypes, EstopState, NoTarget, ResetsAreBound,
           BoundToThePast
  <2>2. ModeTypes'
    BY DEF ModeTypes, Steps
  <2>3. FlagTypes'
    BY DEF FlagTypes
  <2>4. Protocol'
    BY DEF Protocol, StopIsUnderWay, CyclesRun, Stopped, StoppedAndDamped,
           HandlersLeaveTheirPolicy,
           LostJoystickHolds, MotionNeedsStart, ResetDiscardsRequests, Policy, Motion
  <2>5. QED
    BY <2>1, <2>2, <2>3, <2>4
<1>8. CASE CheckShutdownAgain
  <2> USE <1>8 DEF CheckShutdownAgain, DropControl, StartedAfterStop
  <2>1. EmergencyTypes' /\ RequestTypes' /\ ResetsAreBound'
    BY DEF EmergencyTypes, RequestTypes, EstopState, NoTarget, ResetsAreBound,
           BoundToThePast
  <2>2. ModeTypes'
    BY DEF ModeTypes, Steps, Mode
  <2>3. FlagTypes'
    BY ZenonT(40) DEF FlagTypes
  <2>4. Protocol'
    BY DEF Protocol, StopIsUnderWay, CyclesRun, Stopped, StoppedAndDamped,
           HandlersLeaveTheirPolicy,
           LostJoystickHolds, MotionNeedsStart, ResetDiscardsRequests, Policy, Motion
  <2>5. QED
    BY <2>1, <2>2, <2>3, <2>4
<1>9. ASSUME NEW tooSoon \in SUBSET pending, TakeRequests(tooSoon) PROVE IInv'
  <2> USE <1>9 DEF TakeRequests, Allowed, Selected, Accepts, RequestMode, RequestStarts
  <2>1. EmergencyTypes' /\ RequestTypes' /\ ResetsAreBound'
    BY DEF EmergencyTypes, RequestTypes, EstopState, NoTarget, ResetsAreBound,
           BoundToThePast
  <2>2. ModeTypes'
    BY DEF ModeTypes, Steps, Mode, Policy, Motion
  <2>3. FlagTypes'
    <3>1. started' \in BOOLEAN
      BY Zenon DEF FlagTypes
    <3>2. QED
      BY <3>1 DEF FlagTypes
  <2>4. Protocol'
    BY DEF Protocol, StopIsUnderWay, CyclesRun, Stopped, StoppedAndDamped,
           HandlersLeaveTheirPolicy,
           LostJoystickHolds, MotionNeedsStart, ResetDiscardsRequests, Policy, Motion
  <2>5. QED
    BY <2>1, <2>2, <2>3, <2>4
<1>10. CASE CheckJoystick
  <2> USE <1>10 DEF CheckJoystick, JoystickGone, ApplyJoystickDisconnect, FallbackMoving,
                    RequestsAfterLoss, FallbackMode, FallbackStarts
  <2>1. EmergencyTypes' /\ RequestTypes' /\ ResetsAreBound'
    BY DEF EmergencyTypes, RequestTypes, EstopState, NoTarget, ResetsAreBound,
           BoundToThePast
  <2>2. ModeTypes'
    BY DEF ModeTypes, Steps, Mode, Policy
  <2>3. FlagTypes'
    BY ZenonT(40) DEF FlagTypes
  <2>4. Protocol'
    BY DEF Protocol, StopIsUnderWay, CyclesRun, Stopped, StoppedAndDamped,
           HandlersLeaveTheirPolicy,
           LostJoystickHolds, MotionNeedsStart, ResetDiscardsRequests, Policy, Motion
  <2>5. QED
    BY <2>1, <2>2, <2>3, <2>4
<1>11. CASE HandleDefaultMode
  <2> USE <1>11 DEF HandleDefaultMode, Dispatch, GoLimp
  <2>1. EmergencyTypes' /\ RequestTypes' /\ ResetsAreBound'
    BY DEF EmergencyTypes, RequestTypes, EstopState, NoTarget, ResetsAreBound,
           BoundToThePast
  <2>2. ModeTypes'
    BY DEF ModeTypes, Steps, Output
  <2>3. FlagTypes'
    BY DEF FlagTypes
  <2>4. Protocol'
    BY DEF Protocol, StopIsUnderWay, CyclesRun, Stopped, StoppedAndDamped,
           HandlersLeaveTheirPolicy,
           LostJoystickHolds, MotionNeedsStart, ResetDiscardsRequests, Policy, Motion
  <2>5. QED
    BY <2>1, <2>2, <2>3, <2>4
<1>12. ASSUME NEW m \in {"LIE", "STAND"}, HandleLieOrStandMode(m) PROVE IInv'
  <2> USE <1>12 DEF HandleLieOrStandMode, Dispatch
  <2>1. EmergencyTypes' /\ RequestTypes' /\ ResetsAreBound'
    BY DEF EmergencyTypes, RequestTypes, EstopState, NoTarget, ResetsAreBound,
           BoundToThePast
  <2>2. ModeTypes'
    BY DEF ModeTypes, Steps, Output
  <2>3. FlagTypes'
    BY DEF FlagTypes
  <2>4. Protocol'
    BY DEF Protocol, StopIsUnderWay, CyclesRun, Stopped, StoppedAndDamped,
           HandlersLeaveTheirPolicy,
           LostJoystickHolds, MotionNeedsStart, ResetDiscardsRequests, Policy, Motion
  <2>5. QED
    BY <2>1, <2>2, <2>3, <2>4
<1>13. CASE HandleWalkMode
  <2> USE <1>13 DEF HandleWalkMode, Dispatch, Fault, GoLimp
  <2>1. EmergencyTypes' /\ RequestTypes' /\ ResetsAreBound'
    BY DEF EmergencyTypes, RequestTypes, EstopState, NoTarget, ResetsAreBound,
           BoundToThePast
  <2>2. ModeTypes'
    BY DEF ModeTypes, Steps, Mode, Policy, Output
  <2>3. FlagTypes'
    BY DEF FlagTypes
  <2>4. Protocol'
    BY DEF Protocol, StopIsUnderWay, CyclesRun, Stopped, StoppedAndDamped,
           HandlersLeaveTheirPolicy,
           LostJoystickHolds, MotionNeedsStart, ResetDiscardsRequests, Policy, Motion
  <2>5. QED
    BY <2>1, <2>2, <2>3, <2>4
<1>14. CASE HandleDownHold
  <2> USE <1>14 DEF HandleDownHold, Dispatch, HoldAfterDown, FadeOrHold
  <2>1. EmergencyTypes' /\ RequestTypes' /\ ResetsAreBound'
    BY DEF EmergencyTypes, RequestTypes, EstopState, NoTarget, ResetsAreBound,
           BoundToThePast
  <2>2. ModeTypes'
    BY DEF ModeTypes, Steps, Output
  <2>3. FlagTypes'
    BY DEF FlagTypes
  <2>4. Protocol'
    BY DEF Protocol, StopIsUnderWay, CyclesRun, Stopped, StoppedAndDamped,
           HandlersLeaveTheirPolicy,
           LostJoystickHolds, MotionNeedsStart, ResetDiscardsRequests, Policy, Motion
  <2>5. QED
    BY <2>1, <2>2, <2>3, <2>4
<1>15. ASSUME NEW k \in Motion, HandleMotionMode(k) PROVE IInv'
  <2> USE <1>15 DEF HandleMotionMode, Dispatch, CompleteMotion, PlayMotion, EndedAtEntry,
                    EndedOnEntry, Fault, GoLimp
  <2>1. EmergencyTypes' /\ RequestTypes' /\ ResetsAreBound'
    BY DEF EmergencyTypes, RequestTypes, EstopState, NoTarget, ResetsAreBound,
           BoundToThePast
  <2>2. ModeTypes'
    BY DEF ModeTypes, Steps, Mode, Policy, Motion, Output
  <2>3. FlagTypes'
    <3>1. CASE CompleteMotion(k)
      <4>1. downHold' \in BOOLEAN
        BY <3>1, Zenon DEF FlagTypes
      <4>2. QED
        BY <3>1, <4>1 DEF FlagTypes
    <3>2. CASE PlayMotion(k)
      BY <3>2, ZenonT(40) DEF FlagTypes
    <3>3. QED
      BY <3>1, <3>2
  <2>4. Protocol'
    BY DEF Protocol, StopIsUnderWay, CyclesRun, Stopped, StoppedAndDamped,
           HandlersLeaveTheirPolicy,
           LostJoystickHolds, MotionNeedsStart, ResetDiscardsRequests, Policy, Motion
  <2>5. QED
    BY <2>1, <2>2, <2>3, <2>4
<1>16. CASE PrepareUp
  <2> USE <1>16 DEF PrepareUp, Dispatch, Fault, GoLimp
  <2>1. EmergencyTypes' /\ RequestTypes' /\ ResetsAreBound'
    BY DEF EmergencyTypes, RequestTypes, EstopState, NoTarget, ResetsAreBound,
           BoundToThePast
  <2>2. ModeTypes'
    BY DEF ModeTypes, Steps, Mode, Policy, Motion, Output
  <2>3. FlagTypes'
    BY ZenonT(40) DEF FlagTypes
  <2>4. Protocol'
    BY DEF Protocol, StopIsUnderWay, CyclesRun, Stopped, StoppedAndDamped,
           HandlersLeaveTheirPolicy,
           LostJoystickHolds, MotionNeedsStart, ResetDiscardsRequests, Policy, Motion
  <2>5. QED
    BY <2>1, <2>2, <2>3, <2>4
<1>17. CASE BlendUp
  <2> USE <1>17 DEF BlendUp, Dispatch, Fault, GoLimp
  <2>1. EmergencyTypes' /\ RequestTypes' /\ ResetsAreBound'
    BY DEF EmergencyTypes, RequestTypes, EstopState, NoTarget, ResetsAreBound,
           BoundToThePast
  <2>2. ModeTypes'
    BY DEF ModeTypes, Steps, Mode, Policy, Motion, Output
  <2>3. FlagTypes'
    BY ZenonT(40) DEF FlagTypes
  <2>4. Protocol'
    BY DEF Protocol, StopIsUnderWay, CyclesRun, Stopped, StoppedAndDamped,
           HandlersLeaveTheirPolicy,
           LostJoystickHolds, MotionNeedsStart, ResetDiscardsRequests, Policy, Motion
  <2>5. QED
    BY <2>1, <2>2, <2>3, <2>4
<1>18. CASE LateCheckEmergency
  <2> USE <1>18 DEF LateCheckEmergency, LateStop, ImmediateStop, DropControl,
                    StartedAfterStop, LateOutput
  <2>1. EmergencyTypes' /\ RequestTypes' /\ ResetsAreBound'
    BY DEF EmergencyTypes, RequestTypes, EstopState, NoTarget, ResetsAreBound,
           BoundToThePast
  <2>2. ModeTypes'
    BY DEF ModeTypes, Steps, Mode, Output
  <2>3. FlagTypes'
    <3>1. CASE estop.on
      BY <3>1 DEF FlagTypes
    <3>2. CASE ~estop.on
      BY <3>2 DEF FlagTypes
    <3>3. QED
      BY <3>1, <3>2
  <2>4. Protocol'
    BY DEF Protocol, StopIsUnderWay, CyclesRun, Stopped, StoppedAndDamped,
           HandlersLeaveTheirPolicy,
           LostJoystickHolds, MotionNeedsStart, ResetDiscardsRequests, Policy, Motion
  <2>5. QED
    BY <2>1, <2>2, <2>3, <2>4
<1>19. CASE LateCheckShutdown
  <2> USE <1>19 DEF LateCheckShutdown, LateStop, ImmediateStop, DropControl,
                    StartedAfterStop, LateOutput
  <2>1. EmergencyTypes' /\ RequestTypes' /\ ResetsAreBound'
    BY DEF EmergencyTypes, RequestTypes, EstopState, NoTarget, ResetsAreBound,
           BoundToThePast
  <2>2. ModeTypes'
    BY DEF ModeTypes, Steps, Mode, Output
  <2>3. FlagTypes'
    <3>1. CASE shutdown
      BY <3>1 DEF FlagTypes
    <3>2. CASE ~shutdown
      BY <3>2 DEF FlagTypes
    <3>3. QED
      BY <3>1, <3>2
  <2>4. Protocol'
    BY DEF Protocol, StopIsUnderWay, CyclesRun, Stopped, StoppedAndDamped,
           HandlersLeaveTheirPolicy,
           LostJoystickHolds, MotionNeedsStart, ResetDiscardsRequests, Policy, Motion
  <2>5. QED
    BY <2>1, <2>2, <2>3, <2>4
<1>20. CASE LateCheckJoystick
  <2> USE <1>20 DEF LateCheckJoystick, JoystickGone, ApplyJoystickDisconnect,
                    FallbackMoving, RequestsAfterLoss, FallbackMode, FallbackStarts, GoLimp
  <2>1. EmergencyTypes' /\ RequestTypes' /\ ResetsAreBound'
    BY DEF EmergencyTypes, RequestTypes, EstopState, NoTarget, ResetsAreBound,
           BoundToThePast
  <2>2. ModeTypes'
    BY DEF ModeTypes, Steps, Mode, Policy, Output
  <2>3. FlagTypes'
    <3>1. CASE ~joyLost /\ JoystickGone
      <4>1. started' \in BOOLEAN
        BY <3>1 DEF FlagTypes
      <4>2. QED
        BY <3>1, <4>1 DEF FlagTypes
    <3>2. CASE ~(~joyLost /\ JoystickGone)
      BY <3>2 DEF FlagTypes
    <3>3. QED
      BY <3>1, <3>2
  <2>4. Protocol'
    BY DEF Protocol, StopIsUnderWay, CyclesRun, Stopped, StoppedAndDamped,
           HandlersLeaveTheirPolicy,
           LostJoystickHolds, MotionNeedsStart, ResetDiscardsRequests, Policy, Motion
  <2>5. QED
    BY <2>1, <2>2, <2>3, <2>4
<1>21. QED
  BY <1>1, <1>2, <1>3, <1>4, <1>5, <1>6, <1>7, <1>8, <1>9, <1>10, <1>11, <1>12, <1>13,
     <1>14, <1>15, <1>16, <1>17, <1>18, <1>19, <1>20 DEF Update

LEMMA RestartIInv == IInv /\ (Stopping \/ Starting) => IInv'
<1> SUFFICES ASSUME IInv, Stopping \/ Starting PROVE IInv'
  OBVIOUS
<1> USE ControlLoopAssumption
    DEF IInv, TypeOK, shared, callbacks, locals, control, playback, policy, history
<1>1. CASE Stopping
  <2> USE <1>1 DEF Stopping
  <2>1. EmergencyTypes' /\ RequestTypes' /\ ResetsAreBound'
    BY DEF EmergencyTypes, RequestTypes, EstopState, NoTarget, ResetsAreBound,
           BoundToThePast
  <2>2. ModeTypes'
    BY DEF ModeTypes, Output
  <2>3. FlagTypes'
    BY ZenonT(40) DEF FlagTypes
  <2>4. Protocol'
    BY DEF Protocol, StopIsUnderWay, CyclesRun, Stopped, StoppedAndDamped,
           HandlersLeaveTheirPolicy,
           LostJoystickHolds, MotionNeedsStart, ResetDiscardsRequests, Policy, Motion
  <2>5. QED
    BY <2>1, <2>2, <2>3, <2>4
<1>2. CASE Starting
  <2> USE <1>2 DEF Starting
  <2>1. EmergencyTypes' /\ RequestTypes' /\ ResetsAreBound'
    BY DEF EmergencyTypes, RequestTypes, EstopState, NoTarget, ResetsAreBound,
           BoundToThePast
  <2>2. ModeTypes'
    BY DEF ModeTypes, Mode
  <2>3. FlagTypes'
    BY ZenonT(40) DEF FlagTypes
  <2>4. Protocol'
    BY DEF Protocol, StopIsUnderWay, CyclesRun, Stopped, StoppedAndDamped,
           HandlersLeaveTheirPolicy,
           LostJoystickHolds, MotionNeedsStart, ResetDiscardsRequests, Policy, Motion
  <2>5. QED
    BY <2>1, <2>2, <2>3, <2>4
<1>3. QED
  BY <1>1, <1>2 DEF IInv

\* Every step of the specification keeps the invariant.
LEMMA StepIInv == IInv /\ [Next]_vars => IInv'
<1> SUFFICES ASSUME IInv, [Next]_vars PROVE IInv'
  OBVIOUS
<1>1. CASE Callback
  BY <1>1, CallbackIInv
<1>2. CASE Update
  BY <1>2, UpdateIInv
<1>3. CASE Stopping \/ Starting
  BY <1>3, RestartIInv
<1>4. CASE UNCHANGED vars
  <2> USE <1>4 DEF IInv, TypeOK, vars, shared, callbacks, locals, control, playback, policy,
                   history
  <2>1. EmergencyTypes' /\ RequestTypes' /\ ResetsAreBound'
    BY DEF EmergencyTypes, RequestTypes, ResetsAreBound, BoundToThePast
  <2>2. ModeTypes' /\ FlagTypes'
    BY DEF ModeTypes, FlagTypes
  <2>3. Protocol'
    BY DEF Protocol, StopIsUnderWay, CyclesRun, Stopped, StoppedAndDamped,
           HandlersLeaveTheirPolicy, LostJoystickHolds, MotionNeedsStart, ResetDiscardsRequests
  <2>4. QED
    BY <2>1, <2>2, <2>3
<1>5. QED
  BY <1>1, <1>2, <1>3, <1>4 DEF Next

LEMMA AlwaysIInv == Spec => []IInv
  BY InitIInv, StepIInv, PTL DEF Spec

-----------------------------------------------------------------------------
(* The theorems. *)

\* Every variable keeps its type, whatever is requested and in whatever order.
THEOREM TypeCorrect == Spec => []TypeOK
<1>1. IInv => TypeOK
  BY DEF IInv
<1>2. QED
  BY <1>1, AlwaysIInv, PTL

\* An emergency stop or a shutdown that update() can still see in the cycle it
\* arrives in leaves that cycle with damped joints, in DEFAULT, not started.
THEOREM StopsAreObeyed == Spec => []StopsWithinTheCycle
<1>1. IInv => StopsWithinTheCycle
  BY DEF IInv, Protocol, StopIsUnderWay, StopsWithinTheCycle, StoppedAndDamped, Stopped
<1>2. QED
  BY <1>1, AlwaysIInv, PTL

\* Nothing requested before a reset took effect survives it.
THEOREM ResetsDiscard == Spec => []ResetDiscardsRequests
<1>1. IInv => ResetDiscardsRequests
  BY DEF IInv, Protocol
<1>2. QED
  BY <1>1, AlwaysIInv, PTL

\* The robot stands, walks or plays a motion only while control is started.
THEOREM MotionIsStarted == Spec => []MotionNeedsStart
<1>1. IInv => MotionNeedsStart
  BY DEF IInv, Protocol
<1>2. QED
  BY <1>1, AlwaysIInv, PTL

\* Between cycles no policy but the current mode's is active.
THEOREM OnePolicy == Spec => []ActivePolicyMatchesMode
<1>1. IInv => ActivePolicyMatchesMode
  BY DEF IInv, Protocol, HandlersLeaveTheirPolicy, ActivePolicyMatchesMode
<1>2. QED
  BY <1>1, AlwaysIInv, PTL

\* A cycle that found the joystick gone ends in WALK at zero command, or limp, and keeps
\* none of the requests that were queued when it did.
THEOREM LostJoystick == Spec => []LostJoystickStandsStill
<1>1. IInv => LostJoystickStandsStill
  BY DEF IInv, Protocol, LostJoystickHolds, ResetDiscardsRequests, LostJoystickStandsStill
<1>2. QED
  BY <1>1, AlwaysIInv, PTL

\* The latch is cleared by one step only, and that step needs a target that is
\* still bound to the current emergency.
THEOREM ResetsAreFresh == Spec => StaleResetNeverClears
<1>1. IInv /\ [Next]_vars => (estop.on /\ ~estop'.on => resetSince)
  <2> SUFFICES ASSUME IInv, Next, estop' # estop, estop.on, ~estop'.on PROVE resetSince
    BY DEF vars, shared
  <2>1. CASE Callback
    BY <2>1 DEF Callback, EmergencyStopMessage, Latched, ResetMessageLoad, ResetMessageStore,
                ShutdownMessage, RequestMessage, JoystickMessageValue, JoystickMessageReceived,
                shared
  <2>2. CASE Stopping \/ Starting
    BY <2>2 DEF Stopping, Starting, shared
  <2>3. CASE ExchangeEmergency
    BY <2>3 DEF ExchangeEmergency, ResetMatches, IInv, ResetsAreBound, BoundToThePast
  <2>4. CASE Update /\ ~ExchangeEmergency
    BY <2>4 DEF Update, StartCycle, CheckEmergency, TakeResetTarget, ClearAfterReset,
                CheckShutdown, DropResetTarget, CheckShutdownAgain, TakeRequests, CheckJoystick,
                HandleDefaultMode, HandleLieOrStandMode, HandleWalkMode, HandleDownHold,
                HandleMotionMode, PrepareUp, BlendUp, Dispatch, LateCheckEmergency,
                LateCheckShutdown, LateStop, LateCheckJoystick, shared
  <2>5. QED
    BY <2>1, <2>2, <2>3, <2>4 DEF Next
<1>2. QED
  BY <1>1, AlwaysIInv, PTL DEF Spec, StaleResetNeverClears

\* A motion that has just been entered has lost its old endPending.
THEOREM MotionsAreCompleted == Spec => CompletionNeedsPlaying
<1> DEFINE Played ==
      at = "dispatch" /\ at' = "late" /\ mode \in Motion /\ active' = "NONE" /\ mode' # "DEFAULT"
        => active = mode \/ (mode = "DOWN" /\ HoldAfterDown)
<1>1. [Next]_vars => [Played]_vars
  <2> SUFFICES ASSUME Next, at = "dispatch", at' = "late", mode \in Motion, active' = "NONE",
                      mode' # "DEFAULT"
               PROVE  active = mode \/ (mode = "DOWN" /\ HoldAfterDown)
    OBVIOUS
  <2>1. ~Callback
    BY DEF Callback, EmergencyStopMessage, Latched, ResetMessageLoad, ResetMessageStore,
           ShutdownMessage, RequestMessage, JoystickMessageValue, JoystickMessageReceived,
           locals
  <2>2. PICK k \in Motion : HandleDownHold \/ HandleMotionMode(k)
    BY <2>1 DEF Next, Update, StartCycle, CheckEmergency, TakeResetTarget, ExchangeEmergency,
                ClearAfterReset, CheckShutdown, DropResetTarget, CheckShutdownAgain,
                TakeRequests, CheckJoystick, HandleDefaultMode, HandleLieOrStandMode,
                HandleWalkMode, PrepareUp, BlendUp, Dispatch, Fault, LateCheckEmergency,
                LateCheckShutdown, LateCheckJoystick, Stopping, Starting, Motion
  <2>3. CASE HandleDownHold
    BY <2>3 DEF HandleDownHold, Dispatch
  <2>4. CASE HandleMotionMode(k)
    BY <2>4 DEF HandleMotionMode, Dispatch, EndedAtEntry, EndedOnEntry, PlayMotion, Fault, Motion
  <2>5. QED
    BY <2>2, <2>3, <2>4
<1>2. QED
  BY <1>1, PTL DEF Spec, CompletionNeedsPlaying, Played

-----------------------------------------------------------------------------
(* The refinement of AuthorityLadder. *)

\* All that a step can do to the mode and to start_control.
Unmoved == UNCHANGED control
Stops == mode' = "DEFAULT" /\ ~started'
Faults == mode' = "DEFAULT" /\ started' = started
FallsBack == mode \in Motion /\ mode' = "WALK" /\ started' = started
Obeys(r) ==
  /\ Accepts(mode, started, r)
  /\ mode' = RequestMode(mode, started, r)
  /\ started' = RequestStarts(started, r)

LEMMA Fallbacks == TypeOK /\ ApplyJoystickDisconnect => Unmoved \/ Stops \/ FallsBack
<1> SUFFICES ASSUME TypeOK, ApplyJoystickDisconnect PROVE Unmoved \/ Stops \/ FallsBack
  OBVIOUS
<1> USE DEF TypeOK, ModeTypes, FlagTypes, ApplyJoystickDisconnect, FallbackMode, FallbackStarts
<1>1. CASE mode = "WALK"
  BY <1>1 DEF Unmoved, Policy, control
<1>2. CASE mode \in Motion
  BY <1>2 DEF FallsBack, Policy, Motion
<1>3. CASE mode \notin Policy
  BY <1>3 DEF Stops
<1>4. QED
  BY <1>1, <1>2, <1>3 DEF Policy

LEMMA ControlSteps ==
  IInv /\ Next => Unmoved \/ Stops \/ Faults \/ FallsBack \/ (\E r \in Requests : Obeys(r))
<1> SUFFICES ASSUME IInv, Next
             PROVE  Unmoved \/ Stops \/ Faults \/ FallsBack \/ (\E r \in Requests : Obeys(r))
  OBVIOUS
<1> USE DEF IInv, TypeOK
<1>1. CASE Callback
  BY <1>1 DEF Callback, EmergencyStopMessage, Latched, ResetMessageLoad, ResetMessageStore,
              ShutdownMessage, RequestMessage, JoystickMessageValue, JoystickMessageReceived,
              Unmoved
<1>2. CASE Stopping \/ Starting
  BY <1>2 DEF Stopping, Starting, Unmoved, Stops
<1>3. CASE CheckJoystick \/ LateCheckJoystick
  BY <1>3, Fallbacks DEF CheckJoystick, LateCheckJoystick, Unmoved
<1>4. ASSUME NEW tooSoon \in SUBSET pending, TakeRequests(tooSoon)
      PROVE  Unmoved \/ (\E r \in Requests : Obeys(r))
  BY <1>4 DEF TakeRequests, Obeys, Unmoved, RequestTypes
<1>5. CASE CheckEmergency \/ CheckShutdown \/ CheckShutdownAgain \/ LateCheckEmergency
           \/ LateCheckShutdown
  BY <1>5 DEF CheckEmergency, CheckShutdown, CheckShutdownAgain, LateCheckEmergency,
              LateCheckShutdown, LateStop, ImmediateStop, DropControl, StartedAfterStop,
              Unmoved, Stops
<1>6. ASSUME NEW m \in BOOLEAN, StartCycle(m) PROVE Unmoved
  BY <1>6 DEF StartCycle, Unmoved
<1>7. CASE TakeResetTarget \/ ExchangeEmergency \/ ClearAfterReset \/ DropResetTarget
  BY <1>7 DEF TakeResetTarget, ExchangeEmergency, ClearAfterReset, DropResetTarget, Unmoved
<1>8. CASE HandleDefaultMode \/ HandleWalkMode \/ HandleDownHold \/ PrepareUp \/ BlendUp
  BY <1>8 DEF HandleDefaultMode, HandleWalkMode, HandleDownHold, PrepareUp, BlendUp, Dispatch,
              Fault, Unmoved, Faults, control
<1>9. ASSUME NEW m \in {"LIE", "STAND"}, HandleLieOrStandMode(m) PROVE Unmoved
  BY <1>9 DEF HandleLieOrStandMode, Dispatch, Unmoved, control
<1>10. ASSUME NEW k \in Motion, HandleMotionMode(k) PROVE Unmoved \/ Faults \/ FallsBack
  BY <1>10 DEF HandleMotionMode, CompleteMotion, PlayMotion, Dispatch, Fault, Unmoved, Faults,
               FallsBack, control
<1>11. QED
  BY <1>1, <1>2, <1>3, <1>4, <1>5, <1>6, <1>7, <1>8, <1>9, <1>10 DEF Next, Update

\* A request that is obeyed takes the robot up by one rung, down, or stops it.
LEMMA RequestsClimb ==
  ASSUME TypeOK, MotionNeedsStart, NEW r \in Requests, Obeys(r)
  PROVE  [Ladder!Next]_(Ladder!ladderVars)
<1> USE ControlLoopAssumption
    DEF TypeOK, ModeTypes, FlagTypes, MotionNeedsStart, Obeys, RequestMode, RequestStarts,
        Accepts, Rung, Mode, Policy, Motion, Ladder!Next, Ladder!ladderVars
<1>1. CASE r = "START" /\ ~started
  <2>1. mode \in {"DEFAULT", "LIE"} /\ mode' = "LIE" /\ started'
    BY <1>1
  <2>2. Rung(mode) <= 1 /\ Rung(mode)' = 1
    BY <2>1
  <2>3. QED
    BY <1>1, <2>1, <2>2 DEF Ladder!Start
<1>2. CASE r = "START" /\ started
  <2>1. mode' = "DEFAULT" /\ ~started'
    BY <1>2
  <2>2. QED
    BY <2>1 DEF Ladder!Stop
<1>3. CASE r \in {"LIE_TO_STAND", "WALK", "DANCE", "DOWN", "UP"}
  BY <1>3 DEF Ladder!ClimbOne, Ladder!ComeDown
<1>4. CASE r \in {"SWITCH_MODE", "STAND_TO_LIE", "WALK_TO_STAND", "POSITION"}
  BY <1>4 DEF Ladder!ClimbOne, Ladder!ComeDown
<1>5. QED
  BY <1>1, <1>2, <1>3, <1>4 DEF Request

LEMMA LadderStep == IInv /\ [Next]_vars => [Ladder!Next]_(Ladder!ladderVars)
<1> SUFFICES ASSUME IInv, [Next]_vars PROVE [Ladder!Next]_(Ladder!ladderVars)
  OBVIOUS
<1>1. CASE Unmoved
  BY <1>1 DEF Unmoved, control, Ladder!ladderVars
<1>2. CASE Stops
  BY <1>2 DEF Stops, Rung, Motion, Ladder!Next, Ladder!Stop
<1>3. CASE Faults
  BY <1>3 DEF Faults, IInv, TypeOK, ModeTypes, Mode, Policy, Motion, Rung, Ladder!Next,
              Ladder!ComeDown, Ladder!ladderVars
<1>4. CASE FallsBack
  BY <1>4 DEF FallsBack, Motion, Rung, Ladder!Next, Ladder!ComeDown
<1>5. ASSUME NEW r \in Requests, Obeys(r) PROVE [Ladder!Next]_(Ladder!ladderVars)
  BY <1>5, RequestsClimb DEF IInv, Protocol
<1>6. CASE UNCHANGED vars
  BY <1>6 DEF vars, control, Ladder!ladderVars
<1>7. QED
  BY <1>1, <1>2, <1>3, <1>4, <1>5, <1>6, ControlSteps

\* The modes implement the ladder: whatever is requested, lost or stopped, the
\* robot's authority over its joints grows one rung at a time, and beyond the
\* first only while control is started.
THEOREM Implementation == Spec => ImplementsLadder
<1>1. Init => Ladder!Init
  BY DEF Init, Ladder!Init, Rung, Motion
<1>2. QED
  BY <1>1, LadderStep, AlwaysIInv, PTL DEF Spec, ImplementsLadder, Ladder!Spec
=============================================================================
