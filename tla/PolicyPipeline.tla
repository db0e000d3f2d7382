---------------------------- MODULE PolicyPipeline ----------------------------
(***************************************************************************)
(* The way from an observation to the joints: the mode handlers of the     *)
(* control loop number and stamp observations, the inference thread turns  *)
(* them into actions, and the handlers apply, hold and discard actions by  *)
(* policy, epoch, sequence number and age.                                 *)
(*                                                                         *)
(* The mailboxes between the threads are single slots that hold the latest *)
(* packet (LatestTripleBuffer implements LatestMailbox).  Which mode's     *)
(* handler runs next is any: ControlLoop says which ones follow on which.  *)
(* Playback ticks, faults of the data, failing runs and the time they take *)
(* are nondeterministic; the clock `now' never stands at 0, the value that *)
(* means "unset".                                                          *)
(***************************************************************************)
EXTENDS Naturals

CONSTANTS
  Motions,          \* the motion policies there are, besides WALK
  Timeout,          \* action_timeout_ms, 0 for none
  Period,           \* policyPeriodNs
  MaxEpoch,         \* bound: no visit begins at this epoch
  MaxObservations,  \* bound on the sequence numbers since a start
  MaxTime           \* bound on the clock

ASSUME PolicyPipelineAssumption ==
  /\ Motions \subseteq {"DANCE", "DOWN", "UP"}
  /\ Timeout \in Nat /\ Period \in Nat /\ MaxTime \in Nat
  /\ MaxEpoch \in Nat /\ MaxObservations \in Nat

VARIABLES
  async,                 \* async_inference, as configured
  now,                   \* the steady clock
  controllerActive, epoch,     \* controllerActive, policyEpoch
  at,                    \* where the control loop is in the handler
  active,                \* activePolicy_
  sequence, applied,     \* observationSequence_, lastAppliedSequence_
  entryStamp, appliedStamp,    \* policyEntryTimestampNs_, lastAppliedObservationTimestampNs_
  actions,               \* each policy's action vector: the packet it came from
  final, notBefore,      \* finalObservationSequence (0 while not endPending), completionNotBeforeNs
  preparing,             \* upPreparationActive_
  observationBox, actionBox,   \* observationBuffer_, actionBuffer_
  workerAt, job,         \* the inference thread, and the packet that is run
  visit, driven          \* history: visits begun; last sequence number driven in this one

loop == <<active, sequence, applied, entryStamp, appliedStamp, actions>>
playback == <<final, notBefore, preparing>>
inference == <<workerAt, job>>
history == <<visit, driven>>
vars == <<async, now, controllerActive, epoch, at, loop, playback, observationBox,
          actionBox, inference, history>>

Policies == {"WALK"} \cup Motions

\* A policy kind, an epoch, a sequence number and the time of the observation;
\* visit is history.
Packet == [policy: Policies, epoch: Nat, sequence: Nat, stamp: Nat, visit: Nat]
NoPacket == [policy |-> "NONE"]
\* Action packets also say whether the run succeeded.
ActionPacket == [packet: Packet, valid: BOOLEAN]

\* The controller has been started once.
Init ==
  /\ async \in BOOLEAN
  /\ now = 1
  /\ controllerActive = TRUE /\ epoch = 1
  /\ at = "idle" /\ active = "NONE"
  /\ sequence = 0 /\ applied = 0
  /\ entryStamp = 0 /\ appliedStamp = 0
  /\ actions = [p \in Policies |-> NoPacket]
  /\ final = [m \in Motions |-> 0] /\ notBefore = [m \in Motions |-> 0]
  /\ preparing = FALSE
  /\ observationBox = NoPacket /\ actionBox = NoPacket
  /\ workerAt = "loop" /\ job = NoPacket
  /\ visit = 0 /\ driven = 0

Tick ==
  /\ now < MaxTime
  /\ now' = now + 1
  /\ UNCHANGED <<async, controllerActive, epoch, at, loop, playback, observationBox,
                 actionBox, inference, history>>

-----------------------------------------------------------------------------
(* Entering and leaving a policy: enterPolicyMode() and leavePolicyMode(). *)

Handler(from, to) ==
  /\ at = from /\ at' = to
  /\ UNCHANGED <<async, now, controllerActive>>

\* A mutant: a visit keeps the epoch of the one before.
BugEntryEpoch == epoch
EntryEpoch == epoch + 1

\* The handler of policy p is called; a policy that is active is not entered
\* again.  Entry hooks start the motion over, UP's with the preparation.
EnterPolicyMode(p) ==
  /\ Handler("idle", "handle")
  /\ controllerActive
  /\ IF active = p
     THEN UNCHANGED <<epoch, loop, playback, history>>
     ELSE /\ epoch < MaxEpoch
          /\ active' = p
          /\ epoch' = EntryEpoch
          /\ applied' = 0
          /\ entryStamp' = now /\ appliedStamp' = 0
          /\ actions' = [actions EXCEPT ![p] = NoPacket]
          /\ final' = [m \in Motions |-> IF m = p THEN 0 ELSE final[m]]
          /\ notBefore' = [m \in Motions |-> IF m = p THEN 0 ELSE notBefore[m]]
          /\ preparing' = (preparing \/ p = "UP")
          /\ visit' = visit + 1 /\ driven' = 0
          /\ UNCHANGED sequence
  /\ UNCHANGED <<observationBox, actionBox, inference>>

LeavePolicyMode ==
  /\ active' = "NONE"
  /\ epoch' = epoch + 1
  /\ applied' = 0
  /\ entryStamp' = 0 /\ appliedStamp' = 0
  /\ UNCHANGED <<sequence, actions>>

\* A fault of any kind, or a handler of a mode without policy, leaves.
LeaveFor(from) ==
  /\ Handler(from, "idle")
  /\ LeavePolicyMode
  /\ UNCHANGED <<observationBox, actionBox, inference, history>>

LeaveForPose ==
  /\ controllerActive /\ active # "NONE"
  /\ LeaveFor("idle")
  /\ UNCHANGED playback

-----------------------------------------------------------------------------
(* The handlers up to the observation: handleWalkMode(), handleMotionMode(), *)
(* handleUpPreparation().                                                    *)

EndPending == active \in Motions /\ final[active] # 0

\* A mutant: the last action need not have been applied.
BugFinalApplied == TRUE
FinalApplied == applied >= final[active]

CompletionDue == EndPending /\ now >= notBefore[active] /\ FinalApplied

CompleteMotion ==
  /\ CompletionDue
  /\ LeaveFor("handle")
  /\ UNCHANGED playback

\* UP interpolates to its first frame before it infers anything; when it is
\* there, that frame stands in its action vector and the time-out starts over.
PrepareUp ==
  /\ Handler("handle", "idle")
  /\ active = "UP" /\ preparing
  /\ \/ UNCHANGED <<loop, playback>>
     \/ /\ preparing' = FALSE
        /\ entryStamp' = now /\ appliedStamp' = 0
        /\ final' = [final EXCEPT !["UP"] = 0]
        /\ notBefore' = [notBefore EXCEPT !["UP"] = 0]
        /\ UNCHANGED <<active, sequence, applied, actions>>
  /\ UNCHANGED <<epoch, observationBox, actionBox, inference, history>>

PreparationFault ==
  /\ active = "UP" /\ preparing
  /\ LeaveFor("handle")
  /\ preparing' = FALSE
  /\ UNCHANGED <<final, notBefore>>

Playing == active # "NONE" /\ ~(active = "UP" /\ preparing) /\ ~CompletionDue

\* No tick is due, or the motion has submitted its last frame.
SkipTick ==
  /\ Playing
  /\ Handler("handle", IF async THEN "consume" ELSE "drive")
  /\ UNCHANGED <<epoch, loop, playback, observationBox, actionBox, inference, history>>

ObservationFault ==
  /\ Playing /\ ~EndPending
  /\ LeaveFor("handle")
  /\ UNCHANGED playback

Observation ==
  [policy |-> active, epoch |-> epoch, sequence |-> sequence + 1, stamp |-> now,
   visit |-> visit]

\* submitObservation(), or runSynchronousPolicy() as far as the run.  last: the
\* observation is that of the motion's last frame.
SubmitObservation(last) ==
  /\ Playing /\ ~EndPending
  /\ last => active \in Motions
  /\ sequence < MaxObservations
  /\ sequence' = sequence + 1
  /\ IF last
     THEN /\ final' = [final EXCEPT ![active] = sequence + 1]
          /\ notBefore' = [notBefore EXCEPT ![active] = now + Period]
     ELSE UNCHANGED <<final, notBefore>>
  /\ IF async
     THEN /\ Handler("handle", "consume")
          /\ observationBox' = Observation
          /\ UNCHANGED job
     ELSE /\ Handler("handle", "run")
          /\ job' = Observation
          /\ UNCHANGED observationBox
  /\ UNCHANGED <<epoch, active, applied, entryStamp, appliedStamp, actions, preparing,
                 actionBox, workerAt, history>>

-----------------------------------------------------------------------------
(* From the action to the joints. *)

OfThisVisit(p) == p.epoch = epoch /\ p.policy = active

TooOld(stamp) == Timeout > 0 /\ now - stamp > Timeout

\* A mutant: the age is counted from the moment the action is applied.
BugStampApplied(p) == now
StampApplied(p) == p.stamp

\* applyActionPacket(); what it turns down changes nothing.
ApplyActionPacket(p) ==
  IF OfThisVisit(p) /\ p.sequence > applied /\ ~TooOld(p.stamp)
  THEN /\ actions' = [actions EXCEPT ![active] = p]
       /\ applied' = p.sequence
       /\ appliedStamp' = StampApplied(p)
  ELSE UNCHANGED <<actions, applied, appliedStamp>>

ConsumeAction ==
  /\ Handler("consume", "drive")
  /\ actionBox' = NoPacket
  /\ IF actionBox # NoPacket /\ actionBox.valid
     THEN ApplyActionPacket(actionBox.packet)
     ELSE UNCHANGED <<actions, applied, appliedStamp>>
  /\ UNCHANGED <<epoch, active, sequence, entryStamp, playback, observationBox, inference,
                 history>>

\* runSynchronousPolicy() from the run on.
SynchronousRunEnds(ok) ==
  /\ Handler("run", "drive")
  /\ IF ok THEN ApplyActionPacket(job) ELSE UNCHANGED <<actions, applied, appliedStamp>>
  /\ job' = NoPacket
  /\ UNCHANGED <<epoch, active, sequence, entryStamp, playback, observationBox, actionBox,
                 workerAt, history>>

\* A mutant: no time-out before the first action of the visit.
BugActionTimedOut == appliedStamp # 0 /\ TooOld(appliedStamp)
ActionTimedOut == TooOld(IF appliedStamp # 0 THEN appliedStamp ELSE entryStamp)

\* The joints get the action vector, whatever cycle it was applied in.
DriveJoints ==
  /\ Handler("drive", "idle")
  /\ ~ActionTimedOut
  /\ driven' = applied
  /\ UNCHANGED <<epoch, loop, playback, observationBox, actionBox, inference, visit>>

\* A time-out, or an action that is not finite.
ActionFault ==
  /\ LeaveFor("drive")
  /\ UNCHANGED playback

-----------------------------------------------------------------------------
(* The controller manager: stopping() and starting(). *)

\* A mutant: the sequence number applied last survives the restart.
BugAppliedAtStart == applied
AppliedAtStart == 0

StopController ==
  /\ at = "idle" /\ controllerActive
  /\ controllerActive' = FALSE
  /\ epoch' = epoch + 1
  /\ active' = "NONE"
  /\ UNCHANGED <<async, now, at, sequence, applied, entryStamp, appliedStamp, actions,
                 playback, observationBox, actionBox, inference, history>>

StartController ==
  /\ ~controllerActive /\ epoch < MaxEpoch
  /\ controllerActive' = TRUE
  /\ epoch' = epoch + 1
  /\ active' = "NONE"
  /\ preparing' = FALSE
  /\ sequence' = 0 /\ applied' = AppliedAtStart
  /\ entryStamp' = 0 /\ appliedStamp' = 0
  /\ actions' = [p \in Policies |-> NoPacket]
  /\ UNCHANGED <<async, now, at, final, notBefore, observationBox, actionBox, inference,
                 history>>

-----------------------------------------------------------------------------
(* The inference thread: inferenceLoop(). *)

Worker(from, to) ==
  /\ async
  /\ workerAt = from /\ workerAt' = to
  /\ UNCHANGED <<async, now, controllerActive, epoch, at, loop, playback, history>>

LookActive ==
  /\ controllerActive
  /\ Worker("loop", "take")
  /\ UNCHANGED <<observationBox, actionBox, job>>

TakeObservation ==
  /\ Worker("take", IF observationBox = NoPacket THEN "loop" ELSE "gate")
  /\ job' = observationBox
  /\ observationBox' = NoPacket
  /\ UNCHANGED actionBox

\* An observation of a visit that is over is not worth a run.
DropOrRun ==
  /\ Worker("gate", IF controllerActive /\ job.epoch = epoch THEN "run" ELSE "loop")
  /\ job' = IF controllerActive /\ job.epoch = epoch THEN job ELSE NoPacket
  /\ UNCHANGED <<observationBox, actionBox>>

PublishAction(ok) ==
  /\ Worker("run", "loop")
  /\ actionBox' = [packet |-> job, valid |-> ok]
  /\ job' = NoPacket
  /\ UNCHANGED observationBox

-----------------------------------------------------------------------------
HandlerStep ==
  \/ \E p \in Policies : EnterPolicyMode(p)
  \/ LeaveForPose
  \/ CompleteMotion \/ PrepareUp \/ PreparationFault \/ SkipTick \/ ObservationFault
  \/ \E last \in BOOLEAN : SubmitObservation(last)
  \/ ConsumeAction
  \/ \E ok \in BOOLEAN : SynchronousRunEnds(ok)
  \/ DriveJoints \/ ActionFault

WorkerStep ==
  \/ LookActive \/ TakeObservation \/ DropOrRun
  \/ \E ok \in BOOLEAN : PublishAction(ok)

Next == Tick \/ HandlerStep \/ StopController \/ StartController \/ WorkerStep

Spec == Init /\ [][Next]_vars

\* Time passes and the control loop keeps calling handlers (a run inside update()
\* returns).  Nothing is assumed of the inference thread.
FairSpec == Spec /\ WF_vars(Tick) /\ WF_vars(HandlerStep)

-----------------------------------------------------------------------------
(* Properties. *)

\* The numbers and stamps of the control loop, the packets wherever they are.
LoopTypes ==
  /\ async \in BOOLEAN /\ now \in Nat \ {0}
  /\ controllerActive \in BOOLEAN /\ epoch \in Nat
  /\ at \in {"idle", "handle", "run", "consume", "drive"}
  /\ active \in {"NONE"} \cup Policies
  /\ sequence \in Nat /\ applied \in 0..sequence
  /\ entryStamp \in 0..now /\ appliedStamp \in 0..now
  /\ visit \in Nat /\ driven \in Nat
PlaybackTypes ==
  /\ final \in [Motions -> Nat] /\ notBefore \in [Motions -> Nat]
  /\ preparing \in BOOLEAN
PacketTypes ==
  /\ actions \in [Policies -> Packet \cup {NoPacket}]
  /\ observationBox \in Packet \cup {NoPacket}
  /\ actionBox \in ActionPacket \cup {NoPacket}
  /\ job \in Packet \cup {NoPacket}
  /\ workerAt \in {"loop", "take", "gate", "run"}

\* Every variable keeps its type; the last number applied has been given out.
TypeOK == LoopTypes /\ PlaybackTypes /\ PacketTypes

\* The joints are only driven by an action computed for the policy that is
\* active from an observation of this visit of it, or by what its entry has put
\* there: a run that outlives its visit, a stop or a restart of the controller
\* never reaches the joints, although numbers start over and policies come back.
DrivenByThisVisit ==
  at = "drive" /\ actions[active] # NoPacket =>
    actions[active].policy = active /\ actions[active].visit = visit

\* The joints are never driven by an action whose observation is older than the
\* time-out, nor for longer than it without any action, even if the inference
\* thread hangs or keeps failing.
NoStaleAction ==
  [][DriveJoints /\ Timeout > 0 =>
       now - (IF actions[active] = NoPacket THEN entryStamp ELSE actions[active].stamp)
         <= Timeout]_vars

\* A motion is completed only after the joints have been driven by the action of
\* its last frame, in this visit.
CompletionDrivesLastFrame == [][CompleteMotion => driven = final[active]]_vars

\* With a time-out, a motion that has submitted its last frame ends, whatever
\* becomes of that frame's action (within the horizon of the bounded clock).
MotionsEnd ==
  \A m \in Motions :
    active = m /\ EndPending /\ now + Timeout < MaxTime /\ now + Period <= MaxTime
      ~> active # m
=============================================================================
