------------------------ MODULE PolicyPipelineProofs ------------------------
(***************************************************************************)
(* Proofs about PolicyPipeline for every time-out, period and bound: no    *)
(* action of an earlier visit and no stale one reaches the joints, and a   *)
(* motion is completed only by its last frame.                             *)
(*                                                                         *)
(* The epoch alone does not say this.  The invariant says that a packet    *)
(* that carries the present epoch was observed in the present visit, and   *)
(* keeps the books of the control loop: the action vector of the active    *)
(* policy, the number and the stamp applied last belong together.          *)
(***************************************************************************)
EXTENDS PolicyPipeline, TLAPS

\* A packet is not from the future, and one of this epoch is of this visit.
Bound(p) ==
  /\ p.epoch <= epoch
  /\ p.stamp \in 1..now
  /\ p.epoch = epoch => p.policy = active /\ p.visit = visit /\ p.sequence <= sequence

PacketsAreBound ==
  /\ observationBox # NoPacket => Bound(observationBox)
  /\ actionBox # NoPacket => Bound(actionBox.packet)
  /\ job # NoPacket => Bound(job)

\* Whoever runs a policy has a packet, and only one side does.
RunsHavePackets ==
  /\ at = "run" => ~async /\ job # NoPacket
  /\ workerAt # "loop" => async
  /\ workerAt \in {"gate", "run"} => job # NoPacket

\* The action vector of the active policy and what is remembered of it.
BooksMatch ==
  /\ at # "idle" => active # "NONE" /\ controllerActive
  /\ active # "NONE" /\ actions[active] # NoPacket =>
       /\ actions[active].policy = active
       /\ actions[active].visit = visit
       /\ actions[active].stamp = appliedStamp
       /\ appliedStamp # 0
  /\ active # "NONE" /\ actions[active] = NoPacket => appliedStamp = 0
  /\ active = "UP" /\ preparing => actions[active] = NoPacket /\ at \in {"idle", "handle"}
  /\ active # "NONE" => entryStamp # 0

\* Between cycles the last action applied is the one driven, and a motion that
\* has submitted its last frame submits no other.
LastFrameIsLast ==
  /\ at \in {"idle", "handle"} /\ active # "NONE" => driven = applied
  /\ EndPending => final[active] = sequence

IInv == TypeOK /\ PacketsAreBound /\ RunsHavePackets /\ BooksMatch /\ LastFrameIsLast


-----------------------------------------------------------------------------
\* NoPacket is not a packet.
LEMMA PacketsAreNamed ==
  /\ NoPacket \notin Packet /\ NoPacket \notin ActionPacket
  /\ "NONE" \notin Policies
BY PolicyPipelineAssumption DEF Packet, ActionPacket, NoPacket, Policies

LEMMA InitIInv == Init => IInv
<1> SUFFICES ASSUME Init PROVE IInv
  OBVIOUS
<1> USE PolicyPipelineAssumption, PacketsAreNamed DEF Init
<1>1. LoopTypes /\ PlaybackTypes
  <2>1. controllerActive \in BOOLEAN /\ preparing \in BOOLEAN
    OBVIOUS
  <2>2. QED
    BY <2>1 DEF LoopTypes, PlaybackTypes
<1>2. PacketTypes
  BY DEF PacketTypes
<1>3. PacketsAreBound /\ RunsHavePackets /\ BooksMatch
  BY DEF PacketsAreBound, RunsHavePackets, BooksMatch
<1>4. LastFrameIsLast
  BY DEF LastFrameIsLast, EndPending, Policies
<1>5. QED
  BY <1>1, <1>2, <1>3, <1>4 DEF IInv, TypeOK

\* Time only makes packets older.
LEMMA ClockKeeps ==
  IInv /\ Tick => IInv'
<1> USE PolicyPipelineAssumption, PacketsAreNamed
    DEF IInv, TypeOK, loop, playback, inference, history

<1>1. ASSUME IInv, Tick PROVE IInv'
  <2> USE <1>1 DEF Tick
  <2>1. LoopTypes'
    BY DEF LoopTypes, PacketTypes, Packet, ActionPacket, PacketsAreBound, Bound,
           RunsHavePackets, BooksMatch
  <2>2. PlaybackTypes'
    BY DEF PlaybackTypes, LoopTypes, Policies, EndPending
  <2>3. PacketTypes'
    BY DEF PacketTypes, LoopTypes, Packet, ActionPacket, RunsHavePackets
  <2>4. PacketsAreBound'
    BY DEF PacketsAreBound, Bound, LoopTypes, PacketTypes, Packet, ActionPacket,
           RunsHavePackets
  <2>5. RunsHavePackets'
    BY DEF RunsHavePackets, PacketTypes
  <2>6. BooksMatch'
    BY DEF BooksMatch, PacketsAreBound, Bound, LoopTypes, PacketTypes, Packet,
           ActionPacket, RunsHavePackets, Policies
  <2>7. LastFrameIsLast'
    BY DEF LastFrameIsLast, EndPending, LoopTypes, PlaybackTypes, BooksMatch, Policies
  <2>8. QED
    BY <2>1, <2>2, <2>3, <2>4, <2>5, <2>6, <2>7

<1>2. QED
  BY <1>1

\* Beginning and ending a visit: the epoch leaves every packet behind.
LEMMA VisitsKeep ==
  IInv /\ ((\E p \in Policies : EnterPolicyMode(p)) \/ LeaveForPose \/ CompleteMotion \/
      PreparationFault \/ ObservationFault \/ ActionFault \/ StopController \/
      StartController)
  => IInv'
<1> USE PolicyPipelineAssumption, PacketsAreNamed
    DEF IInv, TypeOK, loop, playback, inference, history

<1>1. ASSUME IInv, NEW p \in Policies, EnterPolicyMode(p) PROVE IInv'
  <2> USE <1>1 DEF EnterPolicyMode, EntryEpoch, Handler
  <2>1. LoopTypes'
    BY DEF LoopTypes, PacketTypes, Packet, ActionPacket, PacketsAreBound, Bound,
           RunsHavePackets, BooksMatch
  <2>2. PlaybackTypes'
    <3>1. CASE active = p
      BY <3>1 DEF PlaybackTypes
    <3>2. CASE active # p
      <4>1. preparing' \in BOOLEAN
        BY <3>2, Zenon
      <4>2. final' \in [Motions -> Nat] /\ notBefore' \in [Motions -> Nat]
        BY <3>2 DEF PlaybackTypes
      <4>3. QED
        BY <4>1, <4>2 DEF PlaybackTypes
    <3>3. QED
      BY <3>1, <3>2
  <2>3. PacketTypes'
    BY DEF PacketTypes, LoopTypes, Packet, ActionPacket, RunsHavePackets
  <2>4. PacketsAreBound'
    BY DEF PacketsAreBound, Bound, LoopTypes, PacketTypes, Packet, ActionPacket,
           RunsHavePackets
  <2>5. RunsHavePackets'
    BY DEF RunsHavePackets, PacketTypes
  <2>6. BooksMatch'
    BY DEF BooksMatch, PacketsAreBound, Bound, LoopTypes, PacketTypes, Packet,
           ActionPacket, RunsHavePackets, Policies
  <2>7. LastFrameIsLast'
    BY DEF LastFrameIsLast, EndPending, LoopTypes, PlaybackTypes, BooksMatch, Policies
  <2>8. QED
    BY <2>1, <2>2, <2>3, <2>4, <2>5, <2>6, <2>7

<1>2. ASSUME IInv, LeaveForPose PROVE IInv'
  <2> USE <1>2 DEF LeaveForPose, LeaveFor, LeavePolicyMode, Handler
  <2>1. LoopTypes'
    BY DEF LoopTypes, PacketTypes, Packet, ActionPacket, PacketsAreBound, Bound,
           RunsHavePackets, BooksMatch
  <2>2. PlaybackTypes'
    BY DEF PlaybackTypes, LoopTypes, Policies, EndPending
  <2>3. PacketTypes'
    BY DEF PacketTypes, LoopTypes, Packet, ActionPacket, RunsHavePackets
  <2>4. PacketsAreBound'
    BY DEF PacketsAreBound, Bound, LoopTypes, PacketTypes, Packet, ActionPacket,
           RunsHavePackets
  <2>5. RunsHavePackets'
    BY DEF RunsHavePackets, PacketTypes
  <2>6. BooksMatch'
    BY DEF BooksMatch, PacketsAreBound, Bound, LoopTypes, PacketTypes, Packet,
           ActionPacket, RunsHavePackets, Policies
  <2>7. LastFrameIsLast'
    BY DEF LastFrameIsLast, EndPending, LoopTypes, PlaybackTypes, BooksMatch, Policies
  <2>8. QED
    BY <2>1, <2>2, <2>3, <2>4, <2>5, <2>6, <2>7

<1>3. ASSUME IInv, CompleteMotion PROVE IInv'
  <2> USE <1>3 DEF CompleteMotion, LeaveFor, LeavePolicyMode, Handler
  <2>1. LoopTypes'
    BY DEF LoopTypes, PacketTypes, Packet, ActionPacket, PacketsAreBound, Bound,
           RunsHavePackets, BooksMatch
  <2>2. PlaybackTypes'
    BY DEF PlaybackTypes, LoopTypes, Policies, EndPending
  <2>3. PacketTypes'
    BY DEF PacketTypes, LoopTypes, Packet, ActionPacket, RunsHavePackets
  <2>4. PacketsAreBound'
    BY DEF PacketsAreBound, Bound, LoopTypes, PacketTypes, Packet, ActionPacket,
           RunsHavePackets
  <2>5. RunsHavePackets'
    BY DEF RunsHavePackets, PacketTypes
  <2>6. BooksMatch'
    BY DEF BooksMatch, PacketsAreBound, Bound, LoopTypes, PacketTypes, Packet,
           ActionPacket, RunsHavePackets, Policies
  <2>7. LastFrameIsLast'
    BY DEF LastFrameIsLast, EndPending, LoopTypes, PlaybackTypes, BooksMatch, Policies
  <2>8. QED
    BY <2>1, <2>2, <2>3, <2>4, <2>5, <2>6, <2>7

<1>4. ASSUME IInv, PreparationFault PROVE IInv'
  <2> USE <1>4 DEF PreparationFault, LeaveFor, LeavePolicyMode, Handler
  <2>1. LoopTypes'
    BY DEF LoopTypes, PacketTypes, Packet, ActionPacket, PacketsAreBound, Bound,
           RunsHavePackets, BooksMatch
  <2>2. PlaybackTypes'
    BY DEF PlaybackTypes, LoopTypes, Policies, EndPending
  <2>3. PacketTypes'
    BY DEF PacketTypes, LoopTypes, Packet, ActionPacket, RunsHavePackets
  <2>4. PacketsAreBound'
    BY DEF PacketsAreBound, Bound, LoopTypes, PacketTypes, Packet, ActionPacket,
           RunsHavePackets
  <2>5. RunsHavePackets'
    BY DEF RunsHavePackets, PacketTypes
  <2>6. BooksMatch'
    BY DEF BooksMatch, PacketsAreBound, Bound, LoopTypes, PacketTypes, Packet,
           ActionPacket, RunsHavePackets, Policies
  <2>7. LastFrameIsLast'
    BY DEF LastFrameIsLast, EndPending, LoopTypes, PlaybackTypes, BooksMatch, Policies
  <2>8. QED
    BY <2>1, <2>2, <2>3, <2>4, <2>5, <2>6, <2>7

<1>5. ASSUME IInv, ObservationFault PROVE IInv'
  <2> USE <1>5 DEF ObservationFault, LeaveFor, LeavePolicyMode, Handler
  <2>1. LoopTypes'
    BY DEF LoopTypes, PacketTypes, Packet, ActionPacket, PacketsAreBound, Bound,
           RunsHavePackets, BooksMatch
  <2>2. PlaybackTypes'
    BY DEF PlaybackTypes, LoopTypes, Policies, EndPending
  <2>3. PacketTypes'
    BY DEF PacketTypes, LoopTypes, Packet, ActionPacket, RunsHavePackets
  <2>4. PacketsAreBound'
    BY DEF PacketsAreBound, Bound, LoopTypes, PacketTypes, Packet, ActionPacket,
           RunsHavePackets
  <2>5. RunsHavePackets'
    BY DEF RunsHavePackets, PacketTypes
  <2>6. BooksMatch'
    BY DEF BooksMatch, PacketsAreBound, Bound, LoopTypes, PacketTypes, Packet,
           ActionPacket, RunsHavePackets, Policies
  <2>7. LastFrameIsLast'
    BY DEF LastFrameIsLast, EndPending, LoopTypes, PlaybackTypes, BooksMatch, Policies
  <2>8. QED
    BY <2>1, <2>2, <2>3, <2>4, <2>5, <2>6, <2>7

<1>6. ASSUME IInv, ActionFault PROVE IInv'
  <2> USE <1>6 DEF ActionFault, LeaveFor, LeavePolicyMode, Handler
  <2>1. LoopTypes'
    BY DEF LoopTypes, PacketTypes, Packet, ActionPacket, PacketsAreBound, Bound,
           RunsHavePackets, BooksMatch
  <2>2. PlaybackTypes'
    BY DEF PlaybackTypes, LoopTypes, Policies, EndPending
  <2>3. PacketTypes'
    BY DEF PacketTypes, LoopTypes, Packet, ActionPacket, RunsHavePackets
  <2>4. PacketsAreBound'
    BY DEF PacketsAreBound, Bound, LoopTypes, PacketTypes, Packet, ActionPacket,
           RunsHavePackets
  <2>5. RunsHavePackets'
    BY DEF RunsHavePackets, PacketTypes
  <2>6. BooksMatch'
    BY DEF BooksMatch, PacketsAreBound, Bound, LoopTypes, PacketTypes, Packet,
           ActionPacket, RunsHavePackets, Policies
  <2>7. LastFrameIsLast'
    BY DEF LastFrameIsLast, EndPending, LoopTypes, PlaybackTypes, BooksMatch, Policies
  <2>8. QED
    BY <2>1, <2>2, <2>3, <2>4, <2>5, <2>6, <2>7

<1>7. ASSUME IInv, StopController PROVE IInv'
  <2> USE <1>7 DEF StopController
  <2>1. LoopTypes'
    <3>1. controllerActive' \in BOOLEAN
      OBVIOUS
    <3>2. QED
      BY <3>1 DEF LoopTypes
  <2>2. PlaybackTypes'
    BY DEF PlaybackTypes, LoopTypes, Policies, EndPending
  <2>3. PacketTypes'
    BY DEF PacketTypes, LoopTypes, Packet, ActionPacket, RunsHavePackets
  <2>4. PacketsAreBound'
    BY DEF PacketsAreBound, Bound, LoopTypes, PacketTypes, Packet, ActionPacket,
           RunsHavePackets
  <2>5. RunsHavePackets'
    BY DEF RunsHavePackets, PacketTypes
  <2>6. BooksMatch'
    BY DEF BooksMatch, PacketsAreBound, Bound, LoopTypes, PacketTypes, Packet,
           ActionPacket, RunsHavePackets, Policies
  <2>7. LastFrameIsLast'
    BY DEF LastFrameIsLast, EndPending, LoopTypes, PlaybackTypes, BooksMatch, Policies
  <2>8. QED
    BY <2>1, <2>2, <2>3, <2>4, <2>5, <2>6, <2>7

<1>8. ASSUME IInv, StartController PROVE IInv'
  <2> USE <1>8 DEF StartController, AppliedAtStart
  <2>1. LoopTypes'
    BY DEF LoopTypes, PacketTypes, Packet, ActionPacket, PacketsAreBound, Bound,
           RunsHavePackets, BooksMatch
  <2>2. PlaybackTypes'
    BY DEF PlaybackTypes, LoopTypes, Policies, EndPending
  <2>3. PacketTypes'
    BY DEF PacketTypes, LoopTypes, Packet, ActionPacket, RunsHavePackets
  <2>4. PacketsAreBound'
    BY DEF PacketsAreBound, Bound, LoopTypes, PacketTypes, Packet, ActionPacket,
           RunsHavePackets
  <2>5. RunsHavePackets'
    BY DEF RunsHavePackets, PacketTypes
  <2>6. BooksMatch'
    BY DEF BooksMatch, PacketsAreBound, Bound, LoopTypes, PacketTypes, Packet,
           ActionPacket, RunsHavePackets, Policies
  <2>7. LastFrameIsLast'
    BY DEF LastFrameIsLast, EndPending, LoopTypes, PlaybackTypes, BooksMatch, Policies
  <2>8. QED
    BY <2>1, <2>2, <2>3, <2>4, <2>5, <2>6, <2>7

<1>9. QED
  BY <1>1, <1>2, <1>3, <1>4, <1>5, <1>6, <1>7, <1>8

\* The handler of an active policy, up to the joints.
LEMMA CyclesKeep ==
  IInv /\ (PrepareUp \/ SkipTick \/ (\E last \in BOOLEAN : SubmitObservation(last)) \/
      ConsumeAction \/ (\E ok \in BOOLEAN : SynchronousRunEnds(ok)) \/ DriveJoints)
  => IInv'
<1> USE PolicyPipelineAssumption, PacketsAreNamed
    DEF IInv, TypeOK, loop, playback, inference, history

<1>1. ASSUME IInv, PrepareUp PROVE IInv'
  <2> USE <1>1 DEF PrepareUp, Handler
  <2>1. LoopTypes'
    <3>1. CASE UNCHANGED <<loop, playback>>
      BY <3>1 DEF LoopTypes
    <3>2. CASE preparing' = FALSE /\ entryStamp' = now /\ appliedStamp' = 0
                 /\ UNCHANGED <<active, sequence, applied, actions>>
      BY <3>2 DEF LoopTypes
    <3>3. QED
      BY <3>1, <3>2
  <2>2. PlaybackTypes'
    <3>1. CASE UNCHANGED <<loop, playback>>
      BY <3>1 DEF PlaybackTypes
    <3>2. CASE preparing' = FALSE /\ final' = [final EXCEPT !["UP"] = 0]
                 /\ notBefore' = [notBefore EXCEPT !["UP"] = 0]
      BY <3>2 DEF PlaybackTypes
    <3>3. QED
      BY <3>1, <3>2
  <2>3. PacketTypes'
    BY DEF PacketTypes, LoopTypes, Packet, ActionPacket, RunsHavePackets
  <2>4. PacketsAreBound'
    BY DEF PacketsAreBound, Bound, LoopTypes, PacketTypes, Packet, ActionPacket,
           RunsHavePackets
  <2>5. RunsHavePackets'
    BY DEF RunsHavePackets, PacketTypes
  <2>6. BooksMatch'
    BY DEF BooksMatch, PacketsAreBound, Bound, LoopTypes, PacketTypes, Packet,
           ActionPacket, RunsHavePackets, Policies
  <2>7. LastFrameIsLast'
    BY DEF LastFrameIsLast, EndPending, LoopTypes, PlaybackTypes, BooksMatch, Policies
  <2>8. QED
    BY <2>1, <2>2, <2>3, <2>4, <2>5, <2>6, <2>7

<1>2. ASSUME IInv, SkipTick PROVE IInv'
  <2> USE <1>2 DEF SkipTick, Playing, Handler
  <2>1. LoopTypes'
    BY DEF LoopTypes, PacketTypes, Packet, ActionPacket, PacketsAreBound, Bound,
           RunsHavePackets, BooksMatch
  <2>2. PlaybackTypes'
    BY DEF PlaybackTypes, LoopTypes, Policies, EndPending
  <2>3. PacketTypes'
    BY DEF PacketTypes, LoopTypes, Packet, ActionPacket, RunsHavePackets
  <2>4. PacketsAreBound'
    BY DEF PacketsAreBound, Bound, LoopTypes, PacketTypes, Packet, ActionPacket,
           RunsHavePackets
  <2>5. RunsHavePackets'
    BY DEF RunsHavePackets, PacketTypes
  <2>6. BooksMatch'
    BY DEF BooksMatch, PacketsAreBound, Bound, LoopTypes, PacketTypes, Packet,
           ActionPacket, RunsHavePackets, Policies
  <2>7. LastFrameIsLast'
    BY DEF LastFrameIsLast, EndPending, LoopTypes, PlaybackTypes, BooksMatch, Policies
  <2>8. QED
    BY <2>1, <2>2, <2>3, <2>4, <2>5, <2>6, <2>7

<1>3. ASSUME IInv, NEW last \in BOOLEAN, SubmitObservation(last) PROVE IInv'
  <2> USE <1>3 DEF SubmitObservation, Observation, Playing, Handler
  <2>1. LoopTypes'
    BY DEF LoopTypes, PacketTypes, Packet, ActionPacket, PacketsAreBound, Bound,
           RunsHavePackets, BooksMatch
  <2>2. PlaybackTypes'
    BY DEF PlaybackTypes, LoopTypes, Policies, EndPending
  <2>3. PacketTypes'
    BY DEF PacketTypes, LoopTypes, Packet, ActionPacket, RunsHavePackets
  <2>4. PacketsAreBound'
    BY DEF PacketsAreBound, Bound, LoopTypes, PacketTypes, Packet, ActionPacket,
           RunsHavePackets
  <2>5. RunsHavePackets'
    <3>1. CASE async
      BY <3>1 DEF RunsHavePackets
    <3>2. CASE ~async
      <4>1. active \in Policies
        BY DEF LoopTypes
      <4>2. job' \in Packet
        BY <3>2, <4>1 DEF Packet, LoopTypes
      <4>3. QED
        BY <3>2, <4>2 DEF RunsHavePackets
    <3>3. QED
      BY <3>1, <3>2
  <2>6. BooksMatch'
    BY DEF BooksMatch, PacketsAreBound, Bound, LoopTypes, PacketTypes, Packet,
           ActionPacket, RunsHavePackets, Policies
  <2>7. LastFrameIsLast'
    BY DEF LastFrameIsLast, EndPending, LoopTypes, PlaybackTypes, BooksMatch, Policies
  <2>8. QED
    BY <2>1, <2>2, <2>3, <2>4, <2>5, <2>6, <2>7

<1>4. ASSUME IInv, ConsumeAction PROVE IInv'
  <2> USE <1>4 DEF ConsumeAction, Handler, ApplyActionPacket, OfThisVisit, StampApplied
  <2>1. LoopTypes'
    BY DEF LoopTypes, PacketTypes, Packet, ActionPacket, PacketsAreBound, Bound,
           RunsHavePackets, BooksMatch
  <2>2. PlaybackTypes'
    BY DEF PlaybackTypes, LoopTypes, Policies, EndPending
  <2>3. PacketTypes'
    BY DEF PacketTypes, LoopTypes, Packet, ActionPacket, RunsHavePackets
  <2>4. PacketsAreBound'
    BY DEF PacketsAreBound, Bound, LoopTypes, PacketTypes, Packet, ActionPacket,
           RunsHavePackets
  <2>5. RunsHavePackets'
    BY DEF RunsHavePackets, PacketTypes
  <2>6. BooksMatch'
    <3>1. CASE UNCHANGED <<actions, applied, appliedStamp>>
      BY <3>1 DEF BooksMatch
    <3>2. CASE actions' # actions \/ applied' # applied \/ appliedStamp' # appliedStamp
      <4> DEFINE p == actionBox.packet
      <4>1. p \in Packet /\ Bound(p) /\ OfThisVisit(p)
        BY <3>2 DEF PacketsAreBound, PacketTypes, ActionPacket, RunsHavePackets, OfThisVisit
      <4>2. actions' = [actions EXCEPT ![active] = p] /\ appliedStamp' = p.stamp
        BY <3>2
      <4>3. active \in Policies /\ active' = active /\ p.stamp # 0 /\ p.visit = visit
        BY <4>1 DEF BooksMatch, LoopTypes, Bound
      <4>4. actions'[active] = p /\ p # NoPacket /\ p.policy = active
        BY <4>1, <4>2, <4>3 DEF PacketTypes
      <4>5. ~(active = "UP" /\ preparing)
        BY DEF BooksMatch
      <4>6. QED
        BY <4>1, <4>2, <4>3, <4>4, <4>5 DEF BooksMatch
    <3>3. QED
      BY <3>1, <3>2
  <2>7. LastFrameIsLast'
    BY DEF LastFrameIsLast, EndPending, LoopTypes, PlaybackTypes, BooksMatch, Policies
  <2>8. QED
    BY <2>1, <2>2, <2>3, <2>4, <2>5, <2>6, <2>7

<1>5. ASSUME IInv, NEW ok \in BOOLEAN, SynchronousRunEnds(ok) PROVE IInv'
  <2> USE <1>5 DEF SynchronousRunEnds, Handler, ApplyActionPacket, OfThisVisit, StampApplied
  <2>1. LoopTypes'
    BY DEF LoopTypes, PacketTypes, Packet, ActionPacket, PacketsAreBound, Bound,
           RunsHavePackets, BooksMatch
  <2>2. PlaybackTypes'
    BY DEF PlaybackTypes, LoopTypes, Policies, EndPending
  <2>3. PacketTypes'
    BY DEF PacketTypes, LoopTypes, Packet, ActionPacket, RunsHavePackets
  <2>4. PacketsAreBound'
    BY DEF PacketsAreBound, Bound, LoopTypes, PacketTypes, Packet, ActionPacket,
           RunsHavePackets
  <2>5. RunsHavePackets'
    BY DEF RunsHavePackets, PacketTypes
  <2>6. BooksMatch'
    <3>1. CASE UNCHANGED <<actions, applied, appliedStamp>>
      BY <3>1 DEF BooksMatch
    <3>2. CASE actions' # actions \/ applied' # applied \/ appliedStamp' # appliedStamp
      <4> DEFINE p == job
      <4>1. p \in Packet /\ Bound(p) /\ OfThisVisit(p)
        BY <3>2 DEF PacketsAreBound, PacketTypes, ActionPacket, RunsHavePackets, OfThisVisit
      <4>2. actions' = [actions EXCEPT ![active] = p] /\ appliedStamp' = p.stamp
        BY <3>2
      <4>3. active \in Policies /\ active' = active /\ p.stamp # 0 /\ p.visit = visit
        BY <4>1 DEF BooksMatch, LoopTypes, Bound
      <4>4. actions'[active] = p /\ p # NoPacket /\ p.policy = active
        BY <4>1, <4>2, <4>3 DEF PacketTypes
      <4>5. ~(active = "UP" /\ preparing)
        BY DEF BooksMatch
      <4>6. QED
        BY <4>1, <4>2, <4>3, <4>4, <4>5 DEF BooksMatch
    <3>3. QED
      BY <3>1, <3>2
  <2>7. LastFrameIsLast'
    BY DEF LastFrameIsLast, EndPending, LoopTypes, PlaybackTypes, BooksMatch, Policies
  <2>8. QED
    BY <2>1, <2>2, <2>3, <2>4, <2>5, <2>6, <2>7

<1>6. ASSUME IInv, DriveJoints PROVE IInv'
  <2> USE <1>6 DEF DriveJoints, Handler
  <2>1. LoopTypes'
    BY DEF LoopTypes, PacketTypes, Packet, ActionPacket, PacketsAreBound, Bound,
           RunsHavePackets, BooksMatch
  <2>2. PlaybackTypes'
    BY DEF PlaybackTypes, LoopTypes, Policies, EndPending
  <2>3. PacketTypes'
    BY DEF PacketTypes, LoopTypes, Packet, ActionPacket, RunsHavePackets
  <2>4. PacketsAreBound'
    BY DEF PacketsAreBound, Bound, LoopTypes, PacketTypes, Packet, ActionPacket,
           RunsHavePackets
  <2>5. RunsHavePackets'
    BY DEF RunsHavePackets, PacketTypes
  <2>6. BooksMatch'
    BY DEF BooksMatch, PacketsAreBound, Bound, LoopTypes, PacketTypes, Packet,
           ActionPacket, RunsHavePackets, Policies
  <2>7. LastFrameIsLast'
    BY DEF LastFrameIsLast, EndPending, LoopTypes, PlaybackTypes, BooksMatch, Policies
  <2>8. QED
    BY <2>1, <2>2, <2>3, <2>4, <2>5, <2>6, <2>7

<1>7. QED
  BY <1>1, <1>2, <1>3, <1>4, <1>5, <1>6

\* The inference thread moves packets and changes nothing in them.
LEMMA WorkerKeeps ==
  IInv /\ (LookActive \/ TakeObservation \/ DropOrRun \/ (\E ok \in BOOLEAN :
      PublishAction(ok)))
  => IInv'
<1> USE PolicyPipelineAssumption, PacketsAreNamed
    DEF IInv, TypeOK, loop, playback, inference, history

<1>1. ASSUME IInv, LookActive PROVE IInv'
  <2> USE <1>1 DEF LookActive, Worker
  <2>1. LoopTypes'
    BY DEF LoopTypes, PacketTypes, Packet, ActionPacket, PacketsAreBound, Bound,
           RunsHavePackets, BooksMatch
  <2>2. PlaybackTypes'
    BY DEF PlaybackTypes, LoopTypes, Policies, EndPending
  <2>3. PacketTypes'
    BY DEF PacketTypes, LoopTypes, Packet, ActionPacket, RunsHavePackets
  <2>4. PacketsAreBound'
    BY DEF PacketsAreBound, Bound, LoopTypes, PacketTypes, Packet, ActionPacket,
           RunsHavePackets
  <2>5. RunsHavePackets'
    BY DEF RunsHavePackets, PacketTypes
  <2>6. BooksMatch'
    BY DEF BooksMatch, PacketsAreBound, Bound, LoopTypes, PacketTypes, Packet,
           ActionPacket, RunsHavePackets, Policies
  <2>7. LastFrameIsLast'
    BY DEF LastFrameIsLast, EndPending, LoopTypes, PlaybackTypes, BooksMatch, Policies
  <2>8. QED
    BY <2>1, <2>2, <2>3, <2>4, <2>5, <2>6, <2>7

<1>2. ASSUME IInv, TakeObservation PROVE IInv'
  <2> USE <1>2 DEF TakeObservation, Worker
  <2>1. LoopTypes'
    BY DEF LoopTypes, PacketTypes, Packet, ActionPacket, PacketsAreBound, Bound,
           RunsHavePackets, BooksMatch
  <2>2. PlaybackTypes'
    BY DEF PlaybackTypes, LoopTypes, Policies, EndPending
  <2>3. PacketTypes'
    BY DEF PacketTypes, LoopTypes, Packet, ActionPacket, RunsHavePackets
  <2>4. PacketsAreBound'
    BY DEF PacketsAreBound, Bound, LoopTypes, PacketTypes, Packet, ActionPacket,
           RunsHavePackets
  <2>5. RunsHavePackets'
    BY DEF RunsHavePackets, PacketTypes
  <2>6. BooksMatch'
    BY DEF BooksMatch, PacketsAreBound, Bound, LoopTypes, PacketTypes, Packet,
           ActionPacket, RunsHavePackets, Policies
  <2>7. LastFrameIsLast'
    BY DEF LastFrameIsLast, EndPending, LoopTypes, PlaybackTypes, BooksMatch, Policies
  <2>8. QED
    BY <2>1, <2>2, <2>3, <2>4, <2>5, <2>6, <2>7

<1>3. ASSUME IInv, DropOrRun PROVE IInv'
  <2> USE <1>3 DEF DropOrRun, Worker
  <2>1. LoopTypes'
    BY DEF LoopTypes, PacketTypes, Packet, ActionPacket, PacketsAreBound, Bound,
           RunsHavePackets, BooksMatch
  <2>2. PlaybackTypes'
    BY DEF PlaybackTypes, LoopTypes, Policies, EndPending
  <2>3. PacketTypes'
    BY DEF PacketTypes, LoopTypes, Packet, ActionPacket, RunsHavePackets
  <2>4. PacketsAreBound'
    BY DEF PacketsAreBound, Bound, LoopTypes, PacketTypes, Packet, ActionPacket,
           RunsHavePackets
  <2>5. RunsHavePackets'
    BY DEF RunsHavePackets, PacketTypes
  <2>6. BooksMatch'
    BY DEF BooksMatch, PacketsAreBound, Bound, LoopTypes, PacketTypes, Packet,
           ActionPacket, RunsHavePackets, Policies
  <2>7. LastFrameIsLast'
    BY DEF LastFrameIsLast, EndPending, LoopTypes, PlaybackTypes, BooksMatch, Policies
  <2>8. QED
    BY <2>1, <2>2, <2>3, <2>4, <2>5, <2>6, <2>7

<1>4. ASSUME IInv, NEW ok \in BOOLEAN, PublishAction(ok) PROVE IInv'
  <2> USE <1>4 DEF PublishAction, Worker
  <2>1. LoopTypes'
    BY DEF LoopTypes, PacketTypes, Packet, ActionPacket, PacketsAreBound, Bound,
           RunsHavePackets, BooksMatch
  <2>2. PlaybackTypes'
    BY DEF PlaybackTypes, LoopTypes, Policies, EndPending
  <2>3. PacketTypes'
    BY DEF PacketTypes, LoopTypes, Packet, ActionPacket, RunsHavePackets
  <2>4. PacketsAreBound'
    BY DEF PacketsAreBound, Bound, LoopTypes, PacketTypes, Packet, ActionPacket,
           RunsHavePackets
  <2>5. RunsHavePackets'
    BY DEF RunsHavePackets, PacketTypes
  <2>6. BooksMatch'
    BY DEF BooksMatch, PacketsAreBound, Bound, LoopTypes, PacketTypes, Packet,
           ActionPacket, RunsHavePackets, Policies
  <2>7. LastFrameIsLast'
    BY DEF LastFrameIsLast, EndPending, LoopTypes, PlaybackTypes, BooksMatch, Policies
  <2>8. QED
    BY <2>1, <2>2, <2>3, <2>4, <2>5, <2>6, <2>7

<1>5. QED
  BY <1>1, <1>2, <1>3, <1>4

-----------------------------------------------------------------------------
LEMMA StepIInv == IInv /\ [Next]_vars => IInv'
<1> SUFFICES ASSUME IInv, [Next]_vars PROVE IInv'
  OBVIOUS
<1>1. CASE HandlerStep
  BY <1>1, VisitsKeep, CyclesKeep DEF HandlerStep
<1>2. CASE WorkerStep
  BY <1>2, WorkerKeeps DEF WorkerStep
<1>3. CASE Tick \/ StopController \/ StartController
  BY <1>3, ClockKeeps, VisitsKeep
<1>4. CASE UNCHANGED vars
  BY <1>4
     DEF vars, loop, playback, inference, history, IInv, TypeOK, LoopTypes, PlaybackTypes,
         PacketTypes, PacketsAreBound, Bound, RunsHavePackets, BooksMatch, LastFrameIsLast,
         EndPending
<1>5. QED
  BY <1>1, <1>2, <1>3, <1>4 DEF Next

LEMMA AlwaysIInv == Spec => []IInv
BY InitIInv, StepIInv, PTL DEF Spec

-----------------------------------------------------------------------------
\* Every variable keeps its type, for every choice of the constants.
THEOREM TypeCorrect == Spec => []TypeOK
<1>1. IInv => TypeOK
  BY DEF IInv
<1>2. QED
  BY <1>1, AlwaysIInv, PTL

\* No action of another policy or of an earlier visit ever drives the joints.
THEOREM VisitsAreSeparate == Spec => []DrivenByThisVisit
<1>1. IInv => DrivenByThisVisit
  BY DEF IInv, BooksMatch, DrivenByThisVisit
<1>2. QED
  BY <1>1, AlwaysIInv, PTL

\* The joints are never driven on an observation older than the time-out.
THEOREM ActionsAreFresh == Spec => NoStaleAction
<1>1. IInv /\ DriveJoints /\ Timeout > 0 =>
        now - (IF actions[active] = NoPacket THEN entryStamp ELSE actions[active].stamp)
          <= Timeout
  BY PolicyPipelineAssumption
     DEF IInv, TypeOK, LoopTypes, BooksMatch, DriveJoints, Handler, ActionTimedOut, TooOld
<1>2. IInv /\ [Next]_vars =>
        [DriveJoints /\ Timeout > 0 =>
           now - (IF actions[active] = NoPacket THEN entryStamp ELSE actions[active].stamp)
             <= Timeout]_vars
  BY <1>1
<1>3. QED
  BY <1>2, AlwaysIInv, PTL DEF Spec, NoStaleAction

\* A motion is completed only after its last frame's action drove the joints.
THEOREM LastFramesAreDriven == Spec => CompletionDrivesLastFrame
<1>1. IInv /\ CompleteMotion => driven = final[active]
  BY PolicyPipelineAssumption, PacketsAreNamed
     DEF IInv, TypeOK, LoopTypes, PlaybackTypes, BooksMatch, LastFrameIsLast, CompleteMotion,
         CompletionDue, FinalApplied, EndPending, LeaveFor, Handler, Policies
<1>2. IInv /\ [Next]_vars => [CompleteMotion => driven = final[active]]_vars
  BY <1>1
<1>3. QED
  BY <1>2, AlwaysIInv, PTL DEF Spec, CompletionDrivesLastFrame
=============================================================================
