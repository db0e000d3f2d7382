---------------------------- MODULE MotorFeedback ----------------------------
(***************************************************************************)
(* How motor feedback and its validity reach the subscribers: the real-    *)
(* time thread queues a sample every few reads and at every change of      *)
(* validity (enqueueMotorFeedbackSample()), the publisher thread drains    *)
(* the ring (motorFeedbackPublisherLoop()).                                *)
(*                                                                         *)
(* A sample is the number of its read, its validity and whether it is      *)
(* marked as a change; positions, times and the other topics are left out. *)
(* Validity is any.  HardwareNode starts and stops the two threads.        *)
(***************************************************************************)
EXTENDS Naturals, Sequences

CONSTANTS
  Capacity,     \* the slots of motorFeedbackBuffer_
  Decimation,   \* data_publish_decimation_
  MaxReads      \* bound on the number of reads

ASSUME MotorFeedbackAssumption ==
  /\ Capacity \in Nat /\ Capacity >= 2
  /\ Decimation \in Nat \ {0} /\ MaxReads \in Nat

Sample == [read: 0..MaxReads, valid: BOOLEAN, transition: BOOLEAN]
Blank == [read |-> 0, valid |-> FALSE, transition |-> FALSE]

VARIABLES
  head, tail, slots, producerAt, offer, consumerAt, value, accepted, taken,  \* the ring
  reads,       \* read_publish_counter_
  queued,      \* {last_queued_feedback_valid_}, {} while not initialized
  pending,     \* latest_regular_sample, Blank while there is none
  published    \* the last sample published, Blank before the first

ring == <<head, tail, slots, producerAt, offer, consumerAt, value, accepted, taken>>
vars == <<ring, reads, queued, pending, published>>

Ring == INSTANCE SpscRingBuffer WITH Values <- Sample

Init ==
  /\ Ring!Init
  /\ reads = 0
  /\ queued = {}
  /\ pending = Blank /\ published = Blank

-----------------------------------------------------------------------------
(* The real-time thread. *)

Periodic == reads % Decimation = 0

\* read() up to the decision whether there is room in the ring.
Read(valid) ==
  /\ reads < MaxReads
  /\ producerAt = "idle"
  /\ reads' = reads + 1
  /\ IF Periodic \/ queued # {valid}
     THEN Ring!LoadTail([read |-> reads + 1, valid |-> valid,
                         transition |-> queued # {valid}])
     ELSE UNCHANGED ring
  /\ UNCHANGED <<queued, pending, published>>

WriteSlot ==
  /\ Ring!WriteSlot
  /\ UNCHANGED <<reads, queued, pending, published>>

\* A change is acknowledged only here, when it is safely queued.
StoreHead ==
  /\ Ring!StoreHead
  /\ queued' = {offer.valid}
  /\ UNCHANGED <<reads, pending, published>>

-----------------------------------------------------------------------------
(* The publisher thread. *)

\* A mutant: the regular sample held back outlives a change published after it.
BugHeldBack(sample) == IF sample.transition THEN pending ELSE sample
HeldBack(sample) == IF sample.transition THEN Blank ELSE sample

\* A mutant: a change of validity is passed over like the regular samples.
BugPublishedNow(sample) == published
PublishedNow(sample) == IF sample.transition THEN sample ELSE published

\* An empty ring ends the batch: the regular sample held back goes out.
LoadHead ==
  /\ Ring!LoadHead
  /\ IF consumerAt' = "idle"
     THEN /\ published' = IF pending # Blank THEN pending ELSE published
          /\ pending' = Blank
     ELSE UNCHANGED <<published, pending>>
  /\ UNCHANGED <<reads, queued>>

ReadSlot ==
  /\ Ring!ReadSlot
  /\ UNCHANGED <<reads, queued, pending, published>>

StoreTail ==
  /\ Ring!StoreTail
  /\ published' = PublishedNow(value)
  /\ pending' = HeldBack(value)
  /\ UNCHANGED <<reads, queued>>

-----------------------------------------------------------------------------
PublisherStep == LoadHead \/ ReadSlot \/ StoreTail

Next ==
  \/ \E valid \in BOOLEAN : Read(valid)
  \/ WriteSlot \/ StoreHead
  \/ PublisherStep

Spec == Init /\ [][Next]_vars

-----------------------------------------------------------------------------
(* Properties. *)

\* Every variable keeps its type.
TypeOK ==
  /\ Ring!TypeOK
  /\ reads \in Nat
  /\ queued \in {{}, {TRUE}, {FALSE}}
  /\ pending \in Sample /\ published \in Sample

\* The samples of the ring are one bounded queue, seen from both threads.
ImplementsQueue == Ring!Queue!Spec

\* Publication never goes back: what is held back and what is marked as a
\* change go out in the order of the reads they come from, each once.
PublishedInOrder ==
  [][published' # published => published'.read > published.read]_vars

\* No change of data_valid that a subscriber sees has been held back, and nothing
\* else goes out as a change: the producer's mark (validityTransition, which is not a
\* field of the message) is on a published sample exactly when its data_valid differs
\* from that of the message before it (the first one is marked), although unmarked
\* samples are skipped and samples that found the ring full were never queued.
MarksAreTrue ==
  [][published' # published =>
       (published'.transition <=>
          published = Blank \/ published'.valid # published.valid)]_vars
=============================================================================
