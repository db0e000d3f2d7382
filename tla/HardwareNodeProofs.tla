-------------------------- MODULE HardwareNodeProofs --------------------------
(***************************************************************************)
(* The hardware node: its loop and its publisher do to the motor feedback  *)
(* what MotorFeedback says, whenever they are started and stopped.  There  *)
(* every step is one of SpscRingBuffer or leaves the ring alone, and the   *)
(* proofs of the ring say that the samples go through one bounded queue.   *)
(***************************************************************************)
EXTENDS HardwareNode, FiniteSetTheorems, TLAPS

RingProofs == INSTANCE SpscRingBufferProofs WITH Values <- Sample

\* What is offered has a number.
ReadsCount == reads \in Nat

LEMMA RingAssumption == RingProofs!SpscRingBufferAssumption
BY MotorFeedbackAssumption DEF RingProofs!SpscRingBufferAssumption, Sample, Blank

LEMMA RingStarts == Init => RingProofs!Init /\ reads \in Nat
BY DEF Init, Ring!Init, RingProofs!Init

\* The two instances of the ring are the same.
LEMMA SameActions ==
  /\ \A v : Ring!LoadTail(v) <=> RingProofs!LoadTail(v)
  /\ Ring!WriteSlot <=> RingProofs!WriteSlot
  /\ Ring!StoreHead <=> RingProofs!StoreHead
  /\ Ring!LoadHead <=> RingProofs!LoadHead
  /\ Ring!ReadSlot <=> RingProofs!ReadSlot
  /\ Ring!StoreTail <=> RingProofs!StoreTail
BY DEF Ring!LoadTail, Ring!WriteSlot, Ring!StoreHead, Ring!LoadHead, Ring!ReadSlot,
       Ring!StoreTail, Ring!Full, Ring!Increment, Ring!producer, Ring!consumer,
       RingProofs!LoadTail, RingProofs!WriteSlot, RingProofs!StoreHead,
       RingProofs!LoadHead, RingProofs!ReadSlot, RingProofs!StoreTail,
       RingProofs!Full, RingProofs!Increment, RingProofs!producer, RingProofs!consumer

LEMMA SameQueue ==
  /\ RingProofs!Queue!Init => Ring!Queue!Init
  /\ [RingProofs!Queue!Next]_RingProofs!Queue!queueVars
       => [Ring!Queue!Next]_Ring!Queue!queueVars
<1>1. RingProofs!Contents = Ring!Contents
  BY DEF RingProofs!Contents, Ring!Contents, RingProofs!Size, Ring!Size
<1>2. RingProofs!Contents' = Ring!Contents'
  BY DEF RingProofs!Contents, Ring!Contents, RingProofs!Size, Ring!Size
<1>3. QED
  BY <1>1, <1>2
  DEF Ring!Queue!Init, Ring!Queue!Next, Ring!Queue!queueVars, Ring!Queue!Push,
      Ring!Queue!Refuse, Ring!Queue!Pop, Ring!Queue!FindNothing,
      RingProofs!Queue!Init, RingProofs!Queue!Next, RingProofs!Queue!queueVars,
      RingProofs!Queue!Push, RingProofs!Queue!Refuse, RingProofs!Queue!Pop,
      RingProofs!Queue!FindNothing

\* Only samples are offered.
LEMMA ReadOffersSample ==
  ASSUME reads \in Nat, NEW valid \in BOOLEAN, Read(valid)
  PROVE  [RingProofs!Next]_RingProofs!ringVars /\ reads' \in Nat
<1> DEFINE marked == queued # {valid}
<1> DEFINE sample == [read |-> reads + 1, valid |-> valid, transition |-> marked]
<1>1. reads' \in Nat /\ (Ring!LoadTail(sample) \/ UNCHANGED ring)
  BY DEF Read
<1>2. sample \in Sample
  <2>1. reads + 1 \in 0..MaxReads
    BY MotorFeedbackAssumption DEF Read
  <2>2. marked \in BOOLEAN
    OBVIOUS
  <2> HIDE DEF marked
  <2>3. QED
    BY <2>1, <2>2 DEF Sample
<1> HIDE DEF sample
<1>3. CASE Ring!LoadTail(sample)
  <2>1. RingProofs!LoadTail(sample)
    BY <1>3, SameActions
  <2>2. QED
    BY <1>1, <1>2, <2>1 DEF RingProofs!Next
<1>4. CASE UNCHANGED ring
  BY <1>1, <1>4 DEF ring, RingProofs!ringVars, RingProofs!producer, RingProofs!consumer
<1>5. QED
  BY <1>1, <1>3, <1>4

LEMMA RingSteps ==
  ASSUME reads \in Nat, [Next]_vars
  PROVE  [RingProofs!Next]_RingProofs!ringVars /\ reads' \in Nat
<1>1. ASSUME NEW valid \in BOOLEAN, Read(valid)
      PROVE  [RingProofs!Next]_RingProofs!ringVars /\ reads' \in Nat
  BY <1>1, ReadOffersSample
<1>2. CASE WriteSlot \/ StoreHead \/ PublisherStep
  BY <1>2, SameActions
  DEF WriteSlot, StoreHead, PublisherStep, LoadHead, ReadSlot, StoreTail, RingProofs!Next
<1>3. CASE UNCHANGED vars
  BY <1>3 DEF vars, ring, RingProofs!ringVars, RingProofs!producer, RingProofs!consumer
<1>4. QED
  BY <1>1, <1>2, <1>3 DEF Next

-----------------------------------------------------------------------------
(* What is on its way from the real-time thread to the subscribers. *)

Waiting == RingProofs!Contents

\* Everything on its way is younger than what has been published, and in order.
Younger(sample) == sample.read > published.read /\ sample.read > pending.read /\ sample.read <= reads

ReadsAreInOrder ==
  /\ published.read <= reads /\ pending.read <= reads
  /\ pending # Blank => pending.read > published.read
  /\ \A i \in 1..Len(Waiting) : Younger(Waiting[i])
  /\ \A i, j \in 1..Len(Waiting) : i < j => Waiting[i].read < Waiting[j].read
  /\ producerAt # "idle" =>
       Younger(offer) /\ \A i \in 1..Len(Waiting) : Waiting[i].read < offer.read

\* The validity a subscriber knows, {} at first, and the one it knows once it has
\* seen the samples before a place in the ring.
Known == IF published = Blank THEN {} ELSE {published.valid}
KnownBefore(i) == IF i = 1 THEN Known ELSE {Waiting[i - 1].valid}

\* A sample is marked when it changes what is known before it; one that is held
\* back changes nothing.
MarksAreInOrder ==
  /\ pending # Blank =>
       published # Blank /\ ~pending.transition /\ pending.valid = published.valid
  /\ \A i \in 1..Len(Waiting) : Waiting[i].transition <=> KnownBefore(i) # {Waiting[i].valid}
  /\ queued = KnownBefore(Len(Waiting) + 1)
  /\ producerAt # "idle" => (offer.transition <=> queued # {offer.valid})

FeedbackInv ==
  /\ RingProofs!RingInv
  /\ reads \in Nat
  /\ pending \in Sample /\ published \in Sample
  /\ ReadsAreInOrder /\ MarksAreInOrder

\* The parts of a sample, and of the blank one.
LEMMA SampleIs ==
  /\ \A s \in Sample : s.read \in Nat /\ s.valid \in BOOLEAN /\ s.transition \in BOOLEAN
  /\ Blank \in Sample /\ Blank.read = 0
BY MotorFeedbackAssumption DEF Sample, Blank

LEMMA WaitingIs ==
  ASSUME FeedbackInv
  PROVE  /\ Waiting \in Seq(Sample) /\ Len(Waiting) \in Nat
         /\ \A i \in 1..Len(Waiting) : Waiting[i] \in Sample
         /\ offer \in Sample /\ value \in Sample
<1>1. Waiting \in Seq(Sample) /\ offer \in Sample /\ value \in Sample
  BY RingAssumption, RingProofs!ContentsAre
  DEF FeedbackInv, RingProofs!RingInv, RingProofs!TypeOK, Waiting
<1> HIDE DEF Waiting
<1>2. QED
  BY <1>1

LEMMA InitFeedback == Init => FeedbackInv
<1> SUFFICES ASSUME Init PROVE FeedbackInv
  OBVIOUS
<1>1. RingProofs!RingInv /\ Waiting = <<>> /\ producerAt = "idle"
  BY RingStarts, RingAssumption, RingProofs!InitRing
  DEF RingProofs!Queue!Init, Waiting, RingProofs!Init
<1>2. reads = 0 /\ queued = {} /\ pending = Blank /\ published = Blank
  BY DEF Init
<1> HIDE DEF Waiting
<1>3. Len(Waiting) = 0
  BY <1>1
<1>4. ReadsAreInOrder
  BY <1>1, <1>2, <1>3, SampleIs DEF ReadsAreInOrder
<1>5. MarksAreInOrder
  BY <1>1, <1>2, <1>3 DEF MarksAreInOrder, KnownBefore, Known
<1>6. QED
  BY <1>1, <1>2, <1>4, <1>5, SampleIs DEF FeedbackInv

\* While what waits stays the same, so does what is said of it.
LEMMA NothingMoves ==
  ASSUME FeedbackInv, RingProofs!RingInv', Waiting' = Waiting,
         UNCHANGED <<reads, queued, pending, published, offer>>,
         producerAt' # "idle" => producerAt # "idle"
  PROVE  FeedbackInv'
<1> HIDE DEF Waiting
<1>1. ReadsAreInOrder' /\ MarksAreInOrder'
  BY DEF FeedbackInv, ReadsAreInOrder, Younger, MarksAreInOrder, KnownBefore, Known
<1>2. QED
  BY <1>1 DEF FeedbackInv

\* A new sample is the youngest, and marked as it should be.
LEMMA ReadKeeps ==
  ASSUME FeedbackInv, NEW valid \in BOOLEAN, Read(valid)
  PROVE  FeedbackInv'
<1> DEFINE marked == queued # {valid}
<1> DEFINE sample == [read |-> reads + 1, valid |-> valid, transition |-> marked]
<1>1. /\ reads \in Nat /\ reads < MaxReads /\ reads' = reads + 1
      /\ UNCHANGED <<queued, pending, published>>
      /\ producerAt = "idle"
      /\ Ring!LoadTail(sample) \/ UNCHANGED ring
  BY DEF Read, FeedbackInv
<1>2. sample \in Sample /\ sample.read = reads + 1 /\ sample.valid = valid
        /\ (sample.transition <=> queued # {valid})
  <2>1. reads + 1 \in 0..MaxReads
    BY <1>1, MotorFeedbackAssumption
  <2>2. marked \in BOOLEAN
    OBVIOUS
  <2>3. QED
    BY <2>1, <2>2 DEF Sample
<1> HIDE DEF sample
<1>3. /\ RingProofs!RingInv' /\ Waiting' = Waiting
      /\ producerAt' = "idle" \/ offer' = sample
  <2>1. CASE Ring!LoadTail(sample)
    <3>1. RingProofs!LoadTail(sample)
      BY <2>1, SameActions
    <3>2. producerAt' = "idle" \/ offer' = sample
      BY <1>1, <3>1 DEF RingProofs!LoadTail
    <3>3. QED
      BY <1>2, <3>1, <3>2, RingAssumption, RingProofs!LoadTailStep DEF FeedbackInv, Waiting
  <2>2. CASE UNCHANGED ring
    BY <1>1, <2>2, RingProofs!StutterStep
    DEF FeedbackInv, Waiting, ring, RingProofs!ringVars, RingProofs!producer,
        RingProofs!consumer, RingProofs!Queue!queueVars
  <2>3. QED
    BY <1>1, <2>1, <2>2
<1>4. /\ Len(Waiting) \in Nat /\ \A i \in 1..Len(Waiting) : Waiting[i].read \in Nat
      /\ published.read \in Nat /\ pending.read \in Nat
  BY WaitingIs, SampleIs DEF FeedbackInv
<1> HIDE DEF Waiting
<1>5. ReadsAreInOrder'
  <2>1. /\ published'.read <= reads' /\ pending'.read <= reads'
        /\ pending' # Blank => pending'.read > published'.read
    BY <1>1, <1>4 DEF FeedbackInv, ReadsAreInOrder
  <2>2. \A i \in 1..Len(Waiting) :
          Younger(Waiting[i])' /\ Waiting[i].read <= reads
    BY <1>1, <1>3, <1>4 DEF FeedbackInv, ReadsAreInOrder, Younger
  <2>3. producerAt' # "idle" =>
          Younger(offer)' /\ \A i \in 1..Len(Waiting) : Waiting[i].read < offer'.read
    <3>1. SUFFICES ASSUME offer' = sample
                   PROVE  Younger(offer)' /\ \A i \in 1..Len(Waiting) : Waiting[i].read < offer'.read
      BY <1>3
    <3>2. offer'.read = reads + 1
      BY <1>2, <3>1
    <3>3. Younger(offer)'
      BY <1>1, <1>4, <3>2 DEF FeedbackInv, ReadsAreInOrder, Younger
    <3>4. QED
      BY <1>1, <1>4, <2>2, <3>2, <3>3
  <2>4. QED
    BY <1>3, <2>1, <2>2, <2>3 DEF FeedbackInv, ReadsAreInOrder
<1>6. MarksAreInOrder'
  BY <1>1, <1>2, <1>3 DEF FeedbackInv, MarksAreInOrder, KnownBefore, Known
<1>7. QED
  BY <1>1, <1>3, <1>5, <1>6 DEF FeedbackInv

\* The sample joins the queue as its last.
LEMMA StoreHeadKeeps ==
  ASSUME FeedbackInv, StoreHead
  PROVE  FeedbackInv'
<1>1. /\ UNCHANGED <<reads, pending, published, offer>>
      /\ queued' = {offer.valid}
      /\ producerAt = "store" /\ producerAt' = "idle"
      /\ RingProofs!StoreHead
  BY SameActions DEF StoreHead, Ring!StoreHead
<1>2. RingProofs!RingInv' /\ Waiting' = Append(Waiting, offer)
  BY <1>1, RingAssumption, RingProofs!StoreHeadStep DEF FeedbackInv, Waiting, RingProofs!Queue!Push
<1>3. /\ Waiting \in Seq(Sample) /\ Len(Waiting) \in Nat /\ offer \in Sample
      /\ \A i \in 1..Len(Waiting) : Waiting[i].read \in Nat
      /\ offer.read \in Nat
  BY WaitingIs, SampleIs
<1> HIDE DEF Waiting
<1>4. /\ Len(Waiting') = Len(Waiting) + 1
      /\ Waiting'[Len(Waiting) + 1] = offer
      /\ \A i \in 1..Len(Waiting) : Waiting'[i] = Waiting[i]
  BY <1>2, <1>3
<1>5. ReadsAreInOrder'
  <2>1. /\ published'.read <= reads' /\ pending'.read <= reads'
        /\ pending' # Blank => pending'.read > published'.read
        /\ Younger(offer) /\ producerAt' = "idle"
    BY <1>1 DEF FeedbackInv, ReadsAreInOrder
  <2>2. \A i \in 1..Len(Waiting) : Younger(Waiting[i]) /\ Waiting[i].read < offer.read
    BY <1>1 DEF FeedbackInv, ReadsAreInOrder
  <2>3. \A i, j \in 1..Len(Waiting) : i < j => Waiting[i].read < Waiting[j].read
    BY DEF FeedbackInv, ReadsAreInOrder
  <2>4. ASSUME NEW i \in 1..Len(Waiting')
        PROVE  Younger(Waiting[i])'
    BY <1>1, <1>3, <1>4, <2>1, <2>2 DEF Younger
  <2>5. ASSUME NEW i \in 1..Len(Waiting'), NEW j \in 1..Len(Waiting'), i < j
        PROVE  Waiting'[i].read < Waiting'[j].read
    <3>1. i \in 1..Len(Waiting) /\ (j \in 1..Len(Waiting) \/ j = Len(Waiting) + 1)
      BY <1>3, <1>4, <2>5
    <3>2. QED
      BY <1>4, <2>2, <2>3, <2>5, <3>1
  <2>6. QED
    BY <2>1, <2>4, <2>5 DEF ReadsAreInOrder
<1>6. MarksAreInOrder'
  <2>1. ASSUME NEW i \in 1..Len(Waiting) + 1
        PROVE  KnownBefore(i)' = KnownBefore(i)
    <3>1. i = 1 \/ (i # 1 /\ i - 1 \in 1..Len(Waiting))
      BY <1>3
    <3>2. QED
      BY <1>1, <1>4, <3>1 DEF KnownBefore, Known
  <2>2. (queued = KnownBefore(Len(Waiting) + 1))'
    <3>1. Len(Waiting') + 1 # 1 /\ (Len(Waiting') + 1) - 1 = Len(Waiting) + 1
      BY <1>3, <1>4
    <3>2. QED
      BY <1>1, <1>4, <3>1 DEF KnownBefore
  <2>3. ASSUME NEW i \in 1..Len(Waiting) + 1
        PROVE  Waiting'[i].transition <=> KnownBefore(i) # {Waiting'[i].valid}
    <3>1. CASE i = Len(Waiting) + 1
      BY <1>1, <1>4, <3>1 DEF FeedbackInv, MarksAreInOrder
    <3>2. CASE i \in 1..Len(Waiting)
      BY <1>4, <3>2 DEF FeedbackInv, MarksAreInOrder
    <3>3. QED
      BY <1>3, <3>1, <3>2
  <2>4. ASSUME NEW i \in 1..Len(Waiting')
        PROVE  (Waiting[i].transition <=> KnownBefore(i) # {Waiting[i].valid})'
    BY <1>4, <2>1, <2>3
  <2>5. QED
    BY <1>1, <2>2, <2>4 DEF FeedbackInv, MarksAreInOrder
<1>7. QED
  BY <1>1, <1>2, <1>5, <1>6 DEF FeedbackInv

\* At the end of a batch the sample held back goes out.
LEMMA LoadHeadKeeps ==
  ASSUME FeedbackInv, LoadHead
  PROVE  FeedbackInv'
<1>1. /\ UNCHANGED <<reads, queued, offer, producerAt>>
      /\ \/ UNCHANGED <<published, pending>>
         \/ pending = Blank /\ pending' = Blank /\ published' = published
         \/ pending # Blank /\ pending' = Blank /\ published' = pending
      /\ RingProofs!LoadHead
  BY SameActions DEF LoadHead, Ring!LoadHead, Ring!producer
<1>2. RingProofs!RingInv' /\ Waiting' = Waiting
  BY <1>1, RingAssumption, RingProofs!LoadHeadStep DEF FeedbackInv, Waiting
<1>3. /\ Len(Waiting) \in Nat /\ \A i \in 1..Len(Waiting) : Waiting[i].read \in Nat
      /\ offer.read \in Nat /\ published.read \in Nat /\ pending.read \in Nat /\ reads \in Nat
  BY WaitingIs, SampleIs DEF FeedbackInv
<1> HIDE DEF Waiting
<1>4. CASE UNCHANGED <<published, pending>>
  BY <1>1, <1>2, <1>4, NothingMoves
<1>5. CASE pending = Blank /\ pending' = Blank /\ published' = published
  BY <1>1, <1>2, <1>5, NothingMoves
<1>6. CASE pending # Blank /\ pending' = Blank /\ published' = pending
  <2>1. ReadsAreInOrder'
    BY <1>1, <1>2, <1>3, <1>6, SampleIs DEF FeedbackInv, ReadsAreInOrder, Younger
  <2>2. Known' = Known
    BY <1>6 DEF FeedbackInv, MarksAreInOrder, Known
  <2>3. MarksAreInOrder'
    BY <1>1, <1>2, <1>6, <2>2 DEF FeedbackInv, MarksAreInOrder, KnownBefore
  <2>4. QED
    BY <1>1, <1>2, <1>6, <2>1, <2>3, SampleIs DEF FeedbackInv
<1>7. QED
  BY <1>1, <1>4, <1>5, <1>6

\* What the publisher has popped was the first in the queue.
LEMMA StoreTailIs ==
  ASSUME FeedbackInv, StoreTail
  PROVE  /\ UNCHANGED <<reads, queued, offer, producerAt>>
         /\ RingProofs!RingInv'
         /\ Len(Waiting) \in Nat /\ Len(Waiting) > 0 /\ value = Waiting[1]
         /\ Len(Waiting') = Len(Waiting) - 1
         /\ \A i \in 1..Len(Waiting) - 1 : Waiting'[i] = Waiting[i + 1]
         /\ published' = PublishedNow(Waiting[1]) /\ pending' = HeldBack(Waiting[1])
<1>1. /\ UNCHANGED <<reads, queued, offer, producerAt>>
      /\ published' = PublishedNow(value) /\ pending' = HeldBack(value)
      /\ taken' = <<value>>
      /\ RingProofs!StoreTail
  BY SameActions DEF StoreTail, Ring!StoreTail, Ring!producer
<1>2. RingProofs!RingInv' /\ Waiting # <<>> /\ Waiting' = Tail(Waiting) /\ taken' = <<Head(Waiting)>>
  BY <1>1, RingAssumption, RingProofs!StoreTailStep DEF FeedbackInv, Waiting, RingProofs!Queue!Pop
<1>3. Waiting \in Seq(Sample)
  BY WaitingIs
<1> HIDE DEF Waiting
<1>4. value = Waiting[1]
  BY <1>1, <1>2, <1>3
<1>5. QED
  BY <1>1, <1>2, <1>3, <1>4

LEMMA StoreTailKeeps ==
  ASSUME FeedbackInv, StoreTail
  PROVE  FeedbackInv'
<1>1. /\ UNCHANGED <<reads, queued, offer, producerAt>>
      /\ RingProofs!RingInv'
      /\ Len(Waiting) \in Nat /\ Len(Waiting) > 0 /\ value = Waiting[1]
      /\ Len(Waiting') = Len(Waiting) - 1
      /\ \A i \in 1..Len(Waiting) - 1 : Waiting'[i] = Waiting[i + 1]
      /\ published' = PublishedNow(Waiting[1]) /\ pending' = HeldBack(Waiting[1])
  BY StoreTailIs
<1>2. /\ \A i \in 1..Len(Waiting) : Waiting[i] \in Sample /\ Waiting[i].read \in Nat
      /\ offer.read \in Nat /\ published.read \in Nat /\ pending.read \in Nat /\ reads \in Nat
      /\ published \in Sample /\ pending \in Sample
  BY WaitingIs, SampleIs DEF FeedbackInv
<1> HIDE DEF Waiting
<1>3. /\ Younger(Waiting[1])
      /\ \A i \in 1..Len(Waiting) : Younger(Waiting[i])
      /\ \A i, j \in 1..Len(Waiting) : i < j => Waiting[i].read < Waiting[j].read
      /\ Waiting[1].transition <=> Known # {Waiting[1].valid}
  BY <1>1 DEF FeedbackInv, ReadsAreInOrder, MarksAreInOrder, KnownBefore
<1>4. Waiting[1] # Blank
  BY <1>1, <1>2, <1>3, SampleIs DEF Younger
<1>5. Known' = {Waiting[1].valid}
  <2>1. CASE Waiting[1].transition
    BY <1>1, <1>4, <2>1 DEF PublishedNow, Known
  <2>2. CASE ~Waiting[1].transition
    BY <1>1, <1>3, <2>2 DEF PublishedNow, Known
  <2>3. QED
    BY <2>1, <2>2
<1>6. ReadsAreInOrder'
  <2>1. /\ published'.read \in Nat /\ pending'.read \in Nat
        /\ published'.read <= Waiting[1].read /\ pending'.read <= Waiting[1].read
        /\ pending' # Blank => pending'.read > published'.read
    BY <1>1, <1>2, <1>3, SampleIs DEF PublishedNow, HeldBack, Younger
  <2>2. Waiting[1].read <= reads
    BY <1>3 DEF Younger
  <2>3. \A i \in 1..Len(Waiting') :
          Waiting'[i].read > Waiting[1].read /\ Waiting'[i].read <= reads /\ Waiting'[i].read \in Nat
    <3>1. \A i \in 1..Len(Waiting') :
            Waiting'[i] = Waiting[i + 1] /\ 1 < i + 1 /\ i + 1 \in 1..Len(Waiting)
      BY <1>1
    <3>2. 1 \in 1..Len(Waiting)
      BY <1>1
    <3>3. \A i \in 1..Len(Waiting') :
            Waiting[i + 1].read > Waiting[1].read /\ Waiting[i + 1].read <= reads
              /\ Waiting[i + 1].read \in Nat
      BY <1>2, <1>3, <3>1, <3>2 DEF Younger
    <3>4. QED
      BY <3>1, <3>3
  <2>4. \A i, j \in 1..Len(Waiting') : i < j => Waiting'[i].read < Waiting'[j].read
    BY <1>1, <1>3
  <2>5. producerAt # "idle" =>
          /\ offer.read > Waiting[1].read /\ offer.read <= reads
          /\ \A i \in 1..Len(Waiting') : Waiting'[i].read < offer.read
    BY <1>1 DEF FeedbackInv, ReadsAreInOrder, Younger
  <2>6. /\ published'.read <= reads' /\ pending'.read <= reads'
        /\ \A i \in 1..Len(Waiting') : Younger(Waiting[i])'
    <3>1. reads' = reads /\ reads \in Nat
      BY <1>1, <1>2
    <3>2. Waiting[1].read \in Nat
      BY <1>1, <1>2
    <3>3. published'.read <= reads' /\ pending'.read <= reads'
      BY <2>1, <2>2, <3>1, <3>2
    <3>4. ASSUME NEW i \in 1..Len(Waiting')
          PROVE  Waiting'[i].read > published'.read /\ Waiting'[i].read > pending'.read
                   /\ Waiting'[i].read <= reads'
      BY <2>1, <2>3, <3>1, <3>2
    <3>5. QED
      BY <3>3, <3>4 DEF Younger
  <2>7. producerAt' # "idle" => Younger(offer)'
    BY <1>1, <1>2, <2>1, <2>5 DEF Younger
  <2>8. QED
    BY <1>1, <2>1, <2>4, <2>5, <2>6, <2>7 DEF ReadsAreInOrder
<1>7. MarksAreInOrder'
  <2>1. ASSUME NEW i \in 1..Len(Waiting)
        PROVE  KnownBefore(i)' = KnownBefore(i + 1)
    <3>1. i + 1 # 1 /\ (i + 1) - 1 = i
      BY <1>1
    <3>2. CASE i = 1
      BY <1>5, <3>1, <3>2 DEF KnownBefore
    <3>3. CASE i # 1
      <4>1. i - 1 \in 1..Len(Waiting) - 1 /\ (i - 1) + 1 = i
        BY <1>1, <3>3
      <4>2. QED
        BY <1>1, <3>1, <3>3, <4>1 DEF KnownBefore
    <3>4. QED
      BY <3>2, <3>3
  <2>2. pending' # Blank =>
          published' # Blank /\ ~pending'.transition /\ pending'.valid = published'.valid
    <3>1. CASE Waiting[1].transition
      BY <1>1, <3>1 DEF HeldBack
    <3>2. CASE ~Waiting[1].transition
      BY <1>1, <1>3, <3>2 DEF HeldBack, PublishedNow, Known
    <3>3. QED
      BY <3>1, <3>2
  <2>3. ASSUME NEW i \in 1..Len(Waiting')
        PROVE  Waiting'[i].transition <=> KnownBefore(i)' # {Waiting'[i].valid}
    <3>1. i \in 1..Len(Waiting) /\ i + 1 \in 1..Len(Waiting) /\ Waiting'[i] = Waiting[i + 1]
      BY <1>1
    <3>2. QED
      BY <2>1, <3>1 DEF FeedbackInv, MarksAreInOrder
  <2>4. (queued = KnownBefore(Len(Waiting) + 1))'
    <3>1. CASE Len(Waiting) = 1
      <4>1. queued' = {Waiting[1].valid} /\ Len(Waiting') + 1 = 1
        BY <1>1, <3>1 DEF FeedbackInv, MarksAreInOrder, KnownBefore
      <4>2. QED
        BY <1>5, <4>1 DEF KnownBefore
    <3>2. CASE Len(Waiting) # 1
      <4>1. /\ queued' = {Waiting[Len(Waiting)].valid}
            /\ Len(Waiting') + 1 # 1 /\ (Len(Waiting') + 1) - 1 = Len(Waiting) - 1
        BY <1>1, <3>2 DEF FeedbackInv, MarksAreInOrder, KnownBefore
      <4>2. Waiting'[Len(Waiting) - 1] = Waiting[Len(Waiting)]
        BY <1>1, <3>2
      <4>3. QED
        BY <4>1, <4>2 DEF KnownBefore
    <3>3. QED
      BY <3>1, <3>2
  <2>5. QED
    BY <1>1, <2>2, <2>3, <2>4 DEF FeedbackInv, MarksAreInOrder
<1>8. QED
  BY <1>1, <1>2, <1>6, <1>7, SampleIs DEF FeedbackInv, PublishedNow, HeldBack

LEMMA FeedbackStep ==
  ASSUME FeedbackInv, [Next]_vars
  PROVE  FeedbackInv'
<1>1. ASSUME NEW valid \in BOOLEAN, Read(valid)
      PROVE  FeedbackInv'
  BY <1>1, ReadKeeps
<1>2. CASE WriteSlot \/ ReadSlot
  <2>1. RingProofs!WriteSlot \/ RingProofs!ReadSlot
    BY <1>2, SameActions DEF WriteSlot, ReadSlot
  <2>2. RingProofs!RingInv' /\ Waiting' = Waiting
    BY <2>1, RingAssumption, RingProofs!WriteSlotStep, RingProofs!ReadSlotStep
    DEF FeedbackInv, Waiting, RingProofs!Queue!queueVars
  <2>3. /\ UNCHANGED <<reads, queued, pending, published, offer>>
        /\ producerAt' # "idle" => producerAt # "idle"
    BY <1>2 DEF WriteSlot, ReadSlot, Ring!WriteSlot, Ring!ReadSlot, Ring!producer
  <2>4. QED
    BY <2>2, <2>3, NothingMoves
<1>3. CASE StoreHead
  BY <1>3, StoreHeadKeeps
<1>4. CASE LoadHead
  BY <1>4, LoadHeadKeeps
<1>5. CASE StoreTail
  BY <1>5, StoreTailKeeps
<1>6. CASE UNCHANGED vars
  <2>1. UNCHANGED <<reads, queued, pending, published, offer, producerAt>>
          /\ UNCHANGED RingProofs!ringVars
    BY <1>6 DEF vars, ring, RingProofs!ringVars, RingProofs!producer, RingProofs!consumer
  <2>2. RingProofs!RingInv' /\ Waiting' = Waiting
    BY <2>1, RingProofs!StutterStep DEF FeedbackInv, Waiting, RingProofs!Queue!queueVars
  <2>3. QED
    BY <2>1, <2>2, NothingMoves
<1>7. QED
  BY <1>1, <1>2, <1>3, <1>4, <1>5, <1>6 DEF Next, PublisherStep

-----------------------------------------------------------------------------
(* The node's threads do only what MotorFeedback allows. *)

LEMMA NodeStep ==
  ASSUME [NodeNext]_nodeVars
  PROVE  [Next]_vars
<1>1. CASE MainStep \/ Shutdown
  BY <1>1
  DEF MainStep, StartUp, InitHardware, TryBus, BusOpens, BusFails, StartMonitor, StartLogger,
      StartPublisher, StartLoop, Configure, Notify, StartTiming, Shutdown, StopLoop, TakeDown,
      JoinLoop, StopHelper, JoinHelper, StopPublisher, JoinPublisher, CloseLog, CloseBus
<1>2. CASE LoopStep
  <2>1. CASE NodeRead
    BY <2>1 DEF NodeRead, Next
  <2>2. CASE NodeQueue
    BY <2>2 DEF NodeQueue, Next
  <2>3. CASE LoopLocks \/ LoopLooks \/ LoopBlocks \/ LoopEnds \/ Unpack \/ RaiseEvent
               \/ BeginExchange \/ EndExchange
    BY <2>3
    DEF LoopLocks, LoopLooks, LoopBlocks, LoopEnds, Unpack, RaiseEvent, BeginExchange, EndExchange
  <2>4. QED
    BY <1>2, <2>1, <2>2, <2>3 DEF LoopStep
<1>3. CASE PublishingStep
  <2>1. CASE NodePublish
    BY <2>1 DEF NodePublish, Next
  <2>2. CASE PublisherLooks \/ PopEvent \/ EventsDone
    BY <2>2 DEF PublisherLooks, PopEvent, EventsDone
  <2>3. QED
    BY <1>3, <2>1, <2>2 DEF PublishingStep
<1>4. CASE SpuriousWakeup \/ (\E h \in Helpers : HelperEnds(h)) \/ Terminated \/ UNCHANGED nodeVars
  BY <1>4 DEF SpuriousWakeup, HelperEnds, Terminated, nodeVars
<1>5. QED
  BY <1>1, <1>2, <1>3, <1>4 DEF NodeNext

\* The node, with its starts, failures and shutdowns, implements MotorFeedback.
THEOREM NodeImplements == NodeSpec => Spec
<1>1. NodeInit => Init
  BY DEF NodeInit
<1>2. [NodeNext]_nodeVars => [Next]_vars
  BY NodeStep
<1>3. QED
  BY <1>1, <1>2, PTL DEF NodeSpec, Spec

\* For every capacity, decimation and number of reads, the samples go through
\* one bounded queue: none is lost, repeated, reordered or overwritten.
THEOREM Implementation == NodeSpec => ImplementsQueue
<1>1. Init => RingProofs!Init /\ ReadsCount
  BY RingStarts DEF ReadsCount
<1>2. ReadsCount /\ [Next]_vars => ReadsCount' /\ [RingProofs!Next]_RingProofs!ringVars
  BY RingSteps DEF ReadsCount
<1>3. Spec => RingProofs!Spec
  BY <1>1, <1>2, PTL DEF Spec, RingProofs!Spec
<1>4. RingProofs!Spec => RingProofs!ImplementsQueue
  BY RingAssumption, RingProofs!Implementation
<1>5. RingProofs!ImplementsQueue => ImplementsQueue
  BY SameQueue, PTL
  DEF RingProofs!ImplementsQueue, RingProofs!Queue!Spec, ImplementsQueue, Ring!Queue!Spec
<1>6. QED
  BY <1>3, <1>4, <1>5, NodeImplements

LEMMA FeedbackIsInvariant == NodeSpec => []FeedbackInv
<1>1. Init => FeedbackInv
  BY InitFeedback
<1>2. FeedbackInv /\ [Next]_vars => FeedbackInv'
  BY FeedbackStep
<1>3. QED
  BY <1>1, <1>2, NodeImplements, PTL DEF Spec

\* A step that publishes: what is held back, or a change from the front of the queue.
LEMMA PublishedIs ==
  ASSUME FeedbackInv, [Next]_vars, published' # published
  PROVE  \/ pending # Blank /\ published' = pending
         \/ /\ Len(Waiting) > 0 /\ Len(Waiting) \in Nat
            /\ Waiting[1].transition /\ published' = Waiting[1]
<1>1. CASE LoadHead
  BY <1>1 DEF LoadHead
<1>2. CASE StoreTail
  BY <1>2, StoreTailIs DEF PublishedNow
<1>3. CASE ~(LoadHead \/ StoreTail)
  BY <1>3 DEF Next, PublisherStep, Read, WriteSlot, StoreHead, ReadSlot, vars
<1>4. QED
  BY <1>1, <1>2, <1>3

\* Publication never goes back, for every capacity, decimation and number of reads.
THEOREM OrderIsKept == NodeSpec => PublishedInOrder
<1>1. FeedbackInv /\ [Next]_vars => [published' # published => published'.read > published.read]_vars
  <2> SUFFICES ASSUME FeedbackInv, [Next]_vars, published' # published
               PROVE  published'.read > published.read
    OBVIOUS
  <2>1. \/ pending # Blank /\ published' = pending
        \/ Len(Waiting) > 0 /\ Len(Waiting) \in Nat /\ published' = Waiting[1]
    BY PublishedIs
  <2> HIDE DEF Waiting
  <2>2. QED
    BY <2>1 DEF FeedbackInv, ReadsAreInOrder, Younger
<1>2. QED
  BY <1>1, FeedbackIsInvariant, NodeImplements, PTL DEF Spec, PublishedInOrder

\* The samples that go out as changes are exactly those at which subscribers see
\* data_valid change, whatever was skipped or refused on the way.
THEOREM MarksTell == NodeSpec => MarksAreTrue
<1>1. FeedbackInv /\ [Next]_vars =>
        [published' # published =>
           (published'.transition <=>
              published = Blank \/ published'.valid # published.valid)]_vars
  <2> SUFFICES ASSUME FeedbackInv, [Next]_vars, published' # published
               PROVE  published'.transition <=>
                        published = Blank \/ published'.valid # published.valid
    OBVIOUS
  <2>1. CASE pending # Blank /\ published' = pending
    BY <2>1 DEF FeedbackInv, MarksAreInOrder
  <2>2. CASE /\ Len(Waiting) > 0 /\ Len(Waiting) \in Nat
             /\ Waiting[1].transition /\ published' = Waiting[1]
    <3> HIDE DEF Waiting
    <3>1. Waiting[1].transition <=> Known # {Waiting[1].valid}
      BY <2>2 DEF FeedbackInv, MarksAreInOrder, KnownBefore
    <3>2. QED
      BY <2>2, <3>1 DEF Known
  <2>3. QED
    BY <2>1, <2>2, PublishedIs
<1>2. QED
  BY <1>1, FeedbackIsInvariant, NodeImplements, PTL DEF Spec, MarksAreTrue

-----------------------------------------------------------------------------
(* Where every thread is at each step of the main thread. *)

BeforeLoop == {"init", "open bus", "opening", "start monitor", "start logger",
               "start publisher", "start loop"}
WithLoop == {"configure", "notify", "notify to end", "start timing", "up", "stop loop", "join loop"}
LogClosed == {"stop monitor", "join monitor", "close bus", "down"}
PublisherJoined == LogClosed \cup {"close log"}
PublisherTold == PublisherJoined \cup {"join publisher"}
TimingJoined == PublisherTold \cup {"destroy", "join logger", "stop publisher"}
LoopJoined == TimingJoined \cup {"stop timing", "join timing"}

\* Every variable of the node keeps its type.
TriesAreCounted == attempt \in 0..Attempts
TriesAreLeft == attempt = Attempts => mainAt \notin {"init", "open bus"}
NoTryBefore == mainAt = "init" => attempt = 0
HelperTypes == helper \in [Helpers -> {"none", "running", "told", "ended"}]
FlagTypes ==
  /\ inOP \in BOOLEAN /\ logOpen \in BOOLEAN
  /\ mutexFree \in BOOLEAN /\ configured \in BOOLEAN /\ loopRunning \in BOOLEAN
  /\ publisherRunning \in BOOLEAN
ThreadTypes ==
  /\ mainAt \in BeforeLoop \cup WithLoop \cup LoopJoined
  /\ loopAt \in {"none", "lock", "predicate", "block", "blocked", "while", "unpack",
                 "queue", "exchange", "ended"}
  /\ publisherAt \in {"none", "check", "events", "samples", "last events", "ended"}

NodeTypes ==
  /\ TriesAreCounted /\ TriesAreLeft /\ NoTryBefore
  /\ HelperTypes /\ FlagTypes /\ ThreadTypes

\* The loop lives within the node's running time, on an open bus.
LoopIsWithin ==
  /\ mainAt \in BeforeLoop => loopAt = "none"
  /\ mainAt \in LoopJoined => loopAt \in {"none", "ended"}
  /\ mainAt \in WithLoop \cup {"start monitor", "start logger", "start publisher", "start loop"} => inOP

\* No helper outlives its join.
HelpersAreWithin ==
  /\ mainAt \in BeforeLoop => helper["timing"] = "none"
  /\ mainAt \in {"init", "open bus", "opening", "start monitor", "start logger"} => helper["logger"] = "none"
  /\ mainAt \in {"init", "open bus", "opening", "start monitor"} => helper["monitor"] = "none"
  /\ mainAt \in TimingJoined => helper["timing"] \in {"none", "ended"}
  /\ mainAt \in PublisherTold \cup {"stop publisher"} => helper["logger"] \in {"none", "ended"}
  /\ mainAt \in {"close bus", "down"} => helper["monitor"] \in {"none", "ended"}

\* The publisher outlives the loop.
PublisherIsWithin ==
  /\ publisherAt = "none" => loopAt = "none"
  /\ mainAt \in WithLoop \cup {"start loop", "stop timing", "join timing"} => publisherAt # "none"
  /\ mainAt \in BeforeLoop \ {"start loop"} => publisherAt = "none"
  /\ publisherAt \in {"last events", "ended"} => mainAt \in PublisherTold
  /\ publisherAt \in {"check", "events", "samples"} =>
       publisherRunning \/ mainAt \in PublisherTold
  /\ mainAt \in PublisherJoined => publisherAt \in {"none", "ended"}

\* What is closed stays closed.
ClosedAtEnd == (mainAt \in LogClosed => ~logOpen) /\ (mainAt = "down" => ~inOP)

NodeInv == NodeTypes /\ LoopIsWithin /\ HelpersAreWithin /\ PublisherIsWithin /\ ClosedAtEnd

LEMMA InitNode == NodeInit => NodeInv
<1> SUFFICES ASSUME NodeInit PROVE NodeInv
  OBVIOUS
<1>1. TriesAreCounted /\ TriesAreLeft /\ NoTryBefore /\ HelperTypes
  BY HardwareNodeAssumption
  DEF NodeInit, TriesAreCounted, TriesAreLeft, NoTryBefore, HelperTypes, Helpers
<1>2. FlagTypes
  BY DEF NodeInit, FlagTypes
<1>3. ThreadTypes
  BY DEF NodeInit, ThreadTypes, BeforeLoop
<1>4. LoopIsWithin /\ HelpersAreWithin /\ PublisherIsWithin /\ ClosedAtEnd
  BY DEF NodeInit, LoopIsWithin, HelpersAreWithin, PublisherIsWithin, ClosedAtEnd, LoopJoined,
         TimingJoined, PublisherTold, PublisherJoined, LogClosed, WithLoop, Helpers
<1>5. QED
  BY <1>1, <1>2, <1>3, <1>4 DEF NodeInv, NodeTypes

LEMMA TriesStep ==
  ASSUME NodeInv, [NodeNext]_nodeVars
  PROVE  TriesAreCounted' /\ TriesAreLeft' /\ NoTryBefore'
<1>1. Attempts \in Nat /\ Attempts > 0
  BY HardwareNodeAssumption
<1>2. TriesAreCounted /\ TriesAreLeft /\ NoTryBefore
  BY DEF NodeInv, NodeTypes
<1>3. attempt \in Nat /\ attempt <= Attempts
  BY <1>1, <1>2 DEF TriesAreCounted
<1>4. CASE StartUp
  <2>1. CASE TryBus
    <3>1. mainAt = "open bus" /\ mainAt' = "opening"
      BY <2>1 DEF TryBus, MainGoes
    <3>2. attempt # Attempts
      BY <3>1, <1>2 DEF TriesAreLeft
    <3>3. attempt' = attempt + 1
      BY <2>1 DEF TryBus
    <3>4. attempt' \in 0..Attempts
      BY <1>1, <1>3, <3>2, <3>3
    <3>5. QED
      BY <3>1, <3>4 DEF TriesAreCounted, TriesAreLeft, NoTryBefore
  <2>2. CASE BusOpens
    <3>1. mainAt' = "start monitor"
      BY <2>2 DEF BusOpens, MainGoes
    <3>2. attempt' = 0
      BY <2>2 DEF BusOpens
    <3>3. attempt' \in 0..Attempts
      BY <1>1, <3>2
    <3>4. attempt' # Attempts
      BY <1>1, <3>2
    <3>5. QED
      BY <3>1, <3>3, <3>4 DEF TriesAreCounted, TriesAreLeft, NoTryBefore
  <2>3. CASE BusFails
    <3>1. attempt' = attempt /\ mainAt' # "init"
      BY <2>3 DEF BusFails, MainGoes
    <3>2. ~(Attempts < Attempts)
      BY <1>1
    <3>3. attempt = Attempts => mainAt' = "destroy"
      BY <2>3, <3>2, Zenon DEF BusFails, MainGoes
    <3>4. QED
      BY <1>2, <3>1, <3>3 DEF TriesAreCounted, TriesAreLeft, NoTryBefore
  <2>4. CASE InitHardware
    <3>1. attempt # Attempts
      BY <2>4, <1>2 DEF InitHardware, MainGoes, TriesAreLeft
    <3>2. mainAt' # "init" /\ attempt' = attempt
      BY <2>4 DEF InitHardware, MainGoes
    <3>3. QED
      BY <1>2, <3>1, <3>2 DEF TriesAreCounted, TriesAreLeft, NoTryBefore
  <2>5. CASE ~(TryBus \/ BusOpens \/ BusFails \/ InitHardware)
    <3>1. mainAt' \notin {"init", "open bus"} /\ attempt' = attempt
      BY <1>4, <2>5
      DEF StartUp, StartMonitor, StartLogger, StartPublisher, StartLoop, Configure, Notify,
          StartTiming, MainGoes
    <3>2. QED
      BY <1>2, <3>1 DEF TriesAreCounted, TriesAreLeft, NoTryBefore
  <2>6. QED
    BY <2>1, <2>2, <2>3, <2>4, <2>5
<1>5. CASE StopLoop \/ Shutdown \/ TakeDown
  <2>1. mainAt' \notin {"init", "open bus"} /\ attempt' = attempt
    BY <1>5
    DEF StopLoop, Shutdown, TakeDown, JoinLoop, StopHelper, JoinHelper,
        StopPublisher, JoinPublisher, CloseLog, CloseBus, MainGoes
  <2>2. QED
    BY <1>2, <2>1 DEF TriesAreCounted, TriesAreLeft, NoTryBefore
<1>6. CASE LoopStep \/ SpuriousWakeup \/ PublishingStep \/ (\E h \in Helpers : HelperEnds(h))
           \/ UNCHANGED nodeVars
  <2>1. UNCHANGED <<mainAt, attempt>>
    BY <1>6
    DEF LoopStep, LoopLocks, LoopLooks, LoopBlocks, LoopEnds, SpuriousWakeup, Unpack, RaiseEvent,
        NodeRead, NodeQueue, BeginExchange, EndExchange, PublishingStep, PublisherLooks, PopEvent,
        EventsDone, NodePublish, HelperEnds, nodeVars, mainVars
  <2>2. QED
    BY <1>2, <2>1 DEF TriesAreCounted, TriesAreLeft, NoTryBefore
<1>7. QED
  BY <1>4, <1>5, <1>6 DEF NodeNext, MainStep, Terminated

LEMMA HelperTypesStep ==
  ASSUME NodeInv, [NodeNext]_nodeVars
  PROVE  HelperTypes'
<1> USE DEF NodeInv, NodeTypes, HelperTypes, Helpers
<1>1. CASE StartUp
  BY <1>1
  DEF StartUp, InitHardware, TryBus, BusOpens, BusFails, StartMonitor, StartLogger, StartPublisher,
      StartLoop, Configure, Notify, StartTiming, Starts, MainGoes, startVars, publisherVars, eventVars
<1>2. CASE StopLoop \/ Shutdown \/ TakeDown
  BY <1>2
  DEF StopLoop, Shutdown, TakeDown, JoinLoop, MayJoin, StopHelper, JoinHelper, Told,
      StopPublisher, JoinPublisher, CloseLog, CloseBus, MainGoes, startVars, publisherVars, eventVars
<1>3. CASE LoopStep \/ SpuriousWakeup
  BY <1>3
  DEF LoopStep, LoopLocks, LoopLooks, LoopBlocks, LoopEnds, SpuriousWakeup, Unpack, RaiseEvent,
      NodeRead, NodeQueue, BeginExchange, EndExchange, LoopGoes, mainVars, startVars, publisherVars, eventVars
<1>4. CASE PublishingStep \/ (\E h \in Helpers : HelperEnds(h)) \/ UNCHANGED nodeVars
  BY <1>4
  DEF PublishingStep, PublisherLooks, PublisherGoes, LastPass, PopEvent, EventsDone, NodePublish,
      HelperEnds, nodeVars, mainVars, startVars, publisherVars, eventVars
<1>5. QED
  BY <1>1, <1>2, <1>3, <1>4 DEF NodeNext, MainStep, Terminated

LEMMA FlagTypesStep ==
  ASSUME NodeInv, [NodeNext]_nodeVars
  PROVE  FlagTypes'
<1> USE DEF NodeInv, NodeTypes, FlagTypes
<1>1. CASE StartUp
  BY <1>1
  DEF StartUp, InitHardware, TryBus, BusOpens, BusFails, StartMonitor, StartLogger, StartPublisher,
      StartLoop, Configure, Notify, StartTiming, Starts, MainGoes, startVars, publisherVars, eventVars
<1>2. CASE StopLoop \/ Shutdown \/ TakeDown
  BY <1>2
  DEF StopLoop, Shutdown, TakeDown, JoinLoop, MayJoin, StopHelper, JoinHelper, Told,
      StopPublisher, JoinPublisher, CloseLog, CloseBus, MainGoes, startVars, publisherVars, eventVars
<1>3. CASE LoopStep \/ SpuriousWakeup
  BY <1>3
  DEF LoopStep, LoopLocks, LoopLooks, LoopBlocks, LoopEnds, SpuriousWakeup, Unpack, RaiseEvent,
      NodeRead, NodeQueue, BeginExchange, EndExchange, LoopGoes, mainVars, startVars, publisherVars, eventVars
<1>4. CASE PublishingStep \/ (\E h \in Helpers : HelperEnds(h)) \/ UNCHANGED nodeVars
  BY <1>4
  DEF PublishingStep, PublisherLooks, PublisherGoes, LastPass, PopEvent, EventsDone, NodePublish,
      HelperEnds, nodeVars, mainVars, startVars, publisherVars, eventVars
<1>5. QED
  BY <1>1, <1>2, <1>3, <1>4 DEF NodeNext, MainStep, Terminated

LEMMA ThreadTypesStep ==
  ASSUME NodeInv, [NodeNext]_nodeVars
  PROVE  ThreadTypes'
<1> USE DEF NodeInv, NodeTypes, ThreadTypes, BeforeLoop, WithLoop, LoopJoined, TimingJoined, PublisherTold, PublisherJoined,
        LogClosed
<1>1. CASE StartUp
  BY <1>1
  DEF StartUp, InitHardware, TryBus, BusOpens, BusFails, StartMonitor, StartLogger, StartPublisher,
      StartLoop, Configure, Notify, StartTiming, Starts, MainGoes, startVars, publisherVars, eventVars
<1>2. CASE StopLoop \/ Shutdown \/ TakeDown
  BY <1>2
  DEF StopLoop, Shutdown, TakeDown, JoinLoop, MayJoin, StopHelper, JoinHelper, Told,
      StopPublisher, JoinPublisher, CloseLog, CloseBus, MainGoes, startVars, publisherVars, eventVars
<1>3. CASE LoopStep \/ SpuriousWakeup
  BY <1>3
  DEF LoopStep, LoopLocks, LoopLooks, LoopBlocks, LoopEnds, SpuriousWakeup, Unpack, RaiseEvent,
      NodeRead, NodeQueue, BeginExchange, EndExchange, LoopGoes, mainVars, startVars, publisherVars, eventVars
<1>4. CASE PublishingStep \/ (\E h \in Helpers : HelperEnds(h)) \/ UNCHANGED nodeVars
  BY <1>4
  DEF PublishingStep, PublisherLooks, PublisherGoes, LastPass, PopEvent, EventsDone, NodePublish,
      HelperEnds, nodeVars, mainVars, startVars, publisherVars, eventVars
<1>5. QED
  BY <1>1, <1>2, <1>3, <1>4 DEF NodeNext, MainStep, Terminated

LEMMA LoopWithinStep ==
  ASSUME NodeInv, [NodeNext]_nodeVars
  PROVE  LoopIsWithin'
<1> USE DEF NodeInv, LoopIsWithin, BeforeLoop, WithLoop, LoopJoined, TimingJoined, PublisherTold, PublisherJoined,
        LogClosed
<1>1. CASE StartUp
  BY <1>1
  DEF StartUp, InitHardware, TryBus, BusOpens, BusFails, StartMonitor, StartLogger, StartPublisher,
      StartLoop, Configure, Notify, StartTiming, Starts, MainGoes, startVars, publisherVars, eventVars
<1>2. CASE StopLoop \/ Shutdown \/ TakeDown
  BY <1>2
  DEF StopLoop, Shutdown, TakeDown, JoinLoop, MayJoin, StopHelper, JoinHelper, Told,
      StopPublisher, JoinPublisher, CloseLog, CloseBus, MainGoes, startVars, publisherVars, eventVars
<1>3. CASE LoopStep \/ SpuriousWakeup
  BY <1>3
  DEF LoopStep, LoopLocks, LoopLooks, LoopBlocks, LoopEnds, SpuriousWakeup, Unpack, RaiseEvent,
      NodeRead, NodeQueue, BeginExchange, EndExchange, LoopGoes, mainVars, startVars, publisherVars, eventVars
<1>4. CASE PublishingStep \/ (\E h \in Helpers : HelperEnds(h)) \/ UNCHANGED nodeVars
  BY <1>4
  DEF PublishingStep, PublisherLooks, PublisherGoes, LastPass, PopEvent, EventsDone, NodePublish,
      HelperEnds, nodeVars, mainVars, startVars, publisherVars, eventVars
<1>5. QED
  BY <1>1, <1>2, <1>3, <1>4 DEF NodeNext, MainStep, Terminated

LEMMA HelpersWithinStep ==
  ASSUME NodeInv, [NodeNext]_nodeVars
  PROVE  HelpersAreWithin'
<1> USE DEF NodeInv, NodeTypes, HelperTypes, HelpersAreWithin, Helpers, BeforeLoop, WithLoop, LoopJoined, TimingJoined, PublisherTold, PublisherJoined,
        LogClosed
<1>1. CASE StartUp
  BY <1>1
  DEF StartUp, InitHardware, TryBus, BusOpens, BusFails, StartMonitor, StartLogger, StartPublisher,
      StartLoop, Configure, Notify, StartTiming, Starts, MainGoes, startVars, publisherVars, eventVars
<1>2. CASE StopLoop \/ Shutdown \/ TakeDown
  BY <1>2
  DEF StopLoop, Shutdown, TakeDown, JoinLoop, MayJoin, StopHelper, JoinHelper, Told,
      StopPublisher, JoinPublisher, CloseLog, CloseBus, MainGoes, startVars, publisherVars, eventVars
<1>3. CASE LoopStep \/ SpuriousWakeup
  BY <1>3
  DEF LoopStep, LoopLocks, LoopLooks, LoopBlocks, LoopEnds, SpuriousWakeup, Unpack, RaiseEvent,
      NodeRead, NodeQueue, BeginExchange, EndExchange, LoopGoes, mainVars, startVars, publisherVars, eventVars
<1>4. CASE PublishingStep \/ (\E h \in Helpers : HelperEnds(h)) \/ UNCHANGED nodeVars
  BY <1>4
  DEF PublishingStep, PublisherLooks, PublisherGoes, LastPass, PopEvent, EventsDone, NodePublish,
      HelperEnds, nodeVars, mainVars, startVars, publisherVars, eventVars
<1>5. QED
  BY <1>1, <1>2, <1>3, <1>4 DEF NodeNext, MainStep, Terminated

LEMMA PublisherWithinStep ==
  ASSUME NodeInv, [NodeNext]_nodeVars
  PROVE  PublisherIsWithin'
<1> USE DEF NodeInv, LoopIsWithin, PublisherIsWithin, BeforeLoop, WithLoop, LoopJoined, TimingJoined, PublisherTold, PublisherJoined,
        LogClosed
<1>1. CASE StartUp
  BY <1>1
  DEF StartUp, InitHardware, TryBus, BusOpens, BusFails, StartMonitor, StartLogger, StartPublisher,
      StartLoop, Configure, Notify, StartTiming, Starts, MainGoes, startVars, publisherVars, eventVars
<1>2. CASE StopLoop \/ Shutdown \/ TakeDown
  BY <1>2
  DEF StopLoop, Shutdown, TakeDown, JoinLoop, MayJoin, StopHelper, JoinHelper, Told,
      StopPublisher, JoinPublisher, CloseLog, CloseBus, MainGoes, startVars, publisherVars, eventVars
<1>3. CASE LoopStep \/ SpuriousWakeup
  BY <1>3
  DEF LoopStep, LoopLocks, LoopLooks, LoopBlocks, LoopEnds, SpuriousWakeup, Unpack, RaiseEvent,
      NodeRead, NodeQueue, BeginExchange, EndExchange, LoopGoes, mainVars, startVars, publisherVars, eventVars
<1>4. CASE PublishingStep \/ (\E h \in Helpers : HelperEnds(h)) \/ UNCHANGED nodeVars
  BY <1>4
  DEF PublishingStep, PublisherLooks, PublisherGoes, LastPass, PopEvent, EventsDone, NodePublish,
      HelperEnds, nodeVars, mainVars, startVars, publisherVars, eventVars
<1>5. QED
  BY <1>1, <1>2, <1>3, <1>4 DEF NodeNext, MainStep, Terminated

LEMMA ClosedStep ==
  ASSUME NodeInv, [NodeNext]_nodeVars
  PROVE  ClosedAtEnd'
<1> USE DEF NodeInv, NodeTypes, FlagTypes, ClosedAtEnd, LogClosed
<1>1. CASE StartUp
  BY <1>1
  DEF StartUp, InitHardware, TryBus, BusOpens, BusFails, StartMonitor, StartLogger, StartPublisher,
      StartLoop, Configure, Notify, StartTiming, Starts, MainGoes, startVars, publisherVars, eventVars
<1>2. CASE StopLoop \/ Shutdown
  BY <1>2 DEF StopLoop, Shutdown, MainGoes
<1>3. CASE TakeDown
  <2>1. CASE CloseLog
    BY <2>1 DEF CloseLog, MainGoes
  <2>2. CASE CloseBus
    BY <2>2 DEF CloseBus, MainGoes
  <2>3. CASE StopPublisher \/ JoinPublisher \/ JoinLoop
    BY <2>3 DEF StopPublisher, JoinPublisher, JoinLoop, MainGoes
  <2>4. CASE StopHelper("timing", "stop timing", "join timing")
    BY <2>4 DEF StopHelper, MainGoes
  <2>5. CASE StopHelper("logger", "destroy", "join logger")
    BY <2>5 DEF StopHelper, MainGoes
  <2>6. CASE StopHelper("monitor", "stop monitor", "join monitor")
    BY <2>6 DEF StopHelper, MainGoes
  <2>7. CASE JoinHelper("timing", "join timing", "destroy")
    BY <2>7 DEF JoinHelper, MainGoes
  <2>8. CASE JoinHelper("logger", "join logger", "stop publisher")
    BY <2>8 DEF JoinHelper, MainGoes
  <2>9. CASE JoinHelper("monitor", "join monitor", "close bus")
    BY <2>9 DEF JoinHelper, MainGoes
  <2>10. QED
    BY <1>3, <2>1, <2>2, <2>3, <2>4, <2>5, <2>6, <2>7, <2>8, <2>9 DEF TakeDown
<1>4. CASE LoopStep \/ SpuriousWakeup \/ PublishingStep \/ (\E h \in Helpers : HelperEnds(h))
           \/ UNCHANGED nodeVars
  <2>1. UNCHANGED <<mainAt, logOpen, inOP>>
    BY <1>4
    DEF LoopStep, LoopLocks, LoopLooks, LoopBlocks, LoopEnds, SpuriousWakeup, Unpack, RaiseEvent,
        NodeRead, NodeQueue, BeginExchange, EndExchange, PublishingStep, PublisherLooks, PopEvent,
        EventsDone, NodePublish, HelperEnds, nodeVars, mainVars
  <2>2. QED
    BY <2>1
<1>5. QED
  BY <1>1, <1>2, <1>3, <1>4 DEF NodeNext, MainStep, Terminated

LEMMA NodeInvStep ==
  ASSUME NodeInv, [NodeNext]_nodeVars
  PROVE  NodeInv'
<1>1. NodeTypes'
  BY TriesStep, HelperTypesStep, FlagTypesStep, ThreadTypesStep DEF NodeTypes
<1>2. QED
  BY <1>1, LoopWithinStep, HelpersWithinStep, PublisherWithinStep, ClosedStep DEF NodeInv

LEMMA NodeInvHolds == NodeSpec => []NodeInv
<1>1. NodeInit => NodeInv
  BY InitNode
<1>2. NodeInv /\ [NodeNext]_nodeVars => NodeInv'
  BY NodeInvStep
<1>3. QED
  BY <1>1, <1>2, PTL DEF NodeSpec

LEMMA AtMostOne ==
  ASSUME NEW S, S \in {{}, {"main"}, {"loop"}}
  PROVE  Cardinality(S) <= 1
<1>1. Cardinality({}) = 0
  BY FS_EmptySet
<1>2. Cardinality({"main"}) = 1 /\ Cardinality({"loop"}) = 1
  BY FS_Singleton, Zenon
<1>3. Cardinality(S) = 0 \/ Cardinality(S) = 1
  BY <1>1, <1>2, Zenon
<1>4. QED
  BY <1>3

\* SOEM has one user at a time, on an open bus, whatever fails in the start, and no
\* thread outlives the hardware.
THEOREM TeardownOrder == NodeSpec => []TeardownIsOrdered
<1>1. NodeInv => TeardownIsOrdered
  <2> SUFFICES ASSUME NodeInv PROVE TeardownIsOrdered
    OBVIOUS
  <2> USE DEF NodeInv, LoopIsWithin, BeforeLoop, WithLoop, LoopJoined, TimingJoined,
          PublisherTold, PublisherJoined, LogClosed
  <2>1. ~("main" \in SoemUsers /\ "loop" \in SoemUsers)
    BY DEF SoemUsers
  <2>2. SoemUsers \in {{}, {"main"}, {"loop"}}
    <3>1. SoemUsers \subseteq {"main", "loop"}
      BY DEF SoemUsers
    <3>2. QED
      BY <2>1, <3>1, Zenon
  <2>3. Cardinality(SoemUsers) <= 1
    BY <2>2, AtMostOne
  <2>4. "loop" \in SoemUsers => inOP
    <3>1. "loop" \in SoemUsers => loopAt \in {"unpack", "exchange"}
      BY DEF SoemUsers
    <3>2. loopAt \in {"unpack", "exchange"} => mainAt \in WithLoop
      BY DEF NodeTypes, ThreadTypes
    <3>3. mainAt \in WithLoop => inOP
      BY Zenon
    <3>4. QED
      BY <3>1, <3>2, <3>3, Zenon
  <2>5. mainAt = "down" =>
          /\ ~inOP /\ ~logOpen
          /\ loopAt \in {"none", "ended"} /\ publisherAt \in {"none", "ended"}
          /\ \A h \in Helpers : helper[h] \in {"none", "ended"}
    BY DEF ClosedAtEnd, PublisherIsWithin, HelpersAreWithin, Helpers
  <2>6. QED
    BY <2>3, <2>4, <2>5 DEF TeardownIsOrdered
<1>2. QED
  BY <1>1, NodeInvHolds, PTL
-----------------------------------------------------------------------------
(* The CAN events: what is queued is younger than what is logged, and what *)
(* was raised is logged, queued, reported as dropped or about to be.       *)

EventTypes ==
  /\ events \in Seq(Nat) /\ logged \in Seq(Nat)
  /\ dropped \in Nat /\ raised \in Nat /\ told \in Nat /\ raised <= MaxEvents

EventsAreCounted == Len(logged) + Len(events) + told + dropped = raised

Increasing(s) == \A i, j \in 1..Len(s) : i < j => s[i] < s[j]
UpTo(s, n) == \A i \in 1..Len(s) : s[i] <= n
Before(s, t) == \A i \in 1..Len(s), j \in 1..Len(t) : s[i] < t[j]

EventsAreInOrder ==
  /\ Increasing(logged) /\ Increasing(events) /\ Before(logged, events)
  /\ UpTo(events, raised) /\ UpTo(logged, raised)

\* Nothing is raised before the loop, and nothing left after the publisher.
EventsAreWithin ==
  /\ loopAt = "none" => raised = 0
  /\ publisherAt = "ended" => events = <<>> /\ dropped = 0

EventInv == EventTypes /\ EventsAreCounted /\ EventsAreInOrder /\ EventsAreWithin

LEMMA InitEvents == NodeInit => EventInv
<1> SUFFICES ASSUME NodeInit PROVE EventInv
  OBVIOUS
<1>1. events = <<>> /\ logged = <<>> /\ dropped = 0 /\ raised = 0 /\ told = 0 /\ publisherAt = "none"
  BY DEF NodeInit
<1>2. MaxEvents \in Nat
  BY HardwareNodeAssumption
<1>3. EventTypes /\ EventsAreCounted
  BY <1>1, <1>2 DEF EventTypes, EventsAreCounted
<1>4. EventsAreInOrder /\ EventsAreWithin
  BY <1>1 DEF EventsAreInOrder, EventsAreWithin, Increasing, UpTo, Before
<1>5. QED
  BY <1>3, <1>4 DEF EventInv

\* The youngest comes last.
LEMMA AppendInOrder ==
  ASSUME NEW s \in Seq(Nat), NEW t \in Seq(Nat), NEW n \in Nat,
         Increasing(s), UpTo(s, n), UpTo(t, n), Before(t, s),
         NEW longer, longer = Append(s, n + 1)
  PROVE  /\ longer \in Seq(Nat) /\ Len(longer) = Len(s) + 1
         /\ Increasing(longer) /\ UpTo(longer, n + 1)
         /\ UpTo(t, n + 1) /\ UpTo(s, n + 1) /\ Before(t, longer)
<1>1. /\ longer \in Seq(Nat) /\ Len(s) \in Nat /\ Len(longer) = Len(s) + 1
      /\ \A i \in 1..Len(s) : longer[i] = s[i] /\ s[i] \in Nat
      /\ longer[Len(s) + 1] = n + 1
  OBVIOUS
<1>2. /\ Len(t) \in Nat
      /\ \A i \in 1..Len(t) : t[i] \in Nat
  OBVIOUS
<1>3. ASSUME NEW i \in 1..Len(longer)
      PROVE  i = Len(s) + 1 \/ i \in 1..Len(s)
  BY <1>1
<1>4. UpTo(longer, n + 1)
  <2> SUFFICES ASSUME NEW i \in 1..Len(longer) PROVE longer[i] <= n + 1
    BY DEF UpTo
  <2>1. CASE i \in 1..Len(s)
    BY <1>1, <2>1 DEF UpTo
  <2>2. QED
    BY <1>1, <1>3, <2>1
<1>5. Increasing(longer)
  <2> SUFFICES ASSUME NEW i \in 1..Len(longer), NEW j \in 1..Len(longer), i < j
               PROVE  longer[i] < longer[j]
    BY DEF Increasing
  <2>1. i \in 1..Len(s) /\ longer[i] = s[i] /\ s[i] \in Nat /\ s[i] <= n
    BY <1>1 DEF UpTo
  <2>2. CASE j \in 1..Len(s)
    BY <1>1, <2>1, <2>2 DEF Increasing
  <2>3. QED
    BY <1>1, <1>3, <2>1, <2>2
<1>6. UpTo(t, n + 1) /\ UpTo(s, n + 1)
  BY <1>1, <1>2 DEF UpTo
<1>7. Before(t, longer)
  <2> SUFFICES ASSUME NEW i \in 1..Len(t), NEW j \in 1..Len(longer)
               PROVE  t[i] < longer[j]
    BY DEF Before
  <2>1. t[i] \in Nat /\ t[i] <= n
    BY <1>2 DEF UpTo
  <2>2. CASE j \in 1..Len(s)
    BY <1>1, <2>2 DEF Before
  <2>3. QED
    BY <1>1, <1>3, <2>1, <2>2
<1>8. QED
  BY <1>1, <1>4, <1>5, <1>6, <1>7

\* The oldest goes first.
LEMMA MoveInOrder ==
  ASSUME NEW s \in Seq(Nat), NEW t \in Seq(Nat), NEW n \in Nat, s # <<>>,
         Increasing(s), Increasing(t), UpTo(s, n), UpTo(t, n), Before(t, s),
         NEW rest, rest = Tail(s), NEW longer, longer = Append(t, Head(s))
  PROVE  /\ rest \in Seq(Nat) /\ longer \in Seq(Nat)
         /\ Len(rest) + 1 = Len(s) /\ Len(longer) = Len(t) + 1
         /\ Increasing(rest) /\ Increasing(longer)
         /\ UpTo(rest, n) /\ UpTo(longer, n) /\ Before(longer, rest)
<1>1. /\ Len(s) \in Nat /\ Len(s) > 0 /\ rest \in Seq(Nat) /\ Len(rest) = Len(s) - 1
      /\ s[1] \in Nat /\ Head(s) = s[1]
  OBVIOUS
<1>2. ASSUME NEW i \in 1..Len(rest)
      PROVE  i + 1 \in 1..Len(s) /\ 1 < i + 1 /\ rest[i] = s[i + 1] /\ s[i + 1] \in Nat
  BY <1>1
<1>3. /\ longer \in Seq(Nat) /\ Len(t) \in Nat /\ Len(longer) = Len(t) + 1
      /\ \A i \in 1..Len(t) : longer[i] = t[i] /\ t[i] \in Nat
      /\ longer[Len(t) + 1] = s[1]
  BY <1>1
<1>4. ASSUME NEW i \in 1..Len(longer)
      PROVE  i = Len(t) + 1 \/ i \in 1..Len(t)
  BY <1>3
<1>5. UpTo(rest, n)
  BY <1>1, <1>2 DEF UpTo
<1>6. Increasing(rest)
  <2> SUFFICES ASSUME NEW i \in 1..Len(rest), NEW j \in 1..Len(rest), i < j
               PROVE  rest[i] < rest[j]
    BY DEF Increasing
  <2>1. i + 1 < j + 1
    BY <1>1
  <2>2. QED
    BY <1>2, <2>1 DEF Increasing
<1>7. UpTo(longer, n)
  <2> SUFFICES ASSUME NEW i \in 1..Len(longer) PROVE longer[i] <= n
    BY DEF UpTo
  <2>1. CASE i \in 1..Len(t)
    BY <1>3, <2>1 DEF UpTo
  <2>2. CASE i = Len(t) + 1
    BY <1>1, <1>3, <2>2 DEF UpTo
  <2>3. QED
    BY <1>4, <2>1, <2>2
<1>8. Increasing(longer)
  <2> SUFFICES ASSUME NEW i \in 1..Len(longer), NEW j \in 1..Len(longer), i < j
               PROVE  longer[i] < longer[j]
    BY DEF Increasing
  <2>1. i \in 1..Len(t) /\ longer[i] = t[i]
    BY <1>3
  <2>2. CASE j \in 1..Len(t)
    BY <1>3, <2>1, <2>2 DEF Increasing
  <2>3. CASE j = Len(t) + 1
    BY <1>1, <1>3, <2>1, <2>3 DEF Before
  <2>4. QED
    BY <1>4, <2>2, <2>3
<1>9. Before(longer, rest)
  <2> SUFFICES ASSUME NEW i \in 1..Len(longer), NEW j \in 1..Len(rest)
               PROVE  longer[i] < rest[j]
    BY DEF Before
  <2>1. j + 1 \in 1..Len(s) /\ 1 < j + 1 /\ rest[j] = s[j + 1]
    BY <1>2
  <2>2. CASE i \in 1..Len(t)
    BY <1>3, <2>1, <2>2 DEF Before
  <2>3. CASE i = Len(t) + 1
    BY <1>1, <1>3, <2>1, <2>3 DEF Increasing
  <2>4. QED
    BY <1>4, <2>2, <2>3
<1>10. QED
  BY <1>1, <1>3, <1>5, <1>6, <1>7, <1>8, <1>9

\* What is told is no longer dropped.
LEMMA SameSum ==
  ASSUME NEW a \in Nat, NEW b \in Nat, NEW c \in Nat, NEW d \in Nat, NEW n \in Nat,
         a + b + c + d = n
  PROVE  /\ a + (b + 1) + c + d = n + 1 /\ a + b + c + (d + 1) = n + 1
         /\ a + b + (c + d) + 0 = n
         /\ \A b2 \in Nat : b2 + 1 = b => (a + 1) + b2 + c + d = n
OBVIOUS

\* An event is raised while the publisher is there to take it.
LEMMA RaiseEventKeeps ==
  ASSUME NodeInv, EventInv, RaiseEvent
  PROVE  EventInv'
<1>1. loopAt = "unpack" /\ loopAt' = loopAt /\ publisherAt' = publisherAt
  BY DEF RaiseEvent, publisherVars
<1>2. EventsAreWithin'
  <2>1. mainAt \notin LoopJoined
    BY <1>1 DEF NodeInv, LoopIsWithin
  <2>2. publisherAt # "ended"
    BY <2>1 DEF NodeInv, PublisherIsWithin, PublisherTold, PublisherJoined, LoopJoined, TimingJoined
  <2>3. QED
    BY <1>1, <2>2 DEF EventsAreWithin
<1>3. /\ events \in Seq(Nat) /\ logged \in Seq(Nat) /\ Len(events) \in Nat /\ Len(logged) \in Nat
      /\ dropped \in Nat /\ raised \in Nat /\ told \in Nat
  BY DEF EventInv, EventTypes
<1>4. raised < MaxEvents /\ raised' = raised + 1 /\ logged' = logged /\ told' = told
  BY DEF RaiseEvent
<1>5. /\ Increasing(events) /\ Increasing(logged) /\ Before(logged, events)
      /\ UpTo(events, raised) /\ UpTo(logged, raised)
      /\ Len(logged) + Len(events) + told + dropped = raised
  BY DEF EventInv, EventsAreInOrder, EventsAreCounted
<1>6. raised' \in Nat /\ raised' <= MaxEvents
  BY <1>3, <1>4, HardwareNodeAssumption
<1>7. CASE events' = Append(events, raised + 1) /\ dropped' = dropped
  <2>1. EventTypes'
    BY <1>3, <1>4, <1>5, <1>6, <1>7, AppendInOrder DEF EventTypes
  <2>2. EventsAreCounted'
    <3>1. Len(events') = Len(events) + 1
      BY <1>3, <1>5, <1>7, AppendInOrder
    <3>2. QED
      BY <1>3, <1>4, <1>5, <1>7, <3>1, SameSum DEF EventsAreCounted
  <2>3. EventsAreInOrder'
    BY <1>3, <1>4, <1>5, <1>7, AppendInOrder DEF EventsAreInOrder
  <2>4. QED
    BY <1>2, <2>1, <2>2, <2>3 DEF EventInv
<1>8. CASE events' = events /\ dropped' = dropped + 1
  <2>1. EventTypes'
    BY <1>3, <1>4, <1>6, <1>8 DEF EventTypes
  <2>2. EventsAreCounted'
    BY <1>3, <1>4, <1>5, <1>8, SameSum DEF EventsAreCounted
  <2>3. EventsAreInOrder'
    BY <1>3, <1>4, <1>5, <1>8, AppendInOrder DEF EventsAreInOrder
  <2>4. QED
    BY <1>2, <2>1, <2>2, <2>3 DEF EventInv
<1>9. QED
  BY <1>7, <1>8 DEF RaiseEvent

LEMMA PopEventKeeps ==
  ASSUME EventInv, PopEvent
  PROVE  EventInv'
<1>1. /\ events \in Seq(Nat) /\ logged \in Seq(Nat) /\ Len(events) \in Nat /\ Len(logged) \in Nat
      /\ dropped \in Nat /\ raised \in Nat /\ told \in Nat
  BY DEF EventInv, EventTypes
<1>2. /\ events # <<>> /\ events' = Tail(events) /\ logged' = Append(logged, Head(events))
      /\ UNCHANGED <<dropped, raised, told, loopAt, publisherAt>> /\ publisherAt # "ended"
  BY DEF PopEvent, publisherVars
<1>3. /\ Increasing(events) /\ Increasing(logged) /\ Before(logged, events)
      /\ UpTo(events, raised) /\ UpTo(logged, raised)
      /\ Len(logged) + Len(events) + told + dropped = raised
  BY DEF EventInv, EventsAreInOrder, EventsAreCounted
<1>4. /\ events' \in Seq(Nat) /\ logged' \in Seq(Nat) /\ Len(events') \in Nat
      /\ Len(events') + 1 = Len(events) /\ Len(logged') = Len(logged) + 1
  BY <1>1, <1>2, <1>3, MoveInOrder
<1>5. EventTypes'
  BY <1>2, <1>4 DEF EventInv, EventTypes
<1>6. EventsAreCounted'
  <2>1. (Len(logged) + 1) + Len(events') + told + dropped = raised
    <3>1. \A b \in Nat : b + 1 = Len(events) =>
            (Len(logged) + 1) + b + told + dropped = raised
      BY <1>1, <1>3, SameSum
    <3>2. QED
      BY <1>4, <3>1
  <2>2. QED
    BY <1>2, <1>4, <2>1 DEF EventsAreCounted
<1>7. EventsAreInOrder'
  <2>1. /\ Increasing(logged') /\ Increasing(events') /\ Before(logged', events')
        /\ UpTo(events', raised) /\ UpTo(logged', raised)
    <3>1. ASSUME NEW rest, rest = Tail(events), NEW longer, longer = Append(logged, Head(events))
          PROVE  /\ Increasing(longer) /\ Increasing(rest) /\ Before(longer, rest)
                 /\ UpTo(rest, raised) /\ UpTo(longer, raised)
      <4>1. events \in Seq(Nat) /\ logged \in Seq(Nat) /\ raised \in Nat /\ events # <<>>
        BY <1>1, <1>2
      <4>2. /\ Increasing(events) /\ Increasing(logged) /\ Before(logged, events)
            /\ UpTo(events, raised) /\ UpTo(logged, raised)
        BY <1>3
      <4>3. QED
        BY <3>1, <4>1, <4>2, MoveInOrder
    <3>2. QED
      BY <1>2, <3>1, Zenon
  <2>2. QED
    BY <1>2, <2>1 DEF EventsAreInOrder, Increasing, Before, UpTo
<1>8. EventsAreWithin'
  BY <1>2 DEF EventInv, EventsAreWithin
<1>9. QED
  BY <1>5, <1>6, <1>7, <1>8 DEF EventInv

\* The count of dropped events is reported, or nothing changes.
LEMMA ReportKeeps ==
  ASSUME EventInv, UNCHANGED <<events, raised, logged>>,
         ReportDropped \/ UNCHANGED <<dropped, told>>, EventsAreWithin'
  PROVE  EventInv'
<1>1. /\ Len(events) \in Nat /\ Len(logged) \in Nat
      /\ dropped \in Nat /\ raised \in Nat /\ told \in Nat
      /\ Len(logged) + Len(events) + told + dropped = raised
  BY DEF EventInv, EventTypes, EventsAreCounted
<1>2. EventTypes'
  <2>1. dropped' \in Nat /\ told' \in Nat
    BY <1>1 DEF ReportDropped
  <2>2. QED
    BY <2>1 DEF EventInv, EventTypes
<1>3. EventsAreCounted'
  <2>1. CASE told' = told + dropped /\ dropped' = 0
    BY <1>1, <2>1, SameSum DEF EventsAreCounted
  <2>2. CASE UNCHANGED <<dropped, told>>
    BY <1>1, <2>2 DEF EventsAreCounted
  <2>3. QED
    BY <2>1, <2>2 DEF ReportDropped
<1>4. EventsAreInOrder'
  BY DEF EventInv, EventsAreInOrder
<1>5. QED
  BY <1>2, <1>3, <1>4 DEF EventInv

LEMMA EventStep ==
  ASSUME NodeInv, EventInv, [NodeNext]_nodeVars
  PROVE  EventInv'
<1>1. CASE RaiseEvent
  BY <1>1, RaiseEventKeeps
<1>2. CASE PopEvent
  BY <1>2, PopEventKeeps
<1>3. CASE PublisherLooks
  <2>1. publisherAt' # "ended" /\ loopAt' = loopAt
    BY <1>3 DEF PublisherLooks, PublisherGoes, LastPass
  <2>2. /\ UNCHANGED <<events, raised, logged>>
        /\ ReportDropped \/ UNCHANGED <<dropped, told>>
    BY <1>3 DEF PublisherLooks
  <2>3. EventsAreWithin'
    BY <2>1, <2>2 DEF EventInv, EventsAreWithin
  <2>4. QED
    BY <2>2, <2>3, ReportKeeps
<1>4. CASE EventsDone
  <2>1. /\ events = <<>> /\ loopAt' = loopAt
        /\ publisherAt' = "ended" => dropped' = 0
    BY <1>4 DEF EventsDone, PublisherGoes, ReportDropped
  <2>2. /\ UNCHANGED <<events, raised, logged>>
        /\ ReportDropped \/ UNCHANGED <<dropped, told>>
    BY <1>4 DEF EventsDone
  <2>3. EventsAreWithin'
    BY <2>1, <2>2 DEF EventInv, EventsAreWithin
  <2>4. QED
    BY <2>2, <2>3, ReportKeeps
<1>5. CASE ~(RaiseEvent \/ PopEvent \/ PublisherLooks \/ EventsDone)
  <2>1. UNCHANGED eventVars
    <3>1. CASE StartUp
      BY <3>1
      DEF StartUp, InitHardware, TryBus, BusOpens, BusFails, StartMonitor, StartLogger, StartPublisher,
          StartLoop, Configure, Notify, StartTiming
    <3>2. CASE StopLoop \/ Shutdown \/ TakeDown
      BY <3>2
      DEF StopLoop, Shutdown, TakeDown, JoinLoop, StopHelper, JoinHelper, StopPublisher, JoinPublisher,
          CloseLog, CloseBus
    <3>3. CASE LoopStep \/ SpuriousWakeup
      BY <1>5, <3>3
      DEF LoopStep, LoopLocks, LoopLooks, LoopBlocks, LoopEnds, SpuriousWakeup, Unpack,
          NodeRead, NodeQueue, BeginExchange, EndExchange
    <3>4. CASE PublishingStep \/ (\E h \in Helpers : HelperEnds(h)) \/ UNCHANGED nodeVars
      BY <1>5, <3>4 DEF PublishingStep, NodePublish, HelperEnds, nodeVars
    <3>5. QED
      BY <3>1, <3>2, <3>3, <3>4 DEF NodeNext, MainStep, Terminated
  <2>2. loopAt' = "none" => loopAt = "none"
    <3>1. CASE StartUp \/ StopLoop \/ Shutdown \/ TakeDown
      BY <3>1
      DEF StartUp, InitHardware, TryBus, BusOpens, BusFails, StartMonitor, StartLogger, StartPublisher,
          StartLoop, Configure, Notify, StartTiming, StopLoop, Shutdown, TakeDown, JoinLoop, StopHelper,
          JoinHelper, StopPublisher, JoinPublisher, CloseLog, CloseBus
    <3>2. CASE LoopStep \/ SpuriousWakeup \/ PublishingStep \/ (\E h \in Helpers : HelperEnds(h))
               \/ UNCHANGED nodeVars
      BY <1>5, <3>2
      DEF LoopStep, LoopLocks, LoopLooks, LoopBlocks, LoopEnds, SpuriousWakeup, Unpack, LoopGoes,
          NodeRead, NodeQueue, BeginExchange, EndExchange, PublishingStep, NodePublish, HelperEnds,
          nodeVars
    <3>3. QED
      BY <3>1, <3>2 DEF NodeNext, MainStep, Terminated
  <2>3. publisherAt' = "ended" => publisherAt = "ended"
    <3>1. CASE StartUp \/ StopLoop \/ Shutdown \/ TakeDown
      BY <3>1
      DEF StartUp, InitHardware, TryBus, BusOpens, BusFails, StartMonitor, StartLogger, StartPublisher,
          StartLoop, Configure, Notify, StartTiming, StopLoop, Shutdown, TakeDown, JoinLoop, StopHelper,
          JoinHelper, StopPublisher, JoinPublisher, CloseLog, CloseBus, publisherVars
    <3>2. CASE LoopStep \/ SpuriousWakeup \/ PublishingStep \/ (\E h \in Helpers : HelperEnds(h))
               \/ UNCHANGED nodeVars
      BY <1>5, <3>2
      DEF LoopStep, LoopLocks, LoopLooks, LoopBlocks, LoopEnds, SpuriousWakeup, Unpack,
          NodeRead, NodeQueue, BeginExchange, EndExchange, PublishingStep, NodePublish, HelperEnds,
          nodeVars, publisherVars
    <3>3. QED
      BY <3>1, <3>2 DEF NodeNext, MainStep, Terminated
  <2>4. QED
    BY <2>1, <2>2, <2>3
    DEF EventInv, EventTypes, EventsAreCounted, EventsAreInOrder, EventsAreWithin, eventVars
<1>6. QED
  BY <1>1, <1>2, <1>3, <1>4, <1>5

LEMMA EventInvHolds == NodeSpec => []EventInv
<1>1. NodeInit => EventInv
  BY InitEvents
<1>2. NodeInv /\ EventInv /\ [NodeNext]_nodeVars => EventInv'
  BY EventStep
<1>3. QED
  BY <1>1, <1>2, NodeInvHolds, PTL DEF NodeSpec

\* Whenever the log is closed, every CAN event has been logged, once and in order,
\* or reported as dropped, however the node came down.
THEOREM EventsAccounted == NodeSpec => []EventsAreAccountedFor
<1>1. NodeInv /\ EventInv => EventsAreAccountedFor
  <2> SUFFICES ASSUME NodeInv, EventInv PROVE EventsAreAccountedFor
    OBVIOUS
  <2>1. /\ Len(events) \in Nat /\ Len(logged) \in Nat /\ DOMAIN logged = 1..Len(logged)
        /\ dropped \in Nat /\ raised \in Nat /\ told \in Nat
    BY DEF EventInv, EventTypes
  <2>2. \A i, j \in DOMAIN logged : i < j => logged[i] < logged[j]
    BY <2>1 DEF EventInv, EventsAreInOrder, Increasing
  <2>3. ASSUME mainAt \in PublisherJoined
        PROVE  Len(logged) + told = raised
    <3>1. publisherAt = "ended" \/ raised = 0
      BY <2>3 DEF NodeInv, PublisherIsWithin, EventInv, EventsAreWithin
    <3>2. CASE publisherAt = "ended"
      <4>1. events = <<>> /\ dropped = 0
        BY <3>2 DEF EventInv, EventsAreWithin
      <4>2. Len(events) = 0
        BY <4>1
      <4>3. QED
        BY <2>1, <4>1, <4>2 DEF EventInv, EventsAreCounted
    <3>3. CASE raised = 0
      BY <2>1, <3>3 DEF EventInv, EventsAreCounted
    <3>4. QED
      BY <3>1, <3>2, <3>3
  <2>4. QED
    BY <2>2, <2>3 DEF EventsAreAccountedFor, PublisherJoined, LogClosed
<1>2. QED
  BY <1>1, NodeInvHolds, EventInvHolds, PTL

\* Every variable of the node and of the motor feedback in it keeps its type.
THEOREM TypeCorrect == NodeSpec => []NodeTypeOK
<1>1. FeedbackInv /\ NodeInv /\ EventInv => NodeTypeOK
  <2> SUFFICES ASSUME FeedbackInv, NodeInv, EventInv PROVE NodeTypeOK
    OBVIOUS
  <2>1. Ring!TypeOK
    BY DEF FeedbackInv, RingProofs!RingInv, RingProofs!TypeOK, Ring!TypeOK
  <2>2. queued \in {{}, {TRUE}, {FALSE}}
    <3>1. Len(Waiting) \in Nat /\ \A i \in 1..Len(Waiting) : Waiting[i].valid \in BOOLEAN
      BY WaitingIs, SampleIs
    <3>2. published.valid \in BOOLEAN
      BY SampleIs DEF FeedbackInv
    <3> HIDE DEF Waiting
    <3>3. queued = KnownBefore(Len(Waiting) + 1)
      BY DEF FeedbackInv, MarksAreInOrder
    <3>4. CASE Len(Waiting) = 0
      <4>1. queued = Known
        BY <3>3, <3>4 DEF KnownBefore
      <4>2. QED
        BY <3>2, <4>1 DEF Known
    <3>5. CASE Len(Waiting) # 0
      <4>1. Len(Waiting) \in 1..Len(Waiting)
        BY <3>1, <3>5
      <4>2. queued = {Waiting[Len(Waiting)].valid}
        BY <3>1, <3>3, <3>5 DEF KnownBefore
      <4>3. QED
        BY <3>1, <4>1, <4>2, Zenon
    <3>6. QED
      BY <3>4, <3>5
  <2>3. TypeOK
    BY <2>1, <2>2 DEF FeedbackInv, TypeOK
  <2>4. attempt \in 0..Attempts
    BY DEF NodeInv, NodeTypes, TriesAreCounted
  <2>5. HelperTypes /\ FlagTypes /\ ThreadTypes
    BY DEF NodeInv, NodeTypes
  <2>6. raised \in 0..MaxEvents
    BY HardwareNodeAssumption DEF EventInv, EventTypes
  <2>7. EventTypes
    BY DEF EventInv
  <2>8. mainAt \in BeforeLoop \cup WithLoop \cup LoopJoined
    BY <2>5 DEF ThreadTypes
  <2> HIDE DEF FeedbackInv, NodeInv, EventInv
  <2>9. QED
    BY <2>3, <2>4, <2>5, <2>6, <2>7, <2>8, Zenon
    DEF NodeTypeOK, HelperTypes, FlagTypes, ThreadTypes, EventTypes, BeforeLoop, WithLoop, LoopJoined,
        TimingJoined, PublisherTold, PublisherJoined, LogClosed
<1>2. QED
  BY <1>1, FeedbackIsInvariant, NodeImplements, NodeInvHolds, EventInvHolds, PTL
=============================================================================
