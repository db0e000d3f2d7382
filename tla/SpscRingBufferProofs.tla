------------------------- MODULE SpscRingBufferProofs -------------------------
(***************************************************************************)
(* The ring buffer implements the bounded queue for every capacity and     *)
(* every set of values.  The invariant says what each thread may rely on   *)
(* after its one look at the other's index: the producer that there is     *)
(* still room, the consumer that there is still a value.                   *)
(***************************************************************************)
EXTENDS SpscRingBuffer, TLAPS

RoomStays == producerAt # "idle" => ~Full
OfferIsWritten == producerAt = "store" => slots[head] = offer
ValueStays == consumerAt # "idle" => tail # head
ValueIsRead == consumerAt = "store" => value = slots[tail]

RingInv == TypeOK /\ RoomStays /\ OfferIsWritten /\ ValueStays /\ ValueIsRead

-----------------------------------------------------------------------------
(* Arithmetic of the indices. *)

\* The place i slots after t.
Place(t, i) == IF t + i < Capacity THEN t + i ELSE t + i - Capacity

LEMMA Wraps ==
  ASSUME SpscRingBufferAssumption, NEW t \in 0..Capacity-1, NEW i \in 0..Capacity-1
  PROVE  (t + i) % Capacity = Place(t, i) /\ Place(t, i) \in 0..Capacity-1
<1>1. Capacity \in Nat /\ Capacity > 0
  BY DEF SpscRingBufferAssumption
<1>2. CASE t + i < Capacity
  BY <1>1, <1>2 DEF Place
<1>3. CASE t + i >= Capacity
  <2>1. t + i = (t + i - Capacity) + 1 * Capacity /\ t + i - Capacity \in 0..Capacity-1
    BY <1>1, <1>3
  <2>2. QED
    BY <1>1, <1>3, <2>1 DEF Place
<1>4. QED
  BY <1>1, <1>2, <1>3

\* The next index.
LEMMA IncrementWraps ==
  ASSUME SpscRingBufferAssumption, NEW t \in 0..Capacity-1
  PROVE  Increment(t) = Place(t, 1) /\ Increment(t) \in 0..Capacity-1
<1>1. 1 \in 0..Capacity-1
  BY DEF SpscRingBufferAssumption
<1>2. QED
  BY <1>1, Wraps DEF Increment

\* How many values there are, and where the head is.
LEMMA SizeIs ==
  ASSUME SpscRingBufferAssumption, TypeOK
  PROVE  /\ Size \in 0..Capacity-1
         /\ Full <=> Size = Capacity - 1
         /\ tail = head <=> Size = 0
         /\ Place(tail, Size) = head
         /\ \A i \in 0..Size-1 : Place(tail, i) # head
<1>1. Capacity \in Nat /\ Capacity >= 2 /\ head \in 0..Capacity-1 /\ tail \in 0..Capacity-1
  BY DEF SpscRingBufferAssumption, TypeOK
<1>2. Full <=> Place(head, 1) = tail
  BY <1>1, IncrementWraps DEF Full
<1>3. QED
  BY <1>1, <1>2 DEF Size, Place

\* The n values in the slots of a store from t on.
Held(t, n, store) == [i \in 1..n |-> store[(t + i - 1) % Capacity]]

LEMMA SlotsHold ==
  ASSUME SpscRingBufferAssumption, NEW t \in 0..Capacity-1, NEW n \in 0..Capacity-1,
         NEW store \in [0..Capacity-1 -> Values]
  PROVE  /\ Held(t, n, store) \in Seq(Values)
         /\ Len(Held(t, n, store)) = n
         /\ \A i \in 1..n : Held(t, n, store)[i] = store[Place(t, i - 1)]
<1>1. Capacity \in Nat
  BY DEF SpscRingBufferAssumption
<1>2. ASSUME NEW i \in 1..n
      PROVE  /\ (t + i - 1) % Capacity = Place(t, i - 1)
             /\ store[(t + i - 1) % Capacity] \in Values
  <2>1. i - 1 \in 0..Capacity-1 /\ t + i - 1 = t + (i - 1)
    BY <1>1
  <2>2. (t + (i - 1)) % Capacity = Place(t, i - 1) /\ Place(t, i - 1) \in 0..Capacity-1
    BY <1>1, <2>1, Wraps
  <2>3. QED
    BY <1>1, <2>1, <2>2
<1>3. Held(t, n, store) \in [1..n -> Values] /\ n \in Nat
  BY <1>1, <1>2 DEF Held
<1>4. \A i \in 1..n : Held(t, n, store)[i] = store[Place(t, i - 1)]
  BY <1>2 DEF Held
<1>5. QED
  BY <1>3, <1>4

\* The values in the ring.
LEMMA ContentsAre ==
  ASSUME SpscRingBufferAssumption, TypeOK
  PROVE  /\ Contents \in Seq(Values)
         /\ Len(Contents) = Size
         /\ \A i \in 1..Size : Contents[i] = slots[Place(tail, i - 1)]
<1>1. tail \in 0..Capacity-1 /\ Size \in 0..Capacity-1 /\ slots \in [0..Capacity-1 -> Values]
  BY SizeIs DEF TypeOK
<1>2. Contents = Held(tail, Size, slots)
  BY DEF Contents, Held
<1> HIDE DEF Contents, Size
<1>3. QED
  BY <1>1, <1>2, SlotsHold

-----------------------------------------------------------------------------
(* The steps. *)

\* At first the ring is empty.
LEMMA InitRing ==
  ASSUME SpscRingBufferAssumption, Init
  PROVE  RingInv /\ Queue!Init
<1>1. TypeOK /\ Size = 0
  BY DEF Init, TypeOK, SpscRingBufferAssumption, Size
<1>2. Contents = <<>>
  BY <1>1, ContentsAre
<1>3. QED
  BY <1>1, <1>2 DEF Init, RingInv, RoomStays, OfferIsWritten, ValueStays, ValueIsRead, Queue!Init

\* The contents do not change if neither the indices nor the slots in use do.
LEMMA ContentsStay ==
  ASSUME SpscRingBufferAssumption, TypeOK, TypeOK', UNCHANGED <<head, tail>>,
         \A j \in 0..Capacity-1 : j # head => slots'[j] = slots[j]
  PROVE  Contents' = Contents
<1>1. Size' = Size /\ Size \in 0..Capacity-1 /\ Capacity \in Nat /\ tail \in 0..Capacity-1
  BY SizeIs DEF Size, SpscRingBufferAssumption, TypeOK
<1>2. ASSUME NEW i \in 1..Size
      PROVE  slots'[(tail' + i - 1) % Capacity] = slots[(tail + i - 1) % Capacity]
  <2>1. i - 1 \in 0..Size-1 /\ i - 1 \in 0..Capacity-1 /\ tail + i - 1 = tail + (i - 1)
    BY <1>1
  <2>2. (tail + (i - 1)) % Capacity = Place(tail, i - 1) /\ Place(tail, i - 1) \in 0..Capacity-1
    BY <1>1, <2>1, Wraps
  <2>3. Place(tail, i - 1) # head
    BY <2>1, SizeIs
  <2>4. QED
    BY <2>1, <2>2, <2>3
<1>3. QED
  BY <1>1, <1>2 DEF Contents

\* push() refuses or takes on a value; writing the slot is invisible.
LEMMA LoadTailStep ==
  ASSUME SpscRingBufferAssumption, RingInv, NEW v \in Values, LoadTail(v)
  PROVE  RingInv' /\ Contents' = Contents /\ [Queue!Next]_Queue!queueVars
<1>1. UNCHANGED <<head, tail, slots, consumerAt, value, taken>>
  BY DEF LoadTail, consumer
<1>2. RingInv'
  BY <1>1 DEF LoadTail, RingInv, TypeOK, RoomStays, OfferIsWritten, ValueStays, ValueIsRead, Full
<1>3. Contents' = Contents
  BY <1>1, <1>2, ContentsStay DEF RingInv
<1>4. CASE Full
  <2>1. Len(Contents) = Capacity - 1
    BY <1>4, SizeIs, ContentsAre DEF RingInv
  <2>2. Queue!Refuse
    BY <1>1, <1>3, <1>4, <2>1 DEF LoadTail, Queue!Refuse
  <2>3. QED
    BY <1>2, <1>3, <2>2 DEF Queue!Next
<1>5. CASE ~Full
  BY <1>1, <1>2, <1>3, <1>5 DEF LoadTail, Queue!queueVars
<1>6. QED
  BY <1>4, <1>5

LEMMA WriteSlotStep ==
  ASSUME SpscRingBufferAssumption, RingInv, WriteSlot
  PROVE  RingInv' /\ UNCHANGED Queue!queueVars
<1>1. UNCHANGED <<head, tail, accepted, taken, consumerAt, value, offer>>
        /\ slots' = [slots EXCEPT ![head] = offer]
        /\ producerAt = "write" /\ producerAt' = "store"
  BY DEF WriteSlot, consumer
<1>2. head \in 0..Capacity-1 /\ slots \in [0..Capacity-1 -> Values] /\ offer \in Values
  BY DEF RingInv, TypeOK
<1>3. TypeOK'
  BY <1>1, <1>2 DEF RingInv, TypeOK
<1>4. /\ slots'[head] = offer
      /\ \A j \in 0..Capacity-1 : j # head => slots'[j] = slots[j]
  BY <1>1, <1>2
<1>5. RingInv'
  BY <1>1, <1>3, <1>4 DEF RingInv, TypeOK, RoomStays, OfferIsWritten, ValueStays, ValueIsRead, Full
<1>6. Contents' = Contents
  BY <1>1, <1>3, <1>4, ContentsStay DEF RingInv
<1>7. QED
  BY <1>1, <1>5, <1>6 DEF Queue!queueVars

\* Moving the head publishes the value: the push takes effect.
LEMMA StoreHeadStep ==
  ASSUME SpscRingBufferAssumption, RingInv, StoreHead
  PROVE  RingInv' /\ Queue!Push(offer)
<1>1. /\ UNCHANGED <<tail, slots, offer, consumerAt, value, taken>>
      /\ head' = Increment(head) /\ accepted' = TRUE
      /\ producerAt = "store" /\ producerAt' = "idle"
  BY DEF StoreHead, consumer
<1>2. /\ head \in 0..Capacity-1 /\ tail \in 0..Capacity-1 /\ Capacity \in Nat /\ Capacity >= 2
      /\ ~Full /\ slots[head] = offer
      /\ slots \in [0..Capacity-1 -> Values] /\ offer \in Values
  BY <1>1 DEF RingInv, TypeOK, RoomStays, OfferIsWritten, SpscRingBufferAssumption
<1>3. head' = Place(head, 1) /\ head' \in 0..Capacity-1 /\ head' # tail
  BY <1>1, <1>2, IncrementWraps DEF Full
<1>4. RingInv'
  BY <1>1, <1>2, <1>3 DEF RingInv, TypeOK, RoomStays, OfferIsWritten, ValueStays, ValueIsRead
<1>5. /\ Size \in 0..Capacity-1 /\ Size' = Size + 1 /\ Size + 1 \in 0..Capacity-1
      /\ Place(tail, Size) = head
  <2>1. Size \in 0..Capacity-1 /\ Place(tail, Size) = head
    BY SizeIs DEF RingInv
  <2>2. Size' = Size + 1 /\ Size + 1 \in 0..Capacity-1
    <3>1. Size' = IF head' >= tail THEN head' - tail ELSE head' + Capacity - tail
      BY <1>1 DEF Size
    <3>2. Size = IF head >= tail THEN head - tail ELSE head + Capacity - tail
      BY DEF Size
    <3>3. head' = IF head + 1 < Capacity THEN head + 1 ELSE head + 1 - Capacity
      BY <1>3 DEF Place
    <3> HIDE DEF Size
    <3>4. QED
      BY <1>2, <1>3, <3>1, <3>2, <3>3
  <2>3. QED
    BY <2>1, <2>2
<1>6. /\ Contents \in Seq(Values) /\ Len(Contents) = Size
      /\ \A i \in 1..Size : Contents[i] = slots[Place(tail, i - 1)]
  BY ContentsAre DEF RingInv
<1>7. /\ Contents' \in Seq(Values) /\ Len(Contents') = Size + 1
      /\ \A i \in 1..Size+1 : Contents'[i] = slots[Place(tail, i - 1)]
  <2>1. Contents' = Held(tail, Size + 1, slots)
    BY <1>1, <1>5 DEF Contents, Held
  <2> HIDE DEF Contents, Size
  <2>2. QED
    BY <1>2, <1>5, <2>1, SlotsHold
<1>8. Contents' = Append(Contents, offer)
  <2>1. Contents'[Size + 1] = offer
    BY <1>2, <1>5, <1>7
  <2>2. \A i \in 1..Size : Contents'[i] = Contents[i]
    BY <1>5, <1>6, <1>7
  <2> HIDE DEF Contents, Size
  <2>3. QED
    BY <1>2, <1>5, <1>6, <1>7, <2>1, <2>2
<1>9. QED
  BY <1>1, <1>2, <1>4, <1>5, <1>6, <1>8 DEF Queue!Push

\* pop() finds nothing or takes a value on; reading the slot is invisible.
LEMMA LoadHeadStep ==
  ASSUME SpscRingBufferAssumption, RingInv, LoadHead
  PROVE  RingInv' /\ Contents' = Contents /\ [Queue!Next]_Queue!queueVars
<1>1. UNCHANGED <<head, tail, slots, value, producerAt, offer, accepted>>
  BY DEF LoadHead, producer
<1>2. RingInv'
  <2>1. /\ taken' = <<>> \/ taken' = taken
        /\ consumerAt' = "idle" \/ (consumerAt' = "read" /\ tail # head)
    BY DEF LoadHead
  <2>2. taken' \in Seq(Values)
    <3>1. taken \in Seq(Values) /\ <<>> \in Seq(Values)
      BY DEF RingInv, TypeOK
    <3>2. QED
      BY <2>1, <3>1, Zenon
  <2>3. TypeOK'
    BY <1>1, <2>1, <2>2 DEF RingInv, TypeOK
  <2>4. Full' = Full
    BY <1>1 DEF Full, Increment
  <2>5. RoomStays' /\ OfferIsWritten'
    BY <1>1, <2>4 DEF RingInv, RoomStays, OfferIsWritten
  <2>6. ValueStays' /\ ValueIsRead'
    BY <1>1, <2>1 DEF ValueStays, ValueIsRead
  <2>7. QED
    BY <2>3, <2>5, <2>6 DEF RingInv
<1>3. Contents' = Contents
  BY <1>1, <1>2, ContentsStay DEF RingInv
<1>4. CASE tail = head
  <2>1. Len(Contents) = 0 /\ Contents \in Seq(Values)
    BY <1>4, SizeIs, ContentsAre DEF RingInv
  <2>2. Contents = <<>>
    <3> HIDE DEF Contents
    <3>1. QED
      BY <2>1
  <2>3. Queue!FindNothing
    BY <1>1, <1>3, <1>4, <2>2 DEF LoadHead, Queue!FindNothing
  <2>4. QED
    BY <1>2, <1>3, <2>3 DEF Queue!Next
<1>5. CASE tail # head
  BY <1>1, <1>2, <1>3, <1>5 DEF LoadHead, Queue!queueVars
<1>6. QED
  BY <1>4, <1>5

LEMMA ReadSlotStep ==
  ASSUME SpscRingBufferAssumption, RingInv, ReadSlot
  PROVE  RingInv' /\ UNCHANGED Queue!queueVars
<1>1. UNCHANGED <<head, tail, slots, accepted, taken, producerAt, offer>>
        /\ value' = slots[tail]
        /\ consumerAt = "read" /\ consumerAt' = "store"
  BY DEF ReadSlot, producer
<1>2. tail \in 0..Capacity-1 /\ slots \in [0..Capacity-1 -> Values]
  BY DEF RingInv, TypeOK
<1>3. RingInv'
  BY <1>1, <1>2 DEF RingInv, TypeOK, RoomStays, OfferIsWritten, ValueStays, ValueIsRead, Full
<1>4. Contents' = Contents
  BY <1>1, <1>3, ContentsStay DEF RingInv
<1>5. QED
  BY <1>1, <1>3, <1>4 DEF Queue!queueVars

\* Moving the tail gives the slot back: the pop takes effect.
LEMMA StoreTailStep ==
  ASSUME SpscRingBufferAssumption, RingInv, StoreTail
  PROVE  RingInv' /\ Queue!Pop
<1>1. /\ UNCHANGED <<head, slots, value, producerAt, offer, accepted>>
      /\ tail' = Increment(tail) /\ taken' = <<value>>
      /\ consumerAt = "store" /\ consumerAt' = "idle"
  BY DEF StoreTail, producer
<1>2. /\ head \in 0..Capacity-1 /\ tail \in 0..Capacity-1 /\ Capacity \in Nat /\ Capacity >= 2
      /\ tail # head /\ value = slots[tail] /\ value \in Values
      /\ slots \in [0..Capacity-1 -> Values]
  BY <1>1 DEF RingInv, TypeOK, ValueStays, ValueIsRead, SpscRingBufferAssumption
<1>3. tail' = Place(tail, 1) /\ tail' \in 0..Capacity-1
  BY <1>1, <1>2, IncrementWraps
<1>4. TypeOK' /\ taken' \in Seq(Values)
  BY <1>1, <1>2, <1>3 DEF RingInv, TypeOK
<1>5. producerAt # "idle" => ~Full'
  <2>1. Full' <=> Increment(head) = tail'
    BY <1>1 DEF Full, Increment
  <2>2. Increment(head) = Place(head, 1)
    BY <1>2, IncrementWraps
  <2>3. tail' # Place(head, 1)
    BY <1>2, <1>3 DEF Place
  <2>4. QED
    BY <2>1, <2>2, <2>3
<1>6. RingInv'
  BY <1>1, <1>4, <1>5 DEF RingInv, RoomStays, OfferIsWritten, ValueStays, ValueIsRead
<1>7. /\ Size \in 1..Capacity-1 /\ Size' = Size - 1
      /\ \A i \in 1..Size-1 : Place(tail', i - 1) = Place(tail, i)
      /\ Place(tail, 0) = tail
  <2>1. Size \in 0..Capacity-1 /\ Size # 0
    BY <1>2, SizeIs DEF RingInv
  <2>2. Size' = IF head >= tail' THEN head - tail' ELSE head + Capacity - tail'
    BY <1>1 DEF Size
  <2>3. Size = IF head >= tail THEN head - tail ELSE head + Capacity - tail
    BY DEF Size
  <2>4. tail' = IF tail + 1 < Capacity THEN tail + 1 ELSE tail + 1 - Capacity
    BY <1>3 DEF Place
  <2> HIDE DEF Size
  <2>5. Size' = Size - 1
    BY <1>2, <1>3, <2>2, <2>3, <2>4
  <2>6. ASSUME NEW i \in 1..Size-1
        PROVE  Place(tail', i - 1) = Place(tail, i)
    BY <1>2, <1>3, <2>1, <2>4 DEF Place
  <2>7. Place(tail, 0) = tail
    BY <1>2 DEF Place
  <2>8. QED
    BY <1>2, <2>1, <2>5, <2>6, <2>7
<1>8. /\ Contents \in Seq(Values) /\ Len(Contents) = Size
      /\ \A i \in 1..Size : Contents[i] = slots[Place(tail, i - 1)]
  BY ContentsAre DEF RingInv
<1>9. /\ Contents' \in Seq(Values) /\ Len(Contents') = Size - 1
      /\ \A i \in 1..Size-1 : Contents'[i] = slots[Place(tail', i - 1)]
  <2>1. Contents' = Held(tail', Size - 1, slots)
    BY <1>1, <1>7 DEF Contents, Held
  <2>2. Size - 1 \in 0..Capacity-1
    BY <1>2, <1>7
  <2> HIDE DEF Contents, Size
  <2>3. QED
    BY <1>2, <1>3, <1>7, <2>1, <2>2, SlotsHold
<1>10. Contents # <<>> /\ Contents' = Tail(Contents) /\ Head(Contents) = value
  <2>1. Contents[1] = value
    BY <1>2, <1>7, <1>8
  <2>2. \A i \in 1..Size-1 : Contents'[i] = Contents[i + 1]
    BY <1>7, <1>8, <1>9
  <2> HIDE DEF Contents, Size
  <2>3. QED
    BY <1>2, <1>7, <1>8, <1>9, <2>1, <2>2
<1>11. QED
  BY <1>1, <1>6, <1>10 DEF Queue!Pop

LEMMA StutterStep ==
  ASSUME RingInv, UNCHANGED ringVars
  PROVE  RingInv' /\ UNCHANGED Queue!queueVars
<1>1. UNCHANGED <<head, tail, slots, producerAt, offer, accepted, consumerAt, value, taken>>
  BY DEF ringVars, producer, consumer
<1>2. RingInv'
  BY <1>1 DEF RingInv, TypeOK, RoomStays, OfferIsWritten, ValueStays, ValueIsRead, Full
<1>3. QED
  BY <1>1, <1>2 DEF Queue!queueVars, Contents, Size

\* Every step is one of the queue or invisible.
LEMMA RingStep ==
  ASSUME SpscRingBufferAssumption, RingInv, [Next]_ringVars
  PROVE  RingInv' /\ [Queue!Next]_Queue!queueVars
<1>1. ASSUME NEW v \in Values, LoadTail(v)
      PROVE  RingInv' /\ [Queue!Next]_Queue!queueVars
  BY <1>1, LoadTailStep
<1>2. CASE StoreHead
  <2>1. offer \in Values
    BY DEF RingInv, TypeOK
  <2>2. QED
    BY <1>2, <2>1, StoreHeadStep DEF Queue!Next
<1>3. CASE StoreTail
  BY <1>3, StoreTailStep DEF Queue!Next
<1>4. CASE WriteSlot \/ ReadSlot
  BY <1>4, WriteSlotStep, ReadSlotStep
<1>5. CASE LoadHead
  BY <1>5, LoadHeadStep
<1>6. CASE UNCHANGED ringVars
  BY <1>6, StutterStep
<1>7. QED
  BY <1>1, <1>2, <1>3, <1>4, <1>5, <1>6 DEF Next

-----------------------------------------------------------------------------
\* push() and pop() are the operations of a first-in first-out queue with
\* Capacity - 1 places: refused exactly when it is full, empty-handed exactly
\* when it is empty, for every capacity and every set of values.
THEOREM Implementation ==
  ASSUME SpscRingBufferAssumption
  PROVE  Spec => ImplementsQueue
<1>1. Init => RingInv /\ Queue!Init
  BY InitRing
<1>2. RingInv /\ [Next]_ringVars => RingInv' /\ [Queue!Next]_Queue!queueVars
  BY RingStep
<1>3. QED
  BY <1>1, <1>2, PTL DEF Spec, ImplementsQueue, Queue!Spec
=============================================================================
