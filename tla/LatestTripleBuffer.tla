-------------------------- MODULE LatestTripleBuffer --------------------------
(***************************************************************************)
(* LatestTripleBuffer<T>: the lock-free single-producer/single-consumer    *)
(* "latest value" mailbox that carries /cmd_vel, observations, actions and *)
(* trace packets between threads.                                          *)
(*                                                                         *)
(* Three slots; the producer owns slots[back], the consumer slots[front],  *)
(* and the atomic word `middle' (slot index plus dirty bit) hands the      *)
(* third one over.  One action per atomic access.  Filling a slot and      *)
(* reading one take two steps each, so that an access by both threads to   *)
(* one slot shows as a torn packet.  A packet is its serial number.        *)
(***************************************************************************)
EXTENDS Naturals

CONSTANT MaxPackets   \* bound on the number of packets the producer fills

ASSUME MaxPacketsAssumption == MaxPackets \in Nat

Slot == 0..2
Torn == MaxPackets + 1      \* a slot the producer is half way through filling
Word == [idx: Slot, dirty: BOOLEAN]

VARIABLES
  slots,        \* slots_
  middle,       \* middleState_
  back,         \* backIndex_, touched by the producer only
  front,        \* frontIndex_, touched by the consumer only
  expected,     \* the consumer's local `state' in consumeLatest()
  producerAt, consumerAt,
  published, overwrites, consumed   \* history: serials and publish() results

vars == <<slots, middle, back, front, expected, producerAt, consumerAt,
          published, overwrites, consumed>>

Init ==
  /\ slots = [s \in Slot |-> 0]
  /\ middle = [idx |-> 1, dirty |-> FALSE]
  /\ back = 2
  /\ front = 0
  /\ expected = [idx |-> 1, dirty |-> FALSE]
  /\ producerAt = "idle"
  /\ consumerAt = "idle"
  /\ published = 0
  /\ overwrites = 0
  /\ consumed = 0

-----------------------------------------------------------------------------
(* The producer thread. *)

\* producerBuffer(): the caller starts to write through the reference.
BeginFill ==
  /\ producerAt = "idle"
  /\ published < MaxPackets
  /\ slots' = [slots EXCEPT ![back] = Torn]
  /\ producerAt' = "filling"
  /\ UNCHANGED <<middle, back, front, expected, consumerAt, published, overwrites, consumed>>

EndFill ==
  /\ producerAt = "filling"
  /\ slots' = [slots EXCEPT ![back] = published + 1]
  /\ producerAt' = "filled"
  /\ UNCHANGED <<middle, back, front, expected, consumerAt, published, overwrites, consumed>>

\* A mutant: the index is taken without kIndexMask, dirty bit and all.
BugUnmaskedIndex(word) == IF word.dirty THEN word.idx + 4 ELSE word.idx

\* What publish() leaves in middleState_ and takes into backIndex_.
OfferBack(word) == [idx |-> back, dirty |-> TRUE]
NextBack(word) == word.idx

\* publish(): one atomic exchange; the result says whether a packet was lost.
Publish ==
  /\ producerAt = "filled"
  /\ middle' = OfferBack(middle)
  /\ back' = NextBack(middle)
  /\ overwrites' = IF middle.dirty THEN overwrites + 1 ELSE overwrites
  /\ published' = published + 1
  /\ producerAt' = "idle"
  /\ UNCHANGED <<slots, front, expected, consumerAt, consumed>>

-----------------------------------------------------------------------------
(* The consumer thread.  consumeLatest() on a clean word returns nullptr   *)
(* and changes nothing; a spurious failure of the weak compare-exchange    *)
(* reloads the same word and changes nothing either: both are stutters.    *)

Load ==
  /\ consumerAt = "idle"
  /\ middle.dirty
  /\ expected' = middle
  /\ consumerAt' = "exchange"
  /\ UNCHANGED <<slots, middle, back, front, producerAt, published, overwrites, consumed>>

\* A mutant: the word is taken with a load and a store in place of the
\* compare-exchange, so a publication between the two goes unnoticed.
BugNoCompare(word) == TRUE
\* A mutant: the handed-back word still carries the dirty bit.
BugStillDirty(word) == [idx |-> front, dirty |-> TRUE]

WordMatches(word) == word = expected
OfferFront(word) == [idx |-> front, dirty |-> FALSE]

ExchangeSucceeds ==
  /\ consumerAt = "exchange"
  /\ WordMatches(middle)
  /\ middle' = OfferFront(middle)
  /\ front' = expected.idx
  /\ consumed' = slots[expected.idx]
  /\ consumerAt' = "reading"
  /\ UNCHANGED <<slots, back, expected, producerAt, published, overwrites>>

\* The failed compare-exchange reloads; the loop ends if the word is clean.
ExchangeFails ==
  /\ consumerAt = "exchange"
  /\ ~WordMatches(middle)
  /\ expected' = middle
  /\ consumerAt' = IF middle.dirty THEN "exchange" ELSE "idle"
  /\ UNCHANGED <<slots, middle, back, front, producerAt, published, overwrites, consumed>>

\* The caller is done with the returned pointer.
EndRead ==
  /\ consumerAt = "reading"
  /\ consumerAt' = "idle"
  /\ UNCHANGED <<slots, middle, back, front, expected, producerAt, published, overwrites, consumed>>

Next ==
  \/ BeginFill \/ EndFill \/ Publish
  \/ Load \/ ExchangeSucceeds \/ ExchangeFails \/ EndRead

Spec == Init /\ [][Next]_vars

-----------------------------------------------------------------------------
(* Properties. *)

\* Every variable keeps its type.
TypeOK ==
  /\ slots \in [Slot -> 0..MaxPackets + 1]
  /\ middle \in Word
  /\ back \in Slot
  /\ front \in Slot
  /\ expected \in Word
  /\ producerAt \in {"idle", "filling", "filled"}
  /\ consumerAt \in {"idle", "exchange", "reading"}
  /\ published \in 0..MaxPackets
  /\ overwrites \in Nat
  /\ consumed \in 0..MaxPackets + 1

\* While the consumer holds the pointer consumeLatest() returned, the packet
\* behind it is whole and stays the one that was taken, whatever the producer
\* publishes meanwhile (including two publications that bring the very same
\* word back between the consumer's load and its compare-exchange).
NoTornRead ==
  consumerAt = "reading" => slots[front] = consumed /\ consumed # Torn

\* What is pending in the word.
Pending == IF middle.dirty THEN slots[middle.idx] ELSE 0

\* publish() reports an overwrite exactly when a packet the consumer never saw
\* is dropped, and the consumer never goes back: a packet is delivered at most
\* once, in order, and it is the newest one at the moment of the exchange.
Mailbox == INSTANCE LatestMailbox WITH
  newest <- published, box <- Pending, delivered <- consumed, replaced <- overwrites

ImplementsMailbox == Mailbox!Spec
=============================================================================
