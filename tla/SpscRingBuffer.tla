---------------------------- MODULE SpscRingBuffer ----------------------------
(***************************************************************************)
(* SpscRingBuffer<T, Capacity>: the lock-free queue that carries records   *)
(* from the real-time thread to the publishing and logging threads.  One   *)
(* action per access to an index of the other thread or to a slot.         *)
(***************************************************************************)
EXTENDS Naturals, Sequences

CONSTANTS
  Values,     \* T
  Blank,      \* T{}
  Capacity    \* the number of slots

\* static_assert(Capacity >= 2), and a default value.
SpscRingBufferAssumption == Capacity \in Nat /\ Capacity >= 2 /\ Blank \in Values

VARIABLES
  head, tail, slots,       \* head_, tail_, slots_
  producerAt, offer,       \* push(): where it is, and its argument
  consumerAt, value,       \* pop(): where it is, and its result parameter
  accepted, taken          \* what push() and pop() returned last

producer == <<producerAt, offer, accepted>>
consumer == <<consumerAt, value, taken>>
ringVars == <<head, tail, slots, producer, consumer>>

Init ==
  /\ head = 0 /\ tail = 0
  /\ slots = [i \in 0..Capacity-1 |-> Blank]
  /\ producerAt = "idle" /\ offer = Blank /\ accepted = TRUE
  /\ consumerAt = "idle" /\ value = Blank /\ taken = <<>>

\* A mutant: the index does not wrap.
BugIncrement(index) == index + 1
Increment(index) == (index + 1) % Capacity

\* A mutant: one more value is let in, as if a full ring had no empty slot.
BugFull == FALSE
Full == Increment(head) = tail

-----------------------------------------------------------------------------
(* push(v), by the producer thread. *)

LoadTail(v) ==
  /\ producerAt = "idle"
  /\ IF Full
     THEN accepted' = FALSE /\ UNCHANGED <<producerAt, offer>>
     ELSE producerAt' = "write" /\ offer' = v /\ UNCHANGED accepted
  /\ UNCHANGED <<head, tail, slots, consumer>>

WriteSlot ==
  /\ producerAt = "write" /\ producerAt' = "store"
  /\ slots' = [slots EXCEPT ![head] = offer]
  /\ UNCHANGED <<head, tail, offer, accepted, consumer>>

StoreHead ==
  /\ producerAt = "store" /\ producerAt' = "idle"
  /\ head' = Increment(head)
  /\ accepted' = TRUE
  /\ UNCHANGED <<tail, slots, offer, consumer>>

-----------------------------------------------------------------------------
(* pop(value), by the consumer thread. *)

LoadHead ==
  /\ consumerAt = "idle"
  /\ IF tail = head
     THEN taken' = <<>> /\ UNCHANGED consumerAt
     ELSE consumerAt' = "read" /\ UNCHANGED taken
  /\ UNCHANGED <<head, tail, slots, value, producer>>

ReadSlot ==
  /\ consumerAt = "read" /\ consumerAt' = "store"
  /\ value' = slots[tail]
  /\ UNCHANGED <<head, tail, slots, taken, producer>>

StoreTail ==
  /\ consumerAt = "store" /\ consumerAt' = "idle"
  /\ tail' = Increment(tail)
  /\ taken' = <<value>>
  /\ UNCHANGED <<head, slots, value, producer>>

-----------------------------------------------------------------------------
Next ==
  \/ \E v \in Values : LoadTail(v)
  \/ WriteSlot \/ StoreHead \/ LoadHead \/ ReadSlot \/ StoreTail

Spec == Init /\ [][Next]_ringVars

\* Every variable keeps its type.
TypeOK ==
  /\ head \in 0..Capacity-1 /\ tail \in 0..Capacity-1
  /\ slots \in [0..Capacity-1 -> Values]
  /\ producerAt \in {"idle", "write", "store"} /\ offer \in Values
  /\ consumerAt \in {"idle", "read", "store"} /\ value \in Values
  /\ accepted \in BOOLEAN
  /\ taken \in Seq(Values)

\* The values pushed and not yet popped.
Size == IF head >= tail THEN head - tail ELSE head + Capacity - tail
Contents == [i \in 1..Size |-> slots[(tail + i - 1) % Capacity]]

\* push() and pop() are atomic operations of a bounded queue, although each
\* looks at the other thread's index only once: nothing is lost, repeated,
\* reordered or overwritten, across the wrap of the indices and at both ends.
Queue == INSTANCE BoundedQueue WITH Bound <- Capacity - 1, queue <- Contents

ImplementsQueue == Queue!Spec
=============================================================================
