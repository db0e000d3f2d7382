----------------------------- MODULE BoundedQueue -----------------------------
(***************************************************************************)
(* What SpscRingBuffer promises its two threads: a first-in first-out      *)
(* queue that refuses a value exactly when it is full and finds nothing    *)
(* exactly when it is empty.                                               *)
(***************************************************************************)
EXTENDS Naturals, Sequences

CONSTANTS Values, Bound

VARIABLES
  queue,
  accepted,   \* the result of the last push
  taken       \* what the last pop returned, <<>> if it found nothing

queueVars == <<queue, accepted, taken>>

Init == queue = <<>> /\ accepted = TRUE /\ taken = <<>>

Push(v) ==
  /\ Len(queue) < Bound
  /\ queue' = Append(queue, v)
  /\ accepted' = TRUE
  /\ UNCHANGED taken

Refuse ==
  /\ Len(queue) = Bound
  /\ accepted' = FALSE
  /\ UNCHANGED <<queue, taken>>

Pop ==
  /\ queue # <<>>
  /\ taken' = <<Head(queue)>>
  /\ queue' = Tail(queue)
  /\ UNCHANGED accepted

FindNothing ==
  /\ queue = <<>>
  /\ taken' = <<>>
  /\ UNCHANGED <<queue, accepted>>

Next == (\E v \in Values : Push(v)) \/ Refuse \/ Pop \/ FindNothing

Spec == Init /\ [][Next]_queueVars
=============================================================================
