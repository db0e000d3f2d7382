--------------------------- MODULE AuthorityLadder ---------------------------
(***************************************************************************)
(* What the control modes promise, without naming them.  The robot stands  *)
(* on a ladder of growing authority over its joints: 0 limp, 1 lying,      *)
(* 2 standing, 3 walking, 4 playing a motion.  It may come down any number *)
(* of rungs at any moment, climbs one at a time, and climbs beyond the     *)
(* first only while control has been started.                              *)
(***************************************************************************)
EXTENDS Naturals

VARIABLES rung, armed
ladderVars == <<rung, armed>>

Init == rung = 0 /\ armed = FALSE

\* Control is started: the robot takes the first rung, wherever it was.
Start == ~armed /\ armed' /\ rung <= 1 /\ rung' = 1

ClimbOne ==
  /\ rung < 4
  /\ rung' = rung + 1
  /\ rung >= 1 => armed
  /\ UNCHANGED armed

ComeDown == rung' < rung /\ rung' \in Nat /\ UNCHANGED armed

\* A stop takes away both.
Stop == rung' = 0 /\ ~armed'

Next == Start \/ ClimbOne \/ ComeDown \/ Stop

Spec == Init /\ [][Next]_ladderVars
=============================================================================
