------------------------- MODULE ControlStateMachine -------------------------
(***************************************************************************)
(* The pure mode reducer (core/ControlStateMachine.cpp): which requests a  *)
(* mode accepts, where they lead, and where a lost joystick leads.         *)
(***************************************************************************)
EXTENDS Naturals

Motion == {"DANCE", "DOWN", "UP"}
Policy == {"WALK"} \cup Motion
Mode == {"DEFAULT", "LIE", "STAND"} \cup Policy

Request == {"START", "SWITCH_MODE", "LIE_TO_STAND", "STAND_TO_LIE", "WALK",
            "WALK_TO_STAND", "DANCE", "DOWN", "UP", "POSITION"}

\* A mutant: SWITCH_MODE forgets to ask for start_control.
BugAccepts(mode, started, r) ==
  \/ r = "START"
  \/ r = "SWITCH_MODE" /\ mode \in {"LIE", "STAND"}
  \/ r = "LIE_TO_STAND" /\ started /\ mode = "LIE"
  \/ r = "STAND_TO_LIE" /\ started /\ mode = "STAND"
  \/ r = "WALK" /\ mode \in {"STAND"} \cup Motion
  \/ r \in {"WALK_TO_STAND", "POSITION"} /\ mode \in Policy
  \/ r = "POSITION" /\ mode = "DEFAULT"
  \/ r \in {"DANCE", "DOWN"} /\ mode = "WALK"

\* ControlTransition::accepted.
Accepts(mode, started, r) ==
  \/ r = "START"
  \/ r = "SWITCH_MODE" /\ started /\ mode \in {"LIE", "STAND"}
  \/ r = "LIE_TO_STAND" /\ started /\ mode = "LIE"
  \/ r = "STAND_TO_LIE" /\ started /\ mode = "STAND"
  \/ r = "WALK" /\ mode \in {"STAND"} \cup Motion
  \/ r \in {"WALK_TO_STAND", "POSITION"} /\ mode \in Policy
  \/ r = "POSITION" /\ mode = "DEFAULT"
  \/ r \in {"DANCE", "DOWN"} /\ mode = "WALK"
  \/ r = "UP" /\ mode = "DOWN"

\* A mutant: POSITION stands the robot up straight out of DEFAULT.
BugRequestMode(mode, started, r) ==
  CASE r = "START"                           -> IF started THEN "DEFAULT" ELSE "LIE"
    [] r = "LIE_TO_STAND"                    -> "STAND"
    [] r \in {"WALK_TO_STAND", "POSITION"}   -> "STAND"
    [] OTHER                                 -> r

\* ControlTransition::mode and ::startControl of an accepted request.
RequestMode(mode, started, r) ==
  CASE r = "START"                           -> IF started THEN "DEFAULT" ELSE "LIE"
    [] r = "SWITCH_MODE"                     -> IF mode = "STAND" THEN "LIE" ELSE "STAND"
    [] r = "LIE_TO_STAND"                    -> "STAND"
    [] r = "STAND_TO_LIE"                    -> "LIE"
    [] r \in {"WALK_TO_STAND", "POSITION"}   -> IF mode = "DEFAULT" THEN "LIE" ELSE "STAND"
    [] r \in Policy                          -> r

RequestStarts(started, r) == IF r = "START" THEN ~started ELSE started

\* joystickDisconnectFallback: a motion ends in WALK, WALK goes on (with a zero
\* command), anything else goes limp.
FallbackMode(mode) == IF mode \in Policy THEN "WALK" ELSE "DEFAULT"
FallbackStarts(mode, started) == started /\ mode \in Policy

\* How much authority over the joints a mode has.
Rung(mode) ==
  CASE mode = "DEFAULT" -> 0
    [] mode = "LIE"     -> 1
    [] mode = "STAND"   -> 2
    [] mode = "WALK"    -> 3
    [] mode \in Motion  -> 4
=============================================================================
