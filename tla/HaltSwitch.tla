----------------------------- MODULE HaltSwitch ----------------------------
(***************************************************************************)
(* What the operator is promised of the run switch: the machine runs on a  *)
(* command only, and once it has been told to halt - by its program or     *)
(* from the keyboard - it begins no further instruction and stops.         *)
(***************************************************************************)
VARIABLE state

Init == state = "stopped"

Run == state = "stopped" /\ state' = "running"
Halt == state = "running" /\ state' = "halting"
Stop == state = "halting" /\ state' = "stopped"

Next == Run \/ Halt \/ Stop
Spec == Init /\ [][Next]_state
Fairness == WF_state(Stop)
=============================================================================
