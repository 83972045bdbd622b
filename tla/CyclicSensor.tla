---------------------------- MODULE CyclicSensor ----------------------------
(***************************************************************************)
(* What a simulated sensor promises: its value moves by one Step through   *)
(* Low..High, around the ends, and what others are shown is the value of   *)
(* now or what they were shown before.                                     *)
(***************************************************************************)
EXTENDS Integers

CONSTANTS
    Low, High,  \* the bounds of the value
    Step,       \* 1 or -1
    Nothing     \* what is shown before the first value

VARIABLES
    value,      \* what the sensor measures
    shown       \* what a client can see of it

vars == <<value, shown>>

Succ(v) == Low + ((v - Low + Step) % (High - Low + 1))

Init == value \in Low..High /\ shown \in {value, Nothing}

Next == value' = Succ(value) /\ shown' \in {shown, value'}

Spec == Init /\ [][Next]_vars
=============================================================================
