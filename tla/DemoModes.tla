----------------------------- MODULE DemoModes -----------------------------
(***************************************************************************)
(* What the GAP demo promises about its modes: "The demonstrations happens *)
(* in sequence" (BLE_GAP/source/main.cpp:27), after each mode the demo     *)
(* "jumps to the next mode to continue" (28).  The radio is used for the   *)
(* current mode only, a mode is entered once, and modes alternate.         *)
(***************************************************************************)
VARIABLES
    mode,   \* the current mode
    armed,  \* the mode is still to be entered
    radio   \* what the radio does

vars == <<mode, armed, radio>>

Modes == {"advertising", "scanning"}

Init == mode = "advertising" /\ armed = TRUE /\ radio = {}

(* Entering a mode may fail, and leaves the radio idle.                    *)
Enter ==
    /\ armed /\ radio = {}
    /\ armed' = FALSE /\ radio' \in {{mode}, {}}
    /\ UNCHANGED mode

(* The timer, the scan's timeout or a connection ends the radio's activity. *)
Quiet ==
    /\ radio # {}
    /\ radio' = {}
    /\ UNCHANGED <<mode, armed>>

Jump ==
    /\ ~armed
    /\ mode' \in Modes \ {mode}
    /\ armed' = TRUE /\ radio' = {}

Next == Enter \/ Quiet \/ Jump

Spec == Init /\ [][Next]_vars
=============================================================================
