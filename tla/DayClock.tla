------------------------------ MODULE DayClock ------------------------------
(***************************************************************************)
(* What the clock service promises: one time of day, whose hour, minute or *)
(* second a client may set to any legal value.  Every tick advances it by  *)
(* exactly a second, around midnight, except one hit by a fault: that one  *)
(* loses its second or one carry that is due, of the minute or of the      *)
(* hour.  `last` tells the three kinds of step apart.                      *)
(***************************************************************************)
EXTENDS Integers

VARIABLES
    running,  \* the clock ticks
    time,     \* seconds since midnight
    last      \* what the last step was: "start", "tick", "fault" or "set"

Day == 24 * 60 * 60

Init == time = 0 /\ running = FALSE /\ last = "start"

(* The first call, which may fail: then the clock never ticks.             *)
Start == ~running /\ running' \in BOOLEAN /\ last' = "start" /\ UNCHANGED time

Tick == running /\ last' = "tick" /\ time' = (time + 1) % Day /\ UNCHANGED running

Lose(carry) == (time + 1) % carry = 0 /\ time' = time + 1 - carry

FaultyTick ==
    /\ running /\ last' = "fault" /\ UNCHANGED running
    /\ UNCHANGED time \/ Lose(60) \/ Lose(3600)

(* One of hour, minute and second changes, the other two stay.             *)
Set ==
    /\ running /\ last' = "set" /\ UNCHANGED running
    /\ \/ \E h \in 0..23 : time' = h * 3600 + (time % 3600)
       \/ \E m \in 0..59 : time' = (time \div 3600) * 3600 + m * 60 + (time % 60)
       \/ \E s \in 0..59 : time' = (time \div 60) * 60 + s

Next == Start \/ Tick \/ FaultyTick \/ Set

Spec == Init /\ [][Next]_<<running, time, last>>
=============================================================================
