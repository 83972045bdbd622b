---------------------------- MODULE ClockService ----------------------------
(***************************************************************************)
(* BLE_GattServer_CharacteristicUpdates: a clock held in three GATT        *)
(* characteristics of one byte.  A call_every of the event queue increments*)
(* the second and carries into the minute and the hour; a client may write *)
(* any characteristic, and the authorization callback filters its writes.  *)
(* The three values live in the GATT server, whose read and write may fail.*)
(***************************************************************************)
EXTENDS Integers

CONSTANTS
    Payloads,  \* first bytes a client may write
    Faults     \* TRUE: addService and the server's read and write may fail

ASSUME PayloadsAssumption == Payloads \subseteq 0..255
ASSUME FaultsAssumption   == Faults \in BOOLEAN

VARIABLES
    hour, minute, second,  \* the values of _hour_char, _minute_char, _second_char
    registered,            \* start() registered the service and its ticker
    last                   \* history: what the last step was, and whether an
                           \* access failed in it

clock == <<hour, minute, second>>
vars  == <<clock, registered, last>>

Handles == {"hour", "minute", "second"}

Init == hour = 0 /\ minute = 0 /\ second = 0 /\ registered = FALSE /\ last = "start"

(* start(): a service that cannot be added leaves no ticker.               *)
start ==
    /\ ~registered /\ last' = "start"
    /\ registered' = TRUE \/ (Faults /\ UNCHANGED registered)
    /\ UNCHANGED clock

(* A get or a set of the server fails: the handler prints it and returns.  *)
AccessFails == Faults /\ last' = "fault"

increment_hour ==
    \/ AccessFails /\ UNCHANGED hour
    \/ last' = "tick" /\ hour' = (hour + 1) % 24

(* Seeded fault: the carry into the hour is forgotten.                     *)
increment_minute_NoCarry ==
    \/ AccessFails /\ UNCHANGED <<hour, minute>>
    \/ last' = "tick" /\ minute' = (minute + 1) % 60 /\ UNCHANGED hour

increment_minute ==
    \/ AccessFails /\ UNCHANGED <<hour, minute>>
    \/ /\ minute' = (minute + 1) % 60
       /\ IF minute' = 0 THEN increment_hour ELSE last' = "tick" /\ UNCHANGED hour

(* increment_second, run by call_every: the whole carry is one handler.    *)
increment_second ==
    /\ registered
    /\ \/ AccessFails /\ UNCHANGED clock
       \/ /\ second' = (second + 1) % 60
          /\ IF second' = 0 THEN increment_minute
                            ELSE last' = "tick" /\ UNCHANGED <<hour, minute>>
    /\ UNCHANGED registered

(* Seeded fault: the bound of the hour is off by one.                      *)
authorize_client_write_Hour24(handle, offset, len, data) ==
    /\ offset = 0 /\ len = 1
    /\ ~(data >= 60 \/ (data > 24 /\ handle = "hour"))

(* authorize_client_write replies AUTH_CALLBACK_REPLY_SUCCESS.             *)
authorize_client_write(handle, offset, len, data) ==
    /\ offset = 0 /\ len = 1
    /\ ~(data >= 60 \/ (data >= 24 /\ handle = "hour"))

(* A client's write request: the stack asks, then assigns the value.       *)
ClientWrite(handle, offset, len, data) ==
    /\ registered /\ last' = "set"
    /\ authorize_client_write(handle, offset, len, data)
    /\ hour'   = IF handle = "hour"   THEN data ELSE hour
    /\ minute' = IF handle = "minute" THEN data ELSE minute
    /\ second' = IF handle = "second" THEN data ELSE second
    /\ UNCHANGED registered

Next ==
    \/ start
    \/ increment_second
    \/ \E handle \in Handles, offset \in 0..1, len \in 0..2, data \in Payloads :
          ClientWrite(handle, offset, len, data)

Spec == Init /\ [][Next]_vars

-----------------------------------------------------------------------------
(* The characteristics always show a legal time of day, whatever a client  *)
(* writes between two ticks and whichever access fails in a carry.         *)
ValidTime ==
    /\ hour \in 0..23 /\ minute \in 0..59 /\ second \in 0..59
    /\ registered \in BOOLEAN /\ last \in {"start", "tick", "fault", "set"}

(* The three bytes are one clock: a tick whose accesses all succeed moves  *)
(* it by exactly a second, whatever clients wrote between two ticks, so no *)
(* carry is early, late or lost; a tick in which an access failed loses its *)
(* second or the one carry it had taken off the lower digit.               *)
DayTime == hour * 3600 + minute * 60 + second

Clock == INSTANCE DayClock WITH running <- registered, time <- DayTime

ImplementsDayClock == Clock!Spec
=============================================================================
