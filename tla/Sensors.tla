------------------------------- MODULE Sensors -------------------------------
(***************************************************************************)
(* The programs that advertise and serve a simulated value: the battery of *)
(* BLE_Advertising and that of the advertiser of BLE_PeriodicAdvertising,  *)
(* shown in a payload, the heart rate of BLE_GattServer_AddService, shown  *)
(* in a characteristic; and BLE_GattServer_ExperimentalServices, which has *)
(* no value of its own.  A board runs one of them.  Clients connect to the *)
(* last two; connecting ends advertising, and the disconnection event      *)
(* starts it again.  Stack and clients are external.                       *)
(***************************************************************************)
EXTENDS Integers

CONSTANTS
    MaxMisses,   \* bound: updates in a row that the stack refuses
    MaxClients   \* bound: connections in one behaviour

ASSUME BoundsAssumption == MaxMisses \in Nat /\ MaxClients \in Nat

VARIABLES
    demo,         \* the program of the board
    initialised,  \* on_init_complete has run
    ticking,      \* its call_every is in the event queue
    advertising,  \* the stack advertises
    link,         \* none, up, or lost: the disconnection event is not handled
    value,        \* _battery_level or _heartrate_value
    shown,        \* the value in the payload or in the characteristic
    misses,       \* history: updates refused since the last that was shown
    refused,      \* history: what is not tried again has failed since a link was lost
    clients       \* history: connections

radio   == <<advertising, link, clients>>
reading == <<value, shown, misses>>
vars    == <<demo, initialised, ticking, radio, reading, refused>>

Connectable == {"heartrate", "experimental"}
Batteries   == {"battery", "periodic"}
Demos       == Connectable \union Batteries

Nothing == 0  \* no value is in the payload

(* The periodic payload is empty until update_sensor_value first sets it.  *)
Init ==
    /\ demo \in Demos
    /\ initialised = FALSE /\ ticking = FALSE
    /\ advertising = FALSE /\ refused = FALSE
    /\ link = "none" /\ clients = 0
    /\ value = (IF demo = "battery" THEN 50 ELSE 100) /\ misses = 0
    /\ shown = (IF demo = "periodic" THEN Nothing ELSE value)

(* Starts advertising, or one of the calls on the way to it is refused.    *)
startAdvertising ==
    \/ advertising' = TRUE /\ UNCHANGED refused
    \/ refused' = TRUE /\ UNCHANGED advertising

(* A battery is simulated only when it is advertised; the heart rate is    *)
(* measured from the start.  The periodic demo comes here by its           *)
(* onAdvertisingStart, once the roles of PeriodicDemo are established.     *)
start_advertising ==
    /\ startAdvertising
    /\ ticking' = (demo = "heartrate" \/ (demo \in Batteries /\ advertising'))

on_init_complete ==
    /\ ~initialised /\ initialised' = TRUE
    /\ start_advertising \/ (refused' = TRUE /\ UNCHANGED <<ticking, advertising>>)
    /\ UNCHANGED <<demo, link, clients, reading>>

(* The new value is shown, or the stack refuses it till the next update.   *)
show(new) ==
    \/ shown' = new /\ misses' = 0
    \/ misses < MaxMisses /\ misses' = misses + 1 /\ UNCHANGED shown

(* Seeded faults: the bound of the cycle off by one; an update that was    *)
(* refused ends the ticks.                                                 *)
update_battery_level_Late ==
    /\ ticking /\ demo = "battery"
    /\ value' = IF value = 9 THEN 100 ELSE (value - 1) % 256
    /\ show(value')
    /\ UNCHANGED <<demo, initialised, ticking, radio, refused>>

update_battery_level_Ends ==
    /\ ticking /\ demo = "battery"
    /\ value' = IF value = 10 THEN 100 ELSE (value - 1) % 256
    /\ show(value') /\ ticking' = (misses' = 0)
    /\ UNCHANGED <<demo, initialised, radio, refused>>

update_battery_level ==
    /\ ticking /\ demo = "battery"
    /\ value' = IF value = 10 THEN 100 ELSE (value - 1) % 256
    /\ show(value')
    /\ UNCHANGED <<demo, initialised, ticking, radio, refused>>

(* update_sensor_value of BLE_PeriodicAdvertising                          *)
update_periodic_value ==
    /\ ticking /\ demo = "periodic"
    /\ value' = LET level == (value - 1) % 256 IN IF level < 1 THEN 100 ELSE level
    /\ show(value')
    /\ UNCHANGED <<demo, initialised, ticking, radio, refused>>

(* Seeded faults: the comparison before the increment; the old value sent. *)
update_sensor_value_Before ==
    /\ ticking /\ demo = "heartrate"
    /\ value' = (IF value = 110 THEN 60 ELSE value + 1) % 65536
    /\ show(value')
    /\ UNCHANGED <<demo, initialised, ticking, radio, refused>>

update_sensor_value_Old ==
    /\ ticking /\ demo = "heartrate"
    /\ value' = (IF value + 1 = 110 THEN 60 ELSE value + 1) % 65536
    /\ show(value)
    /\ UNCHANGED <<demo, initialised, ticking, radio, refused>>

update_sensor_value ==
    /\ ticking /\ demo = "heartrate"
    /\ value' = (IF value + 1 = 110 THEN 60 ELSE value + 1) % 65536
    /\ show(value')
    /\ UNCHANGED <<demo, initialised, ticking, radio, refused>>

(* onConnectionComplete prints; advertising has ended, even when there is  *)
(* no link and so there will be no disconnection.                          *)
onConnectionComplete ==
    /\ demo \in Connectable /\ advertising /\ clients < MaxClients
    /\ advertising' = FALSE /\ clients' = clients + 1
    /\ \/ link' = "up" /\ UNCHANGED refused
       \/ refused' = TRUE /\ UNCHANGED link
    /\ UNCHANGED <<demo, initialised, ticking, reading>>

LinkLost ==
    /\ link = "up" /\ link' = "lost" /\ refused' = FALSE
    /\ UNCHANGED <<demo, initialised, ticking, advertising, clients, reading>>

(* Seeded fault: advertising is left to the next connection.               *)
onDisconnectionComplete_Forgets ==
    /\ link = "lost" /\ link' = "none"
    /\ UNCHANGED <<demo, initialised, ticking, clients, reading, advertising, refused>>

onDisconnectionComplete ==
    /\ link = "lost" /\ link' = "none"
    /\ startAdvertising
    /\ UNCHANGED <<demo, initialised, ticking, clients, reading>>

Next ==
    \/ on_init_complete
    \/ update_battery_level
    \/ update_periodic_value
    \/ update_sensor_value
    \/ onConnectionComplete
    \/ LinkLost
    \/ onDisconnectionComplete

Spec == Init /\ [][Next]_vars

(* The event loop runs what is due.                                        *)
FairSpec ==
    /\ Spec
    /\ WF_vars(on_init_complete)
    /\ WF_vars(update_battery_level) /\ WF_vars(update_periodic_value)
    /\ WF_vars(update_sensor_value) /\ WF_vars(onDisconnectionComplete)

-----------------------------------------------------------------------------
Cycle == [battery |-> 10..100, periodic |-> 1..100, heartrate |-> 60..109, experimental |-> {100}]

(* The values stay in the cycle the comments of the code give them, and    *)
(* far from the wrap of their integers; a linked board does not advertise. *)
TypeOK ==
    /\ demo \in Demos
    /\ initialised \in BOOLEAN /\ ticking \in BOOLEAN
    /\ advertising \in BOOLEAN /\ refused \in BOOLEAN
    /\ link \in {"none", "up", "lost"} /\ clients \in 0..MaxClients
    /\ value \in Cycle[demo] /\ misses \in 0..MaxMisses
    /\ shown \in Cycle[demo] \/ (demo = "periodic" /\ shown = Nothing)
    /\ (advertising => initialised /\ link = "none")

(* How many updates the shown value is behind, around the cycle; an empty  *)
(* payload is behind all of them since the first value, 100.               *)
Lag ==
    CASE demo = "heartrate" -> (value - shown) % 50
      [] demo = "battery"   -> (shown - value) % 91
      [] OTHER              -> ((IF shown = Nothing THEN 100 ELSE shown) - value) % 100

(* What is shown is as old as the number of updates refused since: a       *)
(* refusal loses the value of its second only, also around the end of the  *)
(* cycle, where the shown value and the value are far apart.               *)
ShownAge == misses < 50 => Lag = misses

(* Each of the sensors is a cyclic sensor.                                 *)
Battery ==
    INSTANCE CyclicSensor WITH
        Low <- 10, High <- 100, Step <- -1, Nothing <- Nothing,
        value <- IF demo = "battery" THEN value ELSE 50,
        shown <- IF demo = "battery" THEN shown ELSE 50

Periodic ==
    INSTANCE CyclicSensor WITH
        Low <- 1, High <- 100, Step <- -1, Nothing <- Nothing,
        value <- IF demo = "periodic" THEN value ELSE 50,
        shown <- IF demo = "periodic" THEN shown ELSE 50

Heartrate ==
    INSTANCE CyclicSensor WITH
        Low <- 60, High <- 109, Step <- 1, Nothing <- Nothing,
        value <- IF demo = "heartrate" THEN value ELSE 100,
        shown <- IF demo = "heartrate" THEN shown ELSE 100

ImplementsCyclicSensor == Battery!Spec /\ Periodic!Spec /\ Heartrate!Spec

(* A board that others cannot connect to because a client has left becomes *)
(* reachable again, unless the one call of the disconnection handler, which *)
(* the code does not repeat, was refused.                                  *)
ReachableAgain == link = "lost" ~> advertising \/ refused

(* A board that advertises and shows an old value shows the value of the   *)
(* second again, once the stack takes an update.                           *)
ShowsAgain == advertising /\ misses > 0 ~> misses = 0
=============================================================================
