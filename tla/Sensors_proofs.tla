--------------------------- MODULE Sensors_proofs ---------------------------
(***************************************************************************)
(* The simulated values: their ranges, the age of what is shown, and that  *)
(* each of them is a cyclic sensor, for any bound on refusals and clients. *)
(***************************************************************************)
EXTENDS Sensors, TLAPS

(* A board that is not initialised has neither a link nor a ticker.        *)
IInv ==
    /\ TypeOK
    /\ ~initialised => link = "none" /\ ~ticking

THEOREM InitIInv == Init => IInv
<1> SUFFICES ASSUME Init
             PROVE  IInv
    OBVIOUS
<1>1. ~initialised /\ ~ticking /\ link = "none"
    BY Zenon DEF Init
<1>2. /\ initialised \in BOOLEAN /\ ticking \in BOOLEAN
      /\ advertising \in BOOLEAN /\ refused \in BOOLEAN /\ ~advertising
    BY Zenon DEF Init
<1>3. demo \in Demos /\ clients \in 0..MaxClients /\ misses \in 0..MaxMisses
    BY BoundsAssumption DEF Init
<1>4. value \in Cycle[demo] /\ (shown \in Cycle[demo] \/ (demo = "periodic" /\ shown = Nothing))
    BY DEF Init, Demos, Connectable, Batteries, Cycle
<1>5. QED
    BY <1>1, <1>2, <1>3, <1>4 DEF IInv, TypeOK

(* One update keeps the value and what is shown of it in the cycle.        *)
LEMMA UpdateIInv ==
    IInv /\ (update_battery_level \/ update_periodic_value \/ update_sensor_value) => IInv'
<1> SUFFICES ASSUME IInv, update_battery_level \/ update_periodic_value \/ update_sensor_value
             PROVE  IInv'
    OBVIOUS
<1> USE DEF IInv, TypeOK, Demos, Connectable, Batteries, Cycle, radio
<1>1. value' \in Cycle[demo]
    BY DEF update_battery_level, update_periodic_value, update_sensor_value
<1>2. /\ shown' \in Cycle[demo] \/ (demo = "periodic" /\ shown' = Nothing)
      /\ misses' \in 0..MaxMisses
    BY <1>1, BoundsAssumption
       DEF update_battery_level, update_periodic_value, update_sensor_value, show
<1>3. QED
    BY <1>1, <1>2 DEF update_battery_level, update_periodic_value, update_sensor_value

LEMMA NextIInv == IInv /\ [Next]_vars => IInv'
<1> SUFFICES ASSUME IInv, [Next]_vars
             PROVE  IInv'
    OBVIOUS
<1> USE DEF radio, reading
<1>1. CASE on_init_complete
    BY <1>1 DEF IInv, TypeOK, on_init_complete, start_advertising, startAdvertising, Demos, Connectable, Batteries
<1>2. CASE update_battery_level \/ update_periodic_value \/ update_sensor_value
    BY <1>2, UpdateIInv
<1>3. CASE onConnectionComplete
    <2>1. UNCHANGED <<demo, initialised, ticking, value, shown, misses>> /\ initialised
        BY <1>3 DEF onConnectionComplete, IInv, TypeOK
    <2>2. advertising' = FALSE /\ refused' \in BOOLEAN /\ link' \in {"none", "up", "lost"}
        BY <1>3 DEF onConnectionComplete, IInv, TypeOK
    <2>3. clients' \in 0..MaxClients
        BY <1>3, BoundsAssumption DEF onConnectionComplete, IInv, TypeOK
    <2>4. QED
        BY <2>1, <2>2, <2>3 DEF IInv, TypeOK
<1>4. CASE LinkLost
    BY <1>4 DEF IInv, TypeOK, LinkLost
<1>5. CASE onDisconnectionComplete
    BY <1>5 DEF IInv, TypeOK, onDisconnectionComplete, startAdvertising
<1>6. CASE UNCHANGED vars
    BY <1>6 DEF IInv, TypeOK, vars
<1>7. QED
    BY <1>1, <1>2, <1>3, <1>4, <1>5, <1>6 DEF Next

LEMMA Inductive == Spec => []IInv
BY InitIInv, NextIInv, PTL DEF Spec

(* In every behaviour the values stay in their cycles, and a board with a  *)
(* link or an unhandled disconnection does not advertise.                  *)
THEOREM SensorsTyped == Spec => []TypeOK
<1>1. IInv => TypeOK
    BY DEF IInv
<1>2. QED
    BY <1>1, Inductive, PTL

-----------------------------------------------------------------------------
(* A step that leaves the demo and its reading alone.                      *)
LEMMA StillReading ==
    ASSUME IInv, [Next]_vars, ~update_battery_level, ~update_periodic_value, ~update_sensor_value
    PROVE  UNCHANGED <<demo, value, shown, misses>>
BY DEF Next, vars, reading, radio, on_init_complete, onConnectionComplete, LinkLost,
       onDisconnectionComplete

(* A value that is m updates ahead of what is shown is m + 1 ahead next.    *)
LEMMA BatteryBehind ==
    ASSUME NEW v \in 10..100, NEW s \in 10..100, NEW m \in Nat, m < 49, (s - v) % 91 = m
    PROVE  (s - (IF v = 10 THEN 100 ELSE v - 1)) % 91 = m + 1
<1>1. (s - v) % 91 = IF s >= v THEN s - v ELSE s - v + 91
    OBVIOUS
<1>2. CASE v = 10
    <2>1. m = s - 10 /\ s - 100 + 91 = m + 1
        BY <1>1, <1>2
    <2>2. QED
        BY <1>2, <2>1
<1>3. CASE v # 10 /\ s >= v
    BY <1>1, <1>3
<1>4. CASE v # 10 /\ s < v
    BY <1>1, <1>4
<1>5. QED
    BY <1>2, <1>3, <1>4

(* The same for the cycle of the periodic demo.                            *)
LEMMA PeriodicBehind ==
    ASSUME NEW v \in 1..100, NEW s \in 1..100, NEW m \in Nat, m < 49, (s - v) % 100 = m
    PROVE  (s - (IF v = 1 THEN 100 ELSE v - 1)) % 100 = m + 1
<1>1. (s - v) % 100 = IF s >= v THEN s - v ELSE s - v + 100
    OBVIOUS
<1>2. CASE v = 1
    <2>1. m = s - 1 /\ s - 100 + 100 = m + 1
        BY <1>1, <1>2
    <2>2. QED
        BY <1>2, <2>1
<1>3. CASE v # 1 /\ s >= v
    BY <1>1, <1>3
<1>4. CASE v # 1 /\ s < v
    BY <1>1, <1>4
<1>5. QED
    BY <1>2, <1>3, <1>4

LEMMA NextShownAge == IInv /\ ShownAge /\ [Next]_vars => ShownAge'
<1> SUFFICES ASSUME IInv, ShownAge, [Next]_vars
             PROVE  ShownAge'
    OBVIOUS
<1> USE DEF ShownAge, Lag, IInv, TypeOK, Cycle, show, Demos, Connectable, Batteries
<1>1. CASE update_battery_level
    <2>1. demo = "battery" /\ demo' = demo /\ value \in 10..100 /\ shown \in 10..100 /\ misses \in Nat
        BY <1>1, BoundsAssumption DEF update_battery_level
    <2>2. value' = IF value = 10 THEN 100 ELSE value - 1
        BY <1>1, <2>1 DEF update_battery_level
    <2>3. CASE shown' = value' /\ misses' = 0
        BY <2>1, <2>2, <2>3
    <2>4. CASE shown' = shown /\ misses' = misses + 1
        <3>1. SUFFICES ASSUME misses < 49
                       PROVE  (shown' - value') % 91 = misses'
            BY <2>1, <2>4
        <3>2. (shown - value) % 91 = misses
            BY <2>1, <3>1
        <3>3. (shown - (IF value = 10 THEN 100 ELSE value - 1)) % 91 = misses + 1
            BY ONLY <2>1, <3>1, <3>2, BatteryBehind
        <3>4. (shown - value') % 91 = misses + 1
            BY ONLY <2>2, <3>3
        <3>5. QED
            BY <2>4, <3>4
    <2>5. QED
        BY <1>1, <2>3, <2>4 DEF update_battery_level
<1>2. CASE update_periodic_value
    <2> DEFINE seen == IF shown = Nothing THEN 100 ELSE shown
    <2>1. /\ demo = "periodic" /\ demo' = demo /\ value \in 1..100 /\ misses \in Nat
          /\ seen \in 1..100 /\ Lag = (seen - value) % 100
        BY <1>2, BoundsAssumption DEF update_periodic_value
    <2>2. value' = IF value = 1 THEN 100 ELSE value - 1
        BY <1>2, <2>1 DEF update_periodic_value
    <2>3. CASE shown' = value' /\ misses' = 0
        BY <2>1, <2>2, <2>3 DEF Nothing
    <2>4. CASE shown' = shown /\ misses' = misses + 1
        <3>0. Lag' = (seen - value') % 100
            BY <2>1, <2>4
        <3>1. SUFFICES ASSUME misses < 49
                       PROVE  (seen - value') % 100 = misses'
            BY <2>1, <2>4, <3>0
        <3>2. (seen - value) % 100 = misses
            BY <2>1, <3>1
        <3> HIDE DEF seen
        <3>3. (seen - (IF value = 1 THEN 100 ELSE value - 1)) % 100 = misses + 1
            BY ONLY <2>1, <3>1, <3>2, PeriodicBehind
        <3>4. (seen - value') % 100 = misses + 1
            BY ONLY <2>2, <3>3
        <3>5. QED
            BY <2>4, <3>4
    <2>5. QED
        BY <1>2, <2>3, <2>4 DEF update_periodic_value
<1>3. CASE update_sensor_value
    BY <1>3, BoundsAssumption DEF update_sensor_value
<1>4. CASE ~(update_battery_level \/ update_periodic_value \/ update_sensor_value)
    BY <1>4, StillReading
<1>5. QED
    BY <1>1, <1>2, <1>3, <1>4

(* What is shown is exactly as many updates old as were refused since, as  *)
(* long as fewer than fifty were.                                          *)
THEOREM ShownAsOldAsRefused == Spec => []ShownAge
<1>1. Init => ShownAge
    BY DEF Init, ShownAge, Lag, Demos, Connectable, Batteries
<1>2. QED
    BY <1>1, Inductive, NextShownAge, PTL DEF Spec

-----------------------------------------------------------------------------
LEMMA BatteryStep == IInv /\ [Next]_vars => [Battery!Next]_Battery!vars
<1> SUFFICES ASSUME IInv, [Next]_vars
             PROVE  Battery!Next \/ UNCHANGED Battery!vars
    OBVIOUS
<1>1. CASE update_battery_level
    <2>1. demo = "battery" /\ demo' = demo /\ value \in 10..100
        BY <1>1 DEF update_battery_level, IInv, TypeOK, Cycle
    <2>2. value' = Battery!Succ(value)
        BY <1>1, <2>1 DEF update_battery_level, Battery!Succ
    <2>3. shown' \in {shown, value'}
        BY <1>1 DEF update_battery_level, show
    <2>4. QED
        BY <2>1, <2>2, <2>3 DEF Battery!Next
<1>2. CASE ~update_battery_level
    <2>1. demo' = demo /\ (demo = "battery" => UNCHANGED <<value, shown>>)
        BY <1>2, StillReading
           DEF update_battery_level, update_periodic_value, update_sensor_value
    <2>2. QED
        BY <2>1 DEF Battery!vars
<1>3. QED
    BY <1>1, <1>2

LEMMA PeriodicStep == IInv /\ [Next]_vars => [Periodic!Next]_Periodic!vars
<1> SUFFICES ASSUME IInv, [Next]_vars
             PROVE  Periodic!Next \/ UNCHANGED Periodic!vars
    OBVIOUS
<1>1. CASE update_periodic_value
    <2>1. demo = "periodic" /\ demo' = demo /\ value \in 1..100
        BY <1>1 DEF update_periodic_value, IInv, TypeOK, Cycle
    <2>2. value' = Periodic!Succ(value)
        BY <1>1, <2>1 DEF update_periodic_value, Periodic!Succ
    <2>3. shown' \in {shown, value'}
        BY <1>1 DEF update_periodic_value, show
    <2>4. QED
        BY <2>1, <2>2, <2>3 DEF Periodic!Next
<1>2. CASE ~update_periodic_value
    <2>1. demo' = demo /\ (demo = "periodic" => UNCHANGED <<value, shown>>)
        BY <1>2, StillReading
           DEF update_battery_level, update_periodic_value, update_sensor_value
    <2>2. QED
        BY <2>1 DEF Periodic!vars
<1>3. QED
    BY <1>1, <1>2

LEMMA HeartrateStep == IInv /\ [Next]_vars => [Heartrate!Next]_Heartrate!vars
<1> SUFFICES ASSUME IInv, [Next]_vars
             PROVE  Heartrate!Next \/ UNCHANGED Heartrate!vars
    OBVIOUS
<1>1. CASE update_sensor_value
    <2>1. demo = "heartrate" /\ demo' = demo /\ value \in 60..109
        BY <1>1 DEF update_sensor_value, IInv, TypeOK, Cycle
    <2>2. value' = Heartrate!Succ(value)
        BY <1>1, <2>1 DEF update_sensor_value, Heartrate!Succ
    <2>3. shown' \in {shown, value'}
        BY <1>1 DEF update_sensor_value, show
    <2>4. QED
        BY <2>1, <2>2, <2>3 DEF Heartrate!Next
<1>2. CASE ~update_sensor_value
    <2>1. demo' = demo /\ (demo = "heartrate" => UNCHANGED <<value, shown>>)
        BY <1>2, StillReading
           DEF update_battery_level, update_periodic_value, update_sensor_value
    <2>2. QED
        BY <2>1 DEF Heartrate!vars
<1>3. QED
    BY <1>1, <1>2

(* Each program's value is a cyclic sensor, and what is shown of it is the *)
(* value of now or what was shown before.                                  *)
THEOREM SensorsAreCyclic == Spec => ImplementsCyclicSensor
<1>1. Init => Battery!Init /\ Periodic!Init /\ Heartrate!Init
    BY DEF Init, Battery!Init, Periodic!Init, Heartrate!Init
<1>2. QED
    BY <1>1, Inductive, BatteryStep, PeriodicStep, HeartrateStep, PTL
       DEF Spec, ImplementsCyclicSensor, Battery!Spec, Periodic!Spec, Heartrate!Spec
=============================================================================
