------------------------ MODULE ClockService_proofs ------------------------
(***************************************************************************)
(* The clock service for every set of bytes clients may write: the legal   *)
(* range, and the day clock it is, with what a fault may lose.              *)
(***************************************************************************)
EXTENDS ClockService, TLAPS

(* A digit's increment wraps at its base.                                  *)
LEMMA Wraps ==
    ASSUME ValidTime
    PROVE  /\ (hour + 1) % 24 = IF hour = 23 THEN 0 ELSE hour + 1
           /\ (minute + 1) % 60 = IF minute = 59 THEN 0 ELSE minute + 1
           /\ (second + 1) % 60 = IF second = 59 THEN 0 ELSE second + 1
  BY DEF ValidTime

(* What a tick does to the three digits: one whose accesses succeed takes  *)
(* every carry that is due, one with a failed access loses one of them.    *)
LEMMA TickCases ==
    ASSUME ValidTime, increment_second
    PROVE  \/ last' = "fault" /\ UNCHANGED clock
           \/ /\ last' = "tick"
              /\ second # 59 /\ second' = second + 1 /\ UNCHANGED <<minute, hour>>
           \/ last' = "fault" /\ second = 59 /\ second' = 0 /\ UNCHANGED <<minute, hour>>
           \/ /\ last' = "tick" /\ second = 59 /\ second' = 0
              /\ minute # 59 /\ minute' = minute + 1 /\ UNCHANGED hour
           \/ /\ last' = "fault" /\ second = 59 /\ second' = 0
              /\ minute = 59 /\ minute' = 0 /\ UNCHANGED hour
           \/ /\ last' = "tick" /\ second = 59 /\ second' = 0
              /\ minute = 59 /\ minute' = 0
              /\ hour' = IF hour = 23 THEN 0 ELSE hour + 1
<1>1. second \in 0..59 /\ minute \in 0..59 /\ hour \in 0..23
  BY DEF ValidTime
<1>2. \/ last' = "fault" /\ UNCHANGED clock
      \/ last' = "tick" /\ second' = (second + 1) % 60 /\ second' # 0 /\ UNCHANGED <<minute, hour>>
      \/ second' = (second + 1) % 60 /\ second' = 0 /\ increment_minute
  BY DEF increment_second, AccessFails
<1>3. increment_minute =>
        \/ last' = "fault" /\ UNCHANGED <<minute, hour>>
        \/ last' = "tick" /\ minute' = (minute + 1) % 60 /\ minute' # 0 /\ UNCHANGED hour
        \/ /\ minute' = (minute + 1) % 60 /\ minute' = 0
           /\ \/ last' = "fault" /\ UNCHANGED hour
              \/ last' = "tick" /\ hour' = (hour + 1) % 24
  BY DEF increment_minute, increment_hour, AccessFails
<1> QED
  BY <1>1, <1>2, <1>3, Wraps

(* The characteristics always show a legal time of day (authorization at   *)
(* 199-204, the wraps of 221, 246 and 271).                                *)
THEOREM ClockInRange == Spec => []ValidTime
<1>1. Init => ValidTime
  <2> SUFFICES ASSUME Init PROVE ValidTime
    OBVIOUS
  <2>1. hour \in 0..23 /\ minute \in 0..59 /\ second \in 0..59
    BY DEF Init
  <2>2. registered \in BOOLEAN
    BY Zenon DEF Init
  <2>3. last \in {"start", "tick", "fault", "set"}
    BY DEF Init
  <2> QED
    BY <2>1, <2>2, <2>3 DEF ValidTime
<1>2. ValidTime /\ [Next]_vars => ValidTime'
  <2> SUFFICES ASSUME ValidTime, [Next]_vars PROVE ValidTime'
    OBVIOUS
  <2>1. CASE start
    BY <2>1, FaultsAssumption DEF start, ValidTime, clock
  <2>2. CASE increment_second
    <3>1. UNCHANGED registered
      BY <2>2 DEF increment_second
    <3> QED
      BY <2>2, <3>1, TickCases DEF ValidTime, clock
  <2>3. ASSUME NEW handle \in Handles, NEW offset \in 0..1, NEW len \in 0..2, NEW data \in Payloads,
               ClientWrite(handle, offset, len, data)
        PROVE  ValidTime'
    <3>1. data \in 0..59 /\ (handle = "hour" => data \in 0..23)
      BY <2>3, PayloadsAssumption DEF ClientWrite, authorize_client_write
    <3> QED
      BY <2>3, <3>1 DEF ClientWrite, ValidTime
  <2>4. CASE UNCHANGED vars
    BY <2>4 DEF vars, clock, ValidTime
  <2> QED
    BY <2>1, <2>2, <2>3, <2>4 DEF Next
<1> QED
  BY <1>1, <1>2, PTL DEF Spec

(* The length of the abstract clock's day.                                 *)
LEMMA DaySeconds == Clock!Day = 86400
  BY DEF Clock!Day

(* The parts of a legal time of day.                                       *)
LEMMA Digits ==
    ASSUME ValidTime
    PROVE  /\ DayTime \in Nat /\ DayTime < 86400
           /\ DayTime \div 3600 = hour /\ DayTime % 3600 = minute * 60 + second
           /\ DayTime \div 60 = hour * 60 + minute /\ DayTime % 60 = second
<1>0. hour \in 0..23 /\ minute \in 0..59 /\ second \in 0..59
  BY DEF ValidTime
<1>1. DayTime \in Nat /\ DayTime < 86400
  BY <1>0 DEF DayTime
<1>2. ASSUME NEW q \in Int, NEW r \in Int, 0 <= r, r < 3600
      PROVE  (q * 3600 + r) \div 3600 = q /\ (q * 3600 + r) % 3600 = r
  BY <1>2
<1>3. ASSUME NEW q \in Int, NEW r \in Int, 0 <= r, r < 60
      PROVE  (q * 60 + r) \div 60 = q /\ (q * 60 + r) % 60 = r
  BY <1>3
<1>4. PICK r \in Int : r = minute * 60 + second
  BY <1>0
<1>5. PICK q \in Int : q = hour * 60 + minute
  BY <1>0
<1>6. 0 <= r /\ r < 3600 /\ hour \in Int /\ DayTime = hour * 3600 + r
  BY <1>0, <1>4 DEF DayTime
<1>7. second \in Int /\ 0 <= second /\ second < 60 /\ DayTime = q * 60 + second
  BY <1>0, <1>5 DEF DayTime
<1>8. DayTime \div 3600 = hour /\ DayTime % 3600 = r
  BY <1>2, <1>6
<1>9. DayTime \div 60 = q /\ DayTime % 60 = second
  BY <1>3, <1>7
<1> QED
  BY <1>1, <1>4, <1>5, <1>8, <1>9

(* The three characteristics are one day clock: a tick is exact (206-292) *)
(* unless one of the early returns of 217-229, 242-254 and 267-277 is      *)
(* taken in it, which loses that tick's second or one due carry.           *)
THEOREM ClockIsDayClock == Spec => ImplementsDayClock
<1>1. Init => Clock!Init
  BY DEF Init, Clock!Init, DayTime
<1>2. ValidTime /\ [Next]_vars => [Clock!Next]_<<registered, DayTime, last>>
  <2> SUFFICES ASSUME ValidTime, [Next]_vars
               PROVE  Clock!Next \/ UNCHANGED <<registered, DayTime, last>>
    OBVIOUS
  <2>1. CASE start
    <3>0. registered \in BOOLEAN /\ (registered' = TRUE \/ UNCHANGED registered)
      BY <2>1, Zenon DEF start, ValidTime
    <3>1. ~registered /\ registered' \in BOOLEAN /\ last' = "start"
      BY <2>1, <3>0, Zenon DEF start
    <3>2. UNCHANGED DayTime
      BY <2>1 DEF start, clock, DayTime
    <3> QED
      BY <3>1, <3>2, Zenon DEF Clock!Next, Clock!Start
  <2>2. CASE increment_second
    <3>0. registered /\ UNCHANGED registered
      BY <2>2, Zenon DEF increment_second
    <3>1. DayTime \in Nat /\ DayTime < 86400
      BY Digits
    <3>2. PICK q \in Int : DayTime = q * 60 + second /\ q = hour * 60 + minute
      BY DEF DayTime, ValidTime
    <3>3. (DayTime + 1) % 86400 = IF DayTime = 86399 THEN 0 ELSE DayTime + 1
      BY <3>1
    <3>4. CASE last' = "fault" /\ UNCHANGED clock
      <4>1. UNCHANGED DayTime
        BY <3>4 DEF clock, DayTime
      <4> QED
        BY <3>0, <3>4, <4>1 DEF Clock!Next, Clock!FaultyTick
    <3>5. CASE last' = "tick" /\ DayTime' = IF DayTime = 86399 THEN 0 ELSE DayTime + 1
      <4>1. DayTime' = (DayTime + 1) % Clock!Day
        BY <3>3, <3>5, DaySeconds
      <4> QED
        BY <3>0, <3>5, <4>1 DEF Clock!Next, Clock!Tick
    <3>6. CASE last' = "fault" /\ second = 59 /\ DayTime' = DayTime + 1 - 60
      <4>1. (DayTime + 1) % 60 = 0
        BY <3>2, <3>6 DEF ValidTime
      <4> QED
        BY <3>0, <3>6, <4>1 DEF Clock!Next, Clock!FaultyTick, Clock!Lose
    <3>7. CASE last' = "fault" /\ second = 59 /\ minute = 59 /\ DayTime' = DayTime + 1 - 3600
      <4>1. hour \in Int /\ DayTime + 1 = (hour + 1) * 3600
        BY <3>7 DEF DayTime, ValidTime
      <4>2. (DayTime + 1) % 3600 = 0
        BY <4>1
      <4> QED
        BY <3>0, <3>7, <4>2 DEF Clock!Next, Clock!FaultyTick, Clock!Lose
    <3>8. \/ last' = "fault" /\ UNCHANGED clock
          \/ last' = "tick" /\ DayTime' = IF DayTime = 86399 THEN 0 ELSE DayTime + 1
          \/ last' = "fault" /\ second = 59 /\ DayTime' = DayTime + 1 - 60
          \/ last' = "fault" /\ second = 59 /\ minute = 59 /\ DayTime' = DayTime + 1 - 3600
      BY <2>2, TickCases DEF ValidTime, DayTime, clock
    <3> QED
      BY <3>4, <3>5, <3>6, <3>7, <3>8
  <2>3. ASSUME NEW handle \in Handles, NEW offset \in 0..1, NEW len \in 0..2, NEW data \in Payloads,
               ClientWrite(handle, offset, len, data)
        PROVE  Clock!Next
    <3>1. data \in 0..59 /\ (handle = "hour" => data \in 0..23)
      BY <2>3, PayloadsAssumption DEF ClientWrite, authorize_client_write
    <3>2. /\ DayTime \div 3600 = hour /\ DayTime % 3600 = minute * 60 + second
          /\ DayTime \div 60 = hour * 60 + minute /\ DayTime % 60 = second
      BY Digits
    <3>3. registered /\ UNCHANGED registered /\ last' = "set"
      BY <2>3 DEF ClientWrite
    <3>4. CASE handle = "hour"
      <4>1. DayTime' = data * 3600 + (DayTime % 3600)
        BY <2>3, <3>1, <3>2, <3>4 DEF ClientWrite, DayTime, ValidTime
      <4> QED
        BY <3>1, <3>3, <3>4, <4>1 DEF Clock!Next, Clock!Set
    <3>5. CASE handle = "minute"
      <4>1. DayTime' = (DayTime \div 3600) * 3600 + data * 60 + (DayTime % 60)
        BY <2>3, <3>1, <3>2, <3>5 DEF ClientWrite, DayTime, ValidTime
      <4> QED
        BY <3>1, <3>3, <4>1 DEF Clock!Next, Clock!Set
    <3>6. CASE handle = "second"
      <4>1. DayTime' = (DayTime \div 60) * 60 + data
        BY <2>3, <3>1, <3>2, <3>6 DEF ClientWrite, DayTime, ValidTime
      <4> QED
        BY <3>1, <3>3, <4>1 DEF Clock!Next, Clock!Set
    <3> QED
      BY <3>4, <3>5, <3>6 DEF Handles
  <2>4. CASE UNCHANGED vars
    BY <2>4 DEF vars, clock, DayTime
  <2> QED
    BY <2>1, <2>2, <2>3, <2>4 DEF Next
<1> QED
  BY <1>1, <1>2, ClockInRange, PTL DEF Spec, ImplementsDayClock, Clock!Spec
=============================================================================
