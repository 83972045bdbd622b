-------------------------- MODULE WritePair_proofs --------------------------
(***************************************************************************)
(* The write example for any width of the byte, any callers and any bounds *)
(* on losses and foreign writes: types, the value shown in sync, no lost   *)
(* increment, and the byte counter the pair implements.                    *)
(***************************************************************************)
EXTENDS WritePair, TLAPS

LEMMA NextByte ==
    ASSUME NEW d \in Byte
    PROVE  (d + 1) % Modulus = (IF d + 1 = Modulus THEN 0 ELSE d + 1) /\ (d + 1) % Modulus \in Byte
BY ModulusAssumption DEF Byte

(* What is written is one more than a byte that was read.                  *)
LEMMA PreviousByte ==
    ASSUME NEW d \in Byte
    PROVE  /\ (d - 1) % Modulus = (IF d = 0 THEN Modulus - 1 ELSE d - 1)
           /\ (d - 1) % Modulus \in Byte
           /\ (((d - 1) % Modulus) + 1) % Modulus = d
<1>1. (d - 1) % Modulus = IF d = 0 THEN Modulus - 1 ELSE d - 1
    BY ModulusAssumption DEF Byte
<1>2. (d - 1) % Modulus \in Byte
    BY <1>1, ModulusAssumption DEF Byte
<1>3. QED
    BY <1>1, <1>2, NextByte, ModulusAssumption DEF Byte

LEMMA Bytes == 0 \in Byte /\ Byte \subseteq Int /\ Empty \notin Byte /\ NoCopy \notin Value /\ Byte \subseteq Value
BY ModulusAssumption DEF Byte, Empty, NoCopy, Value

-----------------------------------------------------------------------------
(* The copy a procedure carries is that of the value, unless others wrote. *)
FreshCopy ==
    /\ op["server"] = "answer" /\ ~stale => byte = value
    /\ op["server"] = "write" => shown.client = byte
    /\ op["server"] = "write" /\ ~stale /\ value # Empty => byte = (value + 1) % Modulus

IInv == TypeOK /\ FreshCopy /\ InSync

LEMMA ServerIsPeer == "server" \in Peers /\ Callers \subseteq Peers
BY DEF Peers

THEOREM InitIInv == Init => IInv
<1> SUFFICES ASSUME Init
             PROVE  IInv
    OBVIOUS
<1>1. op["server"] = "down" /\ \A p \in Callers : op[p] = "down"
    BY ServerIsPeer DEF Init
<1>2. found \in BOOLEAN /\ stale \in BOOLEAN /\ missed \in BOOLEAN
    BY Zenon DEF Init
<1>3. /\ app \in {"asleep", "starting", "up"} /\ posted \in Nat
      /\ op \in [Peers -> Stages] /\ byte \in Value /\ value \in Value
    BY Bytes DEF Init, Stages
<1>4. /\ shown \in [{"client", "server"} -> Byte]
      /\ losses \in 0..MaxLosses /\ foreign \in 0..MaxForeign
    BY Bytes, BoundsAssumption DEF Init
<1>5. QED
    BY <1>1, <1>2, <1>3, <1>4 DEF IInv, TypeOK, FreshCopy, InSync

LEMMA TerminationTyped ==
    ASSUME IInv, discovery_termination
    PROVE  found' \in BOOLEAN /\ posted' \in Nat
<1>1. found' \in BOOLEAN
    BY Zenon DEF discovery_termination
<1>2. posted' = posted + 1 \/ posted' = posted
    BY Zenon DEF discovery_termination
<1>3. posted \in Nat
    BY DEF IInv, TypeOK
<1>4. QED
    BY <1>1, <1>2, <1>3

LEMMA NextIInv == IInv /\ [Next]_vars => IInv'
<1> SUFFICES ASSUME IInv, [Next]_vars
             PROVE  IInv'
    OBVIOUS
<1> USE ServerIsPeer, Bytes, CallersAssumption
    DEF IInv, TypeOK, FreshCopy, InSync, client, history, Stages, Becomes, Says
<1>1. CASE start \/ on_init
    BY <1>1 DEF start, on_init
<1>2. ASSUME NEW p \in Peers, onConnectionComplete(p)
      PROVE  IInv'
    BY <1>2 DEF onConnectionComplete, Peers
<1>3. CASE characteristic_discovery
    BY <1>3 DEF characteristic_discovery
<1>4. ASSUME NEW p \in Peers, DiscoveryEnds(p)
      PROVE  IInv'
    <2>1. found' \in BOOLEAN /\ posted' \in Nat
        BY <1>4, TerminationTyped DEF DiscoveryEnds
    <2>2. /\ op' = [op EXCEPT ![p] = "idle"] /\ missed' \in BOOLEAN
          /\ UNCHANGED <<app, byte, value, shown, losses, foreign, stale>>
        BY <1>4 DEF DiscoveryEnds
    <2>3. op' \in [Peers -> Stages] /\ \A q \in Callers : op'[q] \in {"down", "idle", "discovery"}
        BY <2>2
    <2>4. op'["server"] \in {op["server"], "idle"}
        BY <2>2
    <2>5. QED
        BY <2>1, <2>2, <2>3, <2>4
<1>5. CASE read
    BY <1>5 DEF read
<1>6. CASE ServerReads
    BY <1>6 DEF ServerReads
<1>7. CASE ReadAnswered
    <2>1. PICK data \in Byte : on_read(data) /\ (byte # Empty => data = byte)
        BY <1>7 DEF ReadAnswered, Value
    <2>2. /\ byte' = (data + 1) % Modulus /\ shown' = [shown EXCEPT !["client"] = byte']
          /\ op' = [op EXCEPT !["server"] = "write"] /\ op["server"] = "answer"
          /\ UNCHANGED <<app, found, posted, value, losses, foreign, stale, missed>>
        BY <1>7, <2>1 DEF ReadAnswered, on_read
    <2>3. byte' \in Byte
        BY <2>2, NextByte
    <2>4. shown' \in [{"client", "server"} -> Byte] /\ shown'.client = byte'
        BY <2>2, <2>3
    <2>5. op' \in [Peers -> Stages] /\ op'["server"] = "write" /\ \A q \in Callers : op'[q] = op[q]
        BY <2>2
    <2>6. ~stale /\ value # Empty => byte' = (value + 1) % Modulus
        BY <2>1, <2>2
    <2>7. QED
        BY <2>2, <2>3, <2>4, <2>5, <2>6
<1>8. CASE ServerWrites
    BY <1>8 DEF ServerWrites, onDataWritten
<1>9. CASE WriteAnswered
    BY <1>9 DEF WriteAnswered, on_write
<1>10. ASSUME NEW data \in Value, OtherWrites(data)
       PROVE  IInv'
    BY <1>10, BoundsAssumption DEF OtherWrites, onDataWritten, Value
<1>11. CASE ServerLost
    <2>1. found' \in BOOLEAN /\ posted' \in Nat /\ app' \in {"asleep", "starting", "up"}
        BY <1>11, TerminationTyped DEF ServerLost, DiscoveryFails, ReadFails, WriteFails
    <2>2. shown' \in [{"client", "server"} -> Byte]
        BY <1>11 DEF ServerLost, DiscoveryFails, ReadFails, WriteFails
    <2>3. op'["server"] = "down" /\ \A q \in Callers : op'[q] \in {op[q], "down"}
        BY <1>11 DEF ServerLost
    <2>4. op' \in [Peers -> Stages]
        BY <1>11 DEF ServerLost
    <2>5. losses' \in 0..MaxLosses /\ value' \in Value /\ stale' \in BOOLEAN
        <3>1. losses < MaxLosses /\ losses' = losses + 1 /\ losses \in Nat /\ MaxLosses \in Nat
            BY <1>11, BoundsAssumption DEF ServerLost
        <3>2. value' \in Value
            BY <1>11 DEF ServerLost, Value
        <3>3. stale' \in BOOLEAN
            BY <1>11 DEF ServerLost
        <3>4. QED
            BY <3>1, <3>2, <3>3
    <2>6. UNCHANGED <<byte, foreign, missed>>
        BY <1>11 DEF ServerLost
    <2>7. QED
        BY <2>1, <2>2, <2>3, <2>4, <2>5, <2>6
<1>12. ASSUME NEW p \in Callers, CallerLost(p)
       PROVE  IInv'
    <2>1. found' \in BOOLEAN /\ posted' \in Nat
        BY <1>12, TerminationTyped DEF CallerLost
    <2>2. /\ op' = [op EXCEPT ![p] = "down"] /\ p # "server"
          /\ UNCHANGED <<app, byte, value, shown, losses, foreign, stale, missed>>
        BY <1>12 DEF CallerLost
    <2>3. QED
        BY <2>1, <2>2
<1>13. CASE UNCHANGED vars
    BY <1>13 DEF vars
<1>14. QED
    BY <1>1, <1>2, <1>3, <1>4, <1>5, <1>6, <1>7, <1>8, <1>9, <1>10, <1>11, <1>12, <1>13 DEF Next

LEMMA Inductive == Spec => []IInv
BY InitIInv, NextIInv, PTL DEF Spec

(* The state stays well formed, for every width of the byte.               *)
THEOREM WritePairTyped == Spec => []TypeOK
<1>1. IInv => TypeOK
    BY DEF IInv
<1>2. QED
    BY <1>1, Inductive, PTL

(* A write the server took without interference was printed by both.       *)
THEOREM ShownInSync == Spec => []InSync
<1>1. IInv => InSync
    BY DEF IInv
<1>2. QED
    BY <1>1, Inductive, PTL

(* No increment is lost, but to a write of others since the read.          *)
THEOREM NothingLost == Spec => NoLostUpdate
<1>1. IInv => (ServerWrites /\ ~stale /\ value # Empty => value' = (value + 1) % Modulus)
    BY DEF IInv, FreshCopy, ServerWrites
<1>2. QED
    BY <1>1, Inductive, PTL DEF NoLostUpdate
-----------------------------------------------------------------------------
(* The pair implements the byte counter: what each step does to the copy.  *)
LEMMA CopyStages ==
    /\ op["server"] = "answer" => copy = byte
    /\ op["server"] = "write"  => copy = (byte - 1) % Modulus
    /\ op["server"] \notin {"answer", "write"} => copy = NoCopy
BY DEF copy

LEMMA CopyStagesNext ==
    /\ op'["server"] = "answer" => copy' = byte'
    /\ op'["server"] = "write"  => copy' = (byte' - 1) % Modulus
    /\ op'["server"] \notin {"answer", "write"} => copy' = NoCopy
BY DEF copy

LEMMA SameByte == Counter!Byte = Byte /\ Counter!NoCopy = NoCopy /\ Counter!Empty = Empty
BY DEF Counter!Byte, Byte, Counter!NoCopy, NoCopy, Counter!Empty, Empty

(* A step that leaves the value and the stage of the server's procedure.   *)
LEMMA OffStage ==
    ASSUME UNCHANGED <<byte, value, stale>>,
           \/ op'["server"] = op["server"]
           \/ op["server"] \notin {"answer", "write"} /\ op'["server"] \notin {"answer", "write"}
    PROVE  UNCHANGED Counter!vars
<1>1. copy' = copy
    BY CopyStages, CopyStagesNext DEF copy
<1>2. QED
    BY <1>1 DEF Counter!vars

LEMMA CounterStep == IInv /\ [Next]_vars => [Counter!Next]_Counter!vars
<1> SUFFICES ASSUME IInv, [Next]_vars
             PROVE  Counter!Next \/ UNCHANGED Counter!vars
    OBVIOUS
<1> USE ServerIsPeer, CallersAssumption, CopyStages, CopyStagesNext, SameByte
    DEF client, history, Becomes
<1>0. op \in [Peers -> Stages] /\ byte \in Value /\ value \in Value
    BY DEF IInv, TypeOK
<1>1. CASE start \/ on_init
    BY <1>1, OffStage DEF start, on_init
<1>2. ASSUME NEW p \in Peers, onConnectionComplete(p)
      PROVE  UNCHANGED Counter!vars
    BY <1>0, <1>2, OffStage DEF onConnectionComplete
<1>3. CASE characteristic_discovery
    BY <1>0, <1>3, OffStage DEF characteristic_discovery
<1>4. ASSUME NEW p \in Peers, DiscoveryEnds(p)
      PROVE  UNCHANGED Counter!vars
    BY <1>0, <1>4, OffStage DEF DiscoveryEnds
<1>5. CASE read
    BY <1>0, <1>5, OffStage DEF read
<1>6. CASE ServerReads
    <2>1. copy = NoCopy /\ copy' = value /\ stale' = FALSE /\ UNCHANGED value
        BY <1>0, <1>6 DEF ServerReads
    <2>2. QED
        BY <2>1 DEF Counter!Next, Counter!Read
<1>7. CASE ReadAnswered
    <2>1. PICK data \in Byte : on_read(data) /\ (byte # Empty => data = byte)
        BY <1>0, <1>7 DEF ReadAnswered, Value
    <2>2. /\ byte' = (data + 1) % Modulus /\ op'["server"] = "write" /\ op["server"] = "answer"
          /\ UNCHANGED <<value, stale>>
        BY <1>0, <1>7, <2>1 DEF ReadAnswered, on_read
    <2>3. copy = byte /\ copy' = (byte' - 1) % Modulus
        BY <2>2
    <2>4. copy' = data
        <3>1. data \in 0..(Modulus - 1) /\ Modulus \in Nat \ {0}
            BY <2>1, ModulusAssumption DEF Byte
        <3>2. byte' = (IF data + 1 = Modulus THEN 0 ELSE data + 1) /\ byte' \in Byte
            BY <2>1, <2>2, NextByte
        <3>3. (byte' - 1) % Modulus = IF byte' = 0 THEN Modulus - 1 ELSE byte' - 1
            BY <3>2, PreviousByte
        <3>4. QED
            BY <2>3, <3>1, <3>2, <3>3
    <2>5. CASE byte = Empty
        BY <2>1, <2>2, <2>3, <2>4, <2>5 DEF Counter!Next, Counter!Guess
    <2>6. CASE byte # Empty
        BY <2>1, <2>2, <2>3, <2>4, <2>6 DEF Counter!vars
    <2>7. QED
        BY <2>5, <2>6
<1>8. CASE ServerWrites
    <2>1. byte \in Byte /\ op["server"] = "write"
        BY <1>8 DEF ServerWrites, IInv, TypeOK
    <2>2. value' = byte /\ copy' = NoCopy /\ UNCHANGED stale
        BY <1>0, <1>8 DEF ServerWrites
    <2>3. copy \in Byte /\ (copy + 1) % Modulus = byte
        BY <2>1, PreviousByte
    <2>4. QED
        BY <2>2, <2>3 DEF Counter!Next, Counter!Write
<1>9. CASE WriteAnswered
    BY <1>0, <1>9, OffStage DEF WriteAnswered, on_write
<1>10. ASSUME NEW data \in Value, OtherWrites(data)
       PROVE  Counter!Next
    <2>1. value' = data /\ stale' = TRUE /\ UNCHANGED <<op, byte>>
        BY <1>10 DEF OtherWrites
    <2>2. copy' = copy
        BY <2>1 DEF copy
    <2>3. QED
        BY <2>1, <2>2 DEF Counter!Next, Counter!Foreign, Value
<1>11. CASE ServerLost
    <2>1. op'["server"] = "down"
        BY <1>0, <1>11 DEF ServerLost
    <2>2. copy' = NoCopy
        BY <2>1
    <2>3. CASE UNCHANGED <<value, stale>>
        BY <2>2, <2>3 DEF Counter!Next, Counter!GiveUp
    <2>4. CASE value' = 0 /\ stale' = TRUE
        BY <2>2, <2>4, Bytes DEF Counter!Next, Counter!Foreign
    <2>5. QED
        BY <1>11, <2>3, <2>4 DEF ServerLost
<1>12. ASSUME NEW p \in Callers, CallerLost(p)
       PROVE  UNCHANGED Counter!vars
    BY <1>0, <1>12, OffStage DEF CallerLost
<1>13. CASE UNCHANGED vars
    BY <1>13, OffStage DEF vars
<1>14. QED
    BY <1>1, <1>2, <1>3, <1>4, <1>5, <1>6, <1>7, <1>8, <1>9, <1>10, <1>11, <1>12, <1>13 DEF Next

(* The byte at the server is a counter that its client increments: reads,  *)
(* responses, lost links and callers' discoveries add nothing to that.     *)
THEOREM PairIsCounter == Spec => ImplementsByteCounter
<1>1. Init => Counter!Init
    BY ServerIsPeer DEF Init, Counter!Init, copy, Counter!NoCopy, NoCopy
<1>2. QED
    BY <1>1, Inductive, CounterStep, PTL DEF Spec, ImplementsByteCounter, Counter!Spec
=============================================================================
