------------------------- MODULE PeriodicDemo_proofs -------------------------
(***************************************************************************)
(* The two boards of the periodic demo keep their variables' types, and    *)
(* scan and advertise periodically only when they have a role, for any     *)
(* number of failures and of waiting reports and for both kinds of         *)
(* controller.                                                             *)
(***************************************************************************)
EXTENDS PeriodicDemo, EventQueue_proofs

Anything == {0} \union BOOLEAN

(* Any board may have these waiting.                                       *)
Plain == {"scan", "advertise", "disconnect", "onAdvertisingStart", "onAdvertisingReport",
          "onAdvertisingEnd", "onScanTimeout", "onConnectionComplete", "onDisconnectionComplete",
          "onSyncEstablished"}

(* The calls that are only for a board that has a role.                    *)
Periodics == {"scan_periodic", "advertise_periodic", "onSyncLoss"}

(* The events that carry a status or a flag.                               *)
Told == {"onAdvertisingReport", "onAdvertisingEnd", "onConnectionComplete", "onSyncEstablished"}

(* Only the disconnection is posted with a delay.                          *)
AnyCall == {c \in [cb : Plain \union Periodics, arg : Anything, delay : Nat, held : BOOLEAN] :
               /\ c.cb = "disconnect" \/ c.delay = 0
               /\ c.cb \in Told => c.arg \in BOOLEAN}

(* What may wait in the queue of a board that has (known) a role or not.   *)
Waiting(known) == {c \in AnyCall : c.cb \in Periodics => known}

QueueInv == /\ calls = [b \in Boards |-> calls[b]]
            /\ \A b \in Boards : calls[b] \in Seq(Waiting(role_established[b]))

SyncInv == \A b \in Boards : sync[b] # "none" => role_established[b]

IInv == TypeOK /\ QueueInv /\ SyncInv

(* TypeOK without the sets of functions, for the provers.                  *)
LEMMA Types ==
    TypeOK <=>
        /\ is_scanner \in [Boards -> BOOLEAN] /\ is_connecting_or_syncing \in [Boards -> BOOLEAN]
        /\ role_established \in [Boards -> BOOLEAN] /\ sync_handle \in [Boards -> BOOLEAN]
        /\ initiating \in [Boards -> BOOLEAN]
        /\ scanner \in [Boards -> {"off", "timed", "endless"}]
        /\ adv \in [Boards -> {"none", "off", "connectable", "announcing", "periodic"}]
        /\ sync \in [Boards -> {"none", "creating", "up"}]
        /\ linked \in BOOLEAN /\ failures \in [count : 0..MaxFailures, kinds : SUBSET Failures]
        /\ \A b \in Boards :
              scanner[b] = "endless" \/ adv[b] \in {"announcing", "periodic"} => role_established[b]
BY DEF TypeOK

LEMMA CallWaits ==
    ASSUME NEW cb \in Plain \union Periodics, NEW arg \in Anything, NEW delay \in Nat, NEW known,
           cb \in Periodics => known, cb = "disconnect" \/ delay = 0, cb \in Told => arg \in BOOLEAN
    PROVE  Call(cb, arg, delay) \in Waiting(known)
BY DEF Call, Waiting, AnyCall

LEMMA PlainWaits ==
    ASSUME NEW cb \in Plain, NEW arg \in Anything, NEW delay \in Nat, NEW known,
           cb = "disconnect" \/ delay = 0, cb \in Told => arg \in BOOLEAN
    PROVE  Call(cb, arg, delay) \in Waiting(known)
<1>1. cb \notin Periodics
    BY DEF Plain, Periodics
<1>2. QED
    BY <1>1, CallWaits

LEMMA Args == 0 \in Anything /\ \A x \in BOOLEAN : x \in Anything
BY DEF Anything

LEMMA FailuresTyped ==
    ASSUME TypeOK, NEW kind, Fails(kind)
    PROVE  failures' \in [count : 0..MaxFailures, kinds : SUBSET Failures]
<1>1. failures.count \in 0..MaxFailures /\ failures.kinds \in SUBSET Failures
    BY Types
<1>2. failures.count + 1 \in 0..MaxFailures /\ failures.kinds \union {kind} \in SUBSET Failures
    BY <1>1, BoundsAssumption DEF Fails
<1>3. QED
    BY <1>2 DEF Fails

(* A board's queue changes by what its handler leaves.                     *)
LEMMA LeavesInv ==
    ASSUME QueueInv, NEW b \in Boards, NEW q, Leaves(b, q),
           \A c \in Boards : role_established[c] => role_established'[c],
           role_established \in [Boards -> BOOLEAN], role_established' \in [Boards -> BOOLEAN],
           q \in Seq(Waiting(role_established'[b]))
    PROVE  QueueInv'
<1>1. ASSUME NEW c \in Boards
      PROVE  calls[c] \in Seq(Waiting(role_established'[c]))
    <2>1. Waiting(role_established[c]) \subseteq Waiting(role_established'[c])
        BY DEF Waiting
    <2>2. QED
        BY <2>1, SeqMonotonic DEF QueueInv
<1>2. calls' = [c \in Boards |-> IF c = b THEN q ELSE calls[c]]
    BY DEF Leaves, QueueInv
<1>3. QED
    BY <1>1, <1>2 DEF QueueInv

-----------------------------------------------------------------------------
(* The handlers.  q is what the queue of b holds besides the running call. *)

LEMMA StartRoleInv ==
    ASSUME IInv, NEW b \in Boards, NEW q \in Seq(Waiting(role_established[b])), start_role(b, q),
           UNCHANGED <<is_connecting_or_syncing, role_established, sync_handle, radioVars, failures>>
    PROVE  IInv'
<1>1. is_scanner' \in [Boards -> BOOLEAN]
    BY DEF IInv, TypeOK, start_role
<1>2. QueueInv'
    <2>1. Call(Mode(role_established[b], is_scanner'[b]), 0, 0) \in Waiting(role_established[b])
        <3>1. Mode(role_established[b], is_scanner'[b]) \in Plain \union Periodics
            BY DEF Mode, Plain, Periodics
        <3>2. Mode(role_established[b], is_scanner'[b]) \in Periodics => role_established[b]
            BY DEF Mode, Periodics
        <3>3. Mode(role_established[b], is_scanner'[b]) \notin Told
            BY DEF Mode, Told
        <3>4. QED
            BY <3>1, <3>2, <3>3, Args, CallWaits
    <2>2. QED
        BY <2>1, PostIn, LeavesInv DEF start_role, IInv, TypeOK
<1>3. QED
    BY <1>1, <1>2 DEF IInv, TypeOK, SyncInv, radioVars

(* What cycles the roles, or does nothing.                                 *)
LEMMA RoleCycleInv ==
    ASSUME IInv, NEW b \in Boards, NEW q \in Seq(Waiting(role_established[b])),
           (Leaves(b, q) /\ UNCHANGED is_scanner) \/ start_role(b, q),
           UNCHANGED <<is_connecting_or_syncing, role_established, sync_handle, radioVars, failures>>
    PROVE  IInv'
<1>1. CASE start_role(b, q)
    BY <1>1, StartRoleInv
<1>2. CASE Leaves(b, q) /\ UNCHANGED is_scanner
    <2>1. QueueInv'
        BY <1>2, LeavesInv DEF IInv, TypeOK
    <2>2. QED
        BY <1>2, <2>1 DEF IInv, TypeOK, SyncInv, radioVars
<1>3. QED
    BY <1>1, <1>2

LEMMA AdvertiseInv ==
    ASSUME IInv, NEW b \in Boards, NEW q \in Seq(Waiting(role_established[b])),
           advertise(b, q) \/ (advertise_periodic(b, q) /\ role_established[b])
    PROVE  IInv'
<1>1. Call("onAdvertisingStart", 0, 0) \in Waiting(role_established[b])
    BY PlainWaits, Args DEF Plain, Told
<1>2. QueueInv'
    <2>1. PICK queue \in Seq(Waiting(role_established[b])) : Leaves(b, queue)
        <3>1. post(q, Call("onAdvertisingStart", 0, 0)) \in Seq(Waiting(role_established[b]))
            BY <1>1, PostIn
        <3>2. QED
            BY <3>1 DEF advertise, advertise_periodic
    <2>2. role_established' = role_established /\ role_established \in [Boards -> BOOLEAN]
        BY DEF advertise, advertise_periodic, demoVars, IInv, TypeOK
    <2>3. QED
        BY <2>1, <2>2, LeavesInv DEF IInv
<1>3. /\ adv' \in [Boards -> {"none", "off", "connectable", "announcing", "periodic"}]
      /\ \A c \in Boards : adv'[c] \in {"announcing", "periodic"} => role_established[c]
    BY DEF advertise, advertise_periodic, IInv, TypeOK
<1>4. failures' \in [count : 0..MaxFailures, kinds : SUBSET Failures]
    BY FailuresTyped DEF advertise, advertise_periodic, IInv, TypeOK
<1>5. QED
    BY <1>2, <1>3, <1>4 DEF advertise, advertise_periodic, demoVars, IInv, TypeOK, SyncInv

LEMMA StartScanInv ==
    ASSUME IInv, NEW b \in Boards, NEW q \in Seq(Waiting(role_established[b])),
           NEW how \in {"timed", "endless"}, startScan(b, q, how), how = "endless" => role_established[b]
    PROVE  IInv'
<1>1. QueueInv'
    BY LeavesInv DEF startScan, IInv, TypeOK
<1>2. /\ scanner' \in [Boards -> {"off", "timed", "endless"}]
      /\ \A c \in Boards : scanner'[c] = "endless" => role_established[c]
    BY DEF startScan, IInv, TypeOK
<1>3. failures' \in [count : 0..MaxFailures, kinds : SUBSET Failures]
    BY FailuresTyped DEF startScan, IInv, TypeOK
<1>4. QED
    <2>1. is_connecting_or_syncing' \in [Boards -> BOOLEAN]
        BY DEF startScan, IInv, TypeOK
    <2>2. QED
        BY <1>1, <1>2, <1>3, <2>1 DEF startScan, IInv, TypeOK, SyncInv

LEMMA ReportInv ==
    ASSUME IInv, NEW b \in Boards, NEW q \in Seq(Waiting(role_established[b])), NEW periodic,
           onAdvertisingReport(b, q, periodic)
    PROVE  IInv'
<1>1. QueueInv'
    BY LeavesInv DEF onAdvertisingReport, IInv, TypeOK
<1>2. failures' \in [count : 0..MaxFailures, kinds : SUBSET Failures]
    BY FailuresTyped DEF onAdvertisingReport, IInv, TypeOK
<1>3. /\ is_connecting_or_syncing' \in [Boards -> BOOLEAN] /\ initiating' \in [Boards -> BOOLEAN]
      /\ linked' = linked /\ adv' = adv
    <2>1. is_connecting_or_syncing' \in [Boards -> BOOLEAN]
        BY DEF onAdvertisingReport, Attempting, IInv, TypeOK
    <2>2. initiating' \in [Boards -> BOOLEAN]
        BY DEF onAdvertisingReport, radioVars, IInv, TypeOK
    <2>3. linked' = linked /\ adv' = adv
        BY DEF onAdvertisingReport, radioVars
    <2>4. QED
        BY <2>1, <2>2, <2>3
<1>4. /\ sync' \in [Boards -> {"none", "creating", "up"}]
      /\ SyncInv'
    BY DEF onAdvertisingReport, radioVars, IInv, TypeOK, SyncInv
<1>5. /\ scanner' \in [Boards -> {"off", "timed", "endless"}]
      /\ \A c \in Boards : scanner'[c] = "endless" => role_established[c]
    BY DEF onAdvertisingReport, radioVars, IInv, TypeOK
<1>6. QED
    BY <1>1, <1>2, <1>3, <1>4, <1>5 DEF onAdvertisingReport, IInv, TypeOK

LEMMA AdvertisingStartInv ==
    ASSUME IInv, NEW b \in Boards, NEW q \in Seq(Waiting(role_established[b])), onAdvertisingStart(b, q)
    PROVE  IInv'
<1>1. QueueInv'
    BY LeavesInv DEF onAdvertisingStart, demoVars, IInv, TypeOK
<1>2. failures' \in [count : 0..MaxFailures, kinds : SUBSET Failures]
    BY FailuresTyped DEF onAdvertisingStart, IInv, TypeOK
<1>3. /\ adv' \in [Boards -> {"none", "off", "connectable", "announcing", "periodic"}]
      /\ \A c \in Boards : adv'[c] \in {"announcing", "periodic"} => role_established[c]
    BY DEF onAdvertisingStart, IInv, TypeOK
<1>4. QED
    BY <1>1, <1>2, <1>3 DEF onAdvertisingStart, demoVars, IInv, TypeOK, SyncInv

LEMMA ConnectionInv ==
    ASSUME IInv, NEW b \in Boards, NEW q \in Seq(Waiting(role_established[b])), NEW success,
           onConnectionComplete(b, q, success)
    PROVE  IInv'
<1>1. CASE success
    <2>1. /\ role_established' \in [Boards -> BOOLEAN] /\ role_established'[b]
          /\ \A c \in Boards : role_established[c] => role_established'[c]
        <3>1. role_established' = [role_established EXCEPT ![b] = TRUE]
            BY <1>1 DEF onConnectionComplete
        <3>2. role_established \in [Boards -> BOOLEAN]
            BY DEF IInv, TypeOK
        <3>3. QED
            BY <3>1, <3>2
    <2>2. Call("disconnect", 0, 1) \in Waiting(role_established'[b])
        BY PlainWaits, Args DEF Plain, Told
    <2>3. q \in Seq(Waiting(role_established'[b]))
        <3>1. Waiting(role_established[b]) \subseteq Waiting(role_established'[b])
            BY <2>1 DEF Waiting
        <3>2. QED
            BY <3>1, SeqMonotonic
    <2>4. QueueInv'
        BY <1>1, <2>1, <2>2, <2>3, PostIn, LeavesInv DEF onConnectionComplete, IInv, TypeOK
    <2>5. QED
        BY <1>1, <2>1, <2>4 DEF onConnectionComplete, radioVars, IInv, TypeOK, SyncInv
<1>2. CASE ~success
    BY <1>2, StartRoleInv DEF onConnectionComplete
<1>3. QED
    BY <1>1, <1>2

LEMMA SyncEventInv ==
    ASSUME IInv, NEW b \in Boards, NEW q \in Seq(Waiting(role_established[b])), NEW success,
           \/ onSyncEstablished(b, q, success)
           \/ onSyncLoss(b, q) /\ role_established[b]
    PROVE  IInv'
<1>1. role_established[b] => Call("scan_periodic", 0, 0) \in Waiting(role_established[b])
    BY CallWaits, Args DEF Periodics, Told
<1>2. QueueInv'
    BY <1>1, PostIn, LeavesInv DEF onSyncEstablished, onSyncLoss, IInv, TypeOK
<1>3. sync_handle' \in [Boards -> BOOLEAN]
    BY DEF onSyncEstablished, onSyncLoss, IInv, TypeOK
<1>4. QED
    BY <1>2, <1>3 DEF onSyncEstablished, onSyncLoss, radioVars, IInv, TypeOK, SyncInv

LEMMA DisconnectInv ==
    ASSUME IInv, NEW b \in Boards, NEW q \in Seq(Waiting(role_established[b])), disconnect(b, q)
    PROVE  IInv'
<1>1. \A c \in Boards : Call("onDisconnectionComplete", 0, 0) \in Waiting(role_established[c])
    BY PlainWaits, Args DEF Plain, Told
<1>2. QueueInv'
    <2>1. CASE linked
        <3>1. calls' = [c \in Boards |-> post(IF c = b THEN q ELSE calls[c],
                                             Call("onDisconnectionComplete", 0, 0))]
              /\ role_established' = role_established
            BY <2>1 DEF disconnect, demoVars
        <3>2. ASSUME NEW c \in Boards
              PROVE  calls'[c] \in Seq(Waiting(role_established[c]))
            <4>1. (IF c = b THEN q ELSE calls[c]) \in Seq(Waiting(role_established[c]))
                BY DEF IInv, QueueInv
            <4>2. QED
                BY <1>1, <3>1, <4>1, PostIn
        <3>3. QED
            BY <3>1, <3>2 DEF QueueInv
    <2>2. CASE ~linked
        BY <2>2, LeavesInv DEF disconnect, demoVars, IInv, TypeOK
    <2>3. QED
        BY <2>1, <2>2
<1>3. QED
    BY <1>2 DEF disconnect, demoVars, IInv, TypeOK, SyncInv

(* The queue hands the running call, which may wait, to its handler.       *)
LEMMA DispatchInv ==
    ASSUME IInv, NEW b \in Boards, NEW p \in DOMAIN calls[b], Dispatch(b, p)
    PROVE  IInv'
<1> DEFINE q == RemoveAt(calls[b], p)
           c == calls[b][p]
<1>1. q \in Seq(Waiting(role_established[b])) /\ c \in Waiting(role_established[b])
    BY ServedIn DEF IInv, QueueInv
<1>2. c.cb \in Periodics => role_established[b]
    BY <1>1 DEF Waiting
<1> HIDE DEF q
<1>3. CASE c.cb = "scan" /\ scan(b, q)
    BY <1>1, <1>3, StartScanInv DEF scan
<1>4. CASE c.cb = "scan_periodic" /\ scan_periodic(b, q)
    BY <1>1, <1>2, <1>4, StartScanInv DEF scan_periodic, Periodics
<1>5. CASE c.cb = "advertise" /\ advertise(b, q)
    BY <1>1, <1>5, AdvertiseInv
<1>6. CASE c.cb = "advertise_periodic" /\ advertise_periodic(b, q)
    BY <1>1, <1>2, <1>6, AdvertiseInv DEF Periodics
<1>7. CASE c.cb = "disconnect" /\ disconnect(b, q)
    BY <1>1, <1>7, DisconnectInv
<1>8. CASE c.cb = "onAdvertisingStart" /\ onAdvertisingStart(b, q)
    BY <1>1, <1>8, AdvertisingStartInv
<1>9. CASE c.cb = "onAdvertisingReport" /\ onAdvertisingReport(b, q, c.arg)
    BY <1>1, <1>9, ReportInv
<1>10. CASE c.cb = "onAdvertisingEnd" /\ onAdvertisingEnd(b, q, c.arg)
    BY <1>1, <1>10, RoleCycleInv DEF onAdvertisingEnd
<1>11. CASE c.cb = "onScanTimeout" /\ onScanTimeout(b, q)
    BY <1>1, <1>11, RoleCycleInv DEF onScanTimeout
<1>12. CASE c.cb = "onConnectionComplete" /\ onConnectionComplete(b, q, c.arg)
    BY <1>1, <1>12, ConnectionInv
<1>13. CASE c.cb = "onDisconnectionComplete" /\ onDisconnectionComplete(b, q)
    BY <1>1, <1>13, RoleCycleInv DEF onDisconnectionComplete
<1>14. CASE c.cb = "onSyncEstablished" /\ onSyncEstablished(b, q, c.arg)
    BY <1>1, <1>14, SyncEventInv
<1>15. CASE c.cb = "onSyncLoss" /\ onSyncLoss(b, q)
    BY <1>1, <1>2, <1>15, SyncEventInv DEF Periodics
<1>16. QED
    BY <1>3, <1>4, <1>5, <1>6, <1>7, <1>8, <1>9, <1>10, <1>11, <1>12, <1>13, <1>14, <1>15 DEF Dispatch, q

-----------------------------------------------------------------------------
(* The stacks and the air.                                                 *)

LEMMA PeerIsBoard == ASSUME NEW b \in Boards PROVE Peer(b) \in Boards /\ Peer(b) # b
BY BoardsAssumption DEF Peer

(* An event of one board that leaves the roles alone.                      *)
LEMMA SignalInv ==
    ASSUME IInv, NEW b \in Boards, NEW cb \in Plain \union Periodics, NEW arg \in Anything,
           cb \in Periodics => role_established[b], cb \in Told => arg \in BOOLEAN,
           Signal(b, cb, arg), UNCHANGED role_established
    PROVE  QueueInv'
<1>1. post(calls[b], Call(cb, arg, 0)) \in Seq(Waiting(role_established[b]))
    BY CallWaits, PostIn DEF IInv, QueueInv
<1>2. role_established \in [Boards -> BOOLEAN]
    BY DEF IInv, TypeOK
<1>3. QED
    BY <1>1, <1>2, LeavesInv DEF Signal, IInv

LEMMA PlainSignalInv ==
    ASSUME IInv, NEW b \in Boards, NEW cb \in Plain, NEW arg \in Anything,
           cb \in Told => arg \in BOOLEAN, Signal(b, cb, arg), UNCHANGED role_established
    PROVE  QueueInv'
<1>1. cb \notin Periodics
    BY DEF Plain, Periodics
<1>2. QED
    BY <1>1, SignalInv

LEMMA AirInv ==
    ASSUME IInv, NEW b \in Boards,
           AdvertisingExpires(b) \/ ScanExpires(b) \/ Report(b)
    PROVE  IInv'
<1>1. CASE AdvertisingExpires(b)
    <2>1. QueueInv'
        BY <1>1, PlainSignalInv, Args DEF AdvertisingExpires, demoVars, Plain, Told
    <2>2. QED
        BY <1>1, <2>1 DEF AdvertisingExpires, demoVars, IInv, TypeOK, SyncInv
<1>2. CASE ScanExpires(b)
    <2>1. QueueInv'
        BY <1>2, PlainSignalInv, Args DEF ScanExpires, demoVars, Plain, Told
    <2>2. QED
        BY <1>2, <2>1 DEF ScanExpires, demoVars, IInv, TypeOK, SyncInv
<1>3. CASE Report(b)
    <2>1. (adv[Peer(b)] = "periodic") \in Anything
        BY Args
    <2>2. QueueInv'
        BY <1>3, <2>1, PlainSignalInv DEF Report, demoVars, Plain, Told
    <2>3. QED
        BY <1>3, <2>2 DEF Report, demoVars, radioVars, IInv, TypeOK, SyncInv
<1>4. QED
    BY <1>1, <1>2, <1>3

LEMMA SyncInvStep ==
    ASSUME IInv, NEW b \in Boards, SyncEstablished(b) \/ SyncFails(b) \/ SyncLost(b)
    PROVE  IInv'
<1>1. UNCHANGED <<demoVars, scanner, adv, initiating, linked>>
    BY DEF SyncEstablished, SyncFails, SyncLost
<1>2. role_established[b]
    BY DEF SyncEstablished, SyncFails, SyncLost, IInv, SyncInv
<1>3. sync' \in [Boards -> {"none", "creating", "up"}] /\ SyncInv'
    BY <1>1, <1>2 DEF SyncEstablished, SyncFails, SyncLost, demoVars, IInv, TypeOK, SyncInv
<1>4. failures' \in [count : 0..MaxFailures, kinds : SUBSET Failures]
    BY FailuresTyped DEF SyncEstablished, SyncFails, SyncLost, IInv, TypeOK
<1>5. QueueInv'
    <2>1. role_established' = role_established
        BY <1>1 DEF demoVars
    <2>2. CASE SyncEstablished(b)
        BY <2>1, <2>2, PlainSignalInv, Args DEF SyncEstablished, Plain, Told
    <2>3. CASE SyncFails(b)
        BY <2>1, <2>3, PlainSignalInv, Args DEF SyncFails, Plain, Told
    <2>4. CASE SyncLost(b)
        BY <1>2, <2>1, <2>4, SignalInv, Args DEF SyncLost, Periodics, Told
    <2>5. QED
        BY <2>2, <2>3, <2>4
<1>6. QED
    BY <1>1, <1>3, <1>4, <1>5 DEF demoVars, IInv, TypeOK

LEMMA LinkInv ==
    ASSUME IInv, (\E b \in Boards : Established(b) \/ NotEstablished(b)) \/ LinkLost
    PROVE  IInv'
<1>1. ASSUME NEW b \in Boards, NotEstablished(b)
      PROVE  IInv'
    <2>1. QueueInv'
        BY <1>1, PlainSignalInv, Args DEF NotEstablished, demoVars, Plain, Told
    <2>2. failures' \in [count : 0..MaxFailures, kinds : SUBSET Failures]
        BY <1>1, FailuresTyped DEF NotEstablished, IInv
    <2>3. QED
        BY <1>1, <2>1, <2>2 DEF NotEstablished, demoVars, IInv, TypeOK, SyncInv
<1>2. ASSUME NEW b \in Boards, Established(b)
      PROVE  IInv'
    <2> DEFINE event == Call("onConnectionComplete", TRUE, 0)
               end == Call("onAdvertisingEnd", TRUE, 0)
    <2>1. \A c \in Boards : event \in Waiting(role_established[c]) /\ end \in Waiting(role_established[c])
        BY PlainWaits, Args DEF Plain, Told
    <2>2. Peer(b) \in Boards /\ Peer(b) # b
        BY PeerIsBoard
    <2>3. QueueInv'
        <3>1. \A c \in Boards : calls[c] \in Seq(Waiting(role_established[c]))
            BY DEF IInv, QueueInv
        <3> HIDE DEF event, end
        <3>2. \A c \in Boards :
                 /\ post(calls[c], event) \in Seq(Waiting(role_established[c]))
                 /\ post(post(calls[c], event), end) \in Seq(Waiting(role_established[c]))
            BY <2>1, <3>1, PostIn
        <3>3. calls' = [c \in Boards |->
                  IF c = b THEN post(calls[b], event)
                  ELSE IF c = Peer(b) THEN post(post(calls[c], event), end) ELSE calls[c]]
            BY <1>2, <2>2 DEF Established, event, end, IInv, QueueInv
        <3>4. role_established' = role_established
            BY <1>2 DEF Established, demoVars
        <3>5. QED
            BY <3>1, <3>2, <3>3, <3>4 DEF QueueInv
    <2>4. QED
        BY <1>2, <2>2, <2>3 DEF Established, demoVars, IInv, TypeOK, SyncInv
<1>3. CASE LinkLost
    <2>1. \A c \in Boards : Call("onDisconnectionComplete", 0, 0) \in Waiting(role_established[c])
        BY PlainWaits, Args DEF Plain, Told
    <2>2. QueueInv'
        BY <1>3, <2>1, PostIn DEF LinkLost, demoVars, IInv, QueueInv
    <2>3. failures' \in [count : 0..MaxFailures, kinds : SUBSET Failures]
        BY <1>3, FailuresTyped DEF LinkLost, IInv
    <2>4. QED
        BY <1>3, <2>2, <2>3 DEF LinkLost, demoVars, IInv, TypeOK, SyncInv
<1>4. QED
    BY <1>1, <1>2, <1>3

-----------------------------------------------------------------------------
LEMMA InitInv == Init => IInv
<1> SUFFICES ASSUME Init
             PROVE  IInv
    OBVIOUS
<1>1. QueueInv
    <2>1. ASSUME NEW b \in Boards
          PROVE  calls[b] \in Seq(Waiting(role_established[b]))
        <3>1. Call("scan", 0, 0) \in Waiting(role_established[b])
            BY PlainWaits, Args DEF Plain, Told
        <3> DEFINE first == Call("scan", 0, 0)
        <3> HIDE DEF first
        <3>2. <<first>> \in Seq(Waiting(role_established[b]))
            BY <3>1 DEF first
        <3>3. QED
            BY <3>2 DEF Init, first
    <2>2. QED
        BY <2>1 DEF QueueInv, Init
<1>2. failures \in [count : 0..MaxFailures, kinds : SUBSET Failures]
    BY BoundsAssumption DEF Init
<1>3. QED
    BY <1>1, <1>2 DEF Init, IInv, TypeOK, SyncInv

LEMMA NextInv == IInv /\ [Next]_vars => IInv'
<1> SUFFICES ASSUME IInv, [Next]_vars
             PROVE  IInv'
    OBVIOUS
<1>1. ASSUME NEW b \in Boards, Served(b)
      PROVE  IInv'
    BY <1>1, DispatchInv DEF Served
<1>2. ASSUME NEW b \in Boards, AdvertisingExpires(b) \/ ScanExpires(b) \/ Report(b)
      PROVE  IInv'
    BY <1>2, AirInv
<1>3. ASSUME NEW b \in Boards, SyncEstablished(b) \/ SyncFails(b) \/ SyncLost(b)
      PROVE  IInv'
    BY <1>3, SyncInvStep
<1>4. CASE (\E b \in Boards : Established(b) \/ NotEstablished(b)) \/ LinkLost
    BY <1>4, LinkInv
<1>5. CASE UNCHANGED vars
    BY <1>5 DEF vars, demoVars, radioVars, IInv, TypeOK, QueueInv, SyncInv
<1>6. QED
    BY <1>1, <1>2, <1>3, <1>4, <1>5 DEF Next

(* The boards' variables keep their types, and a board scans or advertises *)
(* periodically only once it has a role.                                   *)
THEOREM BoardsTyped == Spec => []TypeOK
<1>1. IInv => TypeOK
    BY DEF IInv
<1>2. QED
    BY <1>1, InitInv, NextInv, PTL DEF Spec

-----------------------------------------------------------------------------
(* How the boards elect their roles, with controllers that stop scanning   *)
(* to connect.  A board has one thing under way: a search (a scan or an    *)
(* advertising that runs out), a connection attempt, a link, a sync, or    *)
(* one call that takes its turn.  Reports and timeouts of an earlier turn  *)
(* wait before the answer that ends an attempt, never behind it.           *)

Named(cbs) == {c \in AnyCall : c.cb \in cbs}

Reports  == Named({"onAdvertisingReport"})
Timeouts == Named({"onScanTimeout"})
Answers  == Named({"onConnectionComplete"})
Success  == {c \in Answers : c.arg}
Losses   == Named({"onDisconnectionComplete"})

(* The calls that enter a mode or lead to one.                             *)
Hunts == Named({"scan", "advertise"})
         \union {c \in Named({"onAdvertisingEnd", "onConnectionComplete"}) : ~c.arg}
Turns == Hunts \union Losses \union Named(Periodics)

ScannerCalls    == Reports \union Timeouts \union Named({"scan", "scan_periodic", "onSyncLoss"})
AdvertiserCalls == Named({"advertise", "advertise_periodic"})

(* Its connection is established: it has its role, or is about to be told. *)
Paired(b) == role_established[b] \/ Some(calls[b], Success)

Idle(b) == /\ scanner[b] # "timed" /\ adv[b] # "connectable"
           /\ ~initiating[b] /\ sync[b] = "none" /\ ~linked

OneTurn(b) ==
    /\ AtMostOne(calls[b], Turns) /\ AtMostOne(calls[b], Timeouts) /\ AtMostOne(calls[b], Success)
    /\ Some(calls[b], Turns) => Idle(b)

RoleInv(b) ==
    /\ \/ scanner[b] # "off" \/ initiating[b] \/ sync[b] # "none" \/ Some(calls[b], ScannerCalls)
       => is_scanner[b]
    /\ adv[b] \notin {"none", "off"} \/ Some(calls[b], AdvertiserCalls) => ~is_scanner[b]

FlagInv(b) ==
    /\ initiating[b] \/ sync[b] # "none" => is_connecting_or_syncing[b]
    /\ scanner[b] = "timed" => ~is_connecting_or_syncing[b] /\ ~Some(calls[b], Timeouts)
    /\ Paired(b) /\ is_scanner[b] /\ (linked \/ Some(calls[b], Turns) \/ ~role_established[b])
       => is_connecting_or_syncing[b]

(* A waiting scan timeout or report is harmless, or is what goes on.       *)
StaleInv(b) ==
    /\ Some(calls[b], Timeouts) =>
          IF is_connecting_or_syncing[b] THEN initiating[b] \/ Some(calls[b], Answers)
                                         ELSE Idle(b) /\ ~Some(calls[b], Turns) /\ ~Paired(b)
    /\ Some(calls[b], Reports) /\ ~role_established[b] =>
          IF is_connecting_or_syncing[b] THEN initiating[b] \/ Some(calls[b], Answers)
                                         ELSE scanner[b] = "timed" \/ Some(calls[b], Timeouts)

OrderInv(b) ==
    /\ Before(calls[b], Reports, Timeouts) /\ Before(calls[b], Reports, Answers)
    /\ Before(calls[b], Timeouts, Answers) /\ Before(calls[b], Success, Losses)

PairInv(b) ==
    /\ Some(calls[b], Success) => ~role_established[b]
    /\ Paired(b) => /\ ~initiating[b] /\ scanner[b] # "timed" /\ adv[b] # "connectable"
                    /\ ~Some(calls[b], Hunts)
    /\ Some(calls[b], Losses) \/ linked => Paired(b)
    /\ linked => sync[b] = "none"

BoardInv(b) == OneTurn(b) /\ RoleInv(b) /\ FlagInv(b) /\ StaleInv(b) /\ OrderInv(b) /\ PairInv(b)

(* It tries to connect, or has a report that will make it try.             *)
Seeking(b) ==
    initiating[b] \/ (~role_established[b] /\ ~is_connecting_or_syncing[b] /\ Some(calls[b], Reports))

Between(b) == /\ Paired(b) => Paired(Peer(b)) /\ is_scanner[b] # is_scanner[Peer(b)]
              /\ ~(Seeking(b) /\ Seeking(Peer(b)))

ElectionInv == IInv /\ \A b \in Boards : BoardInv(b) /\ Between(b)

LEMMA Members ==
    ASSUME NEW c \in AnyCall
    PROVE  /\ c \in Reports <=> c.cb = "onAdvertisingReport"
           /\ c \in Timeouts <=> c.cb = "onScanTimeout"
           /\ c \in Answers <=> c.cb = "onConnectionComplete"
           /\ c \in Success <=> c.cb = "onConnectionComplete" /\ c.arg
           /\ c \in Losses <=> c.cb = "onDisconnectionComplete"
           /\ c \in Hunts <=> \/ c.cb \in {"scan", "advertise"}
                              \/ c.cb \in {"onAdvertisingEnd", "onConnectionComplete"} /\ ~c.arg
           /\ c \in Turns <=> c \in Hunts \/ c \in Losses \/ c.cb \in Periodics
           /\ c \in ScannerCalls <=>
                 c.cb \in {"onAdvertisingReport", "onScanTimeout", "scan", "scan_periodic", "onSyncLoss"}
           /\ c \in AdvertiserCalls <=> c.cb \in {"advertise", "advertise_periodic"}
BY DEF Named, Reports, Timeouts, Answers, Success, Losses, Hunts, Turns, ScannerCalls, AdvertiserCalls

(* The calls the invariant tells apart.                                    *)
Tracked == {Reports, Timeouts, Answers, Success, Losses, Hunts, Turns, ScannerCalls, AdvertiserCalls}

(* q is what is left of the queue of b while c runs.                       *)
Running(b, q, c) ==
    /\ c \in Waiting(role_established[b]) /\ q \in Seq(Waiting(role_established[b]))
    /\ \A S \in Tracked : Some(q, S) => Some(calls[b], S)
    /\ \A S \in Tracked : c \in S => Some(calls[b], S)
    /\ \A S \in Tracked : c \notin S => (Some(q, S) <=> Some(calls[b], S))
    /\ \A S \in Tracked : c \in S /\ AtMostOne(calls[b], S) => ~Some(q, S)
    /\ \A S \in Tracked : AtMostOne(calls[b], S) => AtMostOne(q, S)
    /\ \A S, T \in Tracked : Before(calls[b], S, T) => Before(q, S, T)
    /\ c \in Timeouts => ~Some(q, Reports)
    /\ c \in Answers => ~Some(q, Reports) /\ ~Some(q, Timeouts)
    /\ c \in Losses => ~Some(q, Success)

LEMMA Runs ==
    ASSUME ElectionInv, NEW b \in Boards, NEW p \in DOMAIN calls[b], Due(calls[b], p)
    PROVE  Running(b, RemoveAt(calls[b], p), calls[b][p])
<1> DEFINE A == Waiting(role_established[b])
           q == RemoveAt(calls[b], p)
           c == calls[b][p]
<1>1. calls[b] \in Seq(A)
    BY DEF ElectionInv, IInv, QueueInv
<1>2. c \in A /\ q \in Seq(A)
    BY <1>1, ServedIn
<1>3. \A S : /\ Some(q, S) => Some(calls[b], S)
             /\ c \notin S => (Some(q, S) <=> Some(calls[b], S))
             /\ c \in S /\ AtMostOne(calls[b], S) => ~Some(q, S)
    <2> TAKE S
    <2> QED
        BY <1>1, ServedSome
<1>4. \A S : c \in S => Some(calls[b], S)
    BY DEF Some
<1>5. \A S : AtMostOne(calls[b], S) => AtMostOne(q, S)
    BY <1>1, ServedAtMostOne
<1>6. \A S, T : Before(calls[b], S, T) => Before(q, S, T)
    BY <1>1, ServedBefore
<1>7. ASSUME NEW S, NEW T, Before(calls[b], S, T), c \in T, \A d \in A : d \in S => d.delay = 0
      PROVE  ~Some(q, S)
    <2>1. c.delay \in Nat
        BY <1>2 DEF Waiting, AnyCall
    <2>2. QED
        BY <1>1, <1>7, <2>1, ServedAfter
<1>8. \A d \in A : d \in Reports \/ d \in Timeouts \/ d \in Success => d.delay = 0
    BY Members DEF Waiting, AnyCall
<1>9. OrderInv(b)
    BY DEF ElectionInv, BoardInv
<1>10. /\ c \in Timeouts => ~Some(q, Reports)
       /\ c \in Answers => ~Some(q, Reports) /\ ~Some(q, Timeouts)
       /\ c \in Losses => ~Some(q, Success)
    BY <1>7, <1>8, <1>9 DEF OrderInv
<1>11. QED
    BY <1>2, <1>3, <1>4, <1>5, <1>6, <1>10 DEF Running

-----------------------------------------------------------------------------
(* A step of one board.                                                    *)

LEMMA Peers == ASSUME NEW b \in Boards
               PROVE  /\ Peer(b) \in Boards /\ Peer(b) # b /\ Peer(Peer(b)) = b
                      /\ \A d \in Boards : d = b \/ d = Peer(b)
BY BoardsAssumption DEF Peer

SameBoard(d) == /\ calls'[d] = calls[d] /\ is_scanner'[d] = is_scanner[d]
                /\ is_connecting_or_syncing'[d] = is_connecting_or_syncing[d]
                /\ role_established'[d] = role_established[d] /\ scanner'[d] = scanner[d]
                /\ adv'[d] = adv[d] /\ initiating'[d] = initiating[d] /\ sync'[d] = sync[d]

(* What a step does to the board b, for the other one to rely on.          *)
KeepsFaith(b) == /\ BoardInv(b)' /\ (Paired(b)' <=> Paired(b))
                 /\ Paired(b) => is_scanner'[b] = is_scanner[b]
                 /\ Seeking(b)' => Seeking(b)

LEMMA SameBoardInv ==
    ASSUME NEW d \in Boards, BoardInv(d), SameBoard(d), linked' = linked
    PROVE  KeepsFaith(d)
<1>1. BoardInv(d)'
    BY DEF SameBoard, BoardInv, OneTurn, RoleInv, FlagInv, StaleInv, OrderInv, PairInv, Idle, Paired
<1>2. QED
    BY <1>1 DEF KeepsFaith, SameBoard, Paired, Seeking

LEMMA FaithSuffices ==
    ASSUME ElectionInv, IInv', \A b \in Boards : KeepsFaith(b)
    PROVE  ElectionInv'
<1>1. ASSUME NEW b \in Boards
      PROVE  Between(b)'
    <2>1. Between(b) /\ KeepsFaith(b) /\ KeepsFaith(Peer(b))
        BY Peers DEF ElectionInv
    <2>2. Peer(b)' = Peer(b)
        BY DEF Peer
    <2>3. Between(b)' <=> /\ Paired(b)' => Paired(Peer(b))' /\ is_scanner'[b] # is_scanner'[Peer(b)]
                          /\ ~(Seeking(b)' /\ Seeking(Peer(b))')
        BY <2>2 DEF Between
    <2>4. QED
        BY <2>1, <2>3 DEF Between, KeepsFaith
<1>2. QED
    BY <1>1 DEF ElectionInv, KeepsFaith

LEMMA LocalStep ==
    ASSUME ElectionInv, IInv', NEW b \in Boards, KeepsFaith(b), linked' = linked,
           \A d \in Boards \ {b} : SameBoard(d)
    PROVE  ElectionInv'
<1>1. \A d \in Boards \ {b} : KeepsFaith(d)
    BY SameBoardInv DEF ElectionInv
<1>2. QED
    BY <1>1, FaithSuffices

(* What the queue of b may hold once c was posted.                         *)
LEMMA Posted ==
    ASSUME NEW A, NEW q \in Seq(A), NEW c
    PROVE  /\ \A S : Some(post(q, c), S) <=> Some(q, S) \/ c \in S
           /\ \A S : AtMostOne(q, S) /\ (c \in S => ~Some(q, S)) => AtMostOne(post(q, c), S)
           /\ \A S, T : Before(q, S, T) /\ (c \in S => c \notin T /\ ~Some(q, T))
                        => Before(post(q, c), S, T)
<1>1. \A S : Some(post(q, c), S) <=> Some(q, S) \/ c \in S
    BY PostSome
<1>2. \A S : AtMostOne(q, S) /\ (c \in S => ~Some(q, S)) => AtMostOne(post(q, c), S)
    BY PostAtMostOne
<1>3. \A S, T : Before(q, S, T) /\ (c \in S => c \notin T /\ ~Some(q, T))
                => Before(post(q, c), S, T)
    BY PostBefore
<1>4. QED
    BY <1>1, <1>2, <1>3

-----------------------------------------------------------------------------
(* The handlers, once more.                                                *)

LEMMA Inclusions ==
    ASSUME NEW q
    PROVE  /\ Some(q, Reports) \/ Some(q, Timeouts) => Some(q, ScannerCalls)
           /\ Some(q, Success) => Some(q, Answers)
           /\ Some(q, Losses) \/ Some(q, Hunts) \/ Some(q, AdvertiserCalls) => Some(q, Turns)
           /\ Some(q, ScannerCalls) => Some(q, Reports) \/ Some(q, Timeouts) \/ Some(q, Turns)
<1>1. Reports \subseteq ScannerCalls /\ Timeouts \subseteq ScannerCalls /\ Success \subseteq Answers
    BY DEF ScannerCalls, Success
<1>2. Losses \subseteq Turns /\ Hunts \subseteq Turns /\ AdvertiserCalls \subseteq Turns
    BY DEF Turns, Hunts, AdvertiserCalls, Named, Periodics
<1>3. ScannerCalls \subseteq Reports \union Timeouts \union Turns
    BY DEF ScannerCalls, Turns, Hunts, Named, Periodics
<1>4. QED
    BY <1>1, <1>2, <1>3 DEF Some

(* An answer says that the boards are connected, or takes its turn.        *)
LEMMA AnswersSplit ==
    ASSUME NEW known, NEW q \in Seq(Waiting(known))
    PROVE  Some(q, Answers) <=> \/ Some(q, Success)
                                \/ \E i \in DOMAIN q : q[i] \in Answers /\ q[i] \in Hunts /\ q[i] \in Turns
<1>1. \A i \in DOMAIN q : q[i] \in AnyCall
    BY LenProperties, ElementOfSeq DEF Waiting
<1>2. QED
    BY <1>1, Members DEF Some

LEMMA NoAnswers ==
    ASSUME NEW known, NEW q \in Seq(Waiting(known)), ~Some(q, Success), ~Some(q, Turns) \/ ~Some(q, Hunts)
    PROVE  ~Some(q, Answers)
BY AnswersSplit DEF Some

LEMMA ScanFaith ==
    ASSUME ElectionInv, NEW b \in Boards, NEW q, NEW c, Running(b, q, c),
           \/ c.cb = "scan" /\ scan(b, q)
           \/ c.cb = "scan_periodic" /\ scan_periodic(b, q)
    PROVE  KeepsFaith(b)
<1>1. /\ c \in Turns /\ c \in ScannerCalls
      /\ (c.cb = "scan" /\ c \in Hunts) \/ (c.cb = "scan_periodic" /\ role_established[b])
      /\ c \notin Reports /\ c \notin Timeouts /\ c \notin Answers /\ c \notin Success /\ c \notin Losses
    BY Members DEF Running, Waiting, Periodics
<1>2. BoardInv(b)
    BY DEF ElectionInv
<1>3. Idle(b) /\ ~Some(q, Turns) /\ is_scanner[b] /\ ~Some(q, Success)
    BY <1>1, <1>2 DEF Running, Tracked, BoardInv, OneTurn, RoleInv, PairInv, Paired
<1>4. ~Some(q, Answers)
    BY <1>3, NoAnswers DEF Running, Tracked
<1>5. ~Some(q, Timeouts) /\ (~role_established[b] => ~Some(q, Reports))
    BY <1>1, <1>2, <1>3, <1>4 DEF Running, Tracked, BoardInv, StaleInv, Idle
<1>6. /\ calls'[b] = q /\ is_connecting_or_syncing'[b] = FALSE
      /\ scanner'[b] = scanner[b] \/ scanner'[b] = (IF c.cb = "scan" THEN "timed" ELSE "endless")
      /\ is_scanner' = is_scanner /\ role_established' = role_established
      /\ adv' = adv /\ initiating' = initiating /\ sync' = sync /\ linked' = linked
    BY DEF scan, scan_periodic, startScan, Leaves, ElectionInv, IInv, QueueInv, TypeOK
<1>7. OneTurn(b)'
    BY <1>2, <1>3, <1>6 DEF BoardInv, OneTurn, Running, Tracked
<1>8. RoleInv(b)'
    BY <1>2, <1>3, <1>6 DEF BoardInv, RoleInv, Running, Tracked
<1>9. FlagInv(b)'
    BY <1>2, <1>3, <1>5, <1>6 DEF BoardInv, FlagInv, Paired, Idle, Running, Tracked
<1>10. StaleInv(b)'
    BY <1>2, <1>3, <1>5, <1>6 DEF BoardInv, StaleInv, Running, Tracked
<1>11. OrderInv(b)'
    BY <1>2, <1>6 DEF BoardInv, OrderInv, Running, Tracked
<1>12. PairInv(b)' /\ (Paired(b)' <=> Paired(b))
    BY <1>1, <1>2, <1>3, <1>6 DEF BoardInv, PairInv, Paired, Running, Tracked, Idle
<1>13. Seeking(b)' => Seeking(b)
    BY <1>5, <1>6 DEF Seeking
<1>14. QED
    BY <1>6, <1>7, <1>8, <1>9, <1>10, <1>11, <1>12, <1>13 DEF KeepsFaith, BoardInv

(* A handler that only consumes its call, or posts one of no consequence.  *)
LEMMA DropFaith ==
    ASSUME ElectionInv, NEW b \in Boards, NEW q, NEW c, Running(b, q, c), c \notin Answers,
           calls'[b] = q, UNCHANGED <<is_scanner, is_connecting_or_syncing, role_established>>,
           scanner' = scanner, initiating' = initiating, sync' = sync, linked' = linked,
           \/ adv'[b] = adv[b]
           \/ adv[b] \in {"none", "off"} /\ adv'[b] \in {"none", "off"}
           \/ adv[b] = "announcing" /\ adv'[b] = "periodic"
    PROVE  KeepsFaith(b)
<1>1. c \notin Success
    BY Members DEF Running, Waiting
<1>2. BoardInv(b)
    BY DEF ElectionInv
<1>3. OneTurn(b)'
    BY <1>2 DEF BoardInv, OneTurn, Idle, Running, Tracked
<1>4. RoleInv(b)'
    BY <1>2 DEF BoardInv, RoleInv, Running, Tracked
<1>5. FlagInv(b)' /\ (Paired(b)' <=> Paired(b))
    BY <1>1, <1>2 DEF BoardInv, FlagInv, Paired, Running, Tracked
<1>6. StaleInv(b)'
    <2>1. CASE c \in Timeouts
        BY <1>1, <1>2, <2>1 DEF BoardInv, OneTurn, StaleInv, Running, Tracked
    <2>2. CASE c \notin Timeouts
        BY <1>1, <1>2, <2>2 DEF BoardInv, StaleInv, Idle, Paired, Running, Tracked
    <2>3. QED
        BY <2>1, <2>2
<1>7. OrderInv(b)'
    BY <1>2 DEF BoardInv, OrderInv, Running, Tracked
<1>8. PairInv(b)'
    BY <1>1, <1>2 DEF BoardInv, PairInv, Paired, Running, Tracked
<1>9. Seeking(b)' => Seeking(b)
    BY DEF Seeking, Running, Tracked
<1>10. QED
    BY <1>3, <1>4, <1>5, <1>6, <1>7, <1>8, <1>9 DEF KeepsFaith, BoardInv

LEMMA Untracked ==
    ASSUME ElectionInv, NEW b \in Boards, NEW q, NEW c, Running(b, q, c),
           NEW d \in Waiting(role_established[b]), \A S \in Tracked : d \notin S
    PROVE  Running(b, post(q, d), c)
<1>1. q \in Seq(Waiting(role_established[b]))
    BY DEF Running
<1>2. post(q, d) \in Seq(Waiting(role_established[b]))
    BY <1>1, PostIn
<1>3. /\ \A S \in Tracked : Some(post(q, d), S) <=> Some(q, S)
      /\ \A S \in Tracked : AtMostOne(q, S) => AtMostOne(post(q, d), S)
      /\ \A S, T \in Tracked : Before(q, S, T) => Before(post(q, d), S, T)
    BY <1>1, Posted
<1>4. Reports \in Tracked /\ Timeouts \in Tracked /\ Success \in Tracked
    BY DEF Tracked
<1>5. QED
    BY <1>2, <1>3, <1>4 DEF Running

LEMMA StartWaits ==
    ASSUME NEW b \in Boards
    PROVE  \A cb \in {"onAdvertisingStart", "disconnect", "onSyncEstablished"} :
               \A arg \in BOOLEAN \union {0}, delay \in {0, 1} :
                  (cb = "disconnect" \/ delay = 0) /\ (cb = "onSyncEstablished" => arg \in BOOLEAN)
                  => /\ Call(cb, arg, delay) \in Waiting(role_established[b])
                     /\ \A S \in Tracked : Call(cb, arg, delay) \notin S
<1> SUFFICES ASSUME NEW cb \in {"onAdvertisingStart", "disconnect", "onSyncEstablished"},
                    NEW arg \in BOOLEAN \union {0}, NEW delay \in {0, 1},
                    cb = "disconnect" \/ delay = 0, cb = "onSyncEstablished" => arg \in BOOLEAN
             PROVE  /\ Call(cb, arg, delay) \in Waiting(role_established[b])
                    /\ \A S \in Tracked : Call(cb, arg, delay) \notin S
    OBVIOUS
<1> DEFINE d == Call(cb, arg, delay)
<1>1. d \in Waiting(role_established[b]) /\ d.cb = cb
    <2>1. cb \in Plain /\ arg \in Anything /\ delay \in Nat /\ (cb \in Told => arg \in BOOLEAN)
        BY DEF Plain, Anything, Told
    <2>2. QED
        BY <2>1, PlainWaits DEF Call
<1>2. d \in AnyCall
    BY <1>1 DEF Waiting
<1> HIDE DEF d
<1>3. \A S \in Tracked : d \notin S
    BY <1>1, <1>2, Members DEF Tracked, Periodics
<1>4. QED
    BY <1>1, <1>3 DEF d

(* The set starts, or the call is refused.                                 *)
LEMMA AdvertiseFaith ==
    ASSUME ElectionInv, NEW b \in Boards, NEW q, NEW c, Running(b, q, c),
           \/ c.cb = "advertise" /\ advertise(b, q)
           \/ c.cb = "advertise_periodic" /\ advertise_periodic(b, q)
    PROVE  KeepsFaith(b)
<1>1. /\ c \in Turns /\ c \in AdvertiserCalls
      /\ \/ c.cb = "advertise" /\ c \in Hunts
         \/ c.cb = "advertise_periodic" /\ role_established[b]
      /\ c \notin Reports /\ c \notin Timeouts /\ c \notin Answers /\ c \notin Success /\ c \notin Losses
    BY Members DEF Running, Waiting, Periodics
<1>2. BoardInv(b)
    BY DEF ElectionInv
<1>3. Idle(b) /\ ~Some(q, Turns) /\ ~is_scanner[b] /\ ~Some(q, Success)
    BY <1>1, <1>2 DEF Running, Tracked, BoardInv, OneTurn, RoleInv, PairInv, Paired
<1>4. adv[b] \in {"none", "off"} \/ role_established[b]
    BY <1>3 DEF ElectionInv, IInv, TypeOK, Idle
<1>5. /\ is_scanner' = is_scanner /\ role_established' = role_established /\ scanner' = scanner
      /\ is_connecting_or_syncing' = is_connecting_or_syncing
      /\ initiating' = initiating /\ sync' = sync /\ linked' = linked
    BY DEF advertise, advertise_periodic, demoVars
<1>6. PICK x : calls'[b] = x /\ Running(b, x, c)
    <2>1. calls'[b] \in {q, post(q, Call("onAdvertisingStart", 0, 0))}
        BY DEF advertise, advertise_periodic, Leaves, ElectionInv, IInv, QueueInv
    <2>2. Running(b, post(q, Call("onAdvertisingStart", 0, 0)), c)
        BY StartWaits, Untracked
    <2>3. QED
        BY <2>1, <2>2
<1>7. \/ adv'[b] = adv[b]
      \/ adv[b] \in {"none", "off"} /\ adv'[b] \in {"none", "off"}
      \/ c.cb = "advertise" /\ adv'[b] = "connectable" 
      \/ c.cb = "advertise_periodic" /\ adv'[b] = "announcing"
    BY DEF advertise, advertise_periodic, ElectionInv, IInv, TypeOK
<1>8. CASE adv'[b] = adv[b] \/ (adv[b] \in {"none", "off"} /\ adv'[b] \in {"none", "off"})
    BY <1>1, <1>5, <1>6, <1>8, DropFaith
<1>9. CASE \/ c.cb = "advertise" /\ adv'[b] = "connectable" 
           \/ c.cb = "advertise_periodic" /\ adv'[b] = "announcing"
    <2>1. ~Some(x, Turns) /\ ~Some(x, Success) /\ (adv'[b] = "connectable" => ~Paired(b))
        BY <1>1, <1>2, <1>6, <1>9 DEF BoardInv, OneTurn, PairInv, Running, Tracked, Paired
    <2>2. ~Some(x, Timeouts) /\ ~Some(x, Reports) /\ (Paired(b)' <=> Paired(b))
        BY <1>1, <1>2, <1>3, <1>5, <1>6, Inclusions DEF BoardInv, RoleInv, Paired, Running, Tracked
    <2>3. OneTurn(b)'
        BY <1>2, <1>5, <1>6, <2>1 DEF BoardInv, OneTurn, Running, Tracked
    <2>4. RoleInv(b)'
        BY <1>2, <1>3, <1>5, <1>6 DEF BoardInv, RoleInv, Running, Tracked
    <2>5. FlagInv(b)'
        BY <1>2, <1>3, <1>5, <1>6, <2>2 DEF BoardInv, FlagInv, Running, Tracked
    <2>6. StaleInv(b)'
        BY <1>6, <2>2 DEF StaleInv
    <2>7. OrderInv(b)'
        BY <1>2, <1>6 DEF BoardInv, OrderInv, Running, Tracked
    <2>8. PairInv(b)'
        BY <1>2, <1>5, <1>6, <2>1, <2>2 DEF BoardInv, PairInv, Paired, Running, Tracked
    <2>9. Seeking(b)' => Seeking(b)
        BY <1>5, <1>6, <2>2 DEF Seeking
    <2>10. QED
        BY <1>5, <2>2, <2>3, <2>4, <2>5, <2>6, <2>7, <2>8, <2>9 DEF KeepsFaith, BoardInv
<1>10. QED
    BY <1>7, <1>8, <1>9

(* A board that has nothing under way takes its turn.                      *)
LEMMA StartRoleFaith ==
    ASSUME ElectionInv, NEW b \in Boards, NEW q, NEW c, Running(b, q, c), start_role(b, q),
           UNCHANGED <<is_connecting_or_syncing, role_established, radioVars>>,
           Idle(b), ~Some(q, Turns), ~Some(q, Timeouts), ~Some(q, Success),
           role_established[b] \/ ~Some(q, Reports), Paired(b) => role_established[b],
           role_established[b] /\ is_scanner[b] => is_connecting_or_syncing[b]
    PROVE  KeepsFaith(b)
<1> DEFINE m == Call(Mode(role_established[b], is_scanner'[b]), 0, 0)
           x == post(q, m)
<1>1. BoardInv(b) /\ q \in Seq(Waiting(role_established[b]))
    BY DEF ElectionInv, Running
<1>2. /\ calls'[b] = x /\ m \in AnyCall
      /\ m.cb = Mode(role_established[b], is_scanner'[b])
    <2>1. Mode(role_established[b], is_scanner'[b]) \in Plain \union Periodics
        BY DEF Mode, Plain, Periodics
    <2>2. Mode(role_established[b], is_scanner'[b]) \notin Told
        BY DEF Mode, Told
    <2>3. m \in Waiting(TRUE)
        BY <2>1, <2>2, Args, CallWaits
    <2>4. calls'[b] = x
        BY DEF start_role, Leaves, ElectionInv, IInv, QueueInv
    <2>5. QED
        BY <2>3, <2>4 DEF Waiting, Call
<1>3. (role_established[b] => is_scanner'[b] = is_scanner[b]) /\ is_scanner'[b] \in BOOLEAN
    <2>1. is_scanner \in [Boards -> BOOLEAN]
        BY Types DEF ElectionInv, IInv
    <2>2. QED
        BY <2>1 DEF start_role
<1> HIDE DEF m
<1>4. /\ m \in Turns /\ (m \in Hunts <=> ~role_established[b])
      /\ (m \in ScannerCalls <=> is_scanner'[b]) /\ (m \in AdvertiserCalls <=> ~is_scanner'[b])
      /\ m \notin Reports /\ m \notin Timeouts /\ m \notin Answers /\ m \notin Success /\ m \notin Losses
    BY <1>2, <1>3, Members DEF Mode, Periodics
<1>5. /\ \A S : Some(x, S) <=> Some(q, S) \/ m \in S
      /\ \A S : AtMostOne(q, S) /\ (m \in S => ~Some(q, S)) => AtMostOne(x, S)
      /\ \A S, T : Before(q, S, T) /\ (m \in S => m \notin T /\ ~Some(q, T)) => Before(x, S, T)
    BY <1>1, Posted
<1> HIDE DEF x
<1>6. /\ ~Some(x, Timeouts) /\ ~Some(x, Success) /\ (role_established[b] \/ ~Some(x, Reports))
      /\ ~Some(q, AdvertiserCalls) /\ ~Some(q, Hunts) /\ (role_established[b] \/ ~Some(q, ScannerCalls))
    BY <1>4, <1>5, Inclusions
<1>7. OneTurn(b)'
    BY <1>1, <1>2, <1>4, <1>5 DEF BoardInv, OneTurn, Idle, radioVars, Running, Tracked
<1>8. role_established[b] \/ (scanner[b] = "off" /\ adv[b] \in {"none", "off"})
    BY DEF ElectionInv, IInv, TypeOK, Idle
<1>9. RoleInv(b)'
    BY <1>1, <1>2, <1>3, <1>4, <1>5, <1>6, <1>8 DEF BoardInv, RoleInv, Idle, radioVars, Running, Tracked
<1>10. FlagInv(b)' /\ (Paired(b)' <=> Paired(b))
    BY <1>1, <1>2, <1>3, <1>6 DEF FlagInv, Idle, radioVars, Paired
<1>11. StaleInv(b)'
    BY <1>1, <1>2, <1>6 DEF StaleInv
<1>12. OrderInv(b)'
    BY <1>1, <1>2, <1>4, <1>5 DEF BoardInv, OrderInv, Running, Tracked
<1>13. PairInv(b)'
    BY <1>1, <1>2, <1>4, <1>5, <1>6 DEF BoardInv, PairInv, Paired, Idle, radioVars, Running, Tracked
<1>14. Seeking(b)' => Seeking(b)
    BY <1>2, <1>6 DEF Seeking, radioVars
<1>15. QED
    BY <1>3, <1>7, <1>9, <1>10, <1>11, <1>12, <1>13, <1>14 DEF KeepsFaith, BoardInv

(* The ends of a turn.                                                     *)
LEMMA TurnFaith ==
    ASSUME ElectionInv, NEW b \in Boards, NEW q, NEW c, Running(b, q, c), c \in Turns,
           c \notin Success, start_role(b, q),
           UNCHANGED <<is_connecting_or_syncing, role_established, radioVars>>
    PROVE  KeepsFaith(b)
<1>1. BoardInv(b) /\ q \in Seq(Waiting(role_established[b])) /\ c \in AnyCall
    BY DEF ElectionInv, Running, Waiting
<1>2. Idle(b) /\ ~Some(q, Turns) /\ c \notin Timeouts /\ c \notin Reports
    BY <1>1, Members DEF BoardInv, OneTurn, Running, Tracked, Periodics
<1>3. Paired(b) => role_established[b]
    <2>1. Some(calls[b], Success) => Some(q, Success)
        BY DEF Running, Tracked
    <2>2. CASE c \in Losses
        BY <2>1, <2>2 DEF Running, Paired
    <2>3. CASE c \in Hunts
        BY <1>1, <2>3 DEF Running, Tracked, BoardInv, PairInv
    <2>4. CASE c.cb \in Periodics
        BY <2>4 DEF Running, Waiting
    <2>5. QED
        BY <1>1, <2>2, <2>3, <2>4, Members
<1>4. ~Some(q, Success)
    BY <1>1, <1>3 DEF BoardInv, PairInv, Paired, Running, Tracked
<1>5. ~Some(q, Answers)
    BY <1>1, <1>2, <1>4, NoAnswers
<1>6. ~Some(q, Timeouts) /\ (role_established[b] \/ ~Some(q, Reports))
    <2>1. CASE c \in Answers
        BY <2>1 DEF Running
    <2>2. CASE c \notin Answers
        BY <1>1, <1>2, <1>5, <2>2 DEF BoardInv, StaleInv, Idle, Running, Tracked
    <2>3. QED
        BY <2>1, <2>2
<1>7. role_established[b] /\ is_scanner[b] => is_connecting_or_syncing[b]
    BY <1>1 DEF BoardInv, FlagInv, Running, Tracked, Paired
<1>8. QED
    BY <1>2, <1>3, <1>4, <1>6, <1>7, StartRoleFaith

LEMMA ScanTimeoutFaith ==
    ASSUME ElectionInv, NEW b \in Boards, NEW q, NEW c, Running(b, q, c), c.cb = "onScanTimeout",
           onScanTimeout(b, q)
    PROVE  KeepsFaith(b)
<1>1. BoardInv(b) /\ c \in AnyCall
    BY DEF ElectionInv, Running, Waiting
<1>2. c \in Timeouts /\ c \notin Answers /\ c \notin Turns /\ c \notin Success
    BY <1>1, Members DEF Periodics
<1>3. CASE is_connecting_or_syncing[b]
    <2>1. calls'[b] = q
        BY <1>3 DEF onScanTimeout, Leaves, ElectionInv, IInv, QueueInv
    <2>2. QED
        BY <1>2, <1>3, <2>1, DropFaith DEF onScanTimeout, radioVars
<1>4. CASE ~is_connecting_or_syncing[b]
    <2>1. Idle(b) /\ ~Some(q, Turns) /\ ~Paired(b)
        BY <1>1, <1>2, <1>4 DEF BoardInv, StaleInv, Running, Tracked
    <2>2. ~Some(q, Timeouts) /\ ~Some(q, Reports) /\ ~Some(q, Success)
        BY <1>1, <1>2, <2>1 DEF BoardInv, OneTurn, Paired, Running, Tracked
    <2>3. QED
        BY <1>4, <2>1, <2>2, StartRoleFaith DEF onScanTimeout, Paired
<1>5. QED
    BY <1>3, <1>4

LEMMA AdvertisingEndFaith ==
    ASSUME ElectionInv, NEW b \in Boards, NEW q, NEW c, Running(b, q, c), c.cb = "onAdvertisingEnd",
           onAdvertisingEnd(b, q, c.arg)
    PROVE  KeepsFaith(b)
<1>1. c \in AnyCall
    BY DEF Running, Waiting
<1>2. c \notin Answers /\ c \notin Success /\ (~c.arg => c \in Turns)
    BY <1>1, Members DEF Periodics
<1>3. CASE c.arg
    <2>1. calls'[b] = q
        BY <1>3 DEF onAdvertisingEnd, Leaves, ElectionInv, IInv, QueueInv
    <2>2. QED
        BY <1>2, <1>3, <2>1, DropFaith DEF onAdvertisingEnd, radioVars
<1>4. CASE ~c.arg
    BY <1>2, <1>4, TurnFaith DEF onAdvertisingEnd
<1>5. QED
    BY <1>3, <1>4

LEMMA DisconnectionFaith ==
    ASSUME ElectionInv, NEW b \in Boards, NEW q, NEW c, Running(b, q, c),
           c.cb = "onDisconnectionComplete", onDisconnectionComplete(b, q)
    PROVE  KeepsFaith(b)
<1>1. c \in Turns /\ c \notin Success
    BY Members DEF Running, Waiting, Periodics
<1>2. QED
    BY <1>1, TurnFaith DEF onDisconnectionComplete

LEMMA SyncLossFaith ==
    ASSUME ElectionInv, NEW b \in Boards, NEW q, NEW c, Running(b, q, c),
           c.cb = "onSyncLoss", onSyncLoss(b, q)
    PROVE  KeepsFaith(b)
<1>1. c \in Turns /\ c \notin Success /\ c \in ScannerCalls /\ role_established[b]
    BY Members DEF Running, Waiting, Periodics
<1>2. is_scanner[b]
    BY <1>1 DEF ElectionInv, BoardInv, RoleInv, Running, Tracked
<1>3. is_scanner' = is_scanner /\ Leaves(b, post(q, Call("scan_periodic", 0, 0)))
    BY DEF onSyncLoss
<1>4. start_role(b, q)
    BY <1>1, <1>2, <1>3 DEF start_role, Mode
<1>5. QED
    BY <1>1, <1>4, TurnFaith DEF onSyncLoss

(* What only consumes its call.                                            *)
LEMMA PrintFaith ==
    ASSUME ElectionInv, NEW b \in Boards, NEW q, NEW c, Running(b, q, c),
           \/ c.cb = "onSyncEstablished" /\ onSyncEstablished(b, q, c.arg)
           \/ c.cb = "onAdvertisingStart" /\ onAdvertisingStart(b, q)
    PROVE  KeepsFaith(b)
<1>1. c \notin Answers
    BY Members DEF Running, Waiting
<1>2. /\ UNCHANGED <<is_scanner, is_connecting_or_syncing, role_established>>
      /\ scanner' = scanner /\ initiating' = initiating /\ sync' = sync /\ linked' = linked
    BY DEF onSyncEstablished, onAdvertisingStart, demoVars, radioVars
<1>3. calls'[b] = q
    BY DEF onSyncEstablished, onAdvertisingStart, Leaves, ElectionInv, IInv, QueueInv
<1>4. adv'[b] = adv[b] \/ (adv[b] = "announcing" /\ adv'[b] = "periodic")
    BY DEF onSyncEstablished, onAdvertisingStart, radioVars, ElectionInv, IInv, TypeOK
<1>5. QED
    BY <1>1, <1>2, <1>3, <1>4, DropFaith

(* The connection is known; only the scanner goes on, by disconnecting.    *)
LEMMA ConnectionFaith ==
    ASSUME ElectionInv, NEW b \in Boards, NEW q, NEW c, Running(b, q, c), c.cb = "onConnectionComplete",
           onConnectionComplete(b, q, c.arg)
    PROVE  KeepsFaith(b)
<1>1. BoardInv(b) /\ c \in AnyCall
    BY DEF ElectionInv, Running, Waiting
<1>2. c \in Answers /\ c \notin Timeouts /\ (c.arg => c \in Success /\ c \notin Turns)
      /\ (~c.arg => c \in Turns /\ c \notin Success)
    BY <1>1, Members DEF Periodics
<1>3. CASE ~c.arg
    BY <1>2, <1>3, TurnFaith DEF onConnectionComplete
<1>4. CASE c.arg
    <2>1. PICK x : calls'[b] = x /\ Running(b, x, c)
        <3>1. calls'[b] \in {q, post(q, Call("disconnect", 0, 1))}
            BY <1>4 DEF onConnectionComplete, Leaves, ElectionInv, IInv, QueueInv
        <3>2. Running(b, post(q, Call("disconnect", 0, 1)), c)
            BY StartWaits, Untracked
        <3>3. QED
            BY <3>1, <3>2
    <2>2. /\ role_established'[b] = TRUE /\ is_scanner' = is_scanner
          /\ is_connecting_or_syncing' = is_connecting_or_syncing
          /\ scanner' = scanner /\ adv' = adv /\ initiating' = initiating
          /\ sync' = sync /\ linked' = linked
        BY <1>4, Types DEF onConnectionComplete, radioVars, ElectionInv, IInv
    <2>3. /\ Paired(b) /\ ~role_established[b] /\ ~Some(x, Success)
          /\ ~Some(x, Reports) /\ ~Some(x, Timeouts)
        BY <1>1, <1>2, <1>4, <2>1 DEF BoardInv, OneTurn, PairInv, Paired, Running, Tracked
    <2>4. OneTurn(b)'
        BY <1>1, <2>1, <2>2 DEF BoardInv, OneTurn, Idle, Running, Tracked
    <2>5. RoleInv(b)'
        BY <1>1, <2>1, <2>2 DEF BoardInv, RoleInv, Running, Tracked
    <2>6. FlagInv(b)'
        BY <1>1, <2>1, <2>2, <2>3 DEF BoardInv, FlagInv, Running, Tracked
    <2>7. StaleInv(b)'
        BY <2>1, <2>3 DEF StaleInv
    <2>8. OrderInv(b)'
        BY <1>1, <2>1 DEF BoardInv, OrderInv, Running, Tracked
    <2>9. PairInv(b)' /\ Paired(b)'
        BY <1>1, <2>1, <2>2, <2>3 DEF BoardInv, PairInv, Paired, Running, Tracked
    <2>10. ~Seeking(b)'
        BY <1>1, <2>2, <2>3 DEF BoardInv, PairInv, Seeking
    <2>11. QED
        BY <2>2, <2>3, <2>4, <2>5, <2>6, <2>7, <2>8, <2>9, <2>10 DEF KeepsFaith, BoardInv
<1>5. QED
    BY <1>3, <1>4

LEMMA ReportFaith ==
    ASSUME ConnectStopsScan, ElectionInv, NEW b \in Boards, NEW q, NEW c, Running(b, q, c),
           c.cb = "onAdvertisingReport", onAdvertisingReport(b, q, c.arg)
    PROVE  KeepsFaith(b)
<1>1. BoardInv(b) /\ c \in AnyCall
    BY DEF ElectionInv, Running, Waiting
<1>2. /\ c \in Reports /\ c \in ScannerCalls
      /\ c \notin Answers /\ c \notin Turns /\ c \notin Success /\ c \notin Timeouts
    BY <1>1, Members DEF Periodics
<1>3. calls'[b] = q /\ is_scanner' = is_scanner /\ role_established' = role_established
      /\ linked' = linked /\ adv' = adv /\ is_scanner[b]
    BY <1>1, <1>2 DEF onAdvertisingReport, Leaves, radioVars, ElectionInv, IInv, QueueInv,
                      BoardInv, RoleInv, Running, Tracked
<1>4. CASE UNCHANGED <<is_connecting_or_syncing, radioVars>>
    BY <1>2, <1>3, <1>4, DropFaith DEF radioVars
<1>5. CASE /\ ~is_connecting_or_syncing[b] /\ is_connecting_or_syncing'[b]
           /\ role_established[b] /\ sync[b] = "none" /\ sync'[b] = "creating"
           /\ scanner' = scanner /\ initiating' = initiating
    <2>1. ~Some(q, Turns) /\ ~linked /\ ~Some(q, Timeouts) /\ Paired(b) /\ Paired(b)'
        BY <1>1, <1>2, <1>3, <1>5 DEF BoardInv, FlagInv, StaleInv, Paired, Running, Tracked
    <2>2. OneTurn(b)'
        BY <1>1, <1>3, <2>1 DEF BoardInv, OneTurn, Running, Tracked
    <2>3. RoleInv(b)'
        BY <1>1, <1>3, <1>5 DEF BoardInv, RoleInv, Running, Tracked
    <2>4. FlagInv(b)' /\ StaleInv(b)'
        BY <1>1, <1>3, <1>5, <2>1 DEF BoardInv, PairInv, FlagInv, StaleInv
    <2>5. OrderInv(b)'
        BY <1>1, <1>3 DEF BoardInv, OrderInv, Running, Tracked
    <2>6. PairInv(b)' /\ (Seeking(b)' => Seeking(b))
        BY <1>1, <1>3, <1>5, <2>1 DEF BoardInv, PairInv, Paired, Seeking, Running, Tracked
    <2>7. QED
        BY <1>3, <2>1, <2>2, <2>3, <2>4, <2>5, <2>6 DEF KeepsFaith, BoardInv
<1>6. CASE /\ ~is_connecting_or_syncing[b] /\ is_connecting_or_syncing'[b]
           /\ ~role_established[b] /\ initiating'[b]
           /\ scanner'[b] = "off" /\ sync' = sync
    <2>1. /\ ~Some(q, Turns) /\ ~Paired(b) /\ ~linked /\ adv[b] # "connectable" /\ Seeking(b)
          /\ ~Some(calls[b], Success)
        BY <1>1, <1>2, <1>3, <1>6 DEF BoardInv, OneTurn, RoleInv, StaleInv, PairInv, Idle, Paired,
                                      Seeking, Running, Tracked
    <2>2. OneTurn(b)'
        BY <1>1, <1>3, <2>1 DEF BoardInv, OneTurn, Running, Tracked
    <2>3. RoleInv(b)'
        BY <1>1, <1>3, <1>6 DEF BoardInv, RoleInv, Running, Tracked
    <2>4. FlagInv(b)' /\ StaleInv(b)'
        BY <1>3, <1>6 DEF FlagInv, StaleInv
    <2>5. OrderInv(b)'
        BY <1>1, <1>3 DEF BoardInv, OrderInv, Running, Tracked
    <2>6. PairInv(b)' /\ ~Paired(b)'
        BY <1>1, <1>2, <1>3, <1>6, <2>1 DEF BoardInv, PairInv, Paired, Running, Tracked
    <2>7. QED
        BY <1>3, <2>1, <2>2, <2>3, <2>4, <2>5, <2>6 DEF KeepsFaith, BoardInv
<1>7. QED
    <2>1. /\ is_connecting_or_syncing \in [Boards -> BOOLEAN] /\ initiating \in [Boards -> BOOLEAN]
          /\ scanner \in [Boards -> {"off", "timed", "endless"}]
          /\ sync \in [Boards -> {"none", "creating", "up"}]
        BY Types DEF ElectionInv, IInv
    <2>2. QED
        BY <1>4, <1>5, <1>6, <2>1 DEF onAdvertisingReport, Attempting, radioVars

(* Both boards are told that the link is gone, one after it served a call. *)
Unlinked(q) ==
    /\ linked /\ linked' = FALSE
    /\ calls' = [d \in Boards |-> post(q[d], Call("onDisconnectionComplete", 0, 0))]
    /\ UNCHANGED <<demoVars, scanner, adv, initiating, sync>>

LEMMA UnlinkedFaith ==
    ASSUME ElectionInv, NEW d \in Boards, NEW q, Unlinked(q),
           q[d] = calls[d] \/ \E c : c \notin Answers /\ c \notin Timeouts /\ Running(d, q[d], c)
    PROVE  KeepsFaith(d)
<1> DEFINE m == Call("onDisconnectionComplete", 0, 0)
           x == post(q[d], m)
<1>1. BoardInv(d) /\ calls[d] \in Seq(Waiting(role_established[d]))
    BY DEF ElectionInv, IInv, QueueInv
<1>2. m \in AnyCall /\ m.cb = "onDisconnectionComplete"
    BY PlainWaits, Args DEF Plain, Told, Waiting, Call
<1>3. calls'[d] = x
    BY DEF Unlinked
<1> HIDE DEF m
<1>4. /\ m \in Turns /\ m \in Losses /\ m \notin Hunts /\ m \notin ScannerCalls
      /\ m \notin AdvertiserCalls /\ m \notin Reports /\ m \notin Timeouts
      /\ m \notin Answers /\ m \notin Success
    BY <1>2, Members
<1>5. /\ q[d] \in Seq(Waiting(role_established[d]))
      /\ \A S \in Tracked : Some(q[d], S) => Some(calls[d], S)
      /\ \A S \in {Timeouts, Answers, Success} : Some(q[d], S) <=> Some(calls[d], S)
      /\ \A S \in Tracked : AtMostOne(calls[d], S) => AtMostOne(q[d], S)
      /\ \A S, T \in Tracked : Before(calls[d], S, T) => Before(q[d], S, T)
    <2>1. Success \subseteq Answers /\ Answers \in Tracked /\ Success \in Tracked /\ Timeouts \in Tracked
        BY DEF Success, Tracked
    <2>2. CASE q[d] = calls[d]
        BY <1>1, <2>2
    <2>3. CASE \E c : c \notin Answers /\ c \notin Timeouts /\ Running(d, q[d], c)
        BY <2>1, <2>3 DEF Running
    <2>4. QED
        BY <2>2, <2>3
<1>6. /\ \A S : Some(x, S) <=> Some(q[d], S) \/ m \in S
      /\ \A S : AtMostOne(q[d], S) /\ (m \in S => ~Some(q[d], S)) => AtMostOne(x, S)
      /\ \A S, T : Before(q[d], S, T) /\ (m \in S => m \notin T /\ ~Some(q[d], T)) => Before(x, S, T)
    BY <1>5, Posted
<1> HIDE DEF x
<1>7. /\ is_scanner' = is_scanner /\ is_connecting_or_syncing' = is_connecting_or_syncing
      /\ role_established' = role_established /\ scanner' = scanner /\ adv' = adv
      /\ initiating' = initiating /\ sync' = sync /\ linked /\ ~linked'
    BY DEF Unlinked, demoVars
<1>8. ~Some(calls[d], Turns) /\ Paired(d) /\ sync[d] = "none"
    BY <1>1, <1>7 DEF BoardInv, OneTurn, PairInv, Idle
<1>9. OneTurn(d)'
    BY <1>1, <1>3, <1>4, <1>5, <1>6, <1>7, <1>8 DEF BoardInv, OneTurn, PairInv, Idle, Tracked
<1>10. RoleInv(d)'
    BY <1>1, <1>3, <1>4, <1>5, <1>6, <1>7 DEF BoardInv, RoleInv, Tracked
<1>11. Paired(d)'
    BY <1>3, <1>5, <1>6, <1>7, <1>8 DEF Paired
<1>12. FlagInv(d)'
    BY <1>1, <1>3, <1>4, <1>5, <1>6, <1>7, <1>8 DEF BoardInv, FlagInv, Tracked
<1>13. StaleInv(d)'
    BY <1>1, <1>3, <1>4, <1>5, <1>6, <1>7, <1>8 DEF BoardInv, StaleInv, Tracked
<1>14. OrderInv(d)'
    BY <1>1, <1>3, <1>4, <1>5, <1>6 DEF BoardInv, OrderInv, Tracked
<1>15. PairInv(d)'
    BY <1>1, <1>3, <1>4, <1>5, <1>6, <1>7, <1>8, <1>11 DEF BoardInv, PairInv, Tracked
<1>16. Seeking(d)' => Seeking(d)
    BY <1>3, <1>4, <1>5, <1>6, <1>7 DEF Seeking, Tracked
<1>17. QED
    BY <1>7, <1>8, <1>9, <1>10, <1>11, <1>12, <1>13, <1>14, <1>15, <1>16 DEF KeepsFaith, BoardInv

LEMMA DisconnectFaith ==
    ASSUME ElectionInv, IInv', NEW b \in Boards, NEW q, NEW c, Running(b, q, c), c.cb = "disconnect",
           disconnect(b, q)
    PROVE  ElectionInv'
<1>1. c \notin Answers /\ c \notin Timeouts
    BY Members DEF Running, Waiting
<1>2. CASE linked
    <2> DEFINE rest == [d \in Boards |-> IF d = b THEN q ELSE calls[d]]
    <2>1. Unlinked(rest)
        BY <1>2 DEF disconnect, Unlinked
    <2>2. \A d \in Boards : rest[d] = calls[d] \/ Running(d, rest[d], c)
        OBVIOUS
    <2> HIDE DEF rest
    <2>3. \A d \in Boards : KeepsFaith(d)
        BY <1>1, <2>1, <2>2, UnlinkedFaith
    <2>4. QED
        BY <2>3, FaithSuffices
<1>3. CASE ~linked
    <2>1. /\ UNCHANGED <<demoVars, scanner, adv, initiating, sync>>
          /\ linked' = linked /\ calls' = [calls EXCEPT ![b] = q]
        BY <1>3 DEF disconnect, Leaves, ElectionInv, IInv, TypeOK
    <2>2. calls'[b] = q /\ \A d \in Boards \ {b} : SameBoard(d)
        BY <2>1 DEF demoVars, SameBoard, ElectionInv, IInv, QueueInv
    <2>3. KeepsFaith(b)
        BY <1>1, <2>1, <2>2, DropFaith DEF demoVars
    <2>4. QED
        BY <2>1, <2>2, <2>3, LocalStep
<1>4. QED
    BY <1>2, <1>3

LEMMA DispatchElection ==
    ASSUME ConnectStopsScan, ElectionInv, IInv', NEW b \in Boards, NEW p \in DOMAIN calls[b],
           Dispatch(b, p)
    PROVE  ElectionInv'
<1> DEFINE q == RemoveAt(calls[b], p)
           c == calls[b][p]
<1>1. Running(b, q, c)
    BY Runs DEF Dispatch
<1> HIDE DEF q
<1>2. calls = [d \in Boards |-> calls[d]]
    BY DEF ElectionInv, IInv, QueueInv
<1>3. /\ is_scanner \in [Boards -> BOOLEAN] /\ is_connecting_or_syncing \in [Boards -> BOOLEAN]
      /\ role_established \in [Boards -> BOOLEAN] /\ initiating \in [Boards -> BOOLEAN]
      /\ scanner \in [Boards -> {"off", "timed", "endless"}]
      /\ adv \in [Boards -> {"none", "off", "connectable", "announcing", "periodic"}]
      /\ sync \in [Boards -> {"none", "creating", "up"}]
    BY Types DEF ElectionInv, IInv
<1>4. ASSUME \/ scan(b, q) \/ scan_periodic(b, q)
             \/ onSyncEstablished(b, q, c.arg) \/ onSyncLoss(b, q)
             \/ onAdvertisingEnd(b, q, c.arg) \/ onScanTimeout(b, q) \/ onDisconnectionComplete(b, q)
      PROVE  linked' = linked /\ \A d \in Boards \ {b} : SameBoard(d)
    BY <1>2, <1>3, <1>4 DEF scan, scan_periodic, startScan, onSyncEstablished, onSyncLoss, onAdvertisingEnd,
            onScanTimeout, onDisconnectionComplete, start_role, Leaves, radioVars, SameBoard
<1>5. ASSUME advertise(b, q) \/ advertise_periodic(b, q) \/ onAdvertisingStart(b, q)
      PROVE  linked' = linked /\ \A d \in Boards \ {b} : SameBoard(d)
    BY <1>2, <1>3, <1>5 DEF advertise, advertise_periodic, onAdvertisingStart, demoVars, Leaves, SameBoard
<1>6. ASSUME onConnectionComplete(b, q, c.arg)
      PROVE  linked' = linked /\ \A d \in Boards \ {b} : SameBoard(d)
    BY <1>2, <1>3, <1>6 DEF onConnectionComplete, start_role, radioVars, Leaves, SameBoard
<1>7. ASSUME onAdvertisingReport(b, q, c.arg)
      PROVE  linked' = linked /\ \A d \in Boards \ {b} : SameBoard(d)
    BY <1>2, <1>3, <1>7 DEF onAdvertisingReport, Attempting, radioVars, Leaves, SameBoard
<1>8. CASE c.cb = "disconnect" /\ disconnect(b, q)
    BY <1>1, <1>8, DisconnectFaith
<1>9. CASE \/ c.cb = "scan" /\ scan(b, q)
           \/ c.cb = "scan_periodic" /\ scan_periodic(b, q)
    BY <1>1, <1>4, <1>9, ScanFaith, LocalStep
<1>10. CASE \/ c.cb = "advertise" /\ advertise(b, q)
            \/ c.cb = "advertise_periodic" /\ advertise_periodic(b, q)
    BY <1>1, <1>5, <1>10, AdvertiseFaith, LocalStep
<1>11. CASE \/ c.cb = "onSyncEstablished" /\ onSyncEstablished(b, q, c.arg)
            \/ c.cb = "onAdvertisingStart" /\ onAdvertisingStart(b, q)
    BY <1>1, <1>4, <1>5, <1>11, PrintFaith, LocalStep
<1>12. CASE c.cb = "onAdvertisingReport" /\ onAdvertisingReport(b, q, c.arg)
    BY <1>1, <1>7, <1>12, ReportFaith, LocalStep
<1>13. CASE c.cb = "onAdvertisingEnd" /\ onAdvertisingEnd(b, q, c.arg)
    BY <1>1, <1>4, <1>13, AdvertisingEndFaith, LocalStep
<1>14. CASE c.cb = "onScanTimeout" /\ onScanTimeout(b, q)
    BY <1>1, <1>4, <1>14, ScanTimeoutFaith, LocalStep
<1>15. CASE c.cb = "onConnectionComplete" /\ onConnectionComplete(b, q, c.arg)
    BY <1>1, <1>6, <1>15, ConnectionFaith, LocalStep
<1>16. CASE c.cb = "onDisconnectionComplete" /\ onDisconnectionComplete(b, q)
    BY <1>1, <1>4, <1>16, DisconnectionFaith, LocalStep
<1>17. CASE c.cb = "onSyncLoss" /\ onSyncLoss(b, q)
    BY <1>1, <1>4, <1>17, SyncLossFaith, LocalStep
<1>18. QED
    BY <1>8, <1>9, <1>10, <1>11, <1>12, <1>13, <1>14, <1>15, <1>16, <1>17 DEF Dispatch, q

-----------------------------------------------------------------------------
(* The air, once more.                                                     *)

(* The queue of b grew by m.                                               *)
Gets(b, m) ==
    /\ m \in AnyCall
    /\ \A S : Some(calls'[b], S) <=> Some(calls[b], S) \/ m \in S
    /\ \A S : AtMostOne(calls[b], S) /\ (m \in S => ~Some(calls[b], S)) => AtMostOne(calls'[b], S)
    /\ \A S, T : Before(calls[b], S, T) /\ (m \in S => m \notin T /\ ~Some(calls[b], T))
                 => Before(calls'[b], S, T)

LEMMA GetsCall ==
    ASSUME ElectionInv, NEW b \in Boards, NEW m \in AnyCall, calls'[b] = post(calls[b], m)
    PROVE  Gets(b, m)
<1>1. calls[b] \in Seq(Waiting(role_established[b]))
    BY DEF ElectionInv, IInv, QueueInv
<1>2. /\ \A S : Some(post(calls[b], m), S) <=> Some(calls[b], S) \/ m \in S
      /\ \A S : AtMostOne(calls[b], S) /\ (m \in S => ~Some(calls[b], S))
                => AtMostOne(post(calls[b], m), S)
      /\ \A S, T : Before(calls[b], S, T) /\ (m \in S => m \notin T /\ ~Some(calls[b], T))
                   => Before(post(calls[b], m), S, T)
    BY <1>1, Posted
<1>3. QED
    BY <1>2 DEF Gets

LEMMA Signalled ==
    ASSUME ElectionInv, NEW b \in Boards, NEW cb \in Plain \union Periodics, NEW arg \in Anything,
           cb \in Told => arg \in BOOLEAN, Signal(b, cb, arg)
    PROVE  /\ Gets(b, Call(cb, arg, 0)) /\ \A d \in Boards \ {b} : calls'[d] = calls[d]
           /\ Call(cb, arg, 0).cb = cb /\ Call(cb, arg, 0).arg = arg
<1>1. Call(cb, arg, 0) \in AnyCall
    BY CallWaits DEF Waiting
<1>2. calls'[b] = post(calls[b], Call(cb, arg, 0)) /\ \A d \in Boards \ {b} : calls'[d] = calls[d]
    BY DEF Signal, Leaves, ElectionInv, IInv, QueueInv
<1>3. QED
    BY <1>1, <1>2, GetsCall DEF Call

LEMMA AdvertisingExpiresFaith ==
    ASSUME ElectionInv, NEW b \in Boards, AdvertisingExpires(b)
    PROVE  KeepsFaith(b) /\ linked' = linked /\ \A d \in Boards \ {b} : SameBoard(d)
<1> DEFINE m == Call("onAdvertisingEnd", FALSE, 0)
<1>1. /\ Gets(b, m) /\ m.cb = "onAdvertisingEnd" /\ ~m.arg
      /\ \A d \in Boards \ {b} : calls'[d] = calls[d]
    <2>1. FALSE \in Anything /\ Signal(b, "onAdvertisingEnd", FALSE)
        BY Args DEF AdvertisingExpires
    <2>2. Gets(b, m) /\ \A d \in Boards \ {b} : calls'[d] = calls[d]
        BY <2>1, Signalled DEF Plain
    <2>3. QED
        BY <2>2 DEF Call
<1> HIDE DEF m
<1>2. /\ m \in Turns /\ m \in Hunts /\ m \notin ScannerCalls /\ m \notin AdvertiserCalls
      /\ m \notin Reports /\ m \notin Timeouts /\ m \notin Answers /\ m \notin Success /\ m \notin Losses
    BY <1>1, Members DEF Gets, Periodics
<1>3. /\ is_scanner' = is_scanner /\ is_connecting_or_syncing' = is_connecting_or_syncing
      /\ role_established' = role_established /\ scanner' = scanner /\ initiating' = initiating
      /\ sync' = sync /\ linked' = linked /\ adv[b] = "connectable" /\ adv'[b] = "off"
      /\ \A d \in Boards \ {b} : adv'[d] = adv[d]
    BY DEF AdvertisingExpires, demoVars, ElectionInv, IInv, TypeOK
<1>4. BoardInv(b)
    BY DEF ElectionInv
<1>5. ~Some(calls[b], Turns) /\ ~Paired(b) /\ ~is_scanner[b] /\ ~Some(calls[b], Success)
    BY <1>3, <1>4 DEF BoardInv, OneTurn, RoleInv, PairInv, Idle, Paired
<1>6. ~Some(calls[b], ScannerCalls) /\ ~Some(calls[b], Timeouts) /\ ~Some(calls[b], Reports)
    BY <1>4, <1>5, Inclusions DEF BoardInv, RoleInv
<1>7. scanner[b] = "off" /\ ~initiating[b] /\ sync[b] = "none" /\ ~linked
    BY <1>4, <1>5 DEF BoardInv, RoleInv, PairInv
<1>8. OneTurn(b)'
    BY <1>1, <1>2, <1>3, <1>4, <1>5, <1>7 DEF BoardInv, OneTurn, Idle, Gets
<1>9. RoleInv(b)' /\ FlagInv(b)' /\ StaleInv(b)' /\ ~Paired(b)' /\ ~Seeking(b)'
    BY <1>1, <1>2, <1>3, <1>4, <1>5, <1>6, <1>7 DEF BoardInv, RoleInv, FlagInv, StaleInv, Paired,
                                                    Seeking, Gets
<1>10. OrderInv(b)'
    BY <1>1, <1>2, <1>4 DEF BoardInv, OrderInv, Gets
<1>11. PairInv(b)'
    BY <1>1, <1>2, <1>3, <1>4, <1>5, <1>7, <1>9 DEF BoardInv, PairInv, Paired, Gets
<1>12. QED
    BY <1>1, <1>3, <1>5, <1>8, <1>9, <1>10, <1>11 DEF KeepsFaith, BoardInv, SameBoard

LEMMA ScanExpiresFaith ==
    ASSUME ElectionInv, NEW b \in Boards, ScanExpires(b)
    PROVE  KeepsFaith(b) /\ linked' = linked /\ \A d \in Boards \ {b} : SameBoard(d)
<1> DEFINE m == Call("onScanTimeout", 0, 0)
<1>1. /\ Gets(b, m) /\ m.cb = "onScanTimeout"
      /\ \A d \in Boards \ {b} : calls'[d] = calls[d]
    BY Signalled, Args DEF ScanExpires, Plain, Told
<1> HIDE DEF m
<1>2. /\ m \in Timeouts /\ m \in ScannerCalls /\ m \notin Turns /\ m \notin Hunts
      /\ m \notin AdvertiserCalls /\ m \notin Reports /\ m \notin Answers
      /\ m \notin Success /\ m \notin Losses
    BY <1>1, Members DEF Gets, Periodics
<1>3. /\ is_scanner' = is_scanner /\ is_connecting_or_syncing' = is_connecting_or_syncing
      /\ role_established' = role_established /\ adv' = adv /\ initiating' = initiating
      /\ sync' = sync /\ linked' = linked /\ scanner[b] = "timed" /\ scanner'[b] = "off"
      /\ \A d \in Boards \ {b} : scanner'[d] = scanner[d]
    BY DEF ScanExpires, demoVars, ElectionInv, IInv, TypeOK
<1>4. BoardInv(b)
    BY DEF ElectionInv
<1>5. /\ ~Some(calls[b], Turns) /\ ~Paired(b) /\ is_scanner[b] /\ ~Some(calls[b], Success)
      /\ ~is_connecting_or_syncing[b] /\ ~Some(calls[b], Timeouts)
      /\ adv[b] # "connectable" /\ ~initiating[b] /\ sync[b] = "none" /\ ~linked
    BY <1>3, <1>4 DEF BoardInv, OneTurn, RoleInv, FlagInv, PairInv, Idle, Paired
<1>6. ~Some(calls[b], Answers)
    BY <1>5, NoAnswers DEF ElectionInv, IInv, QueueInv
<1>7. OneTurn(b)'
    BY <1>1, <1>2, <1>4, <1>5 DEF BoardInv, OneTurn, Gets
<1>8. RoleInv(b)' /\ FlagInv(b)' /\ StaleInv(b)' /\ ~Paired(b)'
    BY <1>1, <1>2, <1>3, <1>4, <1>5 DEF BoardInv, RoleInv, FlagInv, StaleInv, Paired, Idle, Gets
<1>9. OrderInv(b)'
    BY <1>1, <1>2, <1>4, <1>6 DEF BoardInv, OrderInv, Gets
<1>10. PairInv(b)' /\ (Seeking(b)' => Seeking(b))
    BY <1>1, <1>2, <1>3, <1>4, <1>5, <1>8 DEF BoardInv, PairInv, Paired, Seeking, Gets
<1>11. QED
    BY <1>1, <1>3, <1>5, <1>7, <1>8, <1>9, <1>10 DEF KeepsFaith, BoardInv, SameBoard

LEMMA BothSuffice ==
    ASSUME IInv', NEW b \in Boards, BoardInv(b)', BoardInv(Peer(b))',
           Paired(b)' <=> Paired(Peer(b))',
           Paired(b)' => is_scanner'[b] # is_scanner'[Peer(b)],
           ~(Seeking(b)' /\ Seeking(Peer(b))')
    PROVE  ElectionInv'
<1>1. \A d \in Boards : Peer(d)' = Peer(d)
    BY DEF Peer
<1>2. Between(b)' <=> /\ Paired(b)' => Paired(Peer(b))' /\ is_scanner'[b] # is_scanner'[Peer(b)]
                      /\ ~(Seeking(b)' /\ Seeking(Peer(b))')
    BY <1>1 DEF Between
<1>3. Between(Peer(b))' <=> /\ Paired(Peer(b))' => Paired(b)' /\ is_scanner'[Peer(b)] # is_scanner'[b]
                            /\ ~(Seeking(Peer(b))' /\ Seeking(b)')
    BY <1>1, Peers DEF Between
<1>4. Between(b)' /\ Between(Peer(b))'
    BY <1>2, <1>3
<1>5. QED
    BY <1>4, Peers DEF ElectionInv

LEMMA ReportElection ==
    ASSUME ElectionInv, IInv', NEW b \in Boards, Report(b)
    PROVE  ElectionInv'
<1> DEFINE arg == (adv[Peer(b)] = "periodic")
           m == Call("onAdvertisingReport", arg, 0)
           peer == Peer(b)
<1>1. arg \in BOOLEAN /\ arg \in Anything
    BY Args
<1> HIDE DEF arg
<1>2. /\ Gets(b, m) /\ m.cb = "onAdvertisingReport"
      /\ \A d \in Boards \ {b} : calls'[d] = calls[d]
    <2>1. Signal(b, "onAdvertisingReport", arg)
        BY DEF Report, arg
    <2>2. Gets(b, m) /\ \A d \in Boards \ {b} : calls'[d] = calls[d]
        BY <1>1, <2>1, Signalled DEF Plain
    <2>3. QED
        BY <2>2 DEF Call
<1> HIDE DEF m
<1>3. /\ m \in Reports /\ m \in ScannerCalls /\ m \notin Turns /\ m \notin Hunts
      /\ m \notin AdvertiserCalls /\ m \notin Timeouts /\ m \notin Answers
      /\ m \notin Success /\ m \notin Losses
    BY <1>2, Members DEF Gets, Periodics
<1>4. /\ is_scanner' = is_scanner /\ is_connecting_or_syncing' = is_connecting_or_syncing
      /\ role_established' = role_established /\ adv' = adv /\ initiating' = initiating
      /\ sync' = sync /\ linked' = linked /\ scanner' = scanner
      /\ scanner[b] # "off" /\ adv[peer] \notin {"none", "off"}
    BY DEF Report, demoVars, radioVars
<1>5. BoardInv(b) /\ BoardInv(peer) /\ Between(b) /\ Between(peer) /\ peer \in Boards \ {b}
    BY Peers DEF ElectionInv
<1>6. scanner[b] = "timed" \/ role_established[b]
    BY <1>4 DEF ElectionInv, IInv, TypeOK
<1>7. is_scanner[b] /\ ~Some(calls[b], Timeouts) /\ ~Some(calls[b], Answers)
    <2>1. is_scanner[b]
        BY <1>4, <1>5 DEF BoardInv, RoleInv
    <2>2. ~Some(calls[b], Success) /\ (~Some(calls[b], Turns) \/ ~Some(calls[b], Hunts))
        BY <1>5, <1>6 DEF BoardInv, OneTurn, PairInv, Paired, Idle
    <2>3. ~Some(calls[b], Answers)
        BY <2>2, NoAnswers DEF ElectionInv, IInv, QueueInv
    <2>4. ~Some(calls[b], Timeouts)
        BY <1>5, <1>6, <2>3 DEF BoardInv, StaleInv, FlagInv, PairInv, Paired
    <2>5. QED
        BY <2>1, <2>3, <2>4
<1>8. OneTurn(b)'
    BY <1>2, <1>3, <1>4, <1>5 DEF BoardInv, OneTurn, Idle, Gets
<1>9. RoleInv(b)' /\ FlagInv(b)' /\ StaleInv(b)' /\ (Paired(b)' <=> Paired(b))
    BY <1>2, <1>3, <1>4, <1>5, <1>6, <1>7 DEF BoardInv, RoleInv, FlagInv, StaleInv, Paired, Gets
<1>10. OrderInv(b)'
    BY <1>2, <1>3, <1>5, <1>7 DEF BoardInv, OrderInv, Gets
<1>11. PairInv(b)'
    BY <1>2, <1>3, <1>4, <1>5 DEF BoardInv, PairInv, Paired, Gets
<1>12. KeepsFaith(peer)
    BY <1>2, <1>4, <1>5, SameBoardInv DEF SameBoard
<1>13. ~is_scanner[peer] /\ ~Some(calls[peer], ScannerCalls) /\ ~initiating[peer]
    BY <1>4, <1>5 DEF BoardInv, RoleInv
<1>14. ~Seeking(peer)
    BY <1>13, Inclusions DEF Seeking
<1>15. Paired(b) <=> Paired(peer)
    BY <1>5, Peers DEF Between
<1>16. Paired(b) => is_scanner[b] # is_scanner[peer]
    BY <1>5 DEF Between
<1>17. QED
    BY <1>4, <1>5, <1>8, <1>9, <1>10, <1>11, <1>12, <1>14, <1>15, <1>16, BothSuffice DEF KeepsFaith, BoardInv

LEMMA EstablishedElection ==
    ASSUME ElectionInv, IInv', NEW b \in Boards, Established(b)
    PROVE  ElectionInv'
<1> DEFINE peer == Peer(b)
           m == Call("onConnectionComplete", TRUE, 0)
           e == Call("onAdvertisingEnd", TRUE, 0)
<1>1. BoardInv(b) /\ BoardInv(peer) /\ Between(b) /\ peer \in Boards /\ peer # b
    BY Peers DEF ElectionInv
<1>2. /\ m \in AnyCall /\ m.cb = "onConnectionComplete" /\ m.arg
      /\ e \in AnyCall /\ e.cb = "onAdvertisingEnd" /\ e.arg
    <2>1. TRUE \in BOOLEAN /\ TRUE \in Anything
        BY Args
    <2>2. m \in Waiting(TRUE) /\ e \in Waiting(TRUE)
        BY <2>1, CallWaits DEF Plain, Periodics
    <2>3. QED
        BY <2>2 DEF Waiting, Call
<1>3. calls'[b] = post(calls[b], m) /\ calls'[peer] = post(post(calls[peer], m), e)
    BY <1>1 DEF Established, ElectionInv, IInv, QueueInv
<1>4. /\ is_scanner' = is_scanner /\ is_connecting_or_syncing' = is_connecting_or_syncing
      /\ role_established' = role_established /\ scanner' = scanner /\ sync' = sync
      /\ ~linked /\ linked' /\ initiating[b] /\ ~initiating'[b] /\ initiating'[peer] = initiating[peer]
      /\ adv[peer] = "connectable" /\ adv'[peer] = "off" /\ adv'[b] = adv[b]
    BY <1>1, Types DEF Established, demoVars, ElectionInv, IInv
<1> HIDE DEF m, e
<1>5. /\ m \in Success /\ m \in Answers /\ m \notin Turns /\ m \notin Hunts /\ m \notin ScannerCalls
      /\ m \notin AdvertiserCalls /\ m \notin Timeouts /\ m \notin Reports /\ m \notin Losses
      /\ e \notin Success /\ e \notin Answers /\ e \notin Turns /\ e \notin Hunts
      /\ e \notin ScannerCalls /\ e \notin AdvertiserCalls /\ e \notin Timeouts
      /\ e \notin Reports /\ e \notin Losses
    BY <1>2, Members DEF Periodics
<1>6. Gets(b, m)
    BY <1>2, <1>3, GetsCall
(* The other board gets two calls, of which only the first one counts.     *)
<1>7. \A S \in Tracked : /\ Some(calls'[peer], S) <=> Some(calls[peer], S) \/ m \in S
                         /\ AtMostOne(calls[peer], S) /\ (m \in S => ~Some(calls[peer], S))
                            => AtMostOne(calls'[peer], S)
                         /\ \A T \in Tracked :
                               Before(calls[peer], S, T) /\ (m \in S => m \notin T /\ ~Some(calls[peer], T))
                               => Before(calls'[peer], S, T)
    <2>1. calls[peer] \in Seq(Waiting(role_established[peer]))
        BY <1>1 DEF ElectionInv, IInv, QueueInv
    <2>2. calls[peer] \in Seq(AnyCall)
        BY <2>1, SeqMonotonic DEF Waiting
    <2>3. post(calls[peer], m) \in Seq(AnyCall)
        BY <1>2, <2>2, PostIn
    <2>4. \A S \in Tracked : e \notin S
        BY <1>5 DEF Tracked
    <2>5. /\ \A S : Some(post(calls[peer], m), S) <=> Some(calls[peer], S) \/ m \in S
          /\ \A S : AtMostOne(calls[peer], S) /\ (m \in S => ~Some(calls[peer], S))
                    => AtMostOne(post(calls[peer], m), S)
          /\ \A S, T : Before(calls[peer], S, T) /\ (m \in S => m \notin T /\ ~Some(calls[peer], T))
                       => Before(post(calls[peer], m), S, T)
        BY <2>2, Posted
    <2>6. \A S \in Tracked :
             /\ Some(calls'[peer], S) <=> Some(post(calls[peer], m), S)
             /\ AtMostOne(post(calls[peer], m), S) => AtMostOne(calls'[peer], S)
             /\ \A T : Before(post(calls[peer], m), S, T) => Before(calls'[peer], S, T)
        BY <1>3, <2>3, <2>4, Posted
    <2>7. QED
        BY <2>5, <2>6
<1>8. /\ is_connecting_or_syncing[b] /\ is_scanner[b] /\ ~Paired(b) /\ ~Some(calls[b], Turns)
      /\ scanner[b] # "timed" /\ adv[b] # "connectable" /\ sync[b] = "none"
    BY <1>1, <1>4 DEF BoardInv, OneTurn, RoleInv, FlagInv, PairInv, Idle, Paired, ElectionInv, IInv, SyncInv
<1>9. /\ ~is_scanner[peer] /\ ~Paired(peer) /\ ~Some(calls[peer], Turns)
      /\ scanner[peer] = "off" /\ sync[peer] = "none" /\ ~initiating[peer]
      /\ ~Some(calls[peer], ScannerCalls)
    BY <1>1, <1>4 DEF BoardInv, OneTurn, RoleInv, PairInv, Idle, Paired
<1>10. BoardInv(b)'
    <2>1. ~Some(calls[b], Success) /\ ~role_established[b] /\ ~Some(calls[b], Losses) /\ ~Some(calls[b], Hunts)
        BY <1>8, Inclusions DEF Paired
    <2>2. OneTurn(b)'
        BY <1>1, <1>5, <1>6, <1>8, <2>1 DEF BoardInv, OneTurn, Gets
    <2>3. RoleInv(b)'
        BY <1>1, <1>4, <1>5, <1>6, <1>8 DEF BoardInv, RoleInv, Gets
    <2>4. FlagInv(b)' /\ StaleInv(b)'
        BY <1>4, <1>5, <1>6, <1>8 DEF FlagInv, StaleInv, Gets
    <2>5. OrderInv(b)'
        BY <1>1, <1>5, <1>6, <2>1 DEF BoardInv, OrderInv, Gets
    <2>6. PairInv(b)'
        BY <1>4, <1>5, <1>6, <1>8, <2>1 DEF PairInv, Paired, Gets
    <2>7. QED
        BY <2>2, <2>3, <2>4, <2>5, <2>6 DEF BoardInv
<1>11. BoardInv(peer)'
    <2>1. /\ ~Some(calls[peer], Success) /\ ~role_established[peer] /\ ~Some(calls[peer], Losses)
          /\ ~Some(calls[peer], Hunts) /\ ~Some(calls[peer], Reports) /\ ~Some(calls[peer], Timeouts)
          /\ ~Some(calls[peer], AdvertiserCalls)
        BY <1>9, Inclusions DEF Paired
    <2>2. OneTurn(peer)'
        BY <1>1, <1>5, <1>7, <1>9, <2>1 DEF BoardInv, OneTurn, Tracked
    <2>3. RoleInv(peer)' /\ FlagInv(peer)' /\ StaleInv(peer)'
        BY <1>1, <1>4, <1>5, <1>7, <1>9, <2>1 DEF RoleInv, FlagInv, StaleInv, Tracked
    <2>4. OrderInv(peer)'
        BY <1>1, <1>5, <1>7, <2>1 DEF BoardInv, OrderInv, Tracked
    <2>5. PairInv(peer)'
        BY <1>4, <1>5, <1>7, <1>9, <2>1 DEF PairInv, Paired, Tracked
    <2>6. QED
        BY <2>2, <2>3, <2>4, <2>5 DEF BoardInv
<1>12. Paired(b)' /\ Paired(peer)' /\ ~Seeking(b)' /\ is_scanner'[b] # is_scanner'[peer]
    BY <1>4, <1>5, <1>6, <1>7, <1>8, <1>9 DEF Paired, Seeking, Gets, Tracked
<1>13. QED
    BY <1>10, <1>11, <1>12, BothSuffice

LEMMA NotEstablishedFaith ==
    ASSUME ElectionInv, NEW b \in Boards, NotEstablished(b)
    PROVE  KeepsFaith(b) /\ linked' = linked /\ \A d \in Boards \ {b} : SameBoard(d)
<1> DEFINE m == Call("onConnectionComplete", FALSE, 0)
<1>1. /\ Gets(b, m) /\ m.cb = "onConnectionComplete" /\ ~m.arg
      /\ \A d \in Boards \ {b} : calls'[d] = calls[d]
    <2>1. FALSE \in Anything /\ Signal(b, "onConnectionComplete", FALSE)
        BY Args DEF NotEstablished
    <2>2. Gets(b, m) /\ \A d \in Boards \ {b} : calls'[d] = calls[d]
        BY <2>1, Signalled DEF Plain
    <2>3. QED
        BY <2>2 DEF Call
<1> HIDE DEF m
<1>2. /\ m \in Turns /\ m \in Hunts /\ m \in Answers /\ m \notin ScannerCalls /\ m \notin AdvertiserCalls
      /\ m \notin Reports /\ m \notin Timeouts /\ m \notin Success /\ m \notin Losses
    BY <1>1, Members DEF Gets, Periodics
<1>3. /\ is_scanner' = is_scanner /\ is_connecting_or_syncing' = is_connecting_or_syncing
      /\ role_established' = role_established /\ scanner' = scanner /\ adv' = adv
      /\ sync' = sync /\ linked' = linked /\ initiating[b] /\ ~initiating'[b]
      /\ \A d \in Boards \ {b} : initiating'[d] = initiating[d]
    BY DEF NotEstablished, demoVars, ElectionInv, IInv, TypeOK
<1>4. BoardInv(b)
    BY DEF ElectionInv
<1>5. /\ is_connecting_or_syncing[b] /\ is_scanner[b] /\ ~Paired(b) /\ ~Some(calls[b], Turns)
      /\ ~Some(calls[b], Success) /\ scanner[b] # "timed" /\ adv[b] # "connectable"
      /\ sync[b] = "none" /\ ~linked
    BY <1>3, <1>4 DEF BoardInv, OneTurn, RoleInv, FlagInv, PairInv, Idle, Paired, ElectionInv, IInv, SyncInv
<1>6. OneTurn(b)'
    BY <1>1, <1>2, <1>3, <1>4, <1>5 DEF BoardInv, OneTurn, Idle, Gets
<1>7. RoleInv(b)' /\ FlagInv(b)' /\ StaleInv(b)' /\ ~Paired(b)'
    BY <1>1, <1>2, <1>3, <1>4, <1>5 DEF BoardInv, RoleInv, FlagInv, StaleInv, Paired, Gets
<1>8. OrderInv(b)'
    BY <1>1, <1>2, <1>4 DEF BoardInv, OrderInv, Gets
<1>9. PairInv(b)' /\ ~Seeking(b)'
    BY <1>1, <1>2, <1>3, <1>4, <1>5, <1>7 DEF BoardInv, PairInv, Paired, Seeking, Gets
<1>10. QED
    BY <1>1, <1>3, <1>5, <1>6, <1>7, <1>8, <1>9 DEF KeepsFaith, BoardInv, SameBoard

LEMMA SyncFaith ==
    ASSUME ElectionInv, NEW b \in Boards, SyncEstablished(b) \/ SyncFails(b) \/ SyncLost(b)
    PROVE  KeepsFaith(b) /\ linked' = linked /\ \A d \in Boards \ {b} : SameBoard(d)
<1>1. PICK m \in AnyCall : /\ Gets(b, m) /\ \A d \in Boards \ {b} : calls'[d] = calls[d]
                           /\ \/ m.cb = "onSyncEstablished" /\ (SyncEstablished(b) \/ SyncFails(b))
                              \/ m.cb = "onSyncLoss" /\ SyncLost(b)
    <2>1. CASE SyncEstablished(b)
        <3>1. TRUE \in Anything /\ Signal(b, "onSyncEstablished", TRUE)
            BY <2>1, Args DEF SyncEstablished
        <3>2. /\ Gets(b, Call("onSyncEstablished", TRUE, 0))
              /\ \A d \in Boards \ {b} : calls'[d] = calls[d]
            BY <3>1, Signalled DEF Plain
        <3>3. QED
            BY <2>1, <3>2 DEF Gets, Call
    <2>2. CASE SyncFails(b)
        <3>1. FALSE \in Anything /\ Signal(b, "onSyncEstablished", FALSE)
            BY <2>2, Args DEF SyncFails
        <3>2. /\ Gets(b, Call("onSyncEstablished", FALSE, 0))
              /\ \A d \in Boards \ {b} : calls'[d] = calls[d]
            BY <3>1, Signalled DEF Plain
        <3>3. QED
            BY <2>2, <3>2 DEF Gets, Call
    <2>3. CASE SyncLost(b)
        <3>1. 0 \in Anything /\ Signal(b, "onSyncLoss", 0)
            BY <2>3, Args DEF SyncLost
        <3>2. "onSyncLoss" \in Periodics /\ "onSyncLoss" \notin Told
            BY DEF Periodics, Told
        <3>3. /\ Gets(b, Call("onSyncLoss", 0, 0))
              /\ \A d \in Boards \ {b} : calls'[d] = calls[d]
            BY <3>1, <3>2, Signalled
        <3>4. QED
            BY <2>3, <3>3 DEF Gets, Call
    <2>4. QED
        BY <2>1, <2>2, <2>3
<1>2. /\ m \notin AdvertiserCalls /\ m \notin Reports /\ m \notin Timeouts /\ m \notin Hunts
      /\ m \notin Answers /\ m \notin Success /\ m \notin Losses
      /\ (m \in Turns <=> SyncLost(b) /\ m.cb = "onSyncLoss")
      /\ (m \in ScannerCalls <=> SyncLost(b) /\ m.cb = "onSyncLoss")
    BY <1>1, Members DEF Periodics
<1>3. /\ is_scanner' = is_scanner /\ is_connecting_or_syncing' = is_connecting_or_syncing
      /\ role_established' = role_established /\ scanner' = scanner /\ adv' = adv
      /\ initiating' = initiating /\ linked' = linked
      /\ sync[b] # "none" /\ (SyncLost(b) => sync'[b] = "none")
      /\ \A d \in Boards \ {b} : sync'[d] = sync[d]
    BY DEF SyncEstablished, SyncFails, SyncLost, demoVars, ElectionInv, IInv, TypeOK
<1>4. BoardInv(b)
    BY DEF ElectionInv
<1>5. /\ is_connecting_or_syncing[b] /\ is_scanner[b] /\ role_established[b] /\ Paired(b) /\ ~linked
      /\ ~Some(calls[b], Turns)
    BY <1>3, <1>4 DEF BoardInv, OneTurn, RoleInv, FlagInv, PairInv, Idle, Paired, ElectionInv, IInv, SyncInv
<1>6. Paired(b)' /\ ~initiating[b] /\ scanner[b] # "timed" /\ adv[b] # "connectable"
      /\ ~Some(calls[b], Hunts)
    BY <1>3, <1>4, <1>5 DEF BoardInv, PairInv, Paired
<1>7. OneTurn(b)'
    BY <1>1, <1>2, <1>3, <1>4, <1>5, <1>6 DEF BoardInv, OneTurn, Idle, Gets
<1>8. RoleInv(b)' /\ FlagInv(b)'
    BY <1>1, <1>2, <1>3, <1>4, <1>5, <1>6 DEF BoardInv, RoleInv, FlagInv, Gets
<1>9. StaleInv(b)'
    BY <1>1, <1>2, <1>3, <1>4, <1>5, <1>6 DEF BoardInv, StaleInv, Gets
<1>10. OrderInv(b)'
    BY <1>1, <1>2, <1>4 DEF BoardInv, OrderInv, Gets
<1>11. PairInv(b)' /\ ~Seeking(b)'
    BY <1>1, <1>2, <1>3, <1>4, <1>5, <1>6 DEF BoardInv, PairInv, Seeking, Gets
<1>12. QED
    BY <1>1, <1>3, <1>5, <1>6, <1>7, <1>8, <1>9, <1>10, <1>11 DEF KeepsFaith, BoardInv, SameBoard

-----------------------------------------------------------------------------
LEMMA InitElection == Init => ElectionInv
<1> SUFFICES ASSUME Init
             PROVE  ElectionInv
    OBVIOUS
<1> DEFINE m == Call("scan", 0, 0)
<1>1. m \in AnyCall /\ m.cb = "scan"
    <2>1. m \in Waiting(TRUE)
        BY CallWaits, Args DEF Plain, Told
    <2>2. QED
        BY <2>1 DEF Waiting, Call
<1> HIDE DEF m
<1>2. /\ m \notin Reports /\ m \notin Timeouts /\ m \notin Answers /\ m \notin Success
      /\ m \notin Losses /\ m \notin AdvertiserCalls
    BY <1>1, Members
<1>3. ASSUME NEW b \in Boards
      PROVE  BoardInv(b) /\ ~Paired(b) /\ ~Seeking(b)
    <2>1. calls[b] = <<m>> /\ DOMAIN <<m>> = {1} /\ <<m>>[1] = m
        BY DEF Init, m
    <2>2. /\ \A S : Some(calls[b], S) <=> m \in S
          /\ \A S : AtMostOne(calls[b], S)
        BY <2>1 DEF Some, AtMostOne
    <2>3. OrderInv(b)
        BY <1>2, <2>1 DEF OrderInv, Before
    <2>4. /\ is_scanner[b] /\ ~is_connecting_or_syncing[b] /\ ~role_established[b]
          /\ scanner[b] = "off" /\ adv[b] = "none" /\ ~initiating[b] /\ sync[b] = "none" /\ ~linked
        BY DEF Init
    <2>5. QED
        BY <1>2, <2>2, <2>3, <2>4 DEF BoardInv, OneTurn, RoleInv, FlagInv, StaleInv, PairInv, Idle,
                                      Paired, Seeking
<1>4. QED
    BY <1>3, InitInv DEF ElectionInv, Between

LEMMA NextElection == ConnectStopsScan /\ ElectionInv /\ [Next]_vars => ElectionInv'
<1> SUFFICES ASSUME ConnectStopsScan, ElectionInv, [Next]_vars
             PROVE  ElectionInv'
    OBVIOUS
<1>1. IInv'
    BY NextInv DEF ElectionInv
<1>2. ASSUME NEW b \in Boards, Served(b)
      PROVE  ElectionInv'
    BY <1>1, <1>2, DispatchElection DEF Served
<1>3. ASSUME NEW b \in Boards, AdvertisingExpires(b)
      PROVE  ElectionInv'
    BY <1>1, <1>3, AdvertisingExpiresFaith, LocalStep
<1>4. ASSUME NEW b \in Boards, ScanExpires(b)
      PROVE  ElectionInv'
    BY <1>1, <1>4, ScanExpiresFaith, LocalStep
<1>5. ASSUME NEW b \in Boards, Report(b) \/ Established(b)
      PROVE  ElectionInv'
    BY <1>1, <1>5, ReportElection, EstablishedElection
<1>6. ASSUME NEW b \in Boards, NotEstablished(b)
      PROVE  ElectionInv'
    BY <1>1, <1>6, NotEstablishedFaith, LocalStep
<1>7. ASSUME NEW b \in Boards, SyncEstablished(b) \/ SyncFails(b) \/ SyncLost(b)
      PROVE  ElectionInv'
    BY <1>1, <1>7, SyncFaith, LocalStep
<1>8. CASE LinkLost
    <2>1. Unlinked(calls)
        BY <1>8 DEF LinkLost, Unlinked
    <2>2. \A d \in Boards : KeepsFaith(d)
        BY <2>1, UnlinkedFaith
    <2>3. QED
        BY <1>1, <2>2, FaithSuffices
<1>9. CASE UNCHANGED vars
    <2>1. \A d \in Boards : KeepsFaith(d)
        BY <1>9, SameBoardInv DEF vars, demoVars, radioVars, SameBoard, ElectionInv
    <2>2. QED
        BY <1>1, <2>1, FaithSuffices
<1>10. QED
    BY <1>2, <1>3, <1>4, <1>5, <1>6, <1>7, <1>8, <1>9 DEF Next

LEMMA ElectionInvariant == ASSUME ConnectStopsScan PROVE Spec => []ElectionInv
<1>1. ElectionInv /\ [Next]_vars => ElectionInv'
    BY NextElection
<1>2. QED
    BY <1>1, InitElection, PTL DEF Spec

(* As long as the stack has an attempt under way the flag that makes the   *)
(* demo ignore reports and scan timeouts is set, whatever was left in the  *)
(* queue by earlier attempts.                                              *)
THEOREM AttemptsNoticed == ASSUME ConnectStopsScan PROVE Spec => []AttemptNoticed
<1>1. ElectionInv => AttemptNoticed
    BY DEF ElectionInv, BoardInv, FlagInv, AttemptNoticed
<1>2. Spec => []ElectionInv
    BY ElectionInvariant
<1>3. QED
    BY <1>1, <1>2, PTL

(* No board starts one mode over the other.                                *)
THEOREM OneMode == ASSUME ConnectStopsScan PROVE Spec => []OneModeAtATime
<1>1. ElectionInv => OneModeAtATime
    BY DEF ElectionInv, BoardInv, RoleInv, OneModeAtATime
<1>2. Spec => []ElectionInv
    BY ElectionInvariant
<1>3. QED
    BY <1>1, <1>2, PTL

(* Two boards never try to connect to each other at the same time.         *)
THEOREM SomeoneDoesAnswer == ASSUME ConnectStopsScan PROVE Spec => []SomeoneAnswers
<1>1. ElectionInv => SomeoneAnswers
    <2> SUFFICES ASSUME ElectionInv
                 PROVE  SomeoneAnswers
        OBVIOUS
    <2>1. PICK b \in Boards : TRUE
        BY BoardsAssumption
    <2>2. ~(initiating[b] /\ initiating[Peer(b)])
        BY DEF ElectionInv, Between, Seeking
    <2>3. QED
        BY <2>2, Peers DEF SomeoneAnswers
<1>2. Spec => []ElectionInv
    BY ElectionInvariant
<1>3. QED
    BY <1>1, <1>2, PTL

-----------------------------------------------------------------------------
(* The election.                                                           *)

(* A board keeps its role, and is told of its connection only once.        *)
LEMMA RolesKept ==
    ASSUME ElectionInv, [Next]_vars, ElectionInv', NEW b \in Boards
    PROVE  /\ role_established[b] => role_established'[b] /\ is_scanner'[b] = is_scanner[b]
           /\ \A d \in Boards :
                 (/\ ~role_established[b] /\ role_established'[b]
                  /\ ~role_established[d] /\ role_established'[d]) => b = d
           /\ ~role_established[b] /\ role_established'[b] => is_scanner' = is_scanner
<1>1. is_scanner \in [Boards -> BOOLEAN] /\ role_established \in [Boards -> BOOLEAN]
    BY Types DEF ElectionInv, IInv
<1>2. ASSUME NEW c \in Boards, NEW p \in DOMAIN calls[c], Dispatch(c, p)
      PROVE  \/ UNCHANGED <<is_scanner, role_established>>
             \/ start_role(c, RemoveAt(calls[c], p)) /\ UNCHANGED role_established
             \/ is_scanner' = is_scanner /\ role_established' = [role_established EXCEPT ![c] = TRUE]
    BY <1>2 DEF Dispatch, scan, scan_periodic, startScan, advertise, advertise_periodic, disconnect,
                onAdvertisingStart, onAdvertisingReport, onAdvertisingEnd, onScanTimeout,
                onConnectionComplete, onDisconnectionComplete, onSyncEstablished, onSyncLoss, demoVars
<1>3. ASSUME ~\E c \in Boards : Served(c)
      PROVE  UNCHANGED <<is_scanner, role_established>>
    BY <1>3 DEF Next, vars, demoVars, AdvertisingExpires, ScanExpires, Report, Established,
                NotEstablished, SyncEstablished, SyncFails, SyncLost, LinkLost
<1>4. CASE \E c \in Boards : Served(c)
    <2> PICK c \in Boards : Served(c)
        BY <1>4
    <2>1. PICK p \in DOMAIN calls[c] : Dispatch(c, p)
        BY DEF Served
    <2>2. CASE start_role(c, RemoveAt(calls[c], p)) /\ UNCHANGED role_established
        BY <1>1, <2>2 DEF start_role
    <2>3. CASE is_scanner' = is_scanner /\ role_established' = [role_established EXCEPT ![c] = TRUE]
        BY <1>1, <2>3
    <2>4. CASE UNCHANGED <<is_scanner, role_established>>
        BY <2>4
    <2>5. QED
        BY <1>2, <2>1, <2>2, <2>3, <2>4
<1>5. CASE ~\E c \in Boards : Served(c)
    BY <1>3, <1>5
<1>6. QED
    BY <1>4, <1>5

(* A board takes a role once and for good, and never the role of the other *)
(* one, whatever timeouts, reports and connection events wait.             *)
THEOREM RolesElected == ASSUME ConnectStopsScan PROVE Spec => ImplementsElection
<1> DEFINE role == [b \in Boards |-> IF ~role_established[b] THEN "none"
                                     ELSE IF is_scanner[b] THEN "scanner" ELSE "advertiser"]
<1>1. Init => Roles!Init
    BY DEF Init, Roles!Init
<1>2. ElectionInv /\ ElectionInv' /\ [Next]_vars => [Roles!Next]_role
    <2> SUFFICES ASSUME ElectionInv, ElectionInv', [Next]_vars
                 PROVE  [Roles!Next]_role
        OBVIOUS
    <2>1. CASE \E b \in Boards : ~role_established[b] /\ role_established'[b]
        <3>1. PICK b \in Boards : ~role_established[b] /\ role_established'[b]
            BY <2>1
        <3>2. \A d \in Boards : role_established'[d] <=> role_established[d] \/ d = b
            BY <3>1, RolesKept
        <3>3. is_scanner' = is_scanner
            BY <3>1, RolesKept
        <3>4. role_established[Peer(b)] => is_scanner[b] # is_scanner[Peer(b)]
            <4>1. Between(Peer(b)) /\ Peer(Peer(b)) = b
                BY Peers DEF ElectionInv
            <4>2. QED
                BY <4>1 DEF Between, Paired
        <3> DEFINE r == IF is_scanner[b] THEN "scanner" ELSE "advertiser"
        <3>5. role' = [role EXCEPT ![b] = r]
            BY <3>1, <3>2, <3>3
        <3>6. role[b] = "none" /\ \A d \in Boards \ {b} : role[d] # r
            <4>1. is_scanner \in [Boards -> BOOLEAN]
                BY Types DEF ElectionInv, IInv
            <4>2. QED
                BY <3>1, <3>4, <4>1, Peers
        <3>7. QED
            BY <3>5, <3>6 DEF Roles!Next, Roles!Adopt
    <2>2. CASE ~\E b \in Boards : ~role_established[b] /\ role_established'[b]
        <3>1. \A b \in Boards : /\ role_established'[b] <=> role_established[b]
                                /\ role_established[b] => is_scanner'[b] = is_scanner[b]
            BY <2>2, RolesKept
        <3>2. role' = role
            BY <3>1
        <3>3. QED
            BY <3>2
    <2>3. QED
        BY <2>1, <2>2
<1>3. Spec => []ElectionInv
    BY ElectionInvariant
<1>4. QED
    BY <1>1, <1>2, <1>3, PTL DEF Spec, ImplementsElection, Roles!Spec
=============================================================================
