------------------------- MODULE SecurityDemo_proofs -------------------------
(***************************************************************************)
(* The two boards of the security demo keep their variables' types, only   *)
(* an object of the central class is ever connecting, and a loop that was  *)
(* told to break never runs more calls than were due, for any number of    *)
(* failures and resets and any layout of the objects of main.  Where       *)
(* nothing is refused and no connection fails, no board ever stops.  The   *)
(* delayed disconnection of a bonded object closes the link it was posted  *)
(* for, a board that has paired keeps its role, and a link that is not     *)
(* being paired has a board that will disconnect it.  The last three rest  *)
(* on OrderInv: a board does one thing at a time, and what waits in its    *)
(* queue besides was posted earlier.                                       *)
(***************************************************************************)
EXTENDS SecurityDemo, EventQueue_proofs

Names == {"on_init_complete", "start", "disconnect", "disconnect_current", "onAdvertisingReport",
          "onAdvertisingEnd", "onScanTimeout", "onConnectionComplete", "pairingRequest",
          "pairingResult", "onDisconnectionComplete"}

Ages == {"own", "old", "failed"}
Anything == {0} \union BOOLEAN \union Ages

AnyCall == [cb : Names, arg : Anything, delay : Nat, held : BOOLEAN]

(* What may wait in a queue: outcomes are truth values, only a restart and *)
(* a disconnection are delayed.                                            *)
Answers == {"onAdvertisingEnd", "onConnectionComplete", "pairingResult"}

Waiting ==
    {c \in AnyCall :
        /\ c.cb \in Answers => c.arg \in BOOLEAN
        /\ c.cb # "start" => c.delay = IF c.cb \in Disconnects THEN Delay ELSE 0}

Queues == [Boards -> Seq(Waiting)]

(* What the handlers must keep, the queues and the loop's batch aside.     *)
ObjectsTyped ==
    /\ role \in [Boards -> {"peripheral", "central"}]
    /\ bonded \in [Boards -> BOOLEAN] /\ handle \in [Boards -> BOOLEAN]
    /\ is_connecting \in [Boards -> BOOLEAN] /\ breaking \in [Boards -> BOOLEAN]
    /\ handler \in [Boards -> {"none", "peripheral", "central"}]
    /\ \A b \in Boards : is_connecting[b] => role[b] = "central"

RadioTyped ==
    /\ scanner \in [Boards -> {"off", "timed", "endless"}]
    /\ adv \in [Boards -> {"off", "timed", "endless"}]
    /\ filters \in [Boards -> SUBSET {"peripheral", "central"}]
    /\ initiating \in [Boards -> BOOLEAN]

LinkTyped ==
    /\ keys \in [Boards -> BOOLEAN]
    /\ link \in Boards \union {NoLink}
    /\ pairing \in {"none", "requested", "asked", "accepted"}

FailuresTyped == failures \in [count : 0..MaxFailures, kinds : SUBSET Failures]

Typed == ObjectsTyped /\ RadioTyped /\ LinkTyped /\ FailuresTyped

(* The loop breaks before it has run more calls than are left.             *)
BatchInv == batch \in [Boards -> Nat] /\ \A b \in Boards : batch[b] <= Len(calls[b])

IInv == Typed /\ calls \in Queues /\ BatchInv

LEMMA IInvTypeOK == IInv => TypeOK
<1> SUFFICES ASSUME IInv
             PROVE  TypeOK
    OBVIOUS
<1>1. \A b \in Boards : Len(calls[b]) \in Nat /\ batch[b] \in 0..Len(calls[b])
    <2>1. \A b \in Boards : Len(calls[b]) \in Nat
        BY LenProperties DEF IInv, Queues
    <2>2. QED
        BY <2>1 DEF IInv, BatchInv
<1>2. QED
    BY <1>1 DEF IInv, Typed, ObjectsTyped, RadioTyped, LinkTyped, FailuresTyped, TypeOK

LEMMA Args == 0 \in Anything /\ (\A x \in BOOLEAN : x \in Anything) /\ Ages \subseteq Anything
BY DEF Anything

LEMMA CallWaits ==
    ASSUME NEW cb \in Names, NEW arg \in Anything, NEW delay \in Nat,
           cb \in Answers => arg \in BOOLEAN,
           cb # "start" => delay = IF cb \in Disconnects THEN Delay ELSE 0
    PROVE  Call(cb, arg, delay) \in Waiting
BY DEF Call, Waiting, AnyCall

(* What a stack event posts.                                               *)
LEMMA EventWaits ==
    ASSUME NEW cb \in Names, NEW arg \in Anything,
           cb \in Answers => arg \in BOOLEAN, cb \notin Disconnects
    PROVE  Call(cb, arg, 0) \in Waiting
BY CallWaits

LEMMA Lengths ==
    ASSUME NEW q \in Seq(Waiting)
    PROVE  Len(q) \in Nat
BY LenProperties

LEMMA DisconnectWaits ==
    ASSUME NEW cb \in Disconnects, NEW known
    PROVE  Disconnect(cb, known) \in Waiting
<1>1. cb \in Names /\ cb \notin Answers
    BY DEF Disconnects, Names, Answers
<1>2. (IF ~known THEN "failed" ELSE IF link = NoLink THEN "old" ELSE "own") \in Ages
    BY DEF Ages
<1>3. QED
    BY <1>1, <1>2, Args, CallWaits DEF Disconnect, Delay

(* Ageing changes what a posted disconnection remembers, nothing else.     *)
LEMMA AgedWaits ==
    ASSUME NEW q \in Seq(Waiting)
    PROVE  Aged(q) \in Seq(Waiting) /\ Len(Aged(q)) = Len(q)
<1>1. Len(q) \in Nat /\ DOMAIN q = 1..Len(q) /\ \A i \in 1..Len(q) : q[i] \in Waiting
    BY LenProperties, ElementOfSeq
<1>2. \A c \in Waiting : c.cb \in Disconnects => [c EXCEPT !.arg = "old"] \in Waiting
    BY Args DEF Waiting, AnyCall, Disconnects, Ages, Answers
<1>3. Aged(q) \in [1..Len(q) -> Waiting]
    BY <1>1, <1>2 DEF Aged
<1>4. QED
    BY <1>1, <1>3, SeqDef, LenProperties

LEMMA FailsTyped ==
    ASSUME FailuresTyped, NEW kind, Fails(kind)
    PROVE  FailuresTyped'
<1>1. failures.count \in 0..MaxFailures /\ failures.kinds \in SUBSET Failures
    BY DEF FailuresTyped
<1>2. failures.count + 1 \in 0..MaxFailures /\ failures.kinds \union {kind} \in SUBSET Failures
    BY <1>1, BoundsAssumption DEF Fails
<1>3. QED
    BY <1>2 DEF Fails, FailuresTyped

-----------------------------------------------------------------------------
(* The queues after the call of b that ran: q is what was left of that     *)
(* queue, the other one may only have grown.                               *)
Kept(b, q) ==
    /\ calls' \in Queues
    /\ Len(calls'[b]) >= Len(q)
    /\ \A c \in Boards : c # b => Len(calls'[c]) >= Len(calls[c])

LEMMA LeavesKept ==
    ASSUME calls \in Queues, NEW b \in Boards, NEW q \in Seq(Waiting), NEW left \in Seq(Waiting),
           Len(left) >= Len(q), Leaves(b, left)
    PROVE  Kept(b, q)
<1>1. calls' \in Queues /\ calls'[b] = left /\ \A c \in Boards : c # b => calls'[c] = calls[c]
    BY DEF Leaves, Queues
<1>2. \A c \in Boards : Len(calls[c]) \in Nat
    BY Lengths DEF Queues
<1>3. QED
    BY <1>1, <1>2 DEF Kept

LEMMA PostKept ==
    ASSUME calls \in Queues, NEW b \in Boards, NEW q \in Seq(Waiting), NEW c \in Waiting,
           Leaves(b, q) \/ Leaves(b, post(q, c))
    PROVE  Kept(b, q)
<1>1. post(q, c) \in Seq(Waiting) /\ Len(post(q, c)) >= Len(q) /\ Len(q) >= Len(q)
    BY PostIn, Lengths
<1>2. QED
    BY <1>1, LeavesKept

LEMMA LeavesOnly ==
    ASSUME calls \in Queues, NEW b \in Boards, NEW q \in Seq(Waiting), Leaves(b, q)
    PROVE  Kept(b, q)
BY LeavesKept, Lengths

(* The end of the link grows both queues.                                  *)
LEMMA LinkEndsKept ==
    ASSUME NEW queues \in Queues, LinkEnds(queues), LinkTyped
    PROVE  /\ calls' \in Queues /\ LinkTyped'
           /\ \A c \in Boards : Len(calls'[c]) >= Len(queues[c])
<1>1. Call("onDisconnectionComplete", 0, 0) \in Waiting
    BY EventWaits, Args DEF Names, Answers, Disconnects
<1>2. ASSUME NEW c \in Boards
      PROVE  /\ post(Aged(queues[c]), Call("onDisconnectionComplete", 0, 0)) \in Seq(Waiting)
             /\ Len(post(Aged(queues[c]), Call("onDisconnectionComplete", 0, 0))) >= Len(queues[c])
    <2>1. queues[c] \in Seq(Waiting)
        BY DEF Queues
    <2>2. Aged(queues[c]) \in Seq(Waiting) /\ Len(Aged(queues[c])) = Len(queues[c])
        BY <2>1, AgedWaits
    <2> DEFINE event == Call("onDisconnectionComplete", 0, 0)
    <2> HIDE DEF event
    <2>3. event \in Waiting
        BY <1>1 DEF event
    <2>4. /\ post(Aged(queues[c]), event) \in Seq(Waiting)
          /\ Len(post(Aged(queues[c]), event)) = Len(Aged(queues[c])) + 1
        BY <2>2, <2>3, PostIn
    <2>5. Len(queues[c]) \in Nat
        BY <2>1, Lengths
    <2>6. QED
        BY <2>2, <2>4, <2>5 DEF event
<1>3. calls' = [c \in Boards |-> post(Aged(queues[c]), Call("onDisconnectionComplete", 0, 0))]
    BY DEF LinkEnds
<1>4. calls' \in Queues /\ \A c \in Boards : Len(calls'[c]) >= Len(queues[c])
    BY <1>2, <1>3 DEF Queues
<1>5. QED
    BY <1>4 DEF LinkEnds, LinkTyped

LEMMA LinkEndsHere ==
    ASSUME calls \in Queues, NEW b \in Boards, NEW q \in Seq(Waiting), LinkTyped,
           LinkEnds([calls EXCEPT ![b] = q])
    PROVE  Kept(b, q) /\ LinkTyped'
<1> DEFINE queues == [calls EXCEPT ![b] = q]
<1>1. queues \in Queues /\ queues[b] = q /\ \A c \in Boards : c # b => queues[c] = calls[c]
    BY DEF Queues
<1> HIDE DEF queues
<1>2. calls' \in Queues /\ LinkTyped' /\ \A c \in Boards : Len(calls'[c]) >= Len(queues[c])
    BY <1>1, LinkEndsKept DEF queues
<1>3. QED
    BY <1>1, <1>2 DEF Kept

(* A role starts with the radio it needs, or a refusal.                    *)
LEMMA StartTyped ==
    ASSUME RadioTyped, FailuresTyped, NEW b \in Boards, NEW r, NEW known, start(b, r, known),
           UNCHANGED initiating
    PROVE  RadioTyped' /\ FailuresTyped'
<1>1. FailuresTyped'
    BY FailsTyped DEF start, start_advertising, start_scanning, FailuresTyped
<1>2. /\ scanner' \in [Boards -> {"off", "timed", "endless"}]
      /\ adv' \in [Boards -> {"off", "timed", "endless"}]
    BY DEF start, start_advertising, start_scanning, RadioTyped
<1>3. filters' \in [Boards -> SUBSET {"peripheral", "central"}]
    <2>1. PICK f \in {"peripheral", "central"} : Filter(b, f, known)
        BY DEF start, start_advertising, start_scanning
    <2>2. QED
        BY <2>1 DEF Filter, RadioTyped
<1>4. QED
    BY <1>1, <1>2, <1>3 DEF RadioTyped

-----------------------------------------------------------------------------
(* The handlers.                                                           *)

LEMMA InitCompleteTyped ==
    ASSUME Typed, calls \in Queues, NEW b \in Boards, NEW q \in Seq(Waiting), on_init_complete(b, q)
    PROVE  Typed' /\ Kept(b, q)
<1>1. Call("start", 0, 0) \in Waiting
    BY EventWaits, Args DEF Names, Answers, Disconnects
<1>2. Kept(b, q)
    BY <1>1, PostKept DEF on_init_complete
<1>3. FailuresTyped'
    BY FailsTyped DEF on_init_complete, Typed, FailuresTyped
<1>4. ObjectsTyped'
    BY DEF on_init_complete, Typed, ObjectsTyped
<1>5. QED
    BY <1>2, <1>3, <1>4 DEF on_init_complete, radioVars, linkVars, Typed, RadioTyped, LinkTyped

LEMMA StartAgainTyped ==
    ASSUME Typed, calls \in Queues, NEW b \in Boards, NEW q \in Seq(Waiting), startAgain(b, q)
    PROVE  Typed' /\ Kept(b, q)
<1>1. Kept(b, q)
    BY LeavesOnly DEF startAgain
<1>2. RadioTyped' /\ FailuresTyped'
    BY StartTyped DEF startAgain, Typed
<1>3. ObjectsTyped'
    BY DEF startAgain, Typed, ObjectsTyped
<1>4. QED
    BY <1>1, <1>2, <1>3 DEF startAgain, linkVars, Typed, LinkTyped

LEMMA DisconnectTyped ==
    ASSUME Typed, calls \in Queues, NEW b \in Boards, NEW q \in Seq(Waiting), NEW valid,
           disconnect(b, q, valid)
    PROVE  Typed' /\ Kept(b, q)
<1>1. UNCHANGED <<objectVars, radioVars, failures>>
    BY DEF disconnect
<1>2. Kept(b, q) /\ LinkTyped'
    <2>1. CASE valid /\ link # NoLink
        BY <2>1, LinkEndsHere DEF disconnect, Typed
    <2>2. CASE ~(valid /\ link # NoLink)
        BY <2>2, LeavesOnly DEF disconnect, linkVars, Typed, LinkTyped
    <2>3. QED
        BY <2>1, <2>2
<1>3. QED
    BY <1>1, <1>2 DEF objectVars, radioVars, Typed, ObjectsTyped, RadioTyped, FailuresTyped

LEMMA ReportTyped ==
    ASSUME Typed, calls \in Queues, NEW b \in Boards, NEW q \in Seq(Waiting), onAdvertisingReport(b, q)
    PROVE  Typed' /\ Kept(b, q)
<1>1. Kept(b, q)
    BY LeavesOnly DEF onAdvertisingReport
<1>2. FailuresTyped'
    BY FailsTyped DEF onAdvertisingReport, Typed, FailuresTyped
<1>3. ObjectsTyped'
    BY DEF onAdvertisingReport, Typed, ObjectsTyped
<1>4. RadioTyped'
    BY DEF onAdvertisingReport, Typed, RadioTyped
<1>5. QED
    BY <1>1, <1>2, <1>3, <1>4 DEF onAdvertisingReport, linkVars, Typed, LinkTyped

LEMMA TimeoutTyped ==
    ASSUME Typed, calls \in Queues, NEW b \in Boards, NEW q \in Seq(Waiting), NEW connected,
           onScanTimeout(b, q) \/ onAdvertisingEnd(b, q, connected)
    PROVE  Typed' /\ Kept(b, q)
<1>1. Kept(b, q)
    BY LeavesOnly DEF onScanTimeout, onAdvertisingEnd
<1>2. ObjectsTyped'
    BY DEF onScanTimeout, onAdvertisingEnd, break_dispatch, Typed, ObjectsTyped
<1>3. QED
    BY <1>1, <1>2 DEF onScanTimeout, onAdvertisingEnd, radioVars, linkVars,
                      Typed, RadioTyped, LinkTyped, FailuresTyped

LEMMA ConnectionTyped ==
    ASSUME Typed, calls \in Queues, NEW b \in Boards, NEW q \in Seq(Waiting), NEW success \in BOOLEAN,
           onConnectionComplete(b, q, success)
    PROVE  Typed' /\ Kept(b, q)
<1>1. ObjectsTyped' /\ RadioTyped'
    BY DEF onConnectionComplete, radioVars, Typed, ObjectsTyped, RadioTyped
<1>2. Kept(b, q) /\ LinkTyped' /\ FailuresTyped'
    <2>1. CASE bonded[b] /\ Leaves(b, post(q, Disconnect("disconnect_current", TRUE)))
                  /\ UNCHANGED <<linkVars, failures>>
        <3>1. Disconnect("disconnect_current", TRUE) \in Waiting
            BY DisconnectWaits DEF Disconnects
        <3>2. QED
            BY <2>1, <3>1, PostKept DEF linkVars, Typed, LinkTyped, FailuresTyped
    <2>2. CASE setLinkSecurity /\ Leaves(b, q) /\ UNCHANGED <<keys, link, failures>>
        BY <2>2, LeavesOnly DEF setLinkSecurity, Typed, LinkTyped, FailuresTyped
    <2>3. CASE Fails("refusal") /\ LinkEnds([calls EXCEPT ![b] = q])
        BY <2>3, LinkEndsHere, FailsTyped DEF Typed
    <2>4. CASE Leaves(b, q) /\ UNCHANGED <<linkVars, failures>>
        BY <2>4, LeavesOnly DEF linkVars, Typed, LinkTyped, FailuresTyped
    <2>5. QED
        BY <2>1, <2>2, <2>3, <2>4 DEF onConnectionComplete
<1>3. QED
    BY <1>1, <1>2 DEF Typed

LEMMA PairingTyped ==
    ASSUME Typed, calls \in Queues, NEW b \in Boards, NEW q \in Seq(Waiting), NEW success,
           pairingRequest(b, q) \/ pairingResult(b, q, success)
    PROVE  Typed' /\ Kept(b, q)
<1>1. CASE pairingRequest(b, q)
    BY <1>1, LeavesOnly DEF pairingRequest, objectVars, radioVars,
                            Typed, ObjectsTyped, RadioTyped, LinkTyped, FailuresTyped
<1>2. CASE pairingResult(b, q, success)
    <2>1. Kept(b, q)
        <3>1. Disconnect("disconnect", bonded'[b]) \in Waiting
            BY DisconnectWaits DEF Disconnects
        <3>2. QED
            BY <1>2, <3>1, PostKept DEF pairingResult
    <2>2. ObjectsTyped'
        BY <1>2 DEF pairingResult, Typed, ObjectsTyped
    <2>3. QED
        BY <1>2, <2>1, <2>2 DEF pairingResult, radioVars, linkVars, Typed, RadioTyped, LinkTyped, FailuresTyped
<1>3. QED
    BY <1>1, <1>2

LEMMA DisconnectionTyped ==
    ASSUME Typed, calls \in Queues, NEW b \in Boards, NEW q \in Seq(Waiting), onDisconnectionComplete(b, q)
    PROVE  Typed' /\ Kept(b, q)
<1>1. Call("start", 0, Delay) \in Waiting
    BY CallWaits, Args DEF Names, Answers, Delay
<1>2. Kept(b, q)
    BY <1>1, PostKept, LeavesOnly DEF onDisconnectionComplete, afterDisconnection
<1>3. ObjectsTyped'
    BY DEF onDisconnectionComplete, afterDisconnection, break_dispatch, Typed, ObjectsTyped
<1>4. QED
    BY <1>2, <1>3 DEF onDisconnectionComplete, radioVars, linkVars, Typed, RadioTyped, LinkTyped, FailuresTyped

(* The running call goes to its handler; a breaking loop may run those     *)
(* calls that were in the queue with the one that broke it.                *)
LEMMA DispatchInv ==
    ASSUME IInv, NEW b \in Boards, NEW p \in DOMAIN calls[b], Dispatch(b, p)
    PROVE  IInv'
<1> DEFINE q == RemoveAt(calls[b], p)
           c == calls[b][p]
<1>1. calls[b] \in Seq(Waiting) /\ Len(calls[b]) \in Nat /\ p \in 1..Len(calls[b])
    <2>1. calls[b] \in Seq(Waiting)
        BY DEF IInv, Queues
    <2>2. QED
        BY <2>1, LenProperties
<1>2. q \in Seq(Waiting) /\ Len(q) = Len(calls[b]) - 1 /\ c \in Waiting
    BY <1>1, ServedIn
<1> HIDE DEF q
<1>3. Typed' /\ Kept(b, q)
    <2>1. CASE c.cb = "on_init_complete" /\ on_init_complete(b, q)
        BY <1>2, <2>1, InitCompleteTyped DEF IInv
    <2>2. CASE c.cb = "start" /\ startAgain(b, q)
        BY <1>2, <2>2, StartAgainTyped DEF IInv
    <2>3. CASE c.cb = "disconnect" /\ disconnect(b, q, TRUE)
        BY <1>2, <2>3, DisconnectTyped DEF IInv
    <2>4. CASE c.cb = "disconnect_current" /\ disconnect(b, q, handle[b])
        BY <1>2, <2>4, DisconnectTyped DEF IInv
    <2>5. CASE c.cb = "onAdvertisingReport" /\ onAdvertisingReport(b, q)
        BY <1>2, <2>5, ReportTyped DEF IInv
    <2>6. CASE c.cb = "onAdvertisingEnd" /\ onAdvertisingEnd(b, q, c.arg)
        BY <1>2, <2>6, TimeoutTyped DEF IInv
    <2>7. CASE c.cb = "onScanTimeout" /\ onScanTimeout(b, q)
        BY <1>2, <2>7, TimeoutTyped DEF IInv
    <2>8. CASE c.cb = "onConnectionComplete" /\ onConnectionComplete(b, q, c.arg)
        <3>1. c.arg \in BOOLEAN
            BY <1>2, <2>8 DEF Waiting, Answers
        <3>2. QED
            BY <1>2, <2>8, <3>1, ConnectionTyped DEF IInv
    <2>9. CASE c.cb = "pairingRequest" /\ pairingRequest(b, q)
        BY <1>2, <2>9, PairingTyped DEF IInv
    <2>10. CASE c.cb = "pairingResult" /\ pairingResult(b, q, c.arg)
        BY <1>2, <2>10, PairingTyped DEF IInv
    <2>11. CASE c.cb = "onDisconnectionComplete" /\ onDisconnectionComplete(b, q)
        BY <1>2, <2>11, DisconnectionTyped DEF IInv
    <2>12. QED
        BY <2>1, <2>2, <2>3, <2>4, <2>5, <2>6, <2>7, <2>8, <2>9, <2>10, <2>11 DEF Dispatch, q
<1>4. BatchInv'
    <2>1. \A d \in Boards : Len(calls'[d]) \in Nat
        BY <1>3, Lengths DEF Kept, Queues
    <2>2. batch' = [batch EXCEPT ![b] = IF breaking[b] THEN @ - 1
                                        ELSE IF breaking'[b] THEN Len(calls[b]) - 1 ELSE 0]
        BY DEF Dispatch
    <2>3. breaking[b] => p <= batch[b]
        BY DEF Dispatch
    <2>4. batch \in [Boards -> Nat] /\ \A d \in Boards : batch[d] <= Len(calls[d])
        BY DEF IInv, BatchInv
    <2>5. batch'[b] \in Nat /\ batch'[b] <= Len(calls[b]) - 1
        BY <1>1, <2>2, <2>3, <2>4
    <2>6. Len(calls'[b]) >= Len(calls[b]) - 1 /\ \A d \in Boards : d # b => Len(calls'[d]) >= Len(calls[d])
        BY <1>2, <1>3 DEF Kept
    <2>7. ASSUME NEW d \in Boards
          PROVE  batch'[d] <= Len(calls'[d])
        <3>1. CASE d = b
            BY <1>1, <2>1, <2>5, <2>6, <3>1
        <3>2. CASE d # b
            <4>1. batch'[d] = batch[d] /\ batch[d] \in Nat /\ batch[d] <= Len(calls[d])
                BY <2>2, <2>4, <3>2
            <4>2. Len(calls[d]) \in Nat
                BY Lengths DEF IInv, Queues
            <4>3. QED
                BY <2>1, <2>6, <3>2, <4>1, <4>2
        <3>3. QED
            BY <3>1, <3>2
    <2>8. batch' \in [Boards -> Nat]
        BY <2>2, <2>4, <2>5
    <2>9. QED
        BY <2>7, <2>8 DEF BatchInv
<1>5. QED
    BY <1>3, <1>4 DEF IInv, Kept

-----------------------------------------------------------------------------
(* main, the stacks and the air: queues only grow, but for a reset.        *)
Grown == calls' \in Queues /\ \A c \in Boards : Len(calls'[c]) >= Len(calls[c])

LEMMA GrownBatch ==
    ASSUME IInv, Grown, UNCHANGED batch
    PROVE  calls' \in Queues /\ BatchInv'
<1>1. \A c \in Boards : Len(calls[c]) \in Nat /\ Len(calls'[c]) \in Nat
    BY Lengths DEF IInv, Grown, Queues
<1>2. QED
    BY <1>1 DEF Grown, IInv, BatchInv

LEMMA SignalGrown ==
    ASSUME IInv, NEW b \in Boards, NEW cb \in Names, NEW arg \in Anything,
           cb \in Answers => arg \in BOOLEAN, cb \notin Disconnects, Signal(b, cb, arg)
    PROVE  Grown
<1> DEFINE c == Call(cb, arg, 0)
<1>1. c \in Waiting
    BY EventWaits
<1>2. calls \in Queues /\ calls[b] \in Seq(Waiting)
    BY DEF IInv, Queues
<1>3. Leaves(b, post(calls[b], c))
    BY DEF Signal
<1> HIDE DEF c
<1>4. Kept(b, calls[b])
    BY <1>1, <1>2, <1>3, PostKept
<1>5. QED
    BY <1>4 DEF Kept, Grown

LEMMA SwitchRoleInv ==
    ASSUME IInv, NEW b \in Boards, SwitchRole(b)
    PROVE  IInv'
<1>1. calls[b] \in Seq(Waiting) /\ calls \in Queues
    BY DEF IInv, Queues
<1>2. Call("on_init_complete", 0, 0) \in Waiting
    BY EventWaits, Args DEF Names, Answers, Disconnects
<1>3. calls' \in Queues
    BY <1>1, <1>2, PostKept DEF SwitchRole, run, Kept
<1>4. Kept(b, calls[b])
    BY <1>1, <1>2, PostKept DEF SwitchRole, run
<1>5. BatchInv'
    <2>1. batch' = [batch EXCEPT ![b] = 0]
        BY DEF SwitchRole
    <2>2. \A c \in Boards : Len(calls[c]) \in Nat /\ Len(calls'[c]) \in Nat
        BY <1>3, Lengths DEF IInv, Queues
    <2>3. QED
        BY <1>4, <2>1, <2>2 DEF Kept, IInv, BatchInv
<1>6. RadioTyped' /\ FailuresTyped'
    <2>1. RadioTyped /\ FailuresTyped /\ UNCHANGED initiating
        BY DEF SwitchRole, IInv, Typed
    <2>2. CASE start(b, role'[b], FALSE)
        BY <2>1, <2>2, StartTyped
    <2>3. CASE UNCHANGED <<scanner, adv, filters>> /\ (UNCHANGED failures \/ Fails("refusal"))
        BY <2>1, <2>3, FailsTyped DEF RadioTyped, FailuresTyped
    <2>4. QED
        BY <2>2, <2>3 DEF SwitchRole, run
<1>7. ObjectsTyped'
    BY DEF SwitchRole, run, OtherRole, IInv, Typed, ObjectsTyped
<1>8. QED
    BY <1>3, <1>5, <1>6, <1>7 DEF SwitchRole, linkVars, IInv, Typed, LinkTyped

LEMMA AirInv ==
    ASSUME IInv, NEW b \in Boards,
           AdvertisingExpires(b) \/ ScanExpires(b) \/ Report(b) \/ NotEstablished(b)
    PROVE  IInv'
<1>1. Grown
    <2>1. CASE AdvertisingExpires(b)
        BY <2>1, SignalGrown, Args DEF AdvertisingExpires, Names, Answers, Disconnects
    <2>2. CASE ScanExpires(b)
        BY <2>2, SignalGrown, Args DEF ScanExpires, Names, Answers, Disconnects
    <2>3. CASE Report(b)
        BY <2>3, SignalGrown, Args DEF Report, Names, Answers, Disconnects
    <2>4. CASE NotEstablished(b)
        BY <2>4, SignalGrown, Args DEF NotEstablished, Names, Answers, Disconnects
    <2>5. QED
        BY <2>1, <2>2, <2>3, <2>4
<1>2. UNCHANGED <<batch, objectVars, linkVars>>
    BY DEF AdvertisingExpires, ScanExpires, Report, NotEstablished
<1>3. RadioTyped'
    BY DEF AdvertisingExpires, ScanExpires, Report, NotEstablished, radioVars, IInv, Typed, RadioTyped
<1>4. FailuresTyped'
    BY FailsTyped DEF AdvertisingExpires, ScanExpires, Report, NotEstablished, IInv, Typed, FailuresTyped
<1>5. QED
    BY <1>1, <1>2, <1>3, <1>4, GrownBatch DEF objectVars, linkVars, IInv, Typed, ObjectsTyped, LinkTyped

(* A connection that the peer rejects, for one board begins and ends.      *)
LEMMA RejectedInv ==
    ASSUME IInv, NEW b \in Boards, Rejected(b)
    PROVE  IInv'
<1> DEFINE event == Call("onConnectionComplete", TRUE, 0)
           end == Call("onDisconnectionComplete", 0, 0)
<1>1. event \in Waiting /\ end \in Waiting
    BY EventWaits, Args DEF Names, Answers, Disconnects
<1>2. Leaves(b, post(post(calls[b], event), end))
    BY DEF Rejected
<1> HIDE DEF event, end
<1>3. calls \in Queues /\ calls[b] \in Seq(Waiting) /\ Len(calls[b]) \in Nat
    BY Lengths DEF IInv, Queues
<1>4. post(calls[b], event) \in Seq(Waiting) /\ Len(post(calls[b], event)) = Len(calls[b]) + 1
    BY <1>1, <1>3, PostIn
<1>5. /\ post(post(calls[b], event), end) \in Seq(Waiting)
      /\ Len(post(post(calls[b], event), end)) = Len(post(calls[b], event)) + 1
    BY <1>1, <1>4, PostIn
<1>6. Kept(b, calls[b])
    BY <1>2, <1>3, <1>4, <1>5, LeavesKept
<1>7. Grown
    BY <1>3, <1>6 DEF Kept, Grown
<1>8. RadioTyped'
    BY DEF Rejected, IInv, Typed, RadioTyped
<1>9. QED
    BY <1>7, <1>8, GrownBatch DEF Rejected, objectVars, linkVars,
       IInv, Typed, ObjectsTyped, LinkTyped, FailuresTyped

LEMMA PeerIsBoard == ASSUME NEW b \in Boards PROVE Peer(b) \in Boards /\ Peer(b) # b
BY BoardsAssumption DEF Peer

LEMMA EstablishedInv ==
    ASSUME IInv, NEW b \in Boards, Established(b)
    PROVE  IInv'
<1> DEFINE event == Call("onConnectionComplete", TRUE, 0)
           end == Call("onAdvertisingEnd", TRUE, 0)
<1>1. event \in Waiting /\ end \in Waiting
    BY EventWaits, Args DEF Names, Answers, Disconnects
<1>2. Peer(b) \in Boards /\ Peer(b) # b
    BY PeerIsBoard
<1>3. calls' = [calls EXCEPT ![b] = post(@, event), ![Peer(b)] = post(post(@, event), end)]
    BY DEF Established
<1> HIDE DEF event, end
<1>4. ASSUME NEW c \in Boards
      PROVE  /\ Len(calls[c]) \in Nat
             /\ post(calls[c], event) \in Seq(Waiting)
             /\ Len(post(calls[c], event)) = Len(calls[c]) + 1
             /\ post(post(calls[c], event), end) \in Seq(Waiting)
             /\ Len(post(post(calls[c], event), end)) = Len(calls[c]) + 1 + 1
    <2>1. calls[c] \in Seq(Waiting) /\ Len(calls[c]) \in Nat
        BY Lengths DEF IInv, Queues
    <2>2. post(calls[c], event) \in Seq(Waiting) /\ Len(post(calls[c], event)) = Len(calls[c]) + 1
        BY <1>1, <2>1, PostIn
    <2>3. /\ post(post(calls[c], event), end) \in Seq(Waiting)
          /\ Len(post(post(calls[c], event), end)) = Len(post(calls[c], event)) + 1
        BY <1>1, <2>2, PostIn
    <2>4. QED
        BY <2>1, <2>2, <2>3
<1>5. Grown
    <2>1. calls \in Queues
        BY DEF IInv
    <2>2. ASSUME NEW c \in Boards
          PROVE  calls'[c] \in {calls[c], post(calls[c], event), post(post(calls[c], event), end)}
        BY <1>2, <1>3, <2>1 DEF Queues
    <2>3. ASSUME NEW c \in Boards
          PROVE  calls'[c] \in Seq(Waiting) /\ Len(calls'[c]) >= Len(calls[c])
        <3>1. calls[c] \in Seq(Waiting)
            BY <2>1 DEF Queues
        <3>2. /\ Len(post(calls[c], event)) >= Len(calls[c])
              /\ Len(post(post(calls[c], event), end)) >= Len(calls[c])
              /\ Len(calls[c]) >= Len(calls[c])
            BY <1>4
        <3>3. QED
            BY <1>4, <2>2, <3>1, <3>2, Zenon
    <2>4. calls' = [c \in Boards |-> calls'[c]]
        BY <1>3, <2>1 DEF Queues
    <2>5. QED
        BY <2>3, <2>4 DEF Grown, Queues
<1>6. UNCHANGED <<batch, objectVars, scanner, filters, keys, pairing, failures>> /\ link' = b
    BY DEF Established
<1>7. RadioTyped'
    BY <1>2 DEF Established, IInv, Typed, RadioTyped
<1>8. QED
    BY <1>5, <1>6, <1>7, GrownBatch DEF objectVars, IInv, Typed, ObjectsTyped, LinkTyped, FailuresTyped

LEMMA PairingInv ==
    ASSUME IInv, PairingAsked \/ PairingEnds
    PROVE  IInv'
<1>1. CASE PairingAsked
    <2>1. Peer(link) \in Boards
        BY BoardsAssumption DEF Peer
    <2>2. Grown
        BY <1>1, <2>1, SignalGrown, Args DEF PairingAsked, Names, Answers, Disconnects
    <2>3. QED
        BY <1>1, <2>2, GrownBatch DEF PairingAsked, objectVars, radioVars,
              IInv, Typed, ObjectsTyped, RadioTyped, LinkTyped, FailuresTyped
<1>2. CASE PairingEnds
    <2>1. PICK success \in BOOLEAN :
             /\ keys' = IF success THEN [b \in Boards |-> TRUE] ELSE keys
             /\ calls' = [b \in Boards |-> post(calls[b], Call("pairingResult", success, 0))]
             /\ failures' = failures \/ Fails("pairing")
        BY <1>2 DEF PairingEnds
    <2> DEFINE event == Call("pairingResult", success, 0)
    <2>2. event \in Waiting
        BY EventWaits, Args DEF Names, Answers, Disconnects
    <2>3. calls' = [b \in Boards |-> post(calls[b], event)]
        BY <2>1
    <2> HIDE DEF event
    <2>4. ASSUME NEW b \in Boards
          PROVE  post(calls[b], event) \in Seq(Waiting) /\ Len(post(calls[b], event)) >= Len(calls[b])
        <3>1. calls[b] \in Seq(Waiting) /\ Len(calls[b]) \in Nat
            BY Lengths DEF IInv, Queues
        <3>2. post(calls[b], event) \in Seq(Waiting) /\ Len(post(calls[b], event)) = Len(calls[b]) + 1
            BY <2>2, <3>1, PostIn
        <3>3. QED
            BY <3>1, <3>2
    <2>5. Grown
        BY <2>3, <2>4 DEF Grown, Queues
    <2>6. FailuresTyped'
        BY <2>1, FailsTyped DEF IInv, Typed, FailuresTyped
    <2>7. LinkTyped'
        BY <1>2, <2>1 DEF PairingEnds, IInv, Typed, LinkTyped
    <2>8. QED
        BY <1>2, <2>5, <2>6, <2>7, GrownBatch DEF PairingEnds, objectVars, radioVars,
              IInv, Typed, ObjectsTyped, RadioTyped
<1>3. QED
    BY <1>1, <1>2

LEMMA LinkLostInv ==
    ASSUME IInv, LinkLost
    PROVE  IInv'
<1>1. Grown /\ LinkTyped'
    BY LinkEndsKept DEF LinkLost, Grown, IInv, Typed
<1>2. FailuresTyped'
    BY FailsTyped DEF LinkLost, IInv, Typed
<1>3. QED
    BY <1>1, <1>2, GrownBatch DEF LinkLost, objectVars, radioVars, IInv, Typed, ObjectsTyped, RadioTyped

(* The board starts anew; the other one may be told that the link is gone. *)
LEMMA ResetInv ==
    ASSUME IInv, NEW b \in Boards, Reset(b)
    PROVE  IInv'
<1> DEFINE event == Call("onDisconnectionComplete", 0, 0)
           peers == IF link = NoLink THEN calls[Peer(b)] ELSE post(Aged(calls[Peer(b)]), event)
<1>1. event \in Waiting
    BY EventWaits, Args DEF Names, Answers, Disconnects
<1>2. calls' = [calls EXCEPT ![b] = <<>>, ![Peer(b)] = peers]
    BY DEF Reset
<1>3. Peer(b) \in Boards /\ Peer(b) # b /\ \A c \in Boards : c \in {b, Peer(b)}
    BY PeerIsBoard, BoardsAssumption
<1> HIDE DEF event
<1>4. <<>> \in Seq(Waiting)
    OBVIOUS
<1>5. peers \in Seq(Waiting) /\ Len(peers) >= Len(calls[Peer(b)])
    <2>1. calls[Peer(b)] \in Seq(Waiting) /\ Len(calls[Peer(b)]) \in Nat
        BY <1>3, Lengths DEF IInv, Queues
    <2>2. Aged(calls[Peer(b)]) \in Seq(Waiting) /\ Len(Aged(calls[Peer(b)])) = Len(calls[Peer(b)])
        BY <2>1, AgedWaits
    <2>3. /\ post(Aged(calls[Peer(b)]), event) \in Seq(Waiting)
          /\ Len(post(Aged(calls[Peer(b)]), event)) = Len(Aged(calls[Peer(b)])) + 1
        BY <1>1, <2>2, PostIn
    <2>4. QED
        BY <2>1, <2>2, <2>3
<1> HIDE DEF peers
<1>6. calls'[b] = <<>> /\ calls'[Peer(b)] = peers
    BY <1>2, <1>3 DEF IInv, Queues
<1>7. calls' \in Queues
    BY <1>2, <1>3, <1>4, <1>5 DEF IInv, Queues
<1>8. BatchInv'
    <2>1. batch' = [batch EXCEPT ![b] = 0]
        BY DEF Reset
    <2>2. \A c \in Boards : Len(calls[c]) \in Nat /\ Len(calls'[c]) \in Nat
        BY <1>7, Lengths DEF IInv, Queues
    <2>3. batch'[b] <= Len(calls'[b])
        BY <2>1, <2>2 DEF IInv, BatchInv
    <2>4. batch'[Peer(b)] <= Len(calls'[Peer(b)])
        BY <1>3, <1>5, <1>6, <2>1, <2>2 DEF IInv, BatchInv
    <2>5. QED
        BY <1>3, <2>1, <2>3, <2>4 DEF IInv, BatchInv
<1>9. ObjectsTyped'
    BY DEF Reset, IInv, Typed, ObjectsTyped
<1>10. RadioTyped' /\ LinkTyped'
    BY DEF Reset, IInv, Typed, RadioTyped, LinkTyped
<1>11. FailuresTyped'
    BY FailsTyped DEF Reset, IInv, Typed
<1>12. QED
    BY <1>7, <1>8, <1>9, <1>10, <1>11 DEF IInv, Typed

-----------------------------------------------------------------------------
LEMMA InitInv == Init => IInv
<1> SUFFICES ASSUME Init
             PROVE  IInv
    OBVIOUS
<1>1. calls \in Queues
    BY DEF Init, Queues
<1>2. BatchInv
    <2>1. \A b \in Boards : Len(calls[b]) \in Nat
        BY <1>1, Lengths DEF Queues
    <2>2. QED
        BY <2>1 DEF Init, BatchInv
<1>3. FailuresTyped
    BY BoundsAssumption DEF Init, FailuresTyped
<1>4. QED
    BY <1>1, <1>2, <1>3 DEF Init, IInv, Typed, ObjectsTyped, RadioTyped, LinkTyped

LEMMA NextInv == IInv /\ [Next]_vars => IInv'
<1> SUFFICES ASSUME IInv, [Next]_vars
             PROVE  IInv'
    OBVIOUS
<1>1. ASSUME NEW b \in Boards, NEW p \in DOMAIN calls[b], Dispatch(b, p)
      PROVE  IInv'
    BY <1>1, DispatchInv
<1>2. ASSUME NEW b \in Boards, SwitchRole(b)
      PROVE  IInv'
    BY <1>2, SwitchRoleInv
<1>3. ASSUME NEW b \in Boards,
             AdvertisingExpires(b) \/ ScanExpires(b) \/ Report(b) \/ NotEstablished(b)
      PROVE  IInv'
    BY <1>3, AirInv
<1>4. ASSUME NEW b \in Boards, Established(b) \/ Rejected(b)
      PROVE  IInv'
    BY <1>4, EstablishedInv, RejectedInv
<1>5. ASSUME NEW b \in Boards, Reset(b)
      PROVE  IInv'
    BY <1>5, ResetInv
<1>6. CASE PairingAsked \/ PairingEnds
    BY <1>6, PairingInv
<1>7. CASE LinkLost
    BY <1>7, LinkLostInv
<1>8. CASE UNCHANGED vars
    BY <1>8 DEF vars, objectVars, radioVars, linkVars, IInv, BatchInv,
                Typed, ObjectsTyped, RadioTyped, LinkTyped, FailuresTyped
<1>9. QED
    BY <1>1, <1>2, <1>3, <1>4, <1>5, <1>6, <1>7, <1>8 DEF Next

(* The variables keep their types, only an object of the central class is  *)
(* connecting, and a breaking loop has at most its due calls left to run.  *)
THEOREM RolesTyped == Spec => []TypeOK
    BY IInvTypeOK, InitInv, NextInv, PTL DEF Spec

-----------------------------------------------------------------------------
(* The demo goes on as long as the stack refuses nothing and no connection *)
(* fails: each board has something that will carry it on.                  *)

(* The calls that start an activity or break the loop.                     *)
Carriers == {c \in Waiting : \/ c.cb \in {"on_init_complete", "start", "onScanTimeout", "onDisconnectionComplete"}
                             \/ c.cb = "onAdvertisingEnd" /\ c.arg = FALSE}

Active(b) == scanner[b] # "off" \/ adv[b] # "off" \/ initiating[b] \/ breaking[b]

Carried(b) == Active(b) \/ link # NoLink \/ Some(calls[b], Carriers)

Stopped == Had({"refusal", "connection"})

GoInv == Stopped \/ \A b \in Boards : Carried(b)

LEMMA GoInvSuffices == GoInv => GoesOn
<1>1. \A b \in Boards : Carried(b) => \/ scanner[b] # "off" \/ adv[b] # "off" \/ initiating[b] \/ breaking[b]
                                      \/ calls[b] # <<>> \/ link # NoLink
    BY DEF Carried, Active, Some
<1>2. QED
    BY <1>1 DEF GoInv, Stopped, GoesOn

LEMMA FailsStops ==
    /\ \A kind \in {"refusal", "connection"} : Fails(kind) => Stopped'
    /\ \A kind : Fails(kind) /\ Stopped => Stopped'
BY DEF Fails, Stopped, Had

(* The event that every board will handle.                                 *)
LEMMA CarrierPosted ==
    ASSUME NEW q \in Seq(Waiting), NEW c \in Carriers
    PROVE  Some(post(q, c), Carriers)
BY PostSome DEF Carriers

LEMMA CarrierCalls ==
    /\ Call("on_init_complete", 0, 0) \in Carriers /\ Call("onDisconnectionComplete", 0, 0) \in Carriers
    /\ Call("onScanTimeout", 0, 0) \in Carriers /\ Call("onAdvertisingEnd", FALSE, 0) \in Carriers
    /\ \A delay \in Nat : Call("start", 0, delay) \in Carriers
<1>1. /\ Call("on_init_complete", 0, 0) \in Waiting /\ Call("onDisconnectionComplete", 0, 0) \in Waiting
      /\ Call("onScanTimeout", 0, 0) \in Waiting /\ Call("onAdvertisingEnd", FALSE, 0) \in Waiting
      /\ \A delay \in Nat : Call("start", 0, delay) \in Waiting
    BY EventWaits, CallWaits, Args DEF Names, Answers, Disconnects
<1>2. QED
    BY <1>1 DEF Carriers, Call

LEMMA LinkEndsCarries ==
    ASSUME NEW queues \in Queues, LinkEnds(queues), NEW b \in Boards
    PROVE  Some(calls'[b], Carriers)
<1>1. Aged(queues[b]) \in Seq(Waiting)
    BY AgedWaits DEF Queues
<1>2. calls'[b] = post(Aged(queues[b]), Call("onDisconnectionComplete", 0, 0))
    BY DEF LinkEnds
<1>3. QED
    BY <1>1, <1>2, CarrierPosted, CarrierCalls

(* A handler concerns its board only.                                      *)
Apart(b) ==
    /\ link' = link
    /\ \A c \in Boards : c # b => /\ calls'[c] = calls[c] /\ scanner'[c] = scanner[c] /\ adv'[c] = adv[c]
                                  /\ initiating'[c] = initiating[c] /\ breaking'[c] = breaking[c]

LEMMA ApartCarries ==
    ASSUME NEW b \in Boards, Apart(b), Carried(b)', \A c \in Boards : Carried(c)
    PROVE  \A c \in Boards : Carried(c)'
BY DEF Apart, Carried, Active

LEMMA HandlerCarries ==
    ASSUME IInv, NEW b \in Boards, NEW p \in DOMAIN calls[b], Dispatch(b, p), ~Stopped',
           \A c \in Boards : Carried(c)
    PROVE  \A c \in Boards : Carried(c)'
<1> DEFINE q == RemoveAt(calls[b], p)
           c == calls[b][p]
<1>1. calls[b] \in Seq(Waiting)
    BY DEF IInv, Queues
<1>2. q \in Seq(Waiting) /\ c \in Waiting /\ (c \notin Carriers => (Some(q, Carriers) <=> Some(calls[b], Carriers)))
    BY <1>1, ServedIn, ServedSome
<1>3. [calls EXCEPT ![b] = q] \in Queues
    BY <1>2 DEF IInv, Queues
<1> HIDE DEF q
<1>4. \A left : Leaves(b, left) => calls'[b] = left /\ \A d \in Boards : d # b => calls'[d] = calls[d]
    BY DEF Leaves, IInv, Queues
<1>5. /\ scanner \in [Boards -> {"off", "timed", "endless"}] /\ adv \in [Boards -> {"off", "timed", "endless"}]
      /\ initiating \in [Boards -> BOOLEAN] /\ breaking \in [Boards -> BOOLEAN]
    BY DEF IInv, Typed, ObjectsTyped, RadioTyped
<1>6. \A d : Some(q, Carriers) => Some(post(q, d), Carriers)
    BY <1>2, PostSome
<1>7. CASE c.cb = "on_init_complete" /\ on_init_complete(b, q)
    <2>1. Leaves(b, post(q, Call("start", 0, 0))) /\ UNCHANGED <<breaking, radioVars, link>>
        BY <1>7, FailsStops DEF on_init_complete, linkVars
    <2>2. Some(calls'[b], Carriers)
        BY <1>2, <1>4, <2>1, CarrierPosted, CarrierCalls
    <2>3. QED
        BY <1>4, <2>1, <2>2, ApartCarries DEF Apart, Carried, radioVars
<1>8. CASE c.cb = "start" /\ startAgain(b, q)
    <2>1. Leaves(b, q) /\ start(b, role[b], bonded[b]) /\ UNCHANGED <<breaking, initiating, link>>
        BY <1>8 DEF startAgain, linkVars
    <2>2. adv'[b] # "off" \/ scanner'[b] # "off"
        BY <1>5, <2>1, FailsStops DEF start, start_advertising, start_scanning
    <2>3. \A d \in Boards : d # b => scanner'[d] = scanner[d] /\ adv'[d] = adv[d]
        BY <1>5, <2>1 DEF start, start_advertising, start_scanning
    <2>4. QED
        BY <1>4, <2>1, <2>2, <2>3, ApartCarries DEF Apart, Carried, Active
<1>9. CASE \E valid : disconnect(b, q, valid) /\ c.cb \in {"disconnect", "disconnect_current"}
    <2>1. UNCHANGED <<breaking, radioVars>> /\ c \notin Carriers
        BY <1>9 DEF disconnect, objectVars, Carriers
    <2>2. CASE LinkEnds([calls EXCEPT ![b] = q])
        BY <1>3, <2>2, LinkEndsCarries DEF Carried
    <2>3. CASE Leaves(b, q) /\ UNCHANGED linkVars
        BY <1>2, <1>4, <2>1, <2>3, ApartCarries DEF Apart, Carried, Active, radioVars, linkVars
    <2>4. QED
        BY <1>9, <2>2, <2>3 DEF disconnect
<1>10. CASE c.cb = "onAdvertisingReport" /\ onAdvertisingReport(b, q)
    <2>1. Leaves(b, q) /\ UNCHANGED <<breaking, adv, link>> /\ c \notin Carriers
        BY <1>10 DEF onAdvertisingReport, linkVars, Carriers
    <2>2. UNCHANGED <<scanner, initiating>> \/ initiating'[b]
        BY <1>5, <1>10, FailsStops DEF onAdvertisingReport
    <2>3. \A d \in Boards : d # b => scanner'[d] = scanner[d] /\ initiating'[d] = initiating[d]
        BY <1>5, <1>10 DEF onAdvertisingReport
    <2>4. QED
        BY <1>2, <1>4, <2>1, <2>2, <2>3, ApartCarries DEF Apart, Carried, Active
<1>11. CASE \/ c.cb = "onScanTimeout" /\ onScanTimeout(b, q)
            \/ c.cb = "onAdvertisingEnd" /\ onAdvertisingEnd(b, q, c.arg)
    <2>1. Leaves(b, q) /\ UNCHANGED <<radioVars, link>>
        BY <1>11 DEF onScanTimeout, onAdvertisingEnd, linkVars
    <2>2. breaking'[b] \/ (UNCHANGED breaking /\ c \notin Carriers)
        BY <1>5, <1>11 DEF onScanTimeout, onAdvertisingEnd, break_dispatch, Carriers
    <2>3. \A d \in Boards : d # b => breaking'[d] = breaking[d]
        BY <1>5, <1>11 DEF onScanTimeout, onAdvertisingEnd, break_dispatch
    <2>4. QED
        BY <1>2, <1>4, <2>1, <2>2, <2>3, ApartCarries DEF Apart, Carried, Active, radioVars
<1>12. CASE c.cb = "onConnectionComplete" /\ onConnectionComplete(b, q, c.arg)
    <2>1. UNCHANGED <<breaking, radioVars, link>> /\ c \notin Carriers
        BY <1>12, FailsStops DEF onConnectionComplete, linkVars, Carriers
    <2>2. Leaves(b, q) \/ Leaves(b, post(q, Disconnect("disconnect_current", TRUE)))
        BY <1>12, FailsStops DEF onConnectionComplete
    <2>3. Some(q, Carriers) => Some(calls'[b], Carriers)
        BY <1>4, <1>6, <2>2
    <2>4. QED
        BY <1>2, <1>4, <2>1, <2>2, <2>3, ApartCarries DEF Apart, Carried, Active, radioVars
<1>13. CASE \/ c.cb = "pairingRequest" /\ pairingRequest(b, q)
            \/ c.cb = "pairingResult" /\ pairingResult(b, q, c.arg)
    <2>1. UNCHANGED <<breaking, radioVars, link>> /\ c \notin Carriers
        BY <1>13 DEF pairingRequest, pairingResult, objectVars, linkVars, Carriers
    <2>2. Leaves(b, q) \/ Leaves(b, post(q, Disconnect("disconnect", bonded'[b])))
        BY <1>13 DEF pairingRequest, pairingResult
    <2>3. Some(q, Carriers) => Some(calls'[b], Carriers)
        BY <1>4, <1>6, <2>2
    <2>4. QED
        BY <1>2, <1>4, <2>1, <2>2, <2>3, ApartCarries DEF Apart, Carried, Active, radioVars
<1>14. CASE c.cb = "onDisconnectionComplete" /\ onDisconnectionComplete(b, q)
    <2>1. UNCHANGED <<radioVars, link>> /\ afterDisconnection(b, q)
        BY <1>14 DEF onDisconnectionComplete, linkVars
    <2>2. CASE Leaves(b, post(q, Call("start", 0, Delay))) /\ UNCHANGED breaking
        <3>1. Some(calls'[b], Carriers)
            BY <1>2, <1>4, <2>2, CarrierPosted, CarrierCalls DEF Delay
        <3>2. QED
            BY <1>4, <2>1, <2>2, <3>1, ApartCarries DEF Apart, Carried, radioVars
    <2>3. CASE Leaves(b, q) /\ break_dispatch(b)
        BY <1>4, <1>5, <2>1, <2>3, ApartCarries DEF break_dispatch, Apart, Carried, Active, radioVars
    <2>4. QED
        BY <2>1, <2>2, <2>3 DEF afterDisconnection
<1>15. QED
    BY <1>7, <1>8, <1>9, <1>10, <1>11, <1>12, <1>13, <1>14 DEF Dispatch, q

(* main, the stacks and the air.                                           *)
LEMMA SwitchCarries ==
    ASSUME IInv, NEW b \in Boards, SwitchRole(b), ~Stopped', \A c \in Boards : Carried(c)
    PROVE  \A c \in Boards : Carried(c)'
<1>1. calls[b] \in Seq(Waiting)
    BY DEF IInv, Queues
<1>2. /\ scanner \in [Boards -> {"off", "timed", "endless"}] /\ adv \in [Boards -> {"off", "timed", "endless"}]
      /\ breaking \in [Boards -> BOOLEAN] /\ \A q : Leaves(b, q) => calls'[b] = q
      /\ \A q : Leaves(b, q) => \A d \in Boards : d # b => calls'[d] = calls[d]
    BY DEF IInv, Typed, ObjectsTyped, RadioTyped, Leaves, Queues
<1>3. UNCHANGED <<initiating, link>> /\ \A d \in Boards : d # b => breaking'[d] = breaking[d]
    BY <1>2 DEF SwitchRole, run, linkVars
<1>4. run(b, calls[b], role'[b])
    BY DEF SwitchRole
<1>5. CASE Leaves(b, post(calls[b], Call("on_init_complete", 0, 0))) /\ UNCHANGED <<scanner, adv>>
    <2>1. Some(calls'[b], Carriers)
        BY <1>1, <1>2, <1>5, CarrierPosted, CarrierCalls
    <2>2. QED
        BY <1>2, <1>3, <1>5, <2>1, ApartCarries DEF Apart, Carried
<1>6. CASE Leaves(b, calls[b]) /\ start(b, role'[b], FALSE)
    <2>1. adv'[b] # "off" \/ scanner'[b] # "off"
        BY <1>2, <1>6, FailsStops DEF start, start_advertising, start_scanning
    <2>2. \A d \in Boards : d # b => scanner'[d] = scanner[d] /\ adv'[d] = adv[d]
        BY <1>2, <1>6 DEF start, start_advertising, start_scanning
    <2>3. QED
        BY <1>2, <1>3, <1>6, <2>1, <2>2, ApartCarries DEF Apart, Carried, Active
<1>7. QED
    BY <1>4, <1>5, <1>6, FailsStops DEF run

LEMMA AirCarries ==
    ASSUME IInv, NEW b \in Boards, AdvertisingExpires(b) \/ ScanExpires(b) \/ Report(b),
           \A c \in Boards : Carried(c)
    PROVE  \A c \in Boards : Carried(c)'
<1>1. calls[b] \in Seq(Waiting)
    BY DEF IInv, Queues
<1>2. /\ scanner \in [Boards -> {"off", "timed", "endless"}] /\ adv \in [Boards -> {"off", "timed", "endless"}]
      /\ \A cb, arg : Signal(b, cb, arg) => calls'[b] = post(calls[b], Call(cb, arg, 0))
      /\ \A cb, arg : Signal(b, cb, arg) => \A d \in Boards : d # b => calls'[d] = calls[d]
    BY DEF IInv, Typed, RadioTyped, Signal, Leaves, Queues
<1>3. UNCHANGED <<initiating, breaking, link>>
    BY DEF AdvertisingExpires, ScanExpires, Report, objectVars, radioVars, linkVars
<1>4. CASE AdvertisingExpires(b)
    <2>1. Some(calls'[b], Carriers)
        BY <1>1, <1>2, <1>4, CarrierPosted, CarrierCalls DEF AdvertisingExpires
    <2>2. QED
        BY <1>2, <1>3, <1>4, <2>1, ApartCarries DEF AdvertisingExpires, Apart, Carried
<1>5. CASE ScanExpires(b)
    <2>1. Some(calls'[b], Carriers)
        BY <1>1, <1>2, <1>5, CarrierPosted, CarrierCalls DEF ScanExpires
    <2>2. QED
        BY <1>2, <1>3, <1>5, <2>1, ApartCarries DEF ScanExpires, Apart, Carried
<1>6. CASE Report(b)
    <2>1. scanner[b] # "off" /\ scanner' = scanner /\ adv' = adv
        BY <1>6 DEF Report, radioVars
    <2>2. QED
        BY <1>2, <1>3, <1>6, <2>1, ApartCarries DEF Report, Apart, Carried, Active
<1>7. QED
    BY <1>4, <1>5, <1>6

LEMMA ResetCarries ==
    ASSUME IInv, NEW b \in Boards, Reset(b), \A c \in Boards : Carried(c)
    PROVE  \A c \in Boards : Carried(c)'
<1> DEFINE d == Peer(b)
<1>1. d \in Boards /\ d # b /\ \A c \in Boards : c \in {b, d}
    BY PeerIsBoard, BoardsAssumption
<1> HIDE DEF d
<1>2. Carried(b)'
    BY DEF Reset, IInv, Typed, ObjectsTyped, Carried, Active
<1>3. CASE link = NoLink
    <2>1. calls'[d] = calls[d] /\ scanner'[d] = scanner[d] /\ adv'[d] = adv[d]
          /\ initiating'[d] = initiating[d] /\ breaking'[d] = breaking[d]
        BY <1>1, <1>3 DEF Reset, IInv, Typed, ObjectsTyped, RadioTyped, Queues, d
    <2>2. Carried(d)'
        BY <1>1, <1>3, <2>1 DEF Carried, Active
    <2>3. QED
        BY <1>1, <1>2, <2>2
<1>4. CASE link # NoLink
    <2>1. calls'[d] = post(Aged(calls[d]), Call("onDisconnectionComplete", 0, 0))
        BY <1>1, <1>4 DEF Reset, IInv, Queues, d
    <2>2. Aged(calls[d]) \in Seq(Waiting)
        BY <1>1, AgedWaits DEF IInv, Queues
    <2>3. Some(calls'[d], Carriers)
        BY <2>1, <2>2, CarrierPosted, CarrierCalls
    <2>4. QED
        BY <1>1, <1>2, <2>3 DEF Carried
<1>5. QED
    BY <1>3, <1>4

(* A rejected connection leaves the event of its end.                      *)
LEMMA RejectedCarries ==
    ASSUME IInv, NEW b \in Boards, Rejected(b), \A c \in Boards : Carried(c)
    PROVE  \A c \in Boards : Carried(c)'
<1> DEFINE event == Call("onConnectionComplete", TRUE, 0)
           end == Call("onDisconnectionComplete", 0, 0)
<1>1. event \in Waiting /\ end \in Carriers
    BY EventWaits, Args, CarrierCalls DEF Names, Answers, Disconnects
<1>2. Leaves(b, post(post(calls[b], event), end))
    BY DEF Rejected
<1> HIDE DEF event, end
<1>3. calls[b] \in Seq(Waiting)
    BY DEF IInv, Queues
<1>4. post(calls[b], event) \in Seq(Waiting)
    BY <1>1, <1>3, PostIn
<1>5. calls'[b] = post(post(calls[b], event), end) /\ \A d \in Boards : d # b => calls'[d] = calls[d]
    BY <1>2 DEF Leaves, IInv, Queues
<1>6. Some(calls'[b], Carriers)
    BY <1>1, <1>4, <1>5, CarrierPosted
<1>7. /\ UNCHANGED <<breaking, scanner, adv, link>>
      /\ \A d \in Boards : d # b => initiating'[d] = initiating[d]
    BY DEF Rejected, objectVars, linkVars, IInv, Typed, RadioTyped
<1>8. QED
    BY <1>5, <1>6, <1>7, ApartCarries DEF Apart, Carried

(* Pairing moves nobody; an established link carries both boards.          *)
LEMMA PairingCarries ==
    ASSUME IInv, PairingAsked \/ PairingEnds, \A c \in Boards : Carried(c)
    PROVE  \A c \in Boards : Carried(c)'
<1>1. UNCHANGED <<breaking, radioVars, link>>
    BY DEF PairingAsked, PairingEnds, objectVars
<1>2. ASSUME NEW c \in Boards
      PROVE  Some(calls[c], Carriers) => Some(calls'[c], Carriers)
    <2>1. calls[c] \in Seq(Waiting)
        BY DEF IInv, Queues
    <2>2. \A d : Some(calls[c], Carriers) => Some(post(calls[c], d), Carriers)
        BY <2>1, PostSome
    <2>3. calls'[c] = calls[c] \/ \E d : calls'[c] = post(calls[c], d)
        BY DEF PairingAsked, PairingEnds, Signal, Leaves, IInv, Queues
    <2>4. QED
        BY <2>2, <2>3
<1>3. QED
    BY <1>1, <1>2 DEF Carried, Active, radioVars

(* What failed stays in the history.                                       *)
LEMMA FailuresGrow == ASSUME [Next]_vars PROVE failures' = failures \/ \E kind : Fails(kind)
<1>1. ASSUME NEW b \in Boards, NEW p \in DOMAIN calls[b], Dispatch(b, p)
      PROVE  failures' = failures \/ Fails("refusal")
    BY <1>1 DEF Dispatch, on_init_complete, startAgain, start, start_advertising, start_scanning,
           disconnect, onAdvertisingReport, onAdvertisingEnd, onScanTimeout, onConnectionComplete,
           pairingRequest, pairingResult, onDisconnectionComplete
<1>2. ASSUME NEW b \in Boards, SwitchRole(b)
      PROVE  failures' = failures \/ Fails("refusal")
    BY <1>2 DEF SwitchRole, run, start, start_advertising, start_scanning
<1>3. ASSUME NEW b \in Boards,
             \/ AdvertisingExpires(b) \/ ScanExpires(b) \/ Report(b)
             \/ Established(b) \/ Rejected(b) \/ NotEstablished(b) \/ Reset(b)
      PROVE  failures' = failures \/ \E kind : Fails(kind)
    BY <1>3 DEF AdvertisingExpires, ScanExpires, Report, Established, Rejected, NotEstablished, Reset
<1>4. CASE PairingAsked \/ PairingEnds \/ LinkLost
    BY <1>4 DEF PairingAsked, PairingEnds, LinkLost
<1>5. CASE UNCHANGED vars
    BY <1>5 DEF vars
<1>6. QED
    BY <1>1, <1>2, <1>3, <1>4, <1>5 DEF Next

LEMMA StoppedKept == ASSUME [Next]_vars, Stopped PROVE Stopped'
BY FailuresGrow, FailsStops DEF Stopped, Had

LEMMA NextCarries == ASSUME IInv, GoInv, [Next]_vars PROVE GoInv'
<1>1. SUFFICES ASSUME ~Stopped'
               PROVE  \A c \in Boards : Carried(c)'
    BY DEF GoInv
<1>2. \A c \in Boards : Carried(c)
    BY <1>1, StoppedKept DEF GoInv
<1>3. ASSUME NEW b \in Boards, NEW p \in DOMAIN calls[b], Dispatch(b, p)
      PROVE  \A c \in Boards : Carried(c)'
    BY <1>1, <1>2, <1>3, HandlerCarries
<1>4. ASSUME NEW b \in Boards, SwitchRole(b)
      PROVE  \A c \in Boards : Carried(c)'
    BY <1>1, <1>2, <1>4, SwitchCarries
<1>5. ASSUME NEW b \in Boards, AdvertisingExpires(b) \/ ScanExpires(b) \/ Report(b)
      PROVE  \A c \in Boards : Carried(c)'
    BY <1>2, <1>5, AirCarries
<1>6. ASSUME NEW b \in Boards, Established(b)
      PROVE  \A c \in Boards : Carried(c)'
    <2>1. link' \in Boards /\ NoLink \notin Boards
        BY <1>6, BoardsAssumption DEF Established, NoLink
    <2>2. QED
        BY <2>1 DEF Carried
<1>7. ASSUME NEW b \in Boards, NotEstablished(b)
      PROVE  FALSE
    BY <1>1, <1>7, FailsStops DEF NotEstablished
<1>8. ASSUME NEW b \in Boards, Reset(b)
      PROVE  \A c \in Boards : Carried(c)'
    BY <1>2, <1>8, ResetCarries
<1>9. CASE PairingAsked \/ PairingEnds
    BY <1>2, <1>9, PairingCarries
<1>10. CASE LinkLost
    BY <1>10, LinkEndsCarries DEF LinkLost, IInv, Carried
<1>11. ASSUME NEW b \in Boards, Rejected(b)
       PROVE  \A c \in Boards : Carried(c)'
    BY <1>2, <1>11, RejectedCarries
<1>12. CASE UNCHANGED vars
    BY <1>2, <1>12 DEF vars, objectVars, radioVars, linkVars, Carried, Active
<1>13. QED
    BY <1>3, <1>4, <1>5, <1>6, <1>7, <1>8, <1>9, <1>10, <1>11, <1>12 DEF Next

(* As long as the stack refuses nothing (main.cpp:490) and no connection   *)
(* fails (main.cpp:236), no board of the two ever stops: something is      *)
(* under way that restarts its role, ends it, or connects the board.       *)
THEOREM AlwaysGoesOn == Spec => []GoesOn
<1>1. Init => GoInv
    <2>1. ASSUME Init, NEW b \in Boards
          PROVE  Carried(b)
        BY <2>1 DEF Init, Carried, Active
    <2>2. QED
        BY <2>1 DEF GoInv
<1>2. IInv /\ GoInv /\ [Next]_vars => GoInv'
    BY NextCarries
<1>3. QED
    BY <1>1, <1>2, GoInvSuffices, InitInv, NextInv, PTL DEF Spec

-----------------------------------------------------------------------------
(* One thing at a time: as long as no scan timeout comes late, a board has *)
(* one activity, connection attempt, link or call that leads to the next   *)
(* one, and what its queue holds besides was posted before that call.      *)

Reports   == {c \in Waiting : c.cb = "onAdvertisingReport"}
Ended     == {c \in Waiting : c.cb = "onDisconnectionComplete"}
Failed    == {c \in Waiting : c.cb = "onConnectionComplete" /\ c.arg = FALSE}
Connected == {c \in Waiting : c.cb = "onConnectionComplete" /\ c.arg = TRUE}
Paired    == {c \in Waiting : c.cb = "pairingResult" /\ c.arg = TRUE}
Restarts  == {c \in Waiting : c.cb = "start" /\ c.delay = Delay}
Own       == {c \in Waiting : c.cb \in Disconnects /\ c.arg = "own"}
Old       == {c \in Waiting : c.cb \in Disconnects /\ c.arg = "old"}

(* What ends the role, what the link brings, and what is a board's turn.   *)
Breakers == {c \in Waiting : c.cb = "onScanTimeout" \/ (c.cb = "onAdvertisingEnd" /\ c.arg = FALSE)}
Outcomes == {c \in Waiting : c \in Connected \/ c.cb = "pairingResult"}
Steps    == {c \in Waiting : \/ c.cb \in {"on_init_complete", "start"}
                             \/ c \in Breakers \/ c \in Ended \/ c \in Failed}

InOrder(q) ==
    /\ AtMostOne(q, Steps)
    /\ Before(q, Reports, Steps)
    /\ Before(q, Outcomes, Ended)
    /\ Before(q, Old, Restarts)

LEMMA SetsApart ==
    /\ \A c \in Steps : c \notin Reports /\ c \notin Outcomes /\ c \notin Own /\ c \notin Old
    /\ \A c \in Reports : c \notin Outcomes /\ c \notin Own /\ c \notin Old
    /\ \A c \in Outcomes : c \notin Own /\ c \notin Old
    /\ \A c \in Ended : c \in Steps /\ c \notin Restarts /\ c \notin Breakers
    /\ \A c \in Restarts : c \in Steps /\ c \notin Breakers
    /\ \A c \in Breakers : c \in Steps
    /\ \A c \in Failed : c \in Steps /\ c \notin Restarts /\ c \notin Breakers /\ c \notin Ended
BY DEF Steps, Reports, Outcomes, Connected, Own, Old, Ended, Restarts, Breakers, Failed, Disconnects

LEMMA ServedOrder ==
    ASSUME NEW q \in Seq(Waiting), NEW p \in DOMAIN q, InOrder(q), Due(q, p)
    PROVE  /\ InOrder(RemoveAt(q, p))
           /\ q[p] \in Steps => ~Some(RemoveAt(q, p), Steps) /\ ~Some(RemoveAt(q, p), Reports)
           /\ q[p] \in Ended => ~Some(RemoveAt(q, p), Outcomes)
           /\ q[p] \in Restarts => ~Some(RemoveAt(q, p), Old)
<1>1. q[p] \in Waiting
    BY ServedIn
<1>2. InOrder(RemoveAt(q, p))
    BY ServedAtMostOne, ServedBefore DEF InOrder
<1>3. ASSUME q[p] \in Steps
      PROVE  ~Some(RemoveAt(q, p), Steps) /\ ~Some(RemoveAt(q, p), Reports)
    <2>1. ~Some(RemoveAt(q, p), Steps)
        BY <1>3, ServedSome DEF InOrder
    <2>2. q[p].delay \in Nat /\ \A c \in Waiting : c \in Reports => c.delay = 0
        BY <1>1 DEF Waiting, AnyCall, Reports, Disconnects
    <2>3. Before(q, Reports, Steps)
        BY DEF InOrder
    <2>4. QED
        BY <1>3, <2>1, <2>2, <2>3, ServedAfter
<1>4. ASSUME q[p] \in Ended
      PROVE  ~Some(RemoveAt(q, p), Outcomes)
    <2>1. q[p].delay \in Nat /\ \A c \in Waiting : c \in Outcomes => c.delay = 0
        BY <1>1 DEF Waiting, AnyCall, Outcomes, Connected, Disconnects
    <2>2. Before(q, Outcomes, Ended)
        BY DEF InOrder
    <2>3. QED
        BY <1>4, <2>1, <2>2, ServedAfter
<1>5. ASSUME q[p] \in Restarts
      PROVE  ~Some(RemoveAt(q, p), Old)
    <2>1. q[p].delay = Delay
        BY <1>5 DEF Restarts
    <2>2. Delay \in Nat /\ \A c \in Waiting : c \in Old => c.delay = Delay
        BY DEF Waiting, Old, Disconnects, Delay
    <2>3. \A c \in Waiting : c \in Old => c.delay \in Nat /\ c.delay <= q[p].delay
        BY <2>1, <2>2 DEF Delay
    <2>4. Before(q, Old, Restarts)
        BY DEF InOrder
    <2>5. QED
        BY <1>5, <2>1, <2>2, <2>3, <2>4, NotOvertaken
<1>6. QED
    BY <1>2, <1>3, <1>4, <1>5

LEMMA PostOrder ==
    ASSUME NEW q \in Seq(Waiting), NEW c \in Waiting, InOrder(q),
           c \in Steps => ~Some(q, Steps),
           c \in Reports => ~Some(q, Steps),
           c \in Outcomes => ~Some(q, Ended),
           c \in Old => ~Some(q, Restarts)
    PROVE  InOrder(post(q, c))
<1>1. AtMostOne(post(q, c), Steps)
    BY PostAtMostOne DEF InOrder
<1>2. Before(post(q, c), Reports, Steps)
    BY PostBefore, SetsApart DEF InOrder
<1>3. Before(post(q, c), Outcomes, Ended)
    BY PostBefore, SetsApart DEF InOrder
<1>4. Before(post(q, c), Old, Restarts)
    BY PostBefore, SetsApart DEF InOrder
<1>5. QED
    BY <1>1, <1>2, <1>3, <1>4 DEF InOrder

(* Ageing turns the own disconnections into old ones.                      *)
LEMMA AgedAt ==
    ASSUME NEW q \in Seq(Waiting)
    PROVE  /\ DOMAIN Aged(q) = DOMAIN q
           /\ \A i \in DOMAIN q : Aged(q)[i] = IF q[i] \in Own THEN [q[i] EXCEPT !.arg = "old"] ELSE q[i]
<1>1. \A i \in DOMAIN q : q[i] \in Waiting
    BY LenProperties, ElementOfSeq
<1>2. QED
    BY <1>1 DEF Aged, Own

LEMMA AgedAlike ==
    ASSUME NEW q \in Seq(Waiting), NEW S, \A c \in Own : c \in S <=> [c EXCEPT !.arg = "old"] \in S
    PROVE  /\ Some(Aged(q), S) <=> Some(q, S)
           /\ AtMostOne(q, S) => AtMostOne(Aged(q), S)
           /\ \A i \in DOMAIN q : Aged(q)[i] \in S <=> q[i] \in S
<1>1. ASSUME NEW i \in DOMAIN q
      PROVE  Aged(q)[i] \in S <=> q[i] \in S
    <2>1. CASE q[i] \in Own
        <3>1. Aged(q)[i] = [q[i] EXCEPT !.arg = "old"]
            BY <2>1, AgedAt
        <3>2. QED
            BY <2>1, <3>1
    <2>2. CASE q[i] \notin Own
        BY <2>2, AgedAt
    <2>3. QED
        BY <2>1, <2>2
<1>2. QED
    BY <1>1, AgedAt DEF Some, AtMostOne

LEMMA AgedOwn ==
    /\ \A c \in Own : [c EXCEPT !.arg = "old"] \in Old /\ [c EXCEPT !.arg = "old"] \notin Own /\ c \notin Old
    /\ \A c \in Old : c \notin Own
<1>1. \A c \in Waiting : c.cb \in Disconnects => [c EXCEPT !.arg = "old"] \in Waiting
    BY Args DEF Waiting, AnyCall, Disconnects, Ages, Answers
<1>2. QED
    BY <1>1 DEF Own, Old, Waiting, AnyCall

LEMMA AgedOrder ==
    ASSUME NEW q \in Seq(Waiting), InOrder(q), ~Some(q, Restarts)
    PROVE  /\ InOrder(Aged(q))
           /\ Some(Aged(q), Steps) <=> Some(q, Steps)
           /\ Some(Aged(q), Reports) <=> Some(q, Reports)
           /\ Some(Aged(q), Outcomes) <=> Some(q, Outcomes)
           /\ Some(Aged(q), Ended) <=> Some(q, Ended)
           /\ Some(Aged(q), Breakers) <=> Some(q, Breakers)
           /\ ~Some(Aged(q), Own)
           /\ Some(Aged(q), Old) <=> Some(q, Own) \/ Some(q, Old)
<1>1. \A c \in Own : /\ c \notin Steps /\ [c EXCEPT !.arg = "old"] \notin Steps
                     /\ c \notin Reports /\ [c EXCEPT !.arg = "old"] \notin Reports
                     /\ c \notin Outcomes /\ [c EXCEPT !.arg = "old"] \notin Outcomes
                     /\ c \notin Ended /\ [c EXCEPT !.arg = "old"] \notin Ended
                     /\ c \notin Restarts /\ [c EXCEPT !.arg = "old"] \notin Restarts
                     /\ c \notin Breakers /\ [c EXCEPT !.arg = "old"] \notin Breakers
    BY AgedOwn, SetsApart
<1>2. /\ Some(Aged(q), Steps) <=> Some(q, Steps)
      /\ AtMostOne(Aged(q), Steps)
      /\ \A i \in DOMAIN q : Aged(q)[i] \in Steps <=> q[i] \in Steps
    BY <1>1, AgedAlike DEF InOrder
<1>3. /\ Some(Aged(q), Reports) <=> Some(q, Reports)
      /\ \A i \in DOMAIN q : Aged(q)[i] \in Reports <=> q[i] \in Reports
    BY <1>1, AgedAlike
<1>4. /\ Some(Aged(q), Outcomes) <=> Some(q, Outcomes)
      /\ \A i \in DOMAIN q : Aged(q)[i] \in Outcomes <=> q[i] \in Outcomes
    BY <1>1, AgedAlike
<1>5. /\ Some(Aged(q), Ended) <=> Some(q, Ended)
      /\ \A i \in DOMAIN q : Aged(q)[i] \in Ended <=> q[i] \in Ended
    BY <1>1, AgedAlike
<1>6. Some(Aged(q), Breakers) <=> Some(q, Breakers)
    BY <1>1, AgedAlike
<1>7. Some(Aged(q), Restarts) <=> Some(q, Restarts)
    BY <1>1, AgedAlike
<1>8. DOMAIN Aged(q) = DOMAIN q
    BY AgedAt
<1>9. Before(Aged(q), Reports, Steps)
    BY <1>2, <1>3, <1>8 DEF InOrder, Before
<1>10. Before(Aged(q), Outcomes, Ended)
    BY <1>4, <1>5, <1>8 DEF InOrder, Before
<1>11. Before(Aged(q), Old, Restarts)
    BY <1>7 DEF Before, Some
<1>12. ~Some(Aged(q), Own)
    BY AgedAt, AgedOwn DEF Some
<1>13. Some(Aged(q), Old) <=> Some(q, Own) \/ Some(q, Old)
    BY AgedAt, AgedOwn DEF Some
<1>14. QED
    BY <1>2, <1>3, <1>4, <1>5, <1>6, <1>9, <1>10, <1>11, <1>12, <1>13 DEF InOrder

(* At most one of six.                                                     *)
OneOf(s, a, i, k, l, c) ==
    /\ s => ~a /\ ~i /\ ~k /\ ~l /\ ~c
    /\ a => ~i /\ ~k /\ ~l /\ ~c
    /\ i => ~k /\ ~l /\ ~c
    /\ k => ~l /\ ~c
    /\ l => ~c

(* Nothing is under way at b, or not yet: no radio activity and no link.   *)
Still(b) == scanner[b] = "off" /\ adv[b] = "off" /\ ~initiating[b] /\ link = NoLink

(* The turn of b, if its queue were q: what is under way is alone; reports *)
(* are ignored, or find nothing else under way; what a link brings comes   *)
(* before its end is handled; the radio of an object that has bonded is    *)
(* never timed; and an old disconnection waits before its next start.      *)
InTurn(b, q) ==
    /\ InOrder(q)
    /\ OneOf(scanner[b] # "off", adv[b] # "off", initiating[b], breaking[b], link # NoLink, Some(q, Steps))
    /\ Some(q, Reports) =>
          /\ ~breaking[b]
          /\ \/ role[b] = "peripheral" \/ is_connecting[b]
             \/ adv[b] = "off" /\ ~initiating[b] /\ link = NoLink /\ ~Some(q, Steps)
    /\ Some(q, Outcomes) => link # NoLink \/ Some(q, Ended)
    /\ bonded[b] => scanner[b] # "timed" /\ adv[b] # "timed" /\ ~breaking[b] /\ ~Some(q, Breakers)
    /\ Some(q, Own) => bonded[b] /\ link # NoLink
    /\ Some(q, Old) =>
          /\ bonded[b]
          /\ \/ Some(q, Ended) \/ Some(q, Restarts)
             \/ Still(b) /\ ~breaking[b] /\ ~Some(q, Steps) /\ ~Some(q, Reports)

Orderly(b) == InTurn(b, calls[b])

(* Nothing is left under way in q but old disconnections.                  *)
Clear(q) ==
    /\ InOrder(q) /\ ~Some(q, Steps) /\ ~Some(q, Reports) /\ ~Some(q, Outcomes) /\ ~Some(q, Own)

LEMMA SubsetsSome ==
    ASSUME NEW q
    PROVE  /\ Some(q, Ended) => Some(q, Steps)
           /\ Some(q, Restarts) => Some(q, Steps)
           /\ Some(q, Breakers) => Some(q, Steps)
           /\ AtMostOne(q, Steps) => ~(Some(q, Ended) /\ Some(q, Breakers))
           /\ AtMostOne(q, Steps) => ~(Some(q, Ended) /\ Some(q, Restarts))
BY SetsApart DEF Some, AtMostOne

(* The rest of the queue when a call that is no step of b was served.      *)
LEMMA ServedTurn ==
    ASSUME NEW b \in Boards, calls[b] \in Seq(Waiting), NEW p \in DOMAIN calls[b], Due(calls[b], p),
           Orderly(b), calls[b][p] \notin Steps
    PROVE  InTurn(b, RemoveAt(calls[b], p))
<1> DEFINE q == RemoveAt(calls[b], p)
<1>1. InOrder(q)
    BY ServedOrder DEF Orderly, InTurn
<1>2. calls[b][p] \notin Ended /\ calls[b][p] \notin Restarts
    BY SetsApart
<1>3. /\ Some(q, Steps) <=> Some(calls[b], Steps)
      /\ Some(q, Ended) <=> Some(calls[b], Ended)
      /\ Some(q, Restarts) <=> Some(calls[b], Restarts)
    BY <1>2, ServedSome
<1>4. /\ Some(q, Reports) => Some(calls[b], Reports)
      /\ Some(q, Outcomes) => Some(calls[b], Outcomes)
      /\ Some(q, Breakers) => Some(calls[b], Breakers)
      /\ Some(q, Own) => Some(calls[b], Own)
      /\ Some(q, Old) => Some(calls[b], Old)
    BY ServedSome
<1> HIDE DEF q
<1>5. InTurn(b, q)
    BY <1>1, <1>3, <1>4 DEF Orderly, InTurn, OneOf
<1>6. QED
    BY <1>5 DEF q

(* The rest when a step of b was served: nothing else is under way.        *)
LEMMA ServedStep ==
    ASSUME NEW b \in Boards, calls[b] \in Seq(Waiting), NEW p \in DOMAIN calls[b], Due(calls[b], p),
           Orderly(b), calls[b][p] \in Steps
    PROVE  /\ Clear(RemoveAt(calls[b], p)) /\ Still(b) /\ ~breaking[b]
           /\ Some(RemoveAt(calls[b], p), Old) => bonded[b] /\ calls[b][p] \in Ended
           /\ bonded[b] => calls[b][p] \notin Breakers
<1> DEFINE q == RemoveAt(calls[b], p)
<1>1. /\ InOrder(q) /\ ~Some(q, Steps) /\ ~Some(q, Reports)
      /\ calls[b][p] \in Ended => ~Some(q, Outcomes)
      /\ calls[b][p] \in Restarts => ~Some(q, Old)
    BY ServedOrder DEF Orderly, InTurn
<1>2. Some(calls[b], Steps)
    BY DEF Some
<1>3. Still(b) /\ ~breaking[b]
    BY <1>2 DEF Orderly, InTurn, OneOf, Still
<1>4. /\ Some(q, Outcomes) => Some(calls[b], Outcomes)
      /\ Some(q, Own) => Some(calls[b], Own)
      /\ Some(q, Old) => Some(calls[b], Old)
      /\ calls[b][p] \notin Ended => (Some(calls[b], Ended) => Some(q, Ended))
      /\ calls[b][p] \notin Restarts => (Some(calls[b], Restarts) => Some(q, Restarts))
    BY ServedSome
<1>5. calls[b][p] \in Breakers => Some(calls[b], Breakers)
    BY DEF Some
<1>6. ~Some(q, Ended) /\ ~Some(q, Restarts)
    BY <1>1, SubsetsSome
<1> HIDE DEF q
<1>7. ~Some(q, Own)
    BY <1>3, <1>4 DEF Orderly, InTurn, Still
<1>8. ~Some(q, Outcomes)
    BY <1>1, <1>3, <1>4, <1>6 DEF Orderly, InTurn, Still
<1>9. Some(q, Old) => bonded[b] /\ calls[b][p] \in Ended
    BY <1>1, <1>2, <1>4, <1>6 DEF Orderly, InTurn
<1>10. bonded[b] => calls[b][p] \notin Breakers
    BY <1>5 DEF Orderly, InTurn
<1>11. QED
    BY <1>1, <1>3, <1>7, <1>8, <1>9, <1>10 DEF Clear, q

(* The same when the loop breaks: an object that has bonded never does.    *)
LEMMA BreakingClear ==
    ASSUME NEW b \in Boards, Orderly(b), breaking[b]
    PROVE  Clear(calls[b]) /\ Still(b) /\ ~bonded[b] /\ ~Some(calls[b], Old)
BY SubsetsSome DEF Orderly, InTurn, OneOf, Still, Clear

(* Nobody is concerned but b.                                              *)
Same(c) ==
    /\ calls'[c] = calls[c] /\ role'[c] = role[c] /\ bonded'[c] = bonded[c]
    /\ is_connecting'[c] = is_connecting[c] /\ breaking'[c] = breaking[c]
    /\ scanner'[c] = scanner[c] /\ adv'[c] = adv[c] /\ initiating'[c] = initiating[c]
    /\ link' = link

LEMMA SameOrderly == ASSUME NEW c \in Boards, Same(c), Orderly(c) PROVE Orderly(c)'
BY DEF Same, Orderly, InTurn, OneOf, Still

(* A board that was linked has the end of the link to handle.              *)
LEMMA EndedTurn ==
    ASSUME NEW b \in Boards, NEW q \in Seq(Waiting), InTurn(b, q), link # NoLink,
           calls'[b] = post(Aged(q), Call("onDisconnectionComplete", 0, 0)), link' = NoLink,
           role'[b] = role[b], bonded'[b] = bonded[b], is_connecting'[b] = is_connecting[b],
           breaking'[b] = breaking[b], scanner'[b] = scanner[b], adv'[b] = adv[b],
           initiating'[b] = initiating[b]
    PROVE  Orderly(b)'
<1> DEFINE event == Call("onDisconnectionComplete", 0, 0)
           a == Aged(q)
<1>1. event \in Ended
    BY EventWaits, Args DEF Names, Answers, Disconnects, Ended, Call
<1>2. /\ event \in Waiting /\ event \in Steps
      /\ event \notin Reports /\ event \notin Outcomes /\ event \notin Own /\ event \notin Old
      /\ event \notin Restarts /\ event \notin Breakers
    BY <1>1, SetsApart DEF Ended
<1> HIDE DEF event
<1>3. ~Some(q, Steps) /\ ~Some(q, Ended) /\ ~Some(q, Restarts) /\ ~Some(q, Breakers)
      /\ ~breaking[b] /\ scanner[b] = "off" /\ adv[b] = "off" /\ ~initiating[b]
    BY SubsetsSome DEF InTurn, OneOf
<1>4. a \in Seq(Waiting)
    BY AgedWaits
<1>5. /\ InOrder(a) /\ ~Some(a, Steps)
      /\ Some(a, Reports) <=> Some(q, Reports)
      /\ ~Some(a, Breakers) /\ ~Some(a, Own)
      /\ Some(a, Old) <=> Some(q, Own) \/ Some(q, Old)
    BY <1>3, AgedOrder DEF InTurn
<1> HIDE DEF a
<1>6. calls'[b] = post(a, event)
    BY DEF a, event
<1>7. InOrder(calls'[b])
    BY <1>2, <1>4, <1>5, <1>6, PostOrder
<1>8. /\ Some(calls'[b], Steps) /\ Some(calls'[b], Ended)
      /\ Some(calls'[b], Reports) <=> Some(q, Reports)
      /\ ~Some(calls'[b], Breakers) /\ ~Some(calls'[b], Own)
      /\ Some(calls'[b], Old) <=> Some(q, Own) \/ Some(q, Old)
    BY <1>1, <1>2, <1>4, <1>5, <1>6, PostSome
<1>9. QED
    BY <1>3, <1>7, <1>8 DEF Orderly, InTurn, OneOf

LEMMA LinkEndsTurn ==
    ASSUME NEW queues \in Queues, LinkEnds(queues), link # NoLink,
           UNCHANGED <<role, bonded, is_connecting, breaking, radioVars>>,
           NEW b \in Boards, InTurn(b, queues[b])
    PROVE  Orderly(b)'
<1>1. queues[b] \in Seq(Waiting) /\ link' = NoLink
      /\ calls'[b] = post(Aged(queues[b]), Call("onDisconnectionComplete", 0, 0))
    BY DEF LinkEnds, Queues
<1>2. QED
    BY <1>1, EndedTurn DEF radioVars

LEMMA HereOrderly ==
    ASSUME NEW b \in Boards, Orderly(b)', \A c \in Boards : c # b => Same(c),
           \A c \in Boards : Orderly(c)
    PROVE  \A c \in Boards : Orderly(c)'
BY SameOrderly

(* The queues of a handler that leaves q to b and ends no link.            *)
LEMMA LeavesHere ==
    ASSUME IInv, NEW b \in Boards, NEW q, Leaves(b, q)
    PROVE  calls'[b] = q /\ \A c \in Boards : c # b => calls'[c] = calls[c]
BY DEF Leaves, IInv, Queues

(* A role starts where nothing is under way.                               *)
LEMMA StartOrderly ==
    ASSUME IInv, NEW b \in Boards, NEW q, Clear(q), ~Some(q, Old), Still(b), Leaves(b, q),
           NEW r, NEW known, start(b, r, known), bonded'[b] => known, ~breaking'[b],
           UNCHANGED <<initiating, link>>
    PROVE  /\ Orderly(b)'
           /\ \A c \in Boards : c # b => scanner'[c] = scanner[c] /\ adv'[c] = adv[c]
<1>1. scanner \in [Boards -> {"off", "timed", "endless"}] /\ adv \in [Boards -> {"off", "timed", "endless"}]
    BY DEF IInv, Typed, RadioTyped
<1>2. /\ scanner'[b] = "off" \/ adv'[b] = "off"
      /\ known => scanner'[b] # "timed" /\ adv'[b] # "timed"
      /\ \A c \in Boards : c # b => scanner'[c] = scanner[c] /\ adv'[c] = adv[c]
    BY <1>1 DEF start, start_advertising, start_scanning, Still
<1>3. calls'[b] = q
    BY LeavesHere
<1>4. ~Some(q, Breakers)
    BY SubsetsSome DEF Clear
<1>5. Orderly(b)'
    BY <1>2, <1>3, <1>4 DEF Orderly, InTurn, OneOf, Clear, Still
<1>6. QED
    BY <1>2, <1>5

(* What follows a step of b that posts no other.                           *)
LEMMA EndsOrderly ==
    ASSUME NEW b \in Boards, NEW q, Clear(q), Still(b), calls'[b] = q,
           UNCHANGED <<radioVars, link>>, Some(q, Old) => bonded'[b] /\ ~breaking'[b],
           ~(bonded'[b] /\ breaking'[b])
    PROVE  Orderly(b)'
<1>1. ~Some(q, Breakers) /\ ~Some(q, Ended) /\ ~Some(q, Restarts)
    BY SubsetsSome DEF Clear
<1>2. QED
    BY <1>1 DEF Orderly, InTurn, OneOf, Clear, Still, radioVars

(* A step of b posts the next one.                                         *)
LEMMA NextStepOrderly ==
    ASSUME NEW b \in Boards, NEW q \in Seq(Waiting), Clear(q), Still(b), ~breaking'[b],
           NEW c \in Steps, c \notin Breakers, calls'[b] = post(q, c), UNCHANGED <<radioVars, link>>,
           Some(q, Old) => bonded'[b] /\ c \in Restarts
    PROVE  Orderly(b)'
<1>1. c \in Waiting /\ c \notin Reports /\ c \notin Outcomes /\ c \notin Own /\ c \notin Old
    BY SetsApart DEF Steps
<1>2. InOrder(calls'[b])
    BY <1>1, PostOrder DEF Clear
<1>3. ~Some(q, Breakers)
    BY SubsetsSome DEF Clear
<1>4. /\ Some(calls'[b], Steps) /\ ~Some(calls'[b], Reports) /\ ~Some(calls'[b], Outcomes)
      /\ ~Some(calls'[b], Breakers) /\ ~Some(calls'[b], Own)
      /\ Some(calls'[b], Old) => Some(q, Old)
      /\ c \in Restarts => Some(calls'[b], Restarts)
    BY <1>1, <1>3, PostSome DEF Clear
<1>5. QED
    BY <1>2, <1>4 DEF Orderly, InTurn, OneOf, Still, radioVars

(* A disconnection is posted by an object that has bonded, or has failed:  *)
(* for the link that is up, or before the handling of its end.             *)
LEMMA DisconnectOrderly ==
    ASSUME NEW b \in Boards, NEW q \in Seq(Waiting), InTurn(b, q), NEW cb \in Disconnects, NEW known,
           calls'[b] = post(q, Disconnect(cb, known)), UNCHANGED <<radioVars, link, role, is_connecting, breaking>>,
           bonded[b] => bonded'[b], known => bonded'[b],
           ~bonded[b] /\ bonded'[b] => link # NoLink \/ Some(q, Ended),
           known /\ link = NoLink =>
               Some(q, Ended) \/ (Still(b) /\ ~breaking[b] /\ ~Some(q, Steps) /\ ~Some(q, Reports))
    PROVE  Orderly(b)'
<1> DEFINE c == Disconnect(cb, known)
<1>1. c \in Waiting
    BY DisconnectWaits
<1>2. c.cb \in Disconnects /\ c.arg = (IF ~known THEN "failed" ELSE IF link = NoLink THEN "old" ELSE "own")
    BY DEF Disconnect, Call
<1> HIDE DEF c
<1>3. /\ c \notin Steps /\ c \notin Reports /\ c \notin Outcomes /\ c \notin Breakers
      /\ c \notin Ended /\ c \notin Restarts
      /\ c \in Own => known /\ link # NoLink
      /\ c \in Old => known /\ link = NoLink
    BY <1>2 DEF Steps, Reports, Outcomes, Connected, Breakers, Ended, Failed, Restarts, Own, Old, Disconnects
<1>4. calls'[b] = post(q, c)
    BY DEF c
<1>5. Some(q, Ended) => ~Some(q, Restarts) /\ ~Some(q, Breakers) /\ Some(q, Steps)
    BY SubsetsSome DEF InTurn, InOrder
<1>6. InOrder(calls'[b])
    <2>1. c \in Old => ~Some(q, Restarts)
        BY <1>3, <1>5, SubsetsSome
    <2>2. QED
        BY <1>1, <1>3, <1>4, <2>1, PostOrder DEF InTurn
<1>7. /\ Some(calls'[b], Steps) <=> Some(q, Steps)
      /\ Some(calls'[b], Reports) <=> Some(q, Reports)
      /\ Some(calls'[b], Outcomes) <=> Some(q, Outcomes)
      /\ Some(calls'[b], Breakers) <=> Some(q, Breakers)
      /\ Some(calls'[b], Ended) <=> Some(q, Ended)
      /\ Some(calls'[b], Restarts) <=> Some(q, Restarts)
      /\ Some(calls'[b], Own) <=> Some(q, Own) \/ c \in Own
      /\ Some(calls'[b], Old) <=> Some(q, Old) \/ c \in Old
    BY <1>3, <1>4, PostSome
<1>8. link # NoLink => ~Some(q, Steps) /\ ~Some(q, Breakers)
    BY SubsetsSome DEF InTurn, OneOf
<1>9. link # NoLink \/ Some(q, Ended) => scanner[b] = "off" /\ adv[b] = "off" /\ ~breaking[b] /\ ~Some(q, Breakers)
    BY <1>5, <1>8 DEF InTurn, OneOf
<1>10. QED
    BY <1>3, <1>5, <1>6, <1>7, <1>9 DEF Orderly, InTurn, OneOf, Still, radioVars

LEMMA ClearTurn ==
    ASSUME NEW b \in Boards, NEW q, Clear(q), Still(b), ~breaking[b], ~Some(q, Old)
    PROVE  InTurn(b, q)
BY SubsetsSome DEF InTurn, OneOf, Clear, Still

LEMMA HandlerOrderly ==
    ASSUME IInv, NEW b \in Boards, NEW p \in DOMAIN calls[b], Dispatch(b, p), \A c \in Boards : Orderly(c)
    PROVE  \A c \in Boards : Orderly(c)'
<1> DEFINE q == RemoveAt(calls[b], p)
           c == calls[b][p]
<1>1. calls[b] \in Seq(Waiting) /\ Due(calls[b], p)
    BY DEF IInv, Queues, Dispatch
<1>2. q \in Seq(Waiting) /\ c \in Waiting /\ [calls EXCEPT ![b] = q] \in Queues
    <2>1. q \in Seq(Waiting) /\ c \in Waiting
        BY <1>1, ServedIn
    <2>2. QED
        BY <2>1 DEF IInv, Queues
<1>3. c \notin Steps => InTurn(b, q)
    BY <1>1, ServedTurn
<1>4. c \in Steps => /\ Clear(q) /\ Still(b) /\ ~breaking[b] /\ (Some(q, Old) => bonded[b] /\ c \in Ended)
                     /\ (bonded[b] => c \notin Breakers)
    BY <1>1, ServedStep
<1>5. \A d \in Boards : d # b => [calls EXCEPT ![b] = q][d] = calls[d]
    BY DEF IInv, Queues
<1>6. [calls EXCEPT ![b] = q][b] = q
    BY DEF IInv, Queues
<1> HIDE DEF q
<1>7. \A left : Leaves(b, left) => calls'[b] = left /\ \A d \in Boards : d # b => calls'[d] = calls[d]
    BY LeavesHere
<1>8. /\ scanner \in [Boards -> {"off", "timed", "endless"}] /\ adv \in [Boards -> {"off", "timed", "endless"}]
      /\ initiating \in [Boards -> BOOLEAN] /\ breaking \in [Boards -> BOOLEAN]
      /\ bonded \in [Boards -> BOOLEAN] /\ is_connecting \in [Boards -> BOOLEAN]
      /\ role \in [Boards -> {"peripheral", "central"}]
    BY DEF IInv, Typed, ObjectsTyped, RadioTyped
<1>9. CASE c.cb = "on_init_complete" /\ on_init_complete(b, q)
    <2>1. UNCHANGED <<role, bonded, is_connecting, breaking, radioVars, link>>
        BY <1>9 DEF on_init_complete, linkVars
    <2>2. c \in Steps /\ c \notin Ended
        BY <1>2, <1>9 DEF Steps, Ended
    <2>3. Call("start", 0, 0) \in Steps /\ Call("start", 0, 0) \notin Breakers
        BY CarrierCalls DEF Carriers, Steps, Breakers, Call
    <2>4. CASE Leaves(b, post(q, Call("start", 0, 0)))
        <3>1. Orderly(b)'
            BY <1>2, <1>4, <1>7, <2>1, <2>2, <2>3, <2>4, NextStepOrderly
        <3>2. QED
            BY <1>7, <2>1, <2>4, <3>1, HereOrderly DEF Same, radioVars
    <2>5. CASE Leaves(b, q)
        <3>1. Orderly(b)'
            BY <1>4, <1>7, <2>1, <2>2, <2>5, EndsOrderly
        <3>2. QED
            BY <1>7, <2>1, <2>5, <3>1, HereOrderly DEF Same, radioVars
    <2>6. QED
        BY <1>9, <2>4, <2>5 DEF on_init_complete
<1>10. CASE c.cb = "start" /\ startAgain(b, q)
    <2>1. Leaves(b, q) /\ start(b, role[b], bonded[b]) /\ UNCHANGED <<role, bonded, breaking, initiating, link>>
        BY <1>10 DEF startAgain, linkVars
    <2>2. c \in Steps /\ c \notin Ended
        BY <1>2, <1>10 DEF Steps, Ended
    <2>3. /\ Orderly(b)'
          /\ \A d \in Boards : d # b => scanner'[d] = scanner[d] /\ adv'[d] = adv[d]
        BY <1>4, <2>1, <2>2, StartOrderly
    <2>4. \A d \in Boards : d # b => is_connecting'[d] = is_connecting[d]
        BY <1>8, <1>10 DEF startAgain
    <2>5. QED
        BY <1>7, <2>1, <2>3, <2>4, HereOrderly DEF Same
<1>11. CASE \E valid : disconnect(b, q, valid) /\ c.cb \in Disconnects
    <2>1. UNCHANGED <<role, bonded, is_connecting, breaking, radioVars>>
        BY <1>11 DEF disconnect, objectVars
    <2>2. InTurn(b, q)
        BY <1>3, <1>11 DEF Steps, Breakers, Ended, Failed, Disconnects
    <2>3. CASE LinkEnds([calls EXCEPT ![b] = q]) /\ link # NoLink
        <3>1. \A d \in Boards : InTurn(d, [calls EXCEPT ![b] = q][d])
            BY <1>5, <1>6, <2>2 DEF Orderly
        <3>2. QED
            BY <1>2, <2>1, <2>3, <3>1, LinkEndsTurn
    <2>4. CASE Leaves(b, q) /\ UNCHANGED linkVars
        <3>1. Orderly(b)'
            BY <1>7, <2>1, <2>2, <2>4 DEF Orderly, InTurn, Still, radioVars, linkVars
        <3>2. QED
            BY <1>7, <2>1, <2>4, <3>1, HereOrderly DEF Same, radioVars, linkVars
    <2>5. QED
        BY <1>11, <2>3, <2>4 DEF disconnect
<1>12. CASE c.cb = "onAdvertisingReport" /\ onAdvertisingReport(b, q)
    <2>1. Leaves(b, q) /\ UNCHANGED <<role, bonded, breaking, adv, link>>
        BY <1>12 DEF onAdvertisingReport, linkVars
    <2>2. InTurn(b, q)
        BY <1>3, <1>12 DEF Steps, Breakers, Ended, Failed
    <2>3. \A d \in Boards : d # b => /\ scanner'[d] = scanner[d] /\ initiating'[d] = initiating[d]
                                     /\ is_connecting'[d] = is_connecting[d]
        BY <1>8, <1>12 DEF onAdvertisingReport
    <2>4. Some(calls[b], Reports)
        BY <1>2, <1>12 DEF Some, Reports
    <2>5. Some(q, Steps) <=> Some(calls[b], Steps)
        <3>1. c \notin Steps
            BY <1>12 DEF Steps, Breakers, Ended, Failed
        <3>2. QED
            BY <1>1, <3>1, ServedSome DEF q
    <2>6. CASE UNCHANGED <<scanner, initiating, is_connecting>>
        BY <1>7, <2>1, <2>2, <2>6, HereOrderly DEF Same, Orderly, InTurn, OneOf, Still
    <2>7. CASE /\ role[b] = "central" /\ ~is_connecting[b] /\ scanner'[b] = "off"
               /\ UNCHANGED <<initiating, is_connecting>> \/ (initiating'[b] /\ is_connecting'[b])
        <3>1. ~breaking[b] /\ adv[b] = "off" /\ ~initiating[b] /\ link = NoLink /\ ~Some(q, Steps)
            BY <2>4, <2>5, <2>7 DEF Orderly, InTurn
        <3>2. ~Some(q, Restarts) /\ ~Some(q, Ended) /\ ~Some(q, Breakers)
            BY <3>1, SubsetsSome
        <3>3. ~Some(q, Old)
            <4>1. ~Some(calls[b], Ended) /\ ~Some(calls[b], Restarts)
                BY <2>5, <3>1, SubsetsSome
            <4>2. ~Some(calls[b], Old)
                BY <2>4, <4>1 DEF Orderly, InTurn
            <4>3. QED
                BY <1>1, <4>2, ServedSome DEF q
        <3>4. Orderly(b)'
            BY <1>7, <2>1, <2>2, <2>7, <3>1, <3>2, <3>3 DEF Orderly, InTurn, OneOf, Still
        <3>5. QED
            BY <1>7, <2>1, <2>3, <3>4, HereOrderly DEF Same
    <2>8. QED
        BY <1>8, <1>12, <2>6, <2>7 DEF onAdvertisingReport
<1>13. CASE \/ c.cb = "onScanTimeout" /\ onScanTimeout(b, q)
            \/ c.cb = "onAdvertisingEnd" /\ c.arg = FALSE /\ onAdvertisingEnd(b, q, c.arg)
    <2>1. Leaves(b, q) /\ break_dispatch(b) /\ UNCHANGED <<role, bonded, is_connecting, radioVars, link>>
        BY <1>13 DEF onScanTimeout, onAdvertisingEnd, linkVars
    <2>2. c \in Breakers
        BY <1>2, <1>13 DEF Breakers
    <2>3. c \in Steps /\ c \notin Ended
        BY <2>2, SetsApart
    <2>4. \A d \in Boards : d # b => breaking'[d] = breaking[d]
        BY <1>8, <2>1 DEF break_dispatch
    <2>5. Orderly(b)'
        BY <1>4, <1>7, <2>1, <2>2, <2>3, EndsOrderly
    <2>6. QED
        BY <1>7, <2>1, <2>4, <2>5, HereOrderly DEF Same, radioVars
<1>14. CASE \/ c.cb = "onAdvertisingEnd" /\ c.arg = TRUE /\ onAdvertisingEnd(b, q, c.arg)
            \/ c.cb = "pairingRequest" /\ pairingRequest(b, q)
    <2>1. Leaves(b, q) /\ UNCHANGED <<role, bonded, is_connecting, breaking, radioVars, link>>
        BY <1>14 DEF onAdvertisingEnd, pairingRequest, objectVars, linkVars
    <2>2. InTurn(b, q)
        BY <1>3, <1>14 DEF Steps, Breakers, Ended, Failed
    <2>3. QED
        BY <1>7, <2>1, <2>2, HereOrderly DEF Same, Orderly, InTurn, Still, radioVars
<1>15. CASE c.cb = "onConnectionComplete" /\ onConnectionComplete(b, q, c.arg)
    <2>1. UNCHANGED <<role, bonded, is_connecting, breaking, radioVars>>
        BY <1>15 DEF onConnectionComplete
    <2>2. c.arg \in BOOLEAN
        BY <1>2, <1>15 DEF Waiting, Answers
    <2>3. InTurn(b, q)
        <3>1. c \in Failed \/ c \notin Steps
            BY <1>2, <1>15 DEF Failed, Steps, Breakers, Ended
        <3>2. QED
            BY <1>3, <1>4, <3>1, ClearTurn, SetsApart
    <2>4. CASE bonded[b] /\ Leaves(b, post(q, Disconnect("disconnect_current", TRUE))) /\ UNCHANGED linkVars
        <3>1. link = NoLink => Some(q, Ended) \/ (Still(b) /\ ~breaking[b] /\ ~Some(q, Steps) /\ ~Some(q, Reports))
            <4>1. CASE c \in Steps
                BY <1>4, <4>1 DEF Clear
            <4>2. CASE c \notin Steps
                <5>1. c \in Outcomes /\ c \notin Ended
                    BY <1>2, <1>15, <2>2, <4>2 DEF Outcomes, Connected, Failed, Steps, Ended
                <5>2. Some(calls[b], Outcomes)
                    BY <5>1 DEF Some
                <5>3. link = NoLink => Some(calls[b], Ended)
                    BY <5>2 DEF Orderly, InTurn
                <5>4. QED
                    BY <1>1, <5>1, <5>3, ServedSome DEF q
            <4>3. QED
                BY <4>1, <4>2
        <3>2. Orderly(b)'
            BY <1>2, <1>7, <2>1, <2>3, <2>4, <3>1, DisconnectOrderly DEF linkVars, Disconnects
        <3>3. QED
            BY <1>7, <2>1, <2>4, <3>2, HereOrderly DEF Same, radioVars, linkVars
    <2>5. CASE LinkEnds([calls EXCEPT ![b] = q]) /\ link # NoLink
        <3>1. \A d \in Boards : InTurn(d, [calls EXCEPT ![b] = q][d])
            BY <1>5, <1>6, <2>3 DEF Orderly
        <3>2. QED
            BY <1>2, <2>1, <2>5, <3>1, LinkEndsTurn
    <2>6. CASE Leaves(b, q) /\ UNCHANGED link
        BY <1>7, <2>1, <2>3, <2>6, HereOrderly DEF Same, Orderly, InTurn, Still, radioVars
    <2>7. QED
        BY <1>15, <2>4, <2>5, <2>6 DEF onConnectionComplete, linkVars
<1>16. CASE c.cb = "pairingResult" /\ pairingResult(b, q, c.arg)
    <2>1. /\ Leaves(b, post(q, Disconnect("disconnect", bonded'[b])))
          /\ UNCHANGED <<role, is_connecting, breaking, radioVars, link>>
          /\ bonded' = [bonded EXCEPT ![b] = @ \/ (c.arg /\ reached(b))]
        BY <1>16 DEF pairingResult, linkVars
    <2>2. InTurn(b, q)
        BY <1>3, <1>16 DEF Steps, Breakers, Ended, Failed
    <2>3. (bonded[b] => bonded'[b]) /\ \A d \in Boards : d # b => bonded'[d] = bonded[d]
        BY <1>8, <2>1
    <2>4. link # NoLink \/ Some(q, Ended)
        <3>1. c \in Outcomes /\ c \notin Ended
            BY <1>2, <1>16 DEF Outcomes, Ended
        <3>2. Some(calls[b], Outcomes)
            BY <3>1 DEF Some
        <3>3. link # NoLink \/ Some(calls[b], Ended)
            BY <3>2 DEF Orderly, InTurn
        <3>4. QED
            BY <1>1, <3>1, <3>3, ServedSome DEF q
    <2>5. Orderly(b)'
        BY <1>2, <1>7, <2>1, <2>2, <2>3, <2>4, DisconnectOrderly DEF Disconnects
    <2>6. QED
        BY <1>7, <2>1, <2>3, <2>5, HereOrderly DEF Same, radioVars
<1>17. CASE c.cb = "onDisconnectionComplete" /\ onDisconnectionComplete(b, q)
    <2>1. /\ UNCHANGED <<role, bonded, is_connecting, radioVars, link>> /\ afterDisconnection(b, q)
        BY <1>17 DEF onDisconnectionComplete, linkVars
    <2>2. c \in Steps
        BY <1>2, <1>17 DEF Steps, Ended
    <2>3. CASE bonded[b] /\ Leaves(b, post(q, Call("start", 0, Delay))) /\ UNCHANGED breaking
        <3>1. Call("start", 0, Delay) \in Restarts
            BY CallWaits, Args DEF Restarts, Call, Names, Answers, Delay
        <3>2. Call("start", 0, Delay) \in Steps /\ Call("start", 0, Delay) \notin Breakers
            BY <3>1, SetsApart
        <3>3. Orderly(b)'
            BY <1>2, <1>4, <1>7, <2>1, <2>2, <2>3, <3>1, <3>2, NextStepOrderly
        <3>4. QED
            BY <1>7, <2>1, <2>3, <3>3, HereOrderly DEF Same, radioVars
    <2>4. CASE ~bonded[b] /\ Leaves(b, q) /\ break_dispatch(b)
        <3>1. \A d \in Boards : d # b => breaking'[d] = breaking[d]
            BY <1>8, <2>4 DEF break_dispatch
        <3>2. Orderly(b)'
            BY <1>4, <1>7, <2>1, <2>2, <2>4, EndsOrderly
        <3>3. QED
            BY <1>7, <2>1, <2>4, <3>1, <3>2, HereOrderly DEF Same, radioVars
    <2>5. QED
        BY <2>1, <2>3, <2>4 DEF afterDisconnection
<1>18. CASE c.cb = "onAdvertisingEnd" /\ c.arg \notin BOOLEAN
    BY <1>2, <1>18 DEF Waiting, Answers
<1>19. QED
    BY <1>9, <1>10, <1>11, <1>12, <1>13, <1>14, <1>15, <1>16, <1>17, <1>18 DEF Dispatch, q, Disconnects

LEMMA SwitchOrderly ==
    ASSUME IInv, NEW b \in Boards, SwitchRole(b), \A c \in Boards : Orderly(c)
    PROVE  \A c \in Boards : Orderly(c)'
<1>1. /\ calls[b] \in Seq(Waiting)
      /\ role \in [Boards -> {"peripheral", "central"}]
      /\ bonded \in [Boards -> BOOLEAN] /\ breaking \in [Boards -> BOOLEAN] /\ is_connecting \in [Boards -> BOOLEAN]
    BY DEF IInv, Typed, ObjectsTyped, Queues
<1>2. Clear(calls[b]) /\ Still(b) /\ ~Some(calls[b], Old)
    BY BreakingClear DEF SwitchRole
<1>3. /\ ~bonded'[b] /\ UNCHANGED <<initiating, link>>
      /\ \A d \in Boards : d # b => /\ breaking'[d] = breaking[d] /\ bonded'[d] = bonded[d]
                                    /\ role'[d] = role[d] /\ is_connecting'[d] = is_connecting[d]
    BY <1>1 DEF SwitchRole, run, linkVars
<1>4. run(b, calls[b], role'[b])
    BY DEF SwitchRole
<1>5. CASE /\ Leaves(b, post(calls[b], Call("on_init_complete", 0, 0)))
           /\ ~breaking'[b] /\ UNCHANGED <<scanner, adv, filters>>
    <2>1. Call("on_init_complete", 0, 0) \in Steps /\ Call("on_init_complete", 0, 0) \notin Breakers
        BY CarrierCalls DEF Carriers, Steps, Breakers, Call
    <2>2. Orderly(b)'
        BY <1>1, <1>2, <1>3, <1>5, <2>1, LeavesHere, NextStepOrderly DEF radioVars
    <2>3. QED
        BY <1>3, <1>5, <2>2, LeavesHere, HereOrderly DEF Same
<1>6. CASE Leaves(b, calls[b]) /\ ~breaking'[b] /\ start(b, role'[b], FALSE)
    <2>1. /\ Orderly(b)'
          /\ \A c \in Boards : c # b => scanner'[c] = scanner[c] /\ adv'[c] = adv[c]
        BY <1>2, <1>3, <1>6, StartOrderly
    <2>2. QED
        BY <1>3, <1>6, <2>1, LeavesHere, HereOrderly DEF Same
<1>7. CASE Leaves(b, calls[b]) /\ UNCHANGED <<breaking, scanner, adv, filters>>
    <2>1. Orderly(b)'
        BY <1>2, <1>3, <1>7, LeavesHere, EndsOrderly DEF radioVars
    <2>2. QED
        BY <1>3, <1>7, <2>1, LeavesHere, HereOrderly DEF Same
<1>8. QED
    BY <1>1, <1>4, <1>5, <1>6, <1>7 DEF run

(* What the stack of b posts when its activity ends: its next step.        *)
LEMMA StepPosted ==
    ASSUME NEW b \in Boards, calls[b] \in Seq(Waiting), Orderly(b), NEW c \in Steps,
           calls'[b] = post(calls[b], c), UNCHANGED <<role, bonded, is_connecting, breaking, link>>,
           scanner'[b] = "off", adv'[b] = "off", ~initiating'[b], ~breaking[b], link = NoLink,
           ~Some(calls[b], Steps), ~Some(calls[b], Old), c \in Breakers => ~bonded[b],
           Some(calls[b], Reports) => role[b] = "peripheral" \/ is_connecting[b]
    PROVE  Orderly(b)'
<1>1. c \in Waiting /\ c \notin Reports /\ c \notin Outcomes /\ c \notin Own /\ c \notin Old
    BY SetsApart DEF Steps
<1>2. InOrder(calls'[b])
    BY <1>1, PostOrder DEF Orderly, InTurn
<1>3. ~Some(calls[b], Ended) /\ ~Some(calls[b], Breakers)
    BY SubsetsSome
<1>4. /\ Some(calls'[b], Reports) <=> Some(calls[b], Reports)
      /\ Some(calls'[b], Outcomes) <=> Some(calls[b], Outcomes)
      /\ Some(calls'[b], Own) <=> Some(calls[b], Own)
      /\ ~Some(calls'[b], Old)
      /\ Some(calls'[b], Breakers) <=> c \in Breakers
    BY <1>1, <1>3, PostSome
<1>5. ~Some(calls'[b], Own) /\ ~Some(calls'[b], Outcomes)
    BY <1>3, <1>4 DEF Orderly, InTurn
<1>6. QED
    BY <1>2, <1>4, <1>5 DEF Orderly, InTurn, OneOf

LEMMA AirOrderly ==
    ASSUME IInv, NEW b \in Boards, \A c \in Boards : Orderly(c), ~Had({"late"})',
           AdvertisingExpires(b) \/ ScanExpires(b) \/ Report(b) \/ NotEstablished(b)
    PROVE  \A c \in Boards : Orderly(c)'
<1>1. calls[b] \in Seq(Waiting) /\ Orderly(b)
    BY DEF IInv, Queues
<1>2. /\ scanner \in [Boards -> {"off", "timed", "endless"}] /\ adv \in [Boards -> {"off", "timed", "endless"}]
      /\ initiating \in [Boards -> BOOLEAN]
    BY DEF IInv, Typed, RadioTyped
<1>3. \A cb, arg : Signal(b, cb, arg) =>
          calls'[b] = post(calls[b], Call(cb, arg, 0)) /\ \A d \in Boards : d # b => calls'[d] = calls[d]
    BY LeavesHere DEF Signal
<1>4. UNCHANGED <<role, bonded, is_connecting, breaking, link>>
    BY DEF AdvertisingExpires, ScanExpires, Report, NotEstablished, objectVars, linkVars
<1>5. scanner[b] # "off" \/ adv[b] # "off" \/ initiating[b] =>
          /\ ~breaking[b] /\ link = NoLink /\ ~Some(calls[b], Steps) /\ ~Some(calls[b], Old)
    BY <1>1, SubsetsSome DEF Orderly, InTurn, OneOf, Still
<1>6. CASE AdvertisingExpires(b)
    <2>1. adv[b] = "timed" /\ adv' = [adv EXCEPT ![b] = "off"] /\ UNCHANGED <<scanner, initiating>>
        BY <1>6 DEF AdvertisingExpires
    <2>2. calls'[b] = post(calls[b], Call("onAdvertisingEnd", FALSE, 0)) /\ Call("onAdvertisingEnd", FALSE, 0) \in Steps
        BY <1>3, <1>6, CarrierCalls DEF AdvertisingExpires, Carriers, Steps, Breakers, Call
    <2>3. ~bonded[b] /\ (Some(calls[b], Reports) => role[b] = "peripheral" \/ is_connecting[b])
          /\ scanner[b] = "off" /\ ~initiating[b]
        BY <1>1, <2>1 DEF Orderly, InTurn, OneOf
    <2>4. Orderly(b)'
        BY <1>1, <1>2, <1>4, <1>5, <2>1, <2>2, <2>3, StepPosted
    <2>5. QED
        BY <1>2, <1>3, <1>4, <1>6, <2>1, <2>4, HereOrderly DEF AdvertisingExpires, Same
<1>7. CASE ScanExpires(b)
    <2>1. scanner[b] = "timed" /\ scanner' = [scanner EXCEPT ![b] = "off"] /\ UNCHANGED <<adv, initiating>>
        BY <1>7 DEF ScanExpires
    <2>2. calls'[b] = post(calls[b], Call("onScanTimeout", 0, 0)) /\ Call("onScanTimeout", 0, 0) \in Steps
        BY <1>3, <1>7, CarrierCalls DEF ScanExpires, Carriers, Steps, Breakers, Call
    <2>3. ~Some(calls[b], Reports)
        <3>1. Pending(calls[b], {"onAdvertisingReport"}) = {}
            BY <1>7 DEF ScanExpires, Fails, Had
        <3>2. QED
            BY <3>1 DEF Pending, Some, Reports
    <2>4. ~bonded[b] /\ adv[b] = "off" /\ ~initiating[b]
        BY <1>1, <2>1 DEF Orderly, InTurn, OneOf
    <2>5. Orderly(b)'
        BY <1>1, <1>2, <1>4, <1>5, <2>1, <2>2, <2>3, <2>4, StepPosted
    <2>6. QED
        BY <1>2, <1>3, <1>4, <1>7, <2>1, <2>5, HereOrderly DEF ScanExpires, Same
<1>8. CASE Report(b)
    <2>1. scanner[b] # "off" /\ UNCHANGED radioVars
        BY <1>8 DEF Report
    <2> DEFINE c == Call("onAdvertisingReport", 0, 0)
    <2>2. c \in Reports
        BY EventWaits, Args DEF Names, Answers, Disconnects, Reports, Call
    <2>3. c \in Waiting /\ c \notin Steps /\ c \notin Outcomes /\ c \notin Own /\ c \notin Old
        BY <2>2, SetsApart DEF Reports
    <2>4. calls'[b] = post(calls[b], c)
        BY <1>3, <1>8 DEF Report
    <2> HIDE DEF c
    <2>5. InOrder(calls'[b])
        BY <1>1, <1>5, <2>1, <2>2, <2>3, <2>4, PostOrder DEF Orderly, InTurn
    <2>6. ~Some(calls[b], Ended) /\ ~Some(calls[b], Breakers) /\ c \notin Breakers
        BY <1>5, <2>1, <2>3, SubsetsSome, SetsApart
    <2>7. /\ Some(calls'[b], Steps) <=> Some(calls[b], Steps)
          /\ Some(calls'[b], Outcomes) <=> Some(calls[b], Outcomes)
          /\ Some(calls'[b], Own) <=> Some(calls[b], Own)
          /\ Some(calls'[b], Old) <=> Some(calls[b], Old)
          /\ ~Some(calls'[b], Breakers)
        BY <1>1, <2>3, <2>4, <2>6, PostSome
    <2>8. Orderly(b)'
        BY <1>1, <1>4, <1>5, <2>1, <2>5, <2>6, <2>7 DEF Orderly, InTurn, OneOf, radioVars
    <2>9. QED
        BY <1>3, <1>4, <1>8, <2>1, <2>8, HereOrderly DEF Report, Same, radioVars
<1>9. CASE NotEstablished(b)
    <2>1. initiating[b] /\ initiating' = [initiating EXCEPT ![b] = FALSE] /\ UNCHANGED <<scanner, adv>>
        BY <1>9 DEF NotEstablished
    <2> DEFINE c == Call("onConnectionComplete", FALSE, 0)
    <2>2. c \in Failed
        BY EventWaits, Args DEF Names, Answers, Disconnects, Failed, Call
    <2>3. c \in Steps /\ c \notin Breakers
        BY <2>2, SetsApart
    <2>4. calls'[b] = post(calls[b], c)
        BY <1>3, <1>9 DEF NotEstablished
    <2> HIDE DEF c
    <2>5. (Some(calls[b], Reports) => role[b] = "peripheral" \/ is_connecting[b])
          /\ scanner[b] = "off" /\ adv[b] = "off"
        BY <1>1, <2>1 DEF Orderly, InTurn, OneOf
    <2>6. Orderly(b)'
        BY <1>1, <1>2, <1>4, <1>5, <2>1, <2>3, <2>4, <2>5, StepPosted
    <2>7. QED
        BY <1>2, <1>3, <1>4, <1>9, <2>1, <2>6, HereOrderly DEF NotEstablished, Same
<1>10. QED
    BY <1>6, <1>7, <1>8, <1>9

(* An event of the link that is no step of b.                              *)
LEMMA EventPosted ==
    ASSUME NEW b \in Boards, calls[b] \in Seq(Waiting), Orderly(b), NEW c \in Waiting,
           c \notin Steps, c \notin Reports, c \notin Own, c \notin Old, c \in Outcomes => link # NoLink,
           calls'[b] = post(calls[b], c), UNCHANGED <<role, bonded, is_connecting, breaking, radioVars, link>>
    PROVE  Orderly(b)'
<1>1. link # NoLink => ~Some(calls[b], Ended)
    BY SubsetsSome DEF Orderly, InTurn, OneOf
<1>2. InOrder(calls'[b])
    BY <1>1, PostOrder DEF Orderly, InTurn
<1>3. c \notin Ended /\ c \notin Restarts /\ c \notin Breakers
    BY SetsApart
<1>4. /\ Some(calls'[b], Steps) <=> Some(calls[b], Steps)
      /\ Some(calls'[b], Reports) <=> Some(calls[b], Reports)
      /\ Some(calls'[b], Outcomes) <=> Some(calls[b], Outcomes) \/ c \in Outcomes
      /\ Some(calls'[b], Own) <=> Some(calls[b], Own)
      /\ Some(calls'[b], Old) <=> Some(calls[b], Old)
      /\ Some(calls'[b], Ended) <=> Some(calls[b], Ended)
      /\ Some(calls'[b], Restarts) <=> Some(calls[b], Restarts)
      /\ Some(calls'[b], Breakers) <=> Some(calls[b], Breakers)
    BY <1>3, PostSome
<1>5. QED
    BY <1>2, <1>4 DEF Orderly, InTurn, OneOf, Still, radioVars

(* The link is up for a board that advertised or was connecting.           *)
LEMMA LinkedTurn ==
    ASSUME NEW b \in Boards, calls[b] \in Seq(Waiting), Orderly(b), adv[b] # "off" \/ initiating[b],
           link' # NoLink, scanner'[b] = scanner[b], adv'[b] = "off", ~initiating'[b],
           UNCHANGED <<role, bonded, is_connecting, breaking>>,
           \/ calls'[b] = post(calls[b], Call("onConnectionComplete", TRUE, 0))
           \/ calls'[b] = post(post(calls[b], Call("onConnectionComplete", TRUE, 0)),
                               Call("onAdvertisingEnd", TRUE, 0))
    PROVE  Orderly(b)'
<1> DEFINE c == Call("onConnectionComplete", TRUE, 0)
           d == Call("onAdvertisingEnd", TRUE, 0)
<1>1. c \in Waiting /\ d \in Waiting
    BY EventWaits, Args DEF Names, Answers, Disconnects
<1>2. /\ c \notin Steps /\ c \notin Reports /\ c \notin Own /\ c \notin Old
      /\ d \notin Steps /\ d \notin Reports /\ d \notin Own /\ d \notin Old /\ d \notin Outcomes
    BY DEF Call, Steps, Reports, Own, Old, Outcomes, Connected, Breakers, Ended, Failed, Disconnects
<1>3. c \notin Breakers /\ d \notin Breakers
    BY <1>2, SetsApart
<1>4. calls'[b] = post(calls[b], c) \/ calls'[b] = post(post(calls[b], c), d)
    OBVIOUS
<1> HIDE DEF c, d
<1>5. /\ scanner[b] = "off" /\ ~breaking[b] /\ link = NoLink /\ ~Some(calls[b], Steps)
      /\ Some(calls[b], Reports) => role[b] = "peripheral" \/ is_connecting[b]
    BY DEF Orderly, InTurn, OneOf
<1>6. ~Some(calls[b], Ended) /\ ~Some(calls[b], Restarts) /\ ~Some(calls[b], Breakers)
    BY <1>5, SubsetsSome
<1>7. ~Some(calls[b], Own) /\ ~Some(calls[b], Old)
    BY <1>5, <1>6 DEF Orderly, InTurn, Still
<1>8. /\ post(calls[b], c) \in Seq(Waiting) /\ InOrder(post(calls[b], c))
    BY <1>1, <1>2, <1>6, PostIn, PostOrder DEF Orderly, InTurn
<1>9. /\ ~Some(post(calls[b], c), Steps) /\ ~Some(post(calls[b], c), Breakers)
      /\ ~Some(post(calls[b], c), Own) /\ ~Some(post(calls[b], c), Old)
      /\ Some(post(calls[b], c), Reports) => Some(calls[b], Reports)
    BY <1>2, <1>3, <1>5, <1>6, <1>7, PostSome
<1>10. InOrder(post(post(calls[b], c), d))
    BY <1>1, <1>2, <1>8, PostOrder
<1>11. /\ ~Some(post(post(calls[b], c), d), Steps) /\ ~Some(post(post(calls[b], c), d), Breakers)
       /\ ~Some(post(post(calls[b], c), d), Own) /\ ~Some(post(post(calls[b], c), d), Old)
       /\ Some(post(post(calls[b], c), d), Reports) => Some(post(calls[b], c), Reports)
    BY <1>2, <1>3, <1>8, <1>9, PostSome
<1>12. /\ InOrder(calls'[b]) /\ ~Some(calls'[b], Steps) /\ ~Some(calls'[b], Breakers)
       /\ ~Some(calls'[b], Own) /\ ~Some(calls'[b], Old)
       /\ Some(calls'[b], Reports) => Some(calls[b], Reports)
    BY <1>4, <1>8, <1>9, <1>10, <1>11
<1>13. QED
    BY <1>5, <1>12 DEF Orderly, InTurn, OneOf

LEMMA EstablishedOrderly ==
    ASSUME IInv, NEW b \in Boards, Established(b), \A c \in Boards : Orderly(c)
    PROVE  \A c \in Boards : Orderly(c)'
<1> DEFINE d == Peer(b)
<1>1. d \in Boards /\ d # b /\ \A c \in Boards : c \in {b, d}
    BY PeerIsBoard, BoardsAssumption
<1>2. UNCHANGED <<role, bonded, is_connecting, breaking, scanner>> /\ link' = b /\ b # NoLink
    BY BoardsAssumption DEF Established, objectVars, NoLink
<1>3. initiating[b] /\ adv[d] # "off"
    BY DEF Established
<1>4. ~initiating'[b] /\ adv'[d] = "off" /\ adv'[b] = adv[b] /\ initiating'[d] = initiating[d]
    BY <1>1 DEF Established, IInv, Typed, RadioTyped
<1>5. adv[b] = "off" /\ ~initiating[d]
    BY <1>1, <1>3 DEF Orderly, InTurn, OneOf
<1>6. /\ calls[b] \in Seq(Waiting) /\ calls[d] \in Seq(Waiting)
      /\ calls'[b] = post(calls[b], Call("onConnectionComplete", TRUE, 0))
      /\ calls'[d] = post(post(calls[d], Call("onConnectionComplete", TRUE, 0)), Call("onAdvertisingEnd", TRUE, 0))
    BY <1>1 DEF Established, IInv, Queues
<1> HIDE DEF d
<1>7. Orderly(b)'
    BY <1>2, <1>3, <1>4, <1>5, <1>6, LinkedTurn
<1>8. Orderly(d)'
    BY <1>1, <1>2, <1>3, <1>4, <1>5, <1>6, LinkedTurn
<1>9. QED
    BY <1>1, <1>7, <1>8

(* A rejected connection: its events are posted behind what was there, and *)
(* what it brought comes before its end.                                   *)
LEMMA RejectedOrderly ==
    ASSUME IInv, NEW b \in Boards, Rejected(b), \A c \in Boards : Orderly(c)
    PROVE  \A c \in Boards : Orderly(c)'
<1> DEFINE c == Call("onConnectionComplete", TRUE, 0)
           d == Call("onDisconnectionComplete", 0, 0)
           q == post(calls[b], c)
<1>1. /\ UNCHANGED <<role, bonded, is_connecting, breaking, scanner, adv, link>>
      /\ ~initiating'[b] /\ \A e \in Boards : e # b => initiating'[e] = initiating[e]
    BY DEF Rejected, objectVars, linkVars, IInv, Typed, RadioTyped
<1>2. calls[b] \in Seq(Waiting)
    BY DEF IInv, Queues
<1>3. calls'[b] = post(q, d) /\ \A e \in Boards : e # b => calls'[e] = calls[e]
    BY LeavesHere DEF Rejected
<1>4. c \in Waiting /\ d \in Ended
    BY EventWaits, Args DEF Names, Answers, Disconnects, Ended, Call
<1>5. /\ c \notin Steps /\ c \notin Reports /\ c \notin Own /\ c \notin Old
      /\ c \notin Breakers
    BY DEF Call, Steps, Reports, Own, Old, Breakers, Ended, Failed, Disconnects
<1>6. /\ d \in Waiting /\ d \in Steps
      /\ d \notin Reports /\ d \notin Outcomes /\ d \notin Own /\ d \notin Old
      /\ d \notin Restarts /\ d \notin Breakers
    BY <1>4, SetsApart DEF Ended
<1> HIDE DEF c, d
<1>7. /\ scanner[b] = "off" /\ adv[b] = "off" /\ ~breaking[b] /\ link = NoLink
      /\ ~Some(calls[b], Steps)
      /\ Some(calls[b], Reports) => role[b] = "peripheral" \/ is_connecting[b]
    BY DEF Rejected, Orderly, InTurn, OneOf
<1>8. ~Some(calls[b], Ended) /\ ~Some(calls[b], Restarts) /\ ~Some(calls[b], Breakers)
    BY <1>7, SubsetsSome
<1>9. ~Some(calls[b], Own) /\ ~Some(calls[b], Old)
    BY <1>7, <1>8 DEF Rejected, Orderly, InTurn, Still
<1>10. q \in Seq(Waiting) /\ InOrder(q)
    BY <1>2, <1>4, <1>5, <1>8, PostIn, PostOrder DEF Orderly, InTurn
<1>11. /\ ~Some(q, Steps) /\ ~Some(q, Breakers) /\ ~Some(q, Own) /\ ~Some(q, Old)
       /\ Some(q, Reports) => Some(calls[b], Reports)
    BY <1>2, <1>5, <1>7, <1>8, <1>9, PostSome
<1> HIDE DEF q
<1>12. InOrder(post(q, d))
    BY <1>6, <1>10, <1>11, PostOrder
<1>13. /\ Some(post(q, d), Steps) /\ Some(post(q, d), Ended)
       /\ ~Some(post(q, d), Breakers) /\ ~Some(post(q, d), Own) /\ ~Some(post(q, d), Old)
       /\ Some(post(q, d), Reports) => Some(calls[b], Reports)
    BY <1>4, <1>6, <1>10, <1>11, PostSome
<1>14. Orderly(b)'
    BY <1>1, <1>3, <1>7, <1>12, <1>13 DEF Orderly, InTurn, OneOf
<1>15. QED
    BY <1>1, <1>3, <1>14, HereOrderly DEF Same

(* Only a link that is up is being paired.                                 *)
LinkPaired == pairing # "none" => link # NoLink

LEMMA PairingOrderly ==
    ASSUME IInv, LinkPaired, PairingAsked \/ PairingEnds, \A c \in Boards : Orderly(c)
    PROVE  \A c \in Boards : Orderly(c)'
<1>1. UNCHANGED <<role, bonded, is_connecting, breaking, radioVars, link>>
    BY DEF PairingAsked, PairingEnds, objectVars
<1>2. \A c \in Boards : calls[c] \in Seq(Waiting)
    BY DEF IInv, Queues
<1>3. link # NoLink
    BY DEF PairingAsked, PairingEnds, LinkPaired
<1>4. ASSUME NEW c \in Boards
      PROVE  calls'[c] = calls[c] \/ \E e \in Waiting : /\ calls'[c] = post(calls[c], e)
                                                       /\ e.cb \in {"pairingRequest", "pairingResult"}
    <2>1. CASE PairingAsked
        <3>1. Call("pairingRequest", 0, 0) \in Waiting /\ Call("pairingRequest", 0, 0).cb = "pairingRequest"
            BY EventWaits, Args DEF Names, Answers, Disconnects, Call
        <3>2. calls'[c] = calls[c] \/ calls'[c] = post(calls[c], Call("pairingRequest", 0, 0))
            BY <2>1 DEF PairingAsked, Signal, Leaves, IInv, Queues
        <3>3. QED
            BY <3>1, <3>2
    <2>2. CASE PairingEnds
        <3>1. PICK success \in BOOLEAN : calls' = [d \in Boards |-> post(calls[d], Call("pairingResult", success, 0))]
            BY <2>2 DEF PairingEnds
        <3>2. Call("pairingResult", success, 0) \in Waiting /\ Call("pairingResult", success, 0).cb = "pairingResult"
            BY EventWaits, Args DEF Names, Answers, Disconnects, Call
        <3>3. QED
            BY <3>1, <3>2
    <2>3. QED
        BY <2>1, <2>2
<1>5. ASSUME NEW c \in Boards
      PROVE  Orderly(c)'
    <2>1. CASE calls'[c] = calls[c]
        BY <1>1, <2>1, SameOrderly DEF Same, radioVars
    <2>2. ASSUME NEW e \in Waiting, calls'[c] = post(calls[c], e), e.cb \in {"pairingRequest", "pairingResult"}
          PROVE  Orderly(c)'
        <3>1. e \notin Steps /\ e \notin Reports /\ e \notin Own /\ e \notin Old
            BY <2>2 DEF Steps, Reports, Own, Old, Breakers, Ended, Failed, Disconnects
        <3>2. QED
            BY <1>1, <1>2, <1>3, <2>2, <3>1, EventPosted
    <2>3. QED
        BY <1>4, <2>1, <2>2
<1>6. QED
    BY <1>5

(* main is about to run a board's first object.                            *)
LEMMA NothingWaits == InOrder(<<>>) /\ \A S : ~Some(<<>>, S)
BY DEF InOrder, AtMostOne, Before, Some

LEMMA ResetOrderly ==
    ASSUME IInv, NEW b \in Boards, Reset(b), \A c \in Boards : Orderly(c)
    PROVE  \A c \in Boards : Orderly(c)'
<1> DEFINE d == Peer(b)
<1>1. d \in Boards /\ d # b /\ \A c \in Boards : c \in {b, d}
    BY PeerIsBoard, BoardsAssumption
<1>2. /\ ~bonded'[b] /\ scanner'[b] = "off" /\ adv'[b] = "off" /\ ~initiating'[b] /\ link' = NoLink
      /\ calls'[b] = <<>>
    BY <1>1 DEF Reset, IInv, Typed, ObjectsTyped, RadioTyped, Queues
<1>3. /\ role'[d] = role[d] /\ bonded'[d] = bonded[d] /\ is_connecting'[d] = is_connecting[d]
      /\ breaking'[d] = breaking[d] /\ scanner'[d] = scanner[d] /\ adv'[d] = adv[d]
      /\ initiating'[d] = initiating[d]
      /\ calls'[d] = IF link = NoLink THEN calls[d]
                     ELSE post(Aged(calls[d]), Call("onDisconnectionComplete", 0, 0))
    BY <1>1 DEF Reset, IInv, Typed, ObjectsTyped, RadioTyped, Queues
<1>4. calls[d] \in Seq(Waiting)
    BY <1>1 DEF IInv, Queues
<1> HIDE DEF d
<1>5. Orderly(b)'
    BY <1>2, NothingWaits DEF Orderly, InTurn, OneOf
<1>6. Orderly(d)'
    <2>1. CASE link = NoLink
        BY <1>1, <1>2, <1>3, <2>1, SameOrderly DEF Same
    <2>2. CASE link # NoLink
        BY <1>1, <1>2, <1>3, <1>4, <2>2, EndedTurn DEF Orderly
    <2>3. QED
        BY <2>1, <2>2
<1>7. QED
    BY <1>1, <1>5, <1>6

OrderInv == LinkPaired /\ (Had({"late"}) \/ \A b \in Boards : Orderly(b))

LEMMA OrderInit == Init => OrderInv
<1> SUFFICES ASSUME Init, NEW b \in Boards
             PROVE  Orderly(b) /\ LinkPaired
    BY DEF OrderInv, Init, LinkPaired
<1>1. QED
    BY NothingWaits DEF Init, Orderly, InTurn, OneOf, LinkPaired

LEMMA LinkPairedKept == ASSUME LinkPaired, [Next]_vars PROVE LinkPaired'
<1>1. ASSUME NEW b \in Boards, NEW p \in DOMAIN calls[b], Dispatch(b, p)
      PROVE  LinkPaired'
    <2>1. \A queues : LinkEnds(queues) => pairing' = "none"
        BY DEF LinkEnds
    <2>2. \/ UNCHANGED linkVars
          \/ pairing' = "none"
          \/ link # NoLink /\ UNCHANGED link
          \/ pairing # "none" /\ UNCHANGED link
          \/ UNCHANGED <<pairing, link>>
        BY <1>1, <2>1 DEF Dispatch, on_init_complete, startAgain, disconnect, onAdvertisingReport,
               onAdvertisingEnd, onScanTimeout, onConnectionComplete, pairingRequest, pairingResult,
               onDisconnectionComplete
    <2>3. QED
        BY <2>2 DEF LinkPaired, linkVars
<1>2. ASSUME NEW b \in Boards,
             \/ SwitchRole(b) \/ AdvertisingExpires(b) \/ ScanExpires(b) \/ Report(b)
             \/ NotEstablished(b) \/ Rejected(b)
      PROVE  LinkPaired'
    BY <1>2 DEF SwitchRole, AdvertisingExpires, ScanExpires, Report, NotEstablished, Rejected, linkVars, LinkPaired
<1>3. ASSUME NEW b \in Boards, Established(b)
      PROVE  LinkPaired'
    BY <1>3, BoardsAssumption DEF Established, NoLink, LinkPaired
<1>4. ASSUME NEW b \in Boards, Reset(b)
      PROVE  LinkPaired'
    BY <1>4 DEF Reset, LinkPaired
<1>5. CASE PairingAsked \/ PairingEnds \/ LinkLost
    BY <1>5 DEF PairingAsked, PairingEnds, LinkLost, LinkEnds, LinkPaired
<1>6. CASE UNCHANGED vars
    BY <1>6 DEF vars, linkVars, LinkPaired
<1>7. QED
    BY <1>1, <1>2, <1>3, <1>4, <1>5, <1>6 DEF Next

LEMMA HadGrows == ASSUME [Next]_vars, NEW kinds, Had(kinds) PROVE Had(kinds)'
BY FailuresGrow DEF Fails, Had

LEMMA NextOrder == ASSUME IInv, OrderInv, [Next]_vars PROVE OrderInv'
<1>1. SUFFICES ASSUME ~Had({"late"})'
               PROVE  \A c \in Boards : Orderly(c)'
    BY LinkPairedKept DEF OrderInv
<1>2. \A c \in Boards : Orderly(c)
    BY <1>1, HadGrows DEF OrderInv
<1>3. ASSUME NEW b \in Boards, NEW p \in DOMAIN calls[b], Dispatch(b, p)
      PROVE  \A c \in Boards : Orderly(c)'
    BY <1>2, <1>3, HandlerOrderly
<1>4. ASSUME NEW b \in Boards, SwitchRole(b)
      PROVE  \A c \in Boards : Orderly(c)'
    BY <1>2, <1>4, SwitchOrderly
<1>5. ASSUME NEW b \in Boards,
             AdvertisingExpires(b) \/ ScanExpires(b) \/ Report(b) \/ NotEstablished(b)
      PROVE  \A c \in Boards : Orderly(c)'
    BY <1>1, <1>2, <1>5, AirOrderly
<1>6. ASSUME NEW b \in Boards, Established(b) \/ Rejected(b)
      PROVE  \A c \in Boards : Orderly(c)'
    BY <1>2, <1>6, EstablishedOrderly, RejectedOrderly
<1>7. ASSUME NEW b \in Boards, Reset(b)
      PROVE  \A c \in Boards : Orderly(c)'
    BY <1>2, <1>7, ResetOrderly
<1>8. CASE PairingAsked \/ PairingEnds
    BY <1>2, <1>8, PairingOrderly DEF OrderInv
<1>9. CASE LinkLost
    BY <1>2, <1>9, LinkEndsTurn DEF LinkLost, objectVars, IInv, Orderly
<1>10. CASE UNCHANGED vars
    BY <1>2, <1>10, SameOrderly DEF vars, objectVars, radioVars, linkVars, Same
<1>11. QED
    BY <1>3, <1>4, <1>5, <1>6, <1>7, <1>8, <1>9, <1>10 DEF Next

(* The disconnection that an object which has bonded posts (main.cpp:200,  *)
(* 243) never closes a later link, unless a scan timeout came late: it is  *)
(* posted before the restart that leads to the next link, with the same    *)
(* delay, whatever else fails and whichever board is reset.                *)
THEOREM ClosesOwnLink == Spec => OwnDisconnection
<1>1. ASSUME IInv, OrderInv, NEW b \in Boards, NEW p \in DOMAIN calls[b],
             calls[b][p].cb \in Disconnects, calls[b][p].arg = "old", Dispatch(b, p), ~Had({"late"})
      PROVE  link' = link
    <2>1. Orderly(b)
        BY <1>1 DEF OrderInv
    <2>2. calls[b][p] \in Old
        <3>1. calls[b] \in Seq(Waiting)
            BY <1>1 DEF IInv, Queues
        <3>2. calls[b][p] \in Waiting
            BY <1>1, <3>1, ServedIn
        <3>3. QED
            BY <1>1, <3>2 DEF Old
    <2>3. Some(calls[b], Old)
        BY <1>1, <2>2 DEF Some
    <2>4. link = NoLink
        BY <2>1, <2>3, SubsetsSome DEF Orderly, InTurn, OneOf, Still
    <2>5. \E valid : disconnect(b, RemoveAt(calls[b], p), valid)
        BY <1>1 DEF Dispatch, Disconnects
    <2>6. QED
        BY <2>4, <2>5 DEF disconnect, linkVars
<1>2. IInv /\ OrderInv /\ [Next]_vars =>
          [\A b \in Boards : \A p \in DOMAIN calls[b] :
              calls[b][p].cb \in Disconnects /\ calls[b][p].arg = "old" /\ Dispatch(b, p)
                 => link' = link \/ Had({"late"})]_vars
    BY <1>1
<1>3. IInv /\ OrderInv /\ [Next]_vars => OrderInv'
    BY NextOrder
<1>4. QED
    BY <1>2, <1>3, OrderInit, InitInv, NextInv, PTL DEF Spec, OwnDisconnection

-----------------------------------------------------------------------------
(* What waits in a queue: a call is there until it runs or its board is    *)
(* reset, and each step posts its own.                                     *)

(* Ageing does not take a call into S or out of it.                        *)
Ageless(S) == \A c \in Own : c \in S <=> [c EXCEPT !.arg = "old"] \in S

(* r is q with what a step posted: calls of the names cbs.                 *)
GrowsTo(q, r, cbs) ==
    \/ r = q
    \/ \E c \in Waiting : c.cb \in cbs /\ (r = post(q, c) \/ r = post(Aged(q), c))
    \/ \E c, d \in Waiting : c.cb \in cbs /\ d.cb \in cbs /\ r = post(post(q, c), d)

LEMMA GrowsSome ==
    ASSUME NEW q \in Seq(Waiting), NEW r, NEW cbs, GrowsTo(q, r, cbs), NEW S, Ageless(S)
    PROVE  /\ Some(q, S) => Some(r, S)
           /\ (\A c \in S : c.cb \notin cbs) => (Some(r, S) => Some(q, S))
<1>1. CASE r = q
    BY <1>1
<1>2. ASSUME NEW c \in Waiting, c.cb \in cbs, r = post(q, c)
      PROVE  Some(r, S) <=> Some(q, S) \/ c \in S
    BY <1>2, PostSome
<1>3. ASSUME NEW c \in Waiting, c.cb \in cbs, r = post(Aged(q), c)
      PROVE  Some(r, S) <=> Some(q, S) \/ c \in S
    <2>1. Aged(q) \in Seq(Waiting) /\ (Some(Aged(q), S) <=> Some(q, S))
        BY AgedWaits, AgedAlike DEF Ageless
    <2>2. QED
        BY <1>3, <2>1, PostSome
<1>4. ASSUME NEW c \in Waiting, NEW d \in Waiting, c.cb \in cbs, d.cb \in cbs, r = post(post(q, c), d)
      PROVE  Some(r, S) <=> Some(q, S) \/ c \in S \/ d \in S
    <2>1. post(q, c) \in Seq(Waiting) /\ (Some(post(q, c), S) <=> Some(q, S) \/ c \in S)
        BY PostIn, PostSome
    <2>2. QED
        BY <1>4, <2>1, PostSome
<1>5. QED
    BY <1>1, <1>2, <1>3, <1>4 DEF GrowsTo

HandlerPosts == {"start", "disconnect", "disconnect_current", "onDisconnectionComplete"}

LEMMA LinkEndsGrows ==
    ASSUME NEW queues, LinkEnds(queues), NEW c \in Boards
    PROVE  GrowsTo(queues[c], calls'[c], {"onDisconnectionComplete"})
<1>1. Call("onDisconnectionComplete", 0, 0) \in Waiting
      /\ Call("onDisconnectionComplete", 0, 0).cb = "onDisconnectionComplete"
    BY EventWaits, Args DEF Names, Answers, Disconnects, Call
<1>2. QED
    BY <1>1 DEF LinkEnds, GrowsTo

LEMMA HandlerGrows ==
    ASSUME IInv, NEW b \in Boards, NEW p \in DOMAIN calls[b], Dispatch(b, p)
    PROVE  /\ GrowsTo(RemoveAt(calls[b], p), calls'[b], HandlerPosts)
           /\ \A c \in Boards : c # b => GrowsTo(calls[c], calls'[c], HandlerPosts)
           /\ link' # link => link' = NoLink
           /\ link' # NoLink => \A c \in Boards : c # b => calls'[c] = calls[c]
<1> DEFINE q == RemoveAt(calls[b], p)
<1>1. \A left : Leaves(b, left) => calls'[b] = left /\ \A c \in Boards : c # b => calls'[c] = calls[c]
    BY LeavesHere
<1>2. [calls EXCEPT ![b] = q][b] = q /\ \A c \in Boards : c # b => [calls EXCEPT ![b] = q][c] = calls[c]
    BY DEF IInv, Queues
<1> HIDE DEF q
<1>3. \/ Leaves(b, q) /\ UNCHANGED link
      \/ Leaves(b, post(q, Call("start", 0, 0))) /\ UNCHANGED link
      \/ Leaves(b, post(q, Call("start", 0, Delay))) /\ UNCHANGED link
      \/ Leaves(b, post(q, Disconnect("disconnect_current", TRUE))) /\ UNCHANGED link
      \/ Leaves(b, post(q, Disconnect("disconnect", bonded'[b]))) /\ UNCHANGED link
      \/ LinkEnds([calls EXCEPT ![b] = q])
    BY DEF Dispatch, q, on_init_complete, startAgain, disconnect, onAdvertisingReport, onAdvertisingEnd,
           onScanTimeout, onConnectionComplete, pairingRequest, pairingResult, onDisconnectionComplete,
           afterDisconnection, linkVars
<1>4. /\ Call("start", 0, 0) \in Waiting /\ Call("start", 0, Delay) \in Waiting
      /\ Disconnect("disconnect_current", TRUE) \in Waiting
      /\ Disconnect("disconnect", bonded'[b]) \in Waiting
    BY EventWaits, CallWaits, DisconnectWaits, Args DEF Names, Answers, Disconnects, Delay
<1>5. /\ Call("start", 0, 0).cb \in HandlerPosts /\ Call("start", 0, Delay).cb \in HandlerPosts
      /\ Disconnect("disconnect_current", TRUE).cb \in HandlerPosts
      /\ Disconnect("disconnect", bonded'[b]).cb \in HandlerPosts
    BY DEF Call, Disconnect, HandlerPosts
<1>6. CASE /\ UNCHANGED link
           /\ Leaves(b, q) \/ \E c \in Waiting : c.cb \in HandlerPosts /\ Leaves(b, post(q, c))
    BY <1>1, <1>6 DEF GrowsTo, q
<1>7. CASE LinkEnds([calls EXCEPT ![b] = q])
    <2>1. \A c \in Boards : GrowsTo([calls EXCEPT ![b] = q][c], calls'[c], {"onDisconnectionComplete"})
        BY <1>7, LinkEndsGrows
    <2>2. \A c \in Boards : GrowsTo([calls EXCEPT ![b] = q][c], calls'[c], HandlerPosts)
        BY <2>1 DEF GrowsTo, HandlerPosts
    <2>3. link' = NoLink
        BY <1>7 DEF LinkEnds
    <2>4. QED
        BY <1>2, <2>2, <2>3 DEF q
<1>8. QED
    BY <1>3, <1>4, <1>5, <1>6, <1>7

(* Who knows the peer: a handler takes neither keys nor a bond away.       *)
LEMMA HandlerBonds ==
    ASSUME IInv, NEW b \in Boards, NEW p \in DOMAIN calls[b], Dispatch(b, p)
    PROVE  /\ UNCHANGED keys
           /\ \A c \in Boards : bonded[c] => bonded'[c]
           /\ \A c \in Boards : bonded'[c] => bonded[c] \/ (c = b /\ calls[b][p] \in Paired)
           /\ calls[b][p] \in Paired /\ SharedSlot => bonded'[b]
<1>1. calls[b][p] \in Waiting /\ bonded \in [Boards -> BOOLEAN]
    <2>1. calls[b] \in Seq(Waiting)
        BY DEF IInv, Queues
    <2>2. QED
        BY <2>1, ServedIn DEF IInv, Typed, ObjectsTyped
<1>2. UNCHANGED keys
    BY DEF Dispatch, on_init_complete, startAgain, disconnect, onAdvertisingReport, onAdvertisingEnd,
           onScanTimeout, onConnectionComplete, pairingRequest, pairingResult, onDisconnectionComplete,
           LinkEnds, linkVars
<1>3. CASE calls[b][p].cb # "pairingResult"
    <2>1. UNCHANGED bonded /\ calls[b][p] \notin Paired
        BY <1>3 DEF Dispatch, on_init_complete, startAgain, disconnect, onAdvertisingReport, onAdvertisingEnd,
               onScanTimeout, onConnectionComplete, pairingRequest, onDisconnectionComplete, objectVars, Paired
    <2>2. QED
        BY <1>2, <2>1
<1>4. CASE calls[b][p].cb = "pairingResult"
    <2>1. bonded' = [bonded EXCEPT ![b] = @ \/ (calls[b][p].arg /\ reached(b))]
        BY <1>4 DEF Dispatch, pairingResult
    <2>2. calls[b][p].arg \in BOOLEAN /\ (calls[b][p] \in Paired <=> calls[b][p].arg = TRUE)
        BY <1>1, <1>4 DEF Waiting, Answers, Paired
    <2>3. \A c \in Boards : c # b => bonded'[c] = bonded[c]
        BY <1>1, <2>1
    <2>4. bonded'[b] <=> bonded[b] \/ (calls[b][p].arg = TRUE /\ reached(b))
        BY <1>1, <2>1, <2>2
    <2>5. SharedSlot => reached(b)
        BY DEF reached
    <2>6. QED
        BY <1>2, <2>2, <2>3, <2>4, <2>5
<1>5. QED
    BY <1>3, <1>4

(* main, the stacks and the air post events to a queue, but for a reset.   *)
AirPosts == {"onAdvertisingReport", "onScanTimeout", "onAdvertisingEnd", "on_init_complete", "pairingRequest"}

LEMMA AirGrows ==
    ASSUME IInv, NEW b \in Boards, NEW c \in Boards,
           SwitchRole(b) \/ AdvertisingExpires(b) \/ ScanExpires(b) \/ Report(b) \/ PairingAsked
    PROVE  GrowsTo(calls[c], calls'[c], AirPosts)
<1>1. /\ Call("onAdvertisingEnd", FALSE, 0) \in Waiting /\ Call("onScanTimeout", 0, 0) \in Waiting
      /\ Call("onAdvertisingReport", 0, 0) \in Waiting /\ Call("on_init_complete", 0, 0) \in Waiting
      /\ Call("pairingRequest", 0, 0) \in Waiting
    BY EventWaits, Args DEF Names, Answers, Disconnects
<1>2. \A cb, arg : Call(cb, arg, 0).cb = cb
    BY DEF Call
<1>3. \A d, cb, arg : Signal(d, cb, arg) => calls'[c] = calls[c] \/ calls'[c] = post(calls[c], Call(cb, arg, 0))
    BY DEF Signal, Leaves, IInv, Queues
<1>4. CASE SwitchRole(b)
    <2>1. calls'[c] = calls[c] \/ calls'[c] = post(calls[c], Call("on_init_complete", 0, 0))
        BY <1>4 DEF SwitchRole, run, Leaves, IInv, Queues
    <2>2. QED
        BY <1>1, <1>2, <2>1 DEF GrowsTo, AirPosts
<1>5. CASE AdvertisingExpires(b)
    BY <1>1, <1>2, <1>3, <1>5 DEF AdvertisingExpires, GrowsTo, AirPosts
<1>6. CASE ScanExpires(b)
    BY <1>1, <1>2, <1>3, <1>6 DEF ScanExpires, GrowsTo, AirPosts
<1>7. CASE Report(b)
    BY <1>1, <1>2, <1>3, <1>7 DEF Report, GrowsTo, AirPosts
<1>8. CASE PairingAsked
    BY <1>1, <1>2, <1>3, <1>8 DEF PairingAsked, GrowsTo, AirPosts
<1>9. QED
    BY <1>4, <1>5, <1>6, <1>7, <1>8

LEMMA MoreGrow ==
    ASSUME IInv, NEW c \in Boards
    PROVE  /\ PairingEnds => GrowsTo(calls[c], calls'[c], {"pairingResult"})
           /\ LinkLost => GrowsTo(calls[c], calls'[c], {"onDisconnectionComplete"})
           /\ \A b \in Boards :
                 /\ NotEstablished(b) => GrowsTo(calls[c], calls'[c], {"onConnectionComplete"})
                 /\ Established(b) => GrowsTo(calls[c], calls'[c], {"onConnectionComplete", "onAdvertisingEnd"})
                 /\ Rejected(b) => GrowsTo(calls[c], calls'[c], {"onConnectionComplete", "onDisconnectionComplete"})
                 /\ Reset(b) /\ c # b => GrowsTo(calls[c], calls'[c], {"onDisconnectionComplete"})
<1>1. /\ \A success \in BOOLEAN : Call("pairingResult", success, 0) \in Waiting
      /\ \A success \in BOOLEAN : Call("onConnectionComplete", success, 0) \in Waiting
      /\ Call("onAdvertisingEnd", TRUE, 0) \in Waiting /\ Call("onDisconnectionComplete", 0, 0) \in Waiting
    BY EventWaits, Args DEF Names, Answers, Disconnects
<1>2. \A cb, arg : Call(cb, arg, 0).cb = cb
    BY DEF Call
<1>3. ASSUME PairingEnds
      PROVE  GrowsTo(calls[c], calls'[c], {"pairingResult"})
    BY <1>1, <1>2, <1>3 DEF PairingEnds, GrowsTo
<1>4. ASSUME LinkLost
      PROVE  GrowsTo(calls[c], calls'[c], {"onDisconnectionComplete"})
    BY <1>4, LinkEndsGrows DEF LinkLost
<1>5. ASSUME NEW b \in Boards, NotEstablished(b)
      PROVE  GrowsTo(calls[c], calls'[c], {"onConnectionComplete"})
    <2>1. calls'[c] = calls[c] \/ calls'[c] = post(calls[c], Call("onConnectionComplete", FALSE, 0))
        BY <1>5 DEF NotEstablished, Signal, Leaves, IInv, Queues
    <2>2. QED
        BY <1>1, <1>2, <2>1 DEF GrowsTo
<1>6. ASSUME NEW b \in Boards, Established(b)
      PROVE  GrowsTo(calls[c], calls'[c], {"onConnectionComplete", "onAdvertisingEnd"})
    <2>1. \/ calls'[c] = calls[c]
          \/ calls'[c] = post(calls[c], Call("onConnectionComplete", TRUE, 0))
          \/ calls'[c] = post(post(calls[c], Call("onConnectionComplete", TRUE, 0)), Call("onAdvertisingEnd", TRUE, 0))
        BY <1>6, PeerIsBoard DEF Established, IInv, Queues
    <2>2. QED
        BY <1>1, <1>2, <2>1 DEF GrowsTo
<1>7. ASSUME NEW b \in Boards, Reset(b), c # b
      PROVE  GrowsTo(calls[c], calls'[c], {"onDisconnectionComplete"})
    <2>1. calls'[c] = calls[c] \/ calls'[c] = post(Aged(calls[c]), Call("onDisconnectionComplete", 0, 0))
        BY <1>7, PeerIsBoard DEF Reset, IInv, Queues
    <2>2. QED
        BY <1>1, <1>2, <2>1 DEF GrowsTo
<1>8. ASSUME NEW b \in Boards, Rejected(b)
      PROVE  GrowsTo(calls[c], calls'[c], {"onConnectionComplete", "onDisconnectionComplete"})
    <2>1. \/ calls'[c] = calls[c]
          \/ calls'[c] = post(post(calls[c], Call("onConnectionComplete", TRUE, 0)), Call("onDisconnectionComplete", 0, 0))
        BY <1>8 DEF Rejected, Leaves, IInv, Queues
    <2>2. QED
        BY <1>1, <1>2, <2>1 DEF GrowsTo
<1>9. QED
    BY <1>3, <1>4, <1>5, <1>6, <1>7, <1>8

(* What a disconnection and the outcome of a pairing look like.            *)
Results == {c \in Waiting : c.cb = "pairingResult"}
Closing == {c \in Waiting : c.cb = "disconnect"}
Current == {c \in Waiting : c.cb = "disconnect_current"}

LEMMA AgelessSets ==
    /\ Ageless(Paired) /\ Ageless(Connected) /\ Ageless(Failed)
    /\ Ageless(Results) /\ Ageless(Closing) /\ Ageless(Current)
<1>1. \A c \in Own : /\ c.cb \in Disconnects /\ [c EXCEPT !.arg = "old"].cb = c.cb
                     /\ c \in Waiting /\ [c EXCEPT !.arg = "old"] \in Waiting
    BY AgedOwn DEF Own, Old, Waiting, AnyCall
<1>2. QED
    BY <1>1 DEF Ageless, Paired, Connected, Failed, Results, Closing, Current, Disconnects

-----------------------------------------------------------------------------
(* A board that holds the keys keeps its role: its object has bonded, or   *)
(* will be told so before the end of the link is handled.                  *)

KnowsBond(b) == keys[b] => bonded[b] \/ Some(calls[b], Paired)

KeepInv == Had({"late", "reset"}) \/ \A b \in Boards : KnowsBond(b)

(* No loop breaks for an object whose board holds the keys.                *)
LEMMA BreakingKnows ==
    ASSUME NEW b \in Boards, Orderly(b), KnowsBond(b), breaking[b] \in BOOLEAN, breaking[b]
    PROVE  ~keys[b]
<1>1. ~bonded[b] /\ ~Some(calls[b], Outcomes)
    BY BreakingClear DEF Clear
<1>2. Some(calls[b], Paired) => Some(calls[b], Outcomes)
    BY DEF Some, Paired, Outcomes
<1>3. QED
    BY <1>1, <1>2 DEF KnowsBond

LEMMA NextKeeps == ASSUME SharedSlot, IInv, OrderInv, KeepInv, [Next]_vars PROVE KeepInv'
<1>1. SUFFICES ASSUME ~Had({"late", "reset"})', NEW c \in Boards
               PROVE  KnowsBond(c)'
    BY DEF KeepInv
<1>2. ~Had({"late", "reset"}) /\ ~Had({"late"})
    BY <1>1, HadGrows DEF Had
<1>3. \A b \in Boards : KnowsBond(b) /\ Orderly(b) /\ calls[b] \in Seq(Waiting) /\ breaking[b] \in BOOLEAN
    BY <1>2 DEF KeepInv, OrderInv, IInv, Queues, Typed, ObjectsTyped
<1>4. ASSUME NEW cbs, GrowsTo(calls[c], calls'[c], cbs)
      PROVE  Some(calls[c], Paired) => Some(calls'[c], Paired)
    BY <1>3, <1>4, GrowsSome, AgelessSets
<1>5. ASSUME NEW b \in Boards, NEW p \in DOMAIN calls[b], Dispatch(b, p)
      PROVE  KnowsBond(c)'
    <2>1. /\ UNCHANGED keys /\ (bonded[c] => bonded'[c])
          /\ calls[b][p] \in Paired => bonded'[b]
        BY <1>1, <1>5, HandlerBonds
    <2>2. CASE c # b
        BY <1>3, <1>4, <1>5, <2>1, <2>2, HandlerGrows DEF KnowsBond
    <2>3. CASE c = b /\ calls[b][p] \notin Paired
        <3>1. RemoveAt(calls[b], p) \in Seq(Waiting)
            BY <1>3, ServedIn
        <3>2. Some(calls[b], Paired) => Some(RemoveAt(calls[b], p), Paired)
            BY <1>3, <2>3, ServedSome
        <3>3. Some(RemoveAt(calls[b], p), Paired) => Some(calls'[b], Paired)
            BY <1>5, <3>1, HandlerGrows, GrowsSome, AgelessSets
        <3>4. QED
            BY <1>3, <2>1, <2>3, <3>2, <3>3 DEF KnowsBond
    <2>4. CASE c = b /\ calls[b][p] \in Paired
        BY <2>1, <2>4 DEF KnowsBond
    <2>5. QED
        BY <2>2, <2>3, <2>4
<1>6. ASSUME NEW b \in Boards, SwitchRole(b)
      PROVE  KnowsBond(c)'
    <2>1. ~keys[b] /\ UNCHANGED keys
        BY <1>3, <1>6, BreakingKnows DEF SwitchRole, linkVars
    <2>2. c # b => bonded'[c] = bonded[c]
        BY <1>6 DEF SwitchRole, IInv, Typed, ObjectsTyped
    <2>3. Some(calls[c], Paired) => Some(calls'[c], Paired)
        BY <1>4, <1>6, AirGrows
    <2>4. QED
        BY <1>3, <2>1, <2>2, <2>3 DEF KnowsBond
<1>7. ASSUME NEW b \in Boards,
             \/ AdvertisingExpires(b) \/ ScanExpires(b) \/ Report(b)
             \/ Established(b) \/ Rejected(b) \/ NotEstablished(b) \/ PairingAsked \/ LinkLost
      PROVE  KnowsBond(c)'
    <2>1. UNCHANGED <<bonded, keys>>
        BY <1>7 DEF AdvertisingExpires, ScanExpires, Report, Established, Rejected, NotEstablished,
                    PairingAsked, LinkLost, LinkEnds, objectVars, linkVars
    <2>2. Some(calls[c], Paired) => Some(calls'[c], Paired)
        BY <1>4, <1>7, AirGrows, MoreGrow
    <2>3. QED
        BY <1>3, <2>1, <2>2 DEF KnowsBond
<1>8. ASSUME NEW b \in Boards, Reset(b)
      PROVE  FALSE
    BY <1>1, <1>8 DEF Reset, Fails, Had
<1>9. CASE PairingEnds
    <2>1. UNCHANGED bonded
        BY <1>9 DEF PairingEnds, objectVars
    <2>2. CASE UNCHANGED keys
        BY <1>3, <1>4, <1>9, <2>1, <2>2, MoreGrow DEF KnowsBond
    <2>3. CASE calls'[c] = post(calls[c], Call("pairingResult", TRUE, 0))
        <3>1. Call("pairingResult", TRUE, 0) \in Paired
            BY EventWaits, Args DEF Names, Answers, Disconnects, Paired, Call
        <3>2. Some(post(calls[c], Call("pairingResult", TRUE, 0)), Paired)
            BY <1>3, <3>1, PostSome
        <3>3. QED
            BY <2>3, <3>2 DEF KnowsBond
    <2>4. QED
        BY <1>9, <2>2, <2>3 DEF PairingEnds
<1>10. CASE UNCHANGED vars
    BY <1>3, <1>10 DEF vars, objectVars, linkVars, KnowsBond
<1>11. QED
    BY <1>1, <1>5, <1>6, <1>7, <1>8, <1>9, <1>10 DEF Next

(* "from now on we will use the second start function and stay in the same *)
(* role" (main.cpp:263): where the objects share their stack slot, a board *)
(* that has paired keeps its role whatever is refused, fails or is lost,   *)
(* as long as no board is reset and no scan timeout comes late.            *)
THEOREM PairedKeepRole == ASSUME SharedSlot PROVE Spec => KeepsRole
<1>1. Init => KeepInv
    BY DEF Init, KeepInv, KnowsBond
<1>2. ASSUME IInv, OrderInv, KeepInv, [Next]_vars, NEW b \in Boards, keys[b], role'[b] # role[b],
             ~Had({"late", "reset"})'
      PROVE  FALSE
    <2>1. ~Had({"late", "reset"}) /\ ~Had({"late"})
        BY <1>2, HadGrows DEF Had
    <2>2. Orderly(b) /\ KnowsBond(b) /\ breaking[b] \in BOOLEAN
        BY <1>2, <2>1 DEF KeepInv, OrderInv, IInv, Typed, ObjectsTyped
    <2>3. ~breaking[b]
        BY <1>2, <2>2, BreakingKnows
    <2>4. ASSUME NEW c \in Boards, NEW p \in DOMAIN calls[c], Dispatch(c, p)
          PROVE  FALSE
        BY <1>2, <2>4 DEF Dispatch, on_init_complete, startAgain, disconnect, onAdvertisingReport,
               onAdvertisingEnd, onScanTimeout, onConnectionComplete, pairingRequest, pairingResult,
               onDisconnectionComplete, objectVars
    <2>5. ASSUME NEW c \in Boards, SwitchRole(c)
          PROVE  FALSE
        BY <1>2, <2>3, <2>5 DEF SwitchRole, IInv, Typed, ObjectsTyped
    <2>6. ASSUME NEW c \in Boards, Reset(c)
          PROVE  FALSE
        BY <1>2, <2>6 DEF Reset, Fails, Had
    <2>7. QED
        BY <1>2, <2>4, <2>5, <2>6 DEF Next, AdvertisingExpires, ScanExpires, Report, Established,
               Rejected, NotEstablished, PairingAsked, PairingEnds, LinkLost, objectVars, vars
<1>3. IInv /\ OrderInv /\ KeepInv /\ [Next]_vars =>
          [\A b \in Boards : keys[b] /\ role'[b] # role[b] => Had({"late", "reset"})']_vars
    BY <1>2
<1>4. IInv /\ OrderInv /\ KeepInv /\ [Next]_vars => KeepInv'
    BY NextKeeps
<1>5. IInv /\ OrderInv /\ [Next]_vars => OrderInv'
    BY NextOrder
<1>6. QED
    BY <1>1, <1>3, <1>4, <1>5, OrderInit, InitInv, NextInv, PTL DEF Spec, KeepsRole

-----------------------------------------------------------------------------
(* Links are closed.  A board whose object has bonded will disconnect the  *)
(* link, with a handle that is valid; a link of boards that know nothing   *)
(* of each other is paired, which leads to a disconnection whatever comes  *)
(* of it.                                                                  *)

(* An object that has bonded, or will be told so, has the keys.            *)
HasKeys(b) == bonded[b] \/ Some(calls[b], Paired) => keys[b]

FailureKnown(b) == Some(calls[b], Failed) => Had({"connection"})

Closes(b) ==
    link # NoLink /\ bonded[b] =>
        Some(calls[b], Connected) \/ Some(calls[b], Closing) \/ (handle[b] /\ Some(calls[b], Current))

WillPair ==
    link # NoLink /\ (\A b \in Boards : ~bonded[b] /\ ~keys[b]) =>
        \/ pairing # "none"
        \/ \E b \in Boards : Some(calls[b], Connected) \/ Some(calls[b], Results) \/ Some(calls[b], Closing)

BothFailed == {"connection", "late"} \subseteq failures.kinds

LinkInv ==
    /\ \A b \in Boards : HasKeys(b) /\ FailureKnown(b)
    /\ BothFailed \/ \A b \in Boards : Closes(b)
    /\ WillPair

LEMMA LinkInvSuffices == LinkInv => LinksAreClosed
<1> SUFFICES ASSUME LinkInv, link # NoLink, ~BothFailed
             PROVE  \/ pairing # "none"
                    \/ \E b \in Boards : Pending(calls[b], Disconnects \union {"onConnectionComplete", "pairingResult"}) # {}
                    \/ (\A b \in Boards : ~bonded[b]) /\ (\E b \in Boards : keys[b])
    BY DEF LinksAreClosed, BothFailed
<1>1. \A b \in Boards :
          Some(calls[b], Connected) \/ Some(calls[b], Results) \/ Some(calls[b], Closing) \/ Some(calls[b], Current)
              => Pending(calls[b], Disconnects \union {"onConnectionComplete", "pairingResult"}) # {}
    BY DEF Some, Pending, Connected, Results, Closing, Current, Disconnects
<1>2. QED
    BY <1>1 DEF LinkInv, Closes, WillPair

(* No handler posts an outcome; a pairing that succeeds gives the keys.    *)
LEMMA HasKeysKept ==
    ASSUME IInv, [Next]_vars, \A b \in Boards : HasKeys(b), NEW c \in Boards
    PROVE  HasKeys(c)'
<1>1. \A b \in Boards : calls[b] \in Seq(Waiting)
    BY DEF IInv, Queues
<1>2. ASSUME NEW cbs, GrowsTo(calls[c], calls'[c], cbs), "pairingResult" \notin cbs
      PROVE  Some(calls'[c], Paired) => Some(calls[c], Paired)
    <2>1. \A e \in Paired : e.cb \notin cbs
        BY <1>2 DEF Paired
    <2>2. QED
        BY <1>1, <1>2, <2>1, GrowsSome, AgelessSets
<1>3. ASSUME NEW b \in Boards, NEW p \in DOMAIN calls[b], Dispatch(b, p)
      PROVE  HasKeys(c)'
    <2>1. UNCHANGED keys /\ (bonded'[c] => bonded[c] \/ (c = b /\ calls[b][p] \in Paired))
        BY <1>3, HandlerBonds
    <2>2. Some(calls'[c], Paired) => Some(calls[c], Paired)
        <3>1. CASE c # b
            BY <1>2, <1>3, <3>1, HandlerGrows DEF HandlerPosts
        <3>2. CASE c = b
            <4>1. \A e \in Paired : e.cb \notin HandlerPosts
                BY DEF Paired, HandlerPosts
            <4>2. RemoveAt(calls[b], p) \in Seq(Waiting)
                BY <1>1, ServedIn
            <4>3. Some(calls'[b], Paired) => Some(RemoveAt(calls[b], p), Paired)
                BY <1>3, <4>1, <4>2, HandlerGrows, GrowsSome, AgelessSets
            <4>4. Some(RemoveAt(calls[b], p), Paired) => Some(calls[b], Paired)
                BY <1>1, ServedSome
            <4>5. QED
                BY <3>2, <4>3, <4>4
        <3>3. QED
            BY <3>1, <3>2
    <2>3. c = b /\ calls[b][p] \in Paired => Some(calls[c], Paired)
        BY DEF Some
    <2>4. QED
        BY <2>1, <2>2, <2>3 DEF HasKeys
<1>4. ASSUME NEW b \in Boards,
             \/ SwitchRole(b) \/ AdvertisingExpires(b) \/ ScanExpires(b) \/ Report(b)
             \/ Established(b) \/ Rejected(b) \/ NotEstablished(b) \/ PairingAsked \/ LinkLost
      PROVE  HasKeys(c)'
    <2>1. UNCHANGED keys /\ (bonded'[c] => bonded[c])
        BY <1>4 DEF SwitchRole, AdvertisingExpires, ScanExpires, Report, Established, Rejected, NotEstablished,
                    PairingAsked, LinkLost, LinkEnds, objectVars, linkVars, IInv, Typed, ObjectsTyped
    <2>2. Some(calls'[c], Paired) => Some(calls[c], Paired)
        BY <1>2, <1>4, AirGrows, MoreGrow DEF AirPosts
    <2>3. QED
        BY <2>1, <2>2 DEF HasKeys
<1>5. ASSUME NEW b \in Boards, Reset(b)
      PROVE  HasKeys(c)'
    <2>1. CASE c = b
        <3>1. ~bonded'[b] /\ calls'[b] = <<>>
            BY <1>5, PeerIsBoard DEF Reset, IInv, Typed, ObjectsTyped, Queues
        <3>2. ~Some(calls'[b], Paired)
            BY <3>1 DEF Some, Paired, Call
        <3>3. QED
            BY <2>1, <3>1, <3>2 DEF HasKeys
    <2>2. CASE c # b
        <3>1. keys'[c] = keys[c] /\ bonded'[c] = bonded[c]
            BY <1>5, <2>2 DEF Reset, IInv, Typed, ObjectsTyped, LinkTyped
        <3>2. Some(calls'[c], Paired) => Some(calls[c], Paired)
            BY <1>2, <1>5, <2>2, MoreGrow
        <3>3. QED
            BY <3>1, <3>2 DEF HasKeys
    <2>3. QED
        BY <2>1, <2>2
<1>6. CASE PairingEnds
    <2>1. UNCHANGED bonded
        BY <1>6 DEF PairingEnds, objectVars
    <2>2. PICK success \in BOOLEAN : /\ keys' = IF success THEN [b \in Boards |-> TRUE] ELSE keys
                                     /\ calls' = [b \in Boards |-> post(calls[b], Call("pairingResult", success, 0))]
        BY <1>6 DEF PairingEnds
    <2>3. CASE success
        BY <2>2, <2>3 DEF HasKeys
    <2>4. CASE ~success
        <3>1. Call("pairingResult", success, 0) \notin Paired
            BY <2>4 DEF Paired, Call
        <3>2. Some(post(calls[c], Call("pairingResult", success, 0)), Paired) => Some(calls[c], Paired)
            BY <1>1, <3>1, PostSome
        <3>3. QED
            BY <2>1, <2>2, <2>4, <3>2 DEF HasKeys
    <2>5. QED
        BY <2>3, <2>4
<1>7. CASE UNCHANGED vars
    BY <1>7 DEF vars, objectVars, linkVars, HasKeys
<1>8. QED
    BY <1>3, <1>4, <1>5, <1>6, <1>7 DEF Next

(* Only a connection that failed is reported as one.                       *)
LEMMA FailureKnownKept ==
    ASSUME IInv, [Next]_vars, NEW c \in Boards, FailureKnown(c)
    PROVE  FailureKnown(c)'
<1>1. \A b \in Boards : calls[b] \in Seq(Waiting)
    BY DEF IInv, Queues
<1>2. Had({"connection"}) => Had({"connection"})'
    BY HadGrows
<1>3. ASSUME NEW cbs, GrowsTo(calls[c], calls'[c], cbs), "onConnectionComplete" \notin cbs
      PROVE  Some(calls'[c], Failed) => Some(calls[c], Failed)
    <2>1. \A e \in Failed : e.cb \notin cbs
        BY <1>3 DEF Failed
    <2>2. QED
        BY <1>1, <1>3, <2>1, GrowsSome, AgelessSets
<1>4. ASSUME NEW b \in Boards, NEW p \in DOMAIN calls[b], Dispatch(b, p)
      PROVE  Some(calls'[c], Failed) => Some(calls[c], Failed)
    <2>1. CASE c # b
        BY <1>3, <1>4, <2>1, HandlerGrows DEF HandlerPosts
    <2>2. CASE c = b
        <3>1. \A e \in Failed : e.cb \notin HandlerPosts
            BY DEF Failed, HandlerPosts
        <3>2. RemoveAt(calls[b], p) \in Seq(Waiting)
            BY <1>1, ServedIn
        <3>3. Some(calls'[b], Failed) => Some(RemoveAt(calls[b], p), Failed)
            BY <1>4, <3>1, <3>2, HandlerGrows, GrowsSome, AgelessSets
        <3>4. Some(RemoveAt(calls[b], p), Failed) => Some(calls[b], Failed)
            BY <1>1, ServedSome
        <3>5. QED
            BY <2>2, <3>3, <3>4
    <2>3. QED
        BY <2>1, <2>2
<1>5. ASSUME NEW b \in Boards,
             \/ SwitchRole(b) \/ AdvertisingExpires(b) \/ ScanExpires(b) \/ Report(b)
             \/ PairingAsked \/ PairingEnds \/ LinkLost
      PROVE  Some(calls'[c], Failed) => Some(calls[c], Failed)
    BY <1>3, <1>5, AirGrows, MoreGrow DEF AirPosts
<1>6. ASSUME NEW b \in Boards, Established(b) \/ Rejected(b)
      PROVE  Some(calls'[c], Failed) => Some(calls[c], Failed)
    <2> DEFINE e == Call("onConnectionComplete", TRUE, 0)
               ends == {Call("onAdvertisingEnd", TRUE, 0), Call("onDisconnectionComplete", 0, 0)}
    <2>1. e \notin Failed /\ \A d \in ends : d \notin Failed
        BY DEF Failed, Call
    <2>2. e \in Waiting
        BY EventWaits, Args DEF Names, Answers, Disconnects
    <2>3. calls'[c] = calls[c] \/ calls'[c] = post(calls[c], e) \/ \E d \in ends : calls'[c] = post(post(calls[c], e), d)
        BY <1>6, PeerIsBoard DEF Established, Rejected, Leaves, IInv, Queues
    <2> HIDE DEF e, ends
    <2>4. Some(post(calls[c], e), Failed) => Some(calls[c], Failed)
        BY <1>1, <2>1, PostSome
    <2>5. post(calls[c], e) \in Seq(Waiting)
        BY <1>1, <2>2, PostIn
    <2>6. \A d \in ends : Some(post(post(calls[c], e), d), Failed) => Some(post(calls[c], e), Failed)
        BY <2>1, <2>5, PostSome
    <2>7. QED
        BY <2>3, <2>4, <2>6
<1>7. ASSUME NEW b \in Boards, NotEstablished(b)
      PROVE  Had({"connection"})'
    BY <1>7 DEF NotEstablished, Fails, Had
<1>8. ASSUME NEW b \in Boards, Reset(b)
      PROVE  Some(calls'[c], Failed) => Some(calls[c], Failed)
    <2>1. CASE c = b
        <3>1. calls'[b] = <<>>
            BY <1>8, PeerIsBoard DEF Reset, IInv, Queues
        <3>2. QED
            BY <2>1, <3>1 DEF Some, Failed, Call
    <2>2. CASE c # b
        BY <1>3, <1>8, <2>2, MoreGrow
    <2>3. QED
        BY <2>1, <2>2
<1>9. CASE UNCHANGED vars
    BY <1>9 DEF vars, FailureKnown, Had
<1>10. QED
    BY <1>2, <1>4, <1>5, <1>6, <1>7, <1>8, <1>9 DEF Next, FailureKnown

(* A handler and the link: what became of it, and of the call that ran.    *)
LEMMA HandlerLinked ==
    ASSUME IInv, NEW b \in Boards, NEW p \in DOMAIN calls[b], Dispatch(b, p), link' # NoLink
    PROVE  /\ link # NoLink
           /\ calls[b][p] \notin Closing
           /\ calls[b][p] \in Current => ~handle[b]
           /\ \A c \in Boards : c # b => handle'[c] = handle[c]
           /\ calls[b][p] \notin Connected /\ calls[b][p] \notin Failed => handle'[b] = handle[b]
           /\ calls[b][p] \in Connected /\ bonded[b] => handle'[b] /\ Some(calls'[b], Current)
           /\ calls[b][p] \in Connected /\ ~bonded[b] => pairing' # "none" \/ \E c \in Boards : keys[c]
           /\ calls[b][p] \in Results => Some(calls'[b], Closing)
           /\ pairing # "none" => pairing' # "none"
<1> DEFINE q == RemoveAt(calls[b], p)
           c == calls[b][p]
<1>1. c \in Waiting /\ q \in Seq(Waiting) /\ handle \in [Boards -> BOOLEAN]
    <2>1. calls[b] \in Seq(Waiting)
        BY DEF IInv, Queues
    <2>2. QED
        BY <2>1, ServedIn DEF IInv, Typed, ObjectsTyped
<1>2. link # NoLink /\ \A queues : ~LinkEnds(queues)
    <2>1. \A queues : ~LinkEnds(queues)
        BY DEF LinkEnds
    <2>2. QED
        BY <2>1, HandlerGrows
<1> HIDE DEF q
<1>3. \A left : Leaves(b, left) => calls'[b] = left
    BY LeavesHere
<1>4. CASE c.cb \in {"on_init_complete", "start", "onAdvertisingReport", "onAdvertisingEnd", "onScanTimeout",
                     "onDisconnectionComplete"}
    <2>1. UNCHANGED <<handle, linkVars>>
        BY <1>4 DEF Dispatch, on_init_complete, startAgain, onAdvertisingReport, onAdvertisingEnd,
               onScanTimeout, onDisconnectionComplete
    <2>2. c \notin Closing /\ c \notin Current /\ c \notin Connected /\ c \notin Failed /\ c \notin Results
        BY <1>4 DEF Closing, Current, Connected, Failed, Results
    <2>3. QED
        BY <1>2, <2>1, <2>2 DEF linkVars
<1>5. CASE c.cb = "disconnect"
    BY <1>2, <1>5 DEF Dispatch, disconnect
<1>6. CASE c.cb = "disconnect_current"
    <2>1. ~handle[b] /\ UNCHANGED <<handle, linkVars>>
        BY <1>2, <1>6 DEF Dispatch, disconnect, objectVars
    <2>2. c \notin Closing /\ c \notin Connected /\ c \notin Failed /\ c \notin Results
        BY <1>6 DEF Closing, Connected, Failed, Results
    <2>3. QED
        BY <1>2, <2>1, <2>2 DEF linkVars
<1>7. CASE c.cb = "onConnectionComplete"
    <2>1. onConnectionComplete(b, q, c.arg)
        BY <1>7 DEF Dispatch, q
    <2>2. c.arg \in BOOLEAN /\ (c \in Connected <=> c.arg = TRUE) /\ (c \in Failed <=> c.arg = FALSE)
        BY <1>1, <1>7 DEF Waiting, Answers, Connected, Failed
    <2>3. handle' = [handle EXCEPT ![b] = c.arg]
        BY <2>1 DEF onConnectionComplete
    <2>4. c \notin Closing /\ c \notin Current /\ c \notin Results
        BY <1>7 DEF Closing, Current, Results
    <2>5. bonded[b] => Some(calls'[b], Current)
        <3>1. Disconnect("disconnect_current", TRUE) \in Current
            BY DisconnectWaits DEF Disconnects, Current, Disconnect, Call
        <3>2. Some(post(q, Disconnect("disconnect_current", TRUE)), Current)
            BY <1>1, <3>1, PostSome
        <3>3. QED
            BY <1>3, <2>1, <3>2 DEF onConnectionComplete
    <2>6. /\ pairing # "none" => pairing' # "none"
          /\ c.arg = TRUE /\ ~bonded[b] => pairing' # "none" \/ \E d \in Boards : keys[d]
        BY <1>2, <2>1 DEF onConnectionComplete, setLinkSecurity, linkVars
    <2>7. QED
        BY <1>1, <1>2, <2>2, <2>3, <2>4, <2>5, <2>6
<1>8. CASE c.cb = "pairingRequest"
    <2>1. pairingRequest(b, q)
        BY <1>8 DEF Dispatch, q
    <2>2. c \notin Closing /\ c \notin Current /\ c \notin Connected /\ c \notin Failed /\ c \notin Results
        BY <1>8 DEF Closing, Current, Connected, Failed, Results
    <2>3. UNCHANGED handle /\ (pairing # "none" => pairing' # "none")
        BY <2>1 DEF pairingRequest, objectVars
    <2>4. QED
        BY <1>2, <2>2, <2>3
<1>9. CASE c.cb = "pairingResult"
    <2>1. pairingResult(b, q, c.arg)
        BY <1>9 DEF Dispatch, q
    <2>2. Some(calls'[b], Closing)
        <3>1. Disconnect("disconnect", bonded'[b]) \in Closing
            BY DisconnectWaits DEF Disconnects, Closing, Disconnect, Call
        <3>2. Some(post(q, Disconnect("disconnect", bonded'[b])), Closing)
            BY <1>1, <3>1, PostSome
        <3>3. QED
            BY <1>3, <2>1, <3>2 DEF pairingResult
    <2>3. c \notin Closing /\ c \notin Current /\ c \notin Connected /\ c \notin Failed
        BY <1>9 DEF Closing, Current, Connected, Failed
    <2>4. UNCHANGED <<handle, linkVars>>
        BY <2>1 DEF pairingResult
    <2>5. QED
        BY <1>2, <2>2, <2>3, <2>4 DEF linkVars
<1>10. QED
    BY <1>1, <1>4, <1>5, <1>6, <1>7, <1>8, <1>9 DEF Waiting, AnyCall, Names

(* What waits after the handler ran.                                       *)
LEMMA HandlerStays ==
    ASSUME IInv, NEW b \in Boards, NEW p \in DOMAIN calls[b], Dispatch(b, p), NEW c \in Boards,
           NEW S, Ageless(S), c = b => calls[b][p] \notin S, Some(calls[c], S)
    PROVE  Some(calls'[c], S)
<1>1. \A d \in Boards : calls[d] \in Seq(Waiting)
    BY DEF IInv, Queues
<1>2. CASE c # b
    BY <1>1, <1>2, HandlerGrows, GrowsSome
<1>3. CASE c = b
    <2>1. RemoveAt(calls[b], p) \in Seq(Waiting) /\ Some(RemoveAt(calls[b], p), S)
        BY <1>1, <1>3, ServedIn, ServedSome
    <2>2. QED
        BY <1>3, <2>1, HandlerGrows, GrowsSome
<1>4. QED
    BY <1>2, <1>3

LEMMA AirStays ==
    ASSUME IInv, NEW b \in Boards, NEW c \in Boards, NEW S, Ageless(S), Some(calls[c], S),
           \/ SwitchRole(b) \/ AdvertisingExpires(b) \/ ScanExpires(b) \/ Report(b) \/ NotEstablished(b)
           \/ PairingAsked \/ PairingEnds
    PROVE  Some(calls'[c], S)
<1>1. calls[c] \in Seq(Waiting)
    BY DEF IInv, Queues
<1>2. \E cbs : GrowsTo(calls[c], calls'[c], cbs)
    BY AirGrows, MoreGrow
<1>3. QED
    BY <1>1, <1>2, GrowsSome

(* A failed connection is not handled while a link is up, unless it was    *)
(* left by a scan that timed out late.                                     *)
LEMMA FailedUnlinked ==
    ASSUME OrderInv, NEW b \in Boards, FailureKnown(b), ~BothFailed, Some(calls[b], Failed)
    PROVE  link = NoLink
<1>1. ~Had({"late"})
    BY DEF FailureKnown, Had, BothFailed
<1>2. Some(calls[b], Steps)
    BY SetsApart DEF Some
<1>3. QED
    BY <1>1, <1>2 DEF OrderInv, Orderly, InTurn, OneOf

LEMMA LinkedPosts ==
    ASSUME IInv, NEW b \in Boards, Established(b), NEW c \in Boards
    PROVE  Some(calls'[c], Connected)
<1> DEFINE e == Call("onConnectionComplete", TRUE, 0)
           d == Call("onAdvertisingEnd", TRUE, 0)
<1>1. e \in Connected /\ e \in Waiting
    BY EventWaits, Args DEF Names, Answers, Disconnects, Connected, Call
<1>2. calls[c] \in Seq(Waiting) /\ calls[Peer(b)] \in Seq(Waiting) /\ c \in {b, Peer(b)}
    BY PeerIsBoard, BoardsAssumption DEF IInv, Queues
<1>3. calls'[c] = post(calls[c], e) \/ calls'[c] = post(post(calls[c], e), d)
    BY <1>2, PeerIsBoard DEF Established, IInv, Queues
<1> HIDE DEF d, e
<1>4. post(calls[c], e) \in Seq(Waiting) /\ Some(post(calls[c], e), Connected)
    BY <1>1, <1>2, PostIn, PostSome
<1>5. Some(post(post(calls[c], e), d), Connected)
    BY <1>4, PostSome
<1>6. QED
    BY <1>3, <1>4, <1>5

LEMMA ClosesKept ==
    ASSUME IInv, OrderInv, \A b \in Boards : FailureKnown(b) /\ Closes(b), ~BothFailed, [Next]_vars,
           NEW c \in Boards
    PROVE  Closes(c)'
<1> SUFFICES ASSUME link' # NoLink, bonded'[c]
             PROVE  \/ Some(calls'[c], Connected) \/ Some(calls'[c], Closing)
                    \/ handle'[c] /\ Some(calls'[c], Current)
    BY DEF Closes
<1>1. ASSUME NEW b \in Boards, NEW p \in DOMAIN calls[b], Dispatch(b, p)
      PROVE  \/ Some(calls'[c], Connected) \/ Some(calls'[c], Closing)
             \/ handle'[c] /\ Some(calls'[c], Current)
    <2>1. link # NoLink
        BY <1>1, HandlerLinked
    <2>2. calls[b][p] \notin Failed
        BY <2>1, FailedUnlinked DEF Some
    <2>3. CASE c = b /\ calls[b][p] \in Connected
        <3>1. bonded[b]
            BY <1>1, <2>3, HandlerBonds DEF Connected, Paired
        <3>2. QED
            BY <1>1, <2>3, <3>1, HandlerLinked
    <2>4. CASE c = b /\ calls[b][p] \in Results
        BY <1>1, <2>4, HandlerLinked
    <2>5. CASE c = b => calls[b][p] \notin Connected /\ calls[b][p] \notin Results
        <3>1. bonded[c]
            <4>1. c = b => calls[b][p] \notin Paired
                BY <2>5 DEF Paired, Results
            <4>2. QED
                BY <1>1, <4>1, HandlerBonds
        <3>2. handle'[c] = handle[c]
            BY <1>1, <2>2, <2>5, HandlerLinked
        <3>3. Some(calls[c], Connected) => Some(calls'[c], Connected)
            BY <1>1, <2>5, HandlerStays, AgelessSets
        <3>4. Some(calls[c], Closing) => Some(calls'[c], Closing)
            BY <1>1, HandlerLinked, HandlerStays, AgelessSets
        <3>5. handle[c] /\ Some(calls[c], Current) => Some(calls'[c], Current)
            BY <1>1, HandlerLinked, HandlerStays, AgelessSets
        <3>6. QED
            BY <2>1, <3>1, <3>2, <3>3, <3>4, <3>5 DEF Closes
    <2>6. QED
        BY <2>3, <2>4, <2>5
<1>2. ASSUME NEW b \in Boards,
             \/ SwitchRole(b) \/ AdvertisingExpires(b) \/ ScanExpires(b) \/ Report(b) \/ NotEstablished(b)
             \/ PairingAsked \/ PairingEnds
      PROVE  \/ Some(calls'[c], Connected) \/ Some(calls'[c], Closing)
             \/ handle'[c] /\ Some(calls'[c], Current)
    <2>1. link' = link /\ bonded[c] /\ handle'[c] = handle[c]
        <3>1. UNCHANGED link
            BY <1>2 DEF SwitchRole, AdvertisingExpires, ScanExpires, Report, NotEstablished,
                        PairingAsked, PairingEnds, linkVars
        <3>2. CASE SwitchRole(b)
            BY <3>1, <3>2 DEF SwitchRole, IInv, Typed, ObjectsTyped
        <3>3. CASE ~SwitchRole(b)
            BY <1>2, <3>1, <3>3 DEF AdvertisingExpires, ScanExpires, Report, NotEstablished,
                                     PairingAsked, PairingEnds, objectVars
        <3>4. QED
            BY <3>2, <3>3
    <2>2. /\ Some(calls[c], Connected) => Some(calls'[c], Connected)
          /\ Some(calls[c], Closing) => Some(calls'[c], Closing)
          /\ Some(calls[c], Current) => Some(calls'[c], Current)
        BY <1>2, AirStays, AgelessSets
    <2>3. QED
        BY <2>1, <2>2 DEF Closes
<1>3. ASSUME NEW b \in Boards, Established(b)
      PROVE  Some(calls'[c], Connected)
    BY <1>3, LinkedPosts
<1>4. ASSUME NEW b \in Boards, Reset(b) \/ Rejected(b) \/ LinkLost
      PROVE  FALSE
    BY <1>4 DEF Reset, Rejected, linkVars, LinkLost, LinkEnds
<1>5. CASE UNCHANGED vars
    BY <1>5 DEF vars, objectVars, linkVars, Closes
<1>6. QED
    BY <1>1, <1>2, <1>3, <1>4, <1>5 DEF Next

LEMMA WillPairKept ==
    ASSUME IInv, \A b \in Boards : HasKeys(b), WillPair, [Next]_vars
    PROVE  WillPair'
<1> SUFFICES ASSUME link' # NoLink, \A b \in Boards : ~bonded'[b] /\ ~keys'[b]
             PROVE  \/ pairing' # "none"
                    \/ \E b \in Boards : \/ Some(calls'[b], Connected) \/ Some(calls'[b], Results)
                                         \/ Some(calls'[b], Closing)
    BY DEF WillPair
<1> DEFINE Posted(b) == Some(calls[b], Connected) \/ Some(calls[b], Results) \/ Some(calls[b], Closing)
<1>1. ASSUME NEW b \in Boards, NEW p \in DOMAIN calls[b], Dispatch(b, p)
      PROVE  pairing' # "none" \/ \E c \in Boards : Posted(c)'
    <2>1. link # NoLink /\ \A c \in Boards : ~bonded[c] /\ ~keys[c]
        BY <1>1, HandlerLinked, HandlerBonds
    <2>2. CASE pairing # "none"
        BY <1>1, <2>2, HandlerLinked
    <2>3. ASSUME NEW c \in Boards, Posted(c)
          PROVE  pairing' # "none" \/ Posted(c)'
        <3>1. CASE c = b /\ calls[b][p] \in Connected
            BY <1>1, <2>1, <3>1, HandlerLinked
        <3>2. CASE c = b /\ calls[b][p] \in Results
            BY <1>1, <3>2, HandlerLinked
        <3>3. CASE c = b => calls[b][p] \notin Connected /\ calls[b][p] \notin Results
            <4>1. Some(calls[c], Connected) => Some(calls'[c], Connected)
                BY <1>1, <3>3, HandlerStays, AgelessSets
            <4>2. Some(calls[c], Results) => Some(calls'[c], Results)
                BY <1>1, <3>3, HandlerStays, AgelessSets
            <4>3. Some(calls[c], Closing) => Some(calls'[c], Closing)
                BY <1>1, HandlerLinked, HandlerStays, AgelessSets
            <4>4. QED
                BY <2>3, <4>1, <4>2, <4>3
        <3>4. QED
            BY <3>1, <3>2, <3>3
    <2>4. QED
        BY <2>1, <2>2, <2>3 DEF WillPair
<1>2. ASSUME NEW b \in Boards,
             \/ SwitchRole(b) \/ AdvertisingExpires(b) \/ ScanExpires(b) \/ Report(b) \/ NotEstablished(b)
             \/ PairingAsked
      PROVE  pairing' # "none" \/ \E c \in Boards : Posted(c)'
    <2>1. link' = link /\ UNCHANGED keys /\ (pairing # "none" => pairing' # "none")
        BY <1>2 DEF SwitchRole, AdvertisingExpires, ScanExpires, Report, NotEstablished, PairingAsked, linkVars
    <2>2. \A c \in Boards : ~bonded[c]
        BY <2>1 DEF HasKeys
    <2>3. \A c \in Boards : Posted(c) => Posted(c)'
        BY <1>2, AirStays, AgelessSets
    <2>4. QED
        BY <2>1, <2>2, <2>3 DEF WillPair
<1>3. ASSUME NEW b \in Boards, Established(b)
      PROVE  Posted(b)'
    BY <1>3, LinkedPosts
<1>4. CASE PairingEnds
    <2>1. PICK success \in BOOLEAN : calls' = [b \in Boards |-> post(calls[b], Call("pairingResult", success, 0))]
        BY <1>4 DEF PairingEnds
    <2>2. Call("pairingResult", success, 0) \in Results
        BY EventWaits, Args DEF Names, Answers, Disconnects, Results, Call
    <2>3. ASSUME NEW b \in Boards
          PROVE  Some(post(calls[b], Call("pairingResult", success, 0)), Results)
        <3>1. calls[b] \in Seq(Waiting)
            BY DEF IInv, Queues
        <3>2. QED
            BY <2>2, <3>1, PostSome
    <2>4. \E b \in Boards : Posted(b)'
        BY <2>1, <2>3, BoardsAssumption
    <2>5. QED
        BY <2>4
<1>5. ASSUME NEW b \in Boards, Reset(b) \/ Rejected(b) \/ LinkLost
      PROVE  FALSE
    BY <1>5 DEF Reset, Rejected, linkVars, LinkLost, LinkEnds
<1>6. CASE UNCHANGED vars
    BY <1>6 DEF vars, objectVars, linkVars, WillPair
<1>7. QED
    BY <1>1, <1>2, <1>3, <1>4, <1>5, <1>6, BoardsAssumption DEF Next

(* A link does not stay up for ever (main.cpp:197, 240), for any number of *)
(* failures of every kind and resets: it is being paired, or one of the    *)
(* boards will disconnect it.  The exceptions are boards that hold keys    *)
(* their objects know nothing of, and a failed connection that a late scan *)
(* timeout left to overwrite the handle of the next link.                  *)
THEOREM LinksClosed == Spec => []LinksAreClosed
<1>1. Init => LinkInv
    <2>1. ASSUME Init, NEW b \in Boards
          PROVE  HasKeys(b) /\ FailureKnown(b) /\ Closes(b) /\ WillPair
        <3>1. ~bonded[b] /\ link = NoLink /\ calls[b] = <<>>
            BY <2>1 DEF Init
        <3>2. ~Some(calls[b], Paired) /\ ~Some(calls[b], Failed)
            BY <3>1 DEF Some, Paired, Failed, Call
        <3>3. QED
            BY <3>1, <3>2 DEF HasKeys, FailureKnown, Closes, WillPair
    <2>2. QED
        BY <2>1, BoardsAssumption DEF LinkInv
<1>2. IInv /\ OrderInv /\ LinkInv /\ [Next]_vars => LinkInv'
    <2> SUFFICES ASSUME IInv, OrderInv, LinkInv, [Next]_vars
                 PROVE  LinkInv'
        OBVIOUS
    <2>1. \A b \in Boards : HasKeys(b)' /\ FailureKnown(b)'
        BY HasKeysKept, FailureKnownKept DEF LinkInv
    <2>2. ~BothFailed' => ~BothFailed
        BY FailuresGrow DEF BothFailed, Fails
    <2>3. ~BothFailed' => \A b \in Boards : Closes(b)'
        BY <2>2, ClosesKept DEF LinkInv
    <2>4. WillPair'
        BY WillPairKept DEF LinkInv
    <2>5. QED
        BY <2>1, <2>3, <2>4 DEF LinkInv
<1>3. IInv /\ OrderInv /\ [Next]_vars => OrderInv'
    BY NextOrder
<1>4. QED
    BY <1>1, <1>2, <1>3, LinkInvSuffices, OrderInit, InitInv, NextInv, PTL DEF Spec

=============================================================================
