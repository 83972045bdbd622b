--------------------------- MODULE GapDemo_proofs ---------------------------
(***************************************************************************)
(* The board of the GAP demo keeps its variables' types on every build and *)
(* controller, and goes through its modes in sequence, with one chain of   *)
(* calls and one attempt to connect at a time, until two ends of a mode    *)
(* race.                                                                   *)
(***************************************************************************)
EXTENDS GapDemo, EventQueue_proofs

Anything == Nat \union {"legacy", "extended", "local", "remote", "lost"}

AnyCall == [cb : Callbacks, arg : Anything, delay : Nat, held : BOOLEAN]

(* The calls whose handle the demo keeps.                                  *)
Timers == {"end_advertising_mode", "disconnect"}

(* What may wait once m connections were established.                      *)
Waiting(m) == {c \in AnyCall : /\ c.cb = "onConnectionComplete" => c.arg \in 0..m
                               /\ c.cb = "disconnect" => c.arg \in 1..m
                               /\ c.held => c.cb \in Timers}

Reported(q) == Cardinality(Pending(q, {"onAdvertisingReport"}))

Fits(q, m, n) == q \in Seq(Waiting(m)) /\ Reported(q) <= n

(* The connections that the bound still allows.                            *)
Room == MaxConnections - made - (IF initiating THEN 1 ELSE 0)

IInv == TypeOK /\ Fits(calls, made, Room)

(* TypeOK without the set of flags and the queue, for the provers.         *)
Flags ==
    /\ is_scanning_phase \in BOOLEAN /\ is_connecting \in BOOLEAN /\ extended_adv_handle \in BOOLEAN
    /\ leaked \in BOOLEAN /\ initiating \in BOOLEAN /\ failed \in BOOLEAN /\ undestroyed \in BOOLEAN

Sets ==
    /\ legacy \in {"off", "on", "stopping"} /\ ext \in {"none", "off", "on", "stopping"}
    /\ scanner \in {"off", "on"} /\ links \subseteq 1..made /\ made \in 0..MaxConnections
    /\ races \subseteq RaceKinds

LEMMA Types == TypeOK => Flags /\ Sets
BY DEF TypeOK, Flags, Sets

LEMMA CallsTyped ==
    ASSUME NEW m, NEW n, NEW q, Fits(q, m, n)
    PROVE  /\ \A p \in DOMAIN q : q[p].cb \in Callbacks
           /\ \A p \in Pending(q, {"disconnect"}) : q[p].arg \in 1..m
<1>1. \A p \in DOMAIN q : q[p] \in Waiting(m)
    BY LenProperties, ElementOfSeq DEF Fits
<1>2. QED
    BY <1>1 DEF Waiting, AnyCall, Pending

LEMMA TypesKept ==
    ASSUME Flags', Sets', NEW n, Fits(calls', made', n)
    PROVE  TypeOK'
<1>1. /\ \A p \in DOMAIN calls' : calls'[p].cb \in Callbacks
      /\ \A p \in Pending(calls', {"disconnect"}) : calls'[p].arg \in 1..made'
    BY CallsTyped
<1>2. QED
    BY <1>1 DEF TypeOK, Flags, Sets

LEMMA CallWaits ==
    ASSUME NEW m, NEW cb \in Callbacks, NEW arg \in Anything, NEW delay \in Nat,
           cb = "onConnectionComplete" => arg \in 0..m, cb = "disconnect" => arg \in 1..m
    PROVE  Call(cb, arg, delay) \in Waiting(m) /\ Call(cb, arg, delay).cb = cb
BY DEF Call, Waiting, AnyCall

LEMMA HeldWaits ==
    ASSUME NEW m, NEW c \in Waiting(m), NEW b \in BOOLEAN, b => c.cb \in Timers
    PROVE  [c EXCEPT !.held = b] \in Waiting(m) /\ [c EXCEPT !.held = b].cb = c.cb
BY DEF Waiting, AnyCall

LEMMA FitsTyped ==
    ASSUME NEW m, NEW n, NEW q, Fits(q, m, n)
    PROVE  Reported(q) \in Nat
BY PendingFinite DEF Fits, Reported

LEMMA FitsPosted ==
    ASSUME NEW m, NEW n, NEW q, Fits(q, m, n), NEW c \in Waiting(m), c.cb # "onAdvertisingReport"
    PROVE  Fits(post(q, c), m, n)
<1>1. q \in Seq(Waiting(m)) /\ c.cb \notin {"onAdvertisingReport"}
    BY DEF Fits
<1>2. post(q, c) \in Seq(Waiting(m))
    BY <1>1, PostIn
<1>3. Reported(post(q, c)) = Reported(q) + (IF c.cb \in {"onAdvertisingReport"} THEN 1 ELSE 0)
    BY <1>1, PostCount DEF Reported
<1>4. QED
    BY <1>1, <1>2, <1>3, FitsTyped DEF Fits

LEMMA FitsHeld ==
    ASSUME NEW m, NEW n, NEW q, Fits(q, m, n), NEW c \in Waiting(m), c.cb \in Timers
    PROVE  Fits(post_held(q, c), m, n)
<1>1. q \in Seq(Waiting(m)) /\ c.cb \notin {"onAdvertisingReport"}
    BY DEF Fits, Timers
<1>2. post_held(q, c) \in Seq(Waiting(m))
    BY <1>1, PostHeldIn, HeldWaits
<1>3. \A d \in Waiting(m) \union {c} : \A b \in BOOLEAN : [d EXCEPT !.held = b].cb = d.cb
    BY DEF Waiting, AnyCall
<1>4. Reported(post_held(q, c)) = Reported(q) + (IF c.cb \in {"onAdvertisingReport"} THEN 1 ELSE 0)
    BY <1>1, <1>3, PostHeldCount DEF Reported
<1>5. QED
    BY <1>1, <1>2, <1>4, FitsTyped DEF Fits

LEMMA FitsCancelled ==
    ASSUME NEW m, NEW n \in Int, NEW q, Fits(q, m, n)
    PROVE  Fits(cancel(q), m, n)
<1>1. cancel(q) \in Seq(Waiting(m)) /\ Reported(cancel(q)) <= Reported(q)
    BY CancelIn, CancelCount DEF Fits, Reported
<1>2. Reported(q) \in Nat /\ Reported(cancel(q)) \in Nat
    BY <1>1, FitsTyped, PendingFinite DEF Reported
<1>3. QED
    BY <1>1, <1>2 DEF Fits

LEMMA FitsServed ==
    ASSUME NEW m, NEW n \in Int, NEW q, Fits(q, m, n), NEW p \in DOMAIN q
    PROVE  /\ q[p] \in Waiting(m)
           /\ Fits(RemoveAt(q, p), m, IF q[p].cb = "onAdvertisingReport" THEN n - 1 ELSE n)
<1>1. q[p] \in Waiting(m) /\ RemoveAt(q, p) \in Seq(Waiting(m))
    BY ServedIn DEF Fits
<1>2. Reported(RemoveAt(q, p)) <= Reported(q) - (IF q[p].cb \in {"onAdvertisingReport"} THEN 1 ELSE 0)
    BY ServedCount DEF Fits, Reported
<1>3. Reported(q) \in Nat /\ Reported(RemoveAt(q, p)) \in Nat
    BY <1>1, FitsTyped, PendingFinite DEF Reported
<1>4. QED
    BY <1>1, <1>2, <1>3 DEF Fits

(* More connections were established, or there is more room.               *)
LEMMA FitsStill ==
    ASSUME NEW m \in Nat, NEW n \in Int, NEW q, Fits(q, m, n),
           NEW m2 \in Nat, NEW n2 \in Int, m <= m2, n <= n2
    PROVE  Fits(q, m2, n2)
<1>1. Waiting(m) \subseteq Waiting(m2)
    BY DEF Waiting
<1>2. q \in Seq(Waiting(m2))
    BY <1>1, SeqMonotonic DEF Fits
<1>3. QED
    BY <1>2, FitsTyped DEF Fits

LEMMA RoomTyped == ASSUME IInv
                   PROVE  Room \in Int /\ made \in Nat /\ MaxConnections \in Nat
BY GapAssumption, Types DEF Flags, Sets, IInv, Room

-----------------------------------------------------------------------------
(* The handlers.  q is what the queue holds besides the running call.      *)

Posts == {"advertise", "scan", "end_scanning_mode", "end_advertising_mode", "onScanTimeout"}

LEMMA PostsWait ==
    ASSUME NEW m
    PROVE  \A cb \in Posts, delay \in {0, 3, 10} :
               Call(cb, 0, delay) \in Waiting(m) /\ Call(cb, 0, delay).cb # "onAdvertisingReport"
<1> SUFFICES ASSUME NEW cb \in Posts, NEW delay \in {0, 3, 10}
             PROVE  Call(cb, 0, delay) \in Waiting(m) /\ Call(cb, 0, delay).cb # "onAdvertisingReport"
    OBVIOUS
<1>1. /\ cb \in Callbacks /\ 0 \in Anything /\ delay \in Nat
      /\ cb \notin {"onConnectionComplete", "disconnect", "onAdvertisingReport"}
    BY DEF Posts, Callbacks, Anything
<1>2. QED
    BY <1>1, CallWaits

LEMMA PostFits ==
    ASSUME NEW m, NEW n, NEW q, Fits(q, m, n), NEW cb \in Posts, NEW delay \in {0, 3, 10}
    PROVE  /\ Fits(post(q, Call(cb, 0, delay)), m, n)
           /\ cb = "end_advertising_mode" => Fits(post_held(q, Call(cb, 0, delay)), m, n)
<1>1. Call(cb, 0, delay) \in Waiting(m) /\ Call(cb, 0, delay).cb # "onAdvertisingReport"
    BY PostsWait
<1>2. cb = "end_advertising_mode" => Call(cb, 0, delay).cb \in Timers
    BY DEF Call, Timers
<1>3. QED
    BY <1>1, <1>2, FitsPosted, FitsHeld

LEMMA AdvertiseInv ==
    ASSUME IInv, NEW q, Fits(q, made, Room), advertise(q)
    PROVE  IInv'
<1> DEFINE timer == post_held(q, Call("end_advertising_mode", 0, 10))
<1>1. Fits(timer, made, Room)
    BY PostFits DEF Posts
<1> HIDE DEF timer
<1>2. calls' \in {q, timer}
    BY DEF advertise, startExtendedSet, timer
<1>3. made' = made /\ Room' = Room /\ links' = links
    BY DEF advertise, Room, linkVars
<1>4. Fits(calls, made, Room)'
    BY <1>1, <1>2, <1>3 DEF Fits
<1>5. legacy' \in {"off", "on", "stopping"} /\ ext' \in {"none", "off", "on", "stopping"}
    BY Types DEF Flags, Sets, advertise, startExtendedSet, setVars, IInv
<1>6. /\ extended_adv_handle' \in BOOLEAN /\ leaked' \in BOOLEAN /\ failed' \in BOOLEAN
    BY Types DEF Flags, Sets, advertise, startExtendedSet, setVars, IInv
<1>7. undestroyed' \in BOOLEAN /\ races' \subseteq RaceKinds
    BY Types DEF Flags, Sets, IInv, RaceKinds, Race, setVars, advertise
<1>8. TypeOK'
    BY <1>3, <1>4, <1>5, <1>6, <1>7, TypesKept, Types DEF Flags, Sets, advertise, linkVars, IInv
<1>9. QED
    BY <1>4, <1>8 DEF IInv

LEMMA ModeInv ==
    ASSUME IInv, NEW q, Fits(q, made, Room),
           scan(q) \/ end_scanning_mode(q) \/ end_advertising_mode(q) \/ onScanTimeout(q)
    PROVE  IInv'
<1>1. /\ Fits(post(q, Call("advertise", 0, Delay)), made, Room)
      /\ Fits(post(q, Call("scan", 0, Delay)), made, Room)
      /\ Fits(post(q, Call("end_scanning_mode", 0, 0)), made, Room)
    BY PostFits DEF Posts, Delay
<1>2. made' = made /\ Room' = Room /\ links' = links /\ initiating' = initiating
      /\ is_connecting' = is_connecting /\ extended_adv_handle' = extended_adv_handle
      /\ leaked' = leaked
    BY DEF scan, end_scanning_mode, end_advertising_mode, onScanTimeout, Room, linkVars, demoVars, setVars
<1>3. Fits(calls', made, Room)
    BY <1>1 DEF scan, end_scanning_mode, end_advertising_mode, onScanTimeout
<1>4. Fits(calls, made, Room)'
    BY <1>2, <1>3 DEF Fits
<1>5. legacy' \in {"off", "on", "stopping"} /\ ext' \in {"none", "off", "on", "stopping"}
    BY Types DEF Flags, Sets, scan, end_scanning_mode, end_advertising_mode, onScanTimeout, setVars, stopAdvertising, IInv
<1>6. scanner' \in {"off", "on"} /\ is_scanning_phase' \in BOOLEAN /\ failed' \in BOOLEAN
    BY Types DEF Flags, Sets, scan, end_scanning_mode, end_advertising_mode, onScanTimeout, demoVars, IInv
<1>7. undestroyed' \in BOOLEAN /\ races' \subseteq RaceKinds
    BY Types DEF Flags, Sets, IInv, RaceKinds, Race, setVars, scan, end_scanning_mode,
       end_advertising_mode, onScanTimeout
<1>8. TypeOK'
    BY <1>2, <1>4, <1>5, <1>6, <1>7, TypesKept, Types DEF Flags, Sets, IInv
<1>9. QED
    BY <1>4, <1>8 DEF IInv

LEMMA DisconnectInv ==
    ASSUME IInv, NEW q, Fits(q, made, Room), NEW handle, disconnect(q, handle)
    PROVE  IInv'
<1> DEFINE d == Call("onDisconnectionComplete", "local", 0)
<1>1. d \in Waiting(made) /\ d.cb = "onDisconnectionComplete"
    <2>1. "onDisconnectionComplete" \in Callbacks /\ "local" \in Anything
        BY DEF Callbacks, Anything
    <2>2. QED
        BY <2>1, CallWaits
<1> HIDE DEF d
<1>2. Fits(post(q, d), made, Room)
    BY <1>1, FitsPosted
<1>3. made' = made /\ Room' = Room /\ initiating' = initiating
    BY DEF disconnect, Room
<1>4. Fits(calls, made, Room)'
    BY <1>2, <1>3 DEF disconnect, d, Fits
<1>5. links' \subseteq 1..made
    BY Types DEF Flags, Sets, disconnect, IInv
<1>6. TypeOK'
    BY <1>3, <1>4, <1>5, TypesKept, Types DEF Flags, Sets, disconnect, demoVars, setVars, IInv
<1>7. QED
    BY <1>4, <1>6 DEF IInv

(* A connection is asked for in place of the report.                       *)
LEMMA ReportInv ==
    ASSUME IInv, NEW q, Fits(q, made, Room - 1), onAdvertisingReport(q)
    PROVE  IInv'
<1>1. Room \in Int /\ Room - 1 \in Int /\ made \in Nat /\ MaxConnections \in Nat
    BY RoomTyped
<1>2. Fits(cancel(q), made, Room - 1)
    BY <1>1, FitsCancelled
<1>3. made' = made /\ links' = links /\ calls' \in {q, cancel(q)}
    BY DEF onAdvertisingReport
<1>4. /\ initiating' \in BOOLEAN /\ is_connecting' \in BOOLEAN /\ failed' \in BOOLEAN
      /\ scanner' \in {"off", "on"}
      /\ initiating' = initiating \/ (~initiating /\ initiating')
    BY Types DEF Flags, Sets, onAdvertisingReport, IInv
<1>5. Room' \in Int /\ Room - 1 <= Room'
    BY <1>1, <1>3, <1>4 DEF Room
<1>6. Fits(calls', made', Room')
    BY <1>1, <1>2, <1>3, <1>5, FitsStill
<1>7. undestroyed' \in BOOLEAN /\ races' \subseteq RaceKinds
    BY Types DEF Flags, Sets, IInv, RaceKinds, Race, setVars, onAdvertisingReport
<1>8. TypeOK'
    BY <1>3, <1>4, <1>6, <1>7, TypesKept, Types DEF Flags, Sets, onAdvertisingReport, setVars, IInv
<1>9. QED
    BY <1>6, <1>8 DEF IInv, Fits

LEMMA AdvertisingEndInv ==
    ASSUME IInv, NEW q, Fits(q, made, Room), NEW set, onAdvertisingEnd(q, set)
    PROVE  IInv'
<1>1. Fits(post(q, Call("scan", 0, Delay)), made, Room)
    BY PostFits DEF Posts, Delay
<1>2. made' = made /\ Room' = Room /\ links' = links
    BY DEF onAdvertisingEnd, Room, linkVars
<1>3. Fits(calls', made, Room)
    BY <1>1 DEF onAdvertisingEnd, scanNext
<1>4. Fits(calls, made, Room)'
    BY <1>2, <1>3 DEF Fits
<1>5. TypeOK'
    BY <1>2, <1>4, TypesKept, Types DEF Flags, Sets, onAdvertisingEnd, linkVars, IInv
<1>6. QED
    BY <1>4, <1>5 DEF IInv

LEMMA ConnectionInv ==
    ASSUME IInv, NEW q, Fits(q, made, Room), NEW handle \in 0..made, onConnectionComplete(q, handle)
    PROVE  IInv'
<1> DEFINE d == Call("disconnect", handle, Delay)
<1>1. Room \in Int /\ made \in Nat
    BY RoomTyped
<1>2. ASSUME handle # 0
      PROVE  Fits(post_held(cancel(q), d), made, Room)
    <2>1. handle \in 1..made /\ handle \in Anything /\ Delay \in Nat
        BY <1>1, <1>2 DEF Anything, Delay
    <2>2. d \in Waiting(made) /\ d.cb \in Timers
        BY <2>1, CallWaits DEF Callbacks, Timers
    <2> HIDE DEF d
    <2>3. QED
        BY <1>1, <2>2, FitsCancelled, FitsHeld
<1>3. made' = made /\ Room' = Room /\ links' = links
    BY DEF onConnectionComplete, connectionHandled, Room, linkVars
<1>4. Fits(calls', made, Room)
    BY <1>2 DEF onConnectionComplete, connectionHandled
<1>5. Fits(calls, made, Room)'
    BY <1>3, <1>4 DEF Fits
<1>6. legacy' \in {"off", "on", "stopping"} /\ ext' \in {"none", "off", "on", "stopping"}
    BY Types DEF Flags, Sets, onConnectionComplete, connectionHandled, stopActiveSets, stopAdvertising, IInv
<1>7. TypeOK'
    BY <1>3, <1>5, <1>6, TypesKept, Types DEF Flags, Sets, onConnectionComplete, connectionHandled, linkVars, IInv
<1>8. QED
    BY <1>5, <1>7 DEF IInv

LEMMA DisconnectionInv ==
    ASSUME IInv, NEW q, Fits(q, made, Room), NEW reason, onDisconnectionComplete(q, reason)
    PROVE  IInv'
<1>1. Fits(cancel(q), made, Room)
    BY RoomTyped, FitsCancelled
<1>2. /\ endOfMode \in {Call("end_scanning_mode", 0, 0), Call("end_advertising_mode", 0, 0)}
      /\ \A x : Fits(x, made, Room) => Fits(post(x, endOfMode), made, Room)
    BY PostFits DEF endOfMode, Posts
<1>3. made' = made /\ Room' = Room /\ links' = links
    BY DEF onDisconnectionComplete, Room, linkVars
<1>4. Fits(calls', made, Room)
    BY <1>1, <1>2 DEF onDisconnectionComplete
<1>5. Fits(calls, made, Room)'
    BY <1>3, <1>4 DEF Fits
<1>6. TypeOK'
    BY <1>3, <1>5, TypesKept, Types DEF Flags, Sets, onDisconnectionComplete, demoVars, setVars, linkVars, IInv
<1>7. QED
    BY <1>5, <1>6 DEF IInv

LEMMA DispatchInv ==
    ASSUME IInv, NEW p \in DOMAIN calls, Dispatch(p)
    PROVE  IInv'
<1> DEFINE q == RemoveAt(calls, p)
           c == calls[p]
<1>1. /\ c \in Waiting(made)
      /\ Fits(q, made, IF c.cb = "onAdvertisingReport" THEN Room - 1 ELSE Room)
    BY RoomTyped, FitsServed DEF IInv
<1>2. c.cb = "onConnectionComplete" => c.arg \in 0..made
    BY <1>1 DEF Waiting
<1>3. c.cb # "onAdvertisingReport" => Fits(q, made, Room)
    BY <1>1
<1>4. c.cb = "onAdvertisingReport" => Fits(q, made, Room - 1)
    BY <1>1
<1> HIDE DEF q
<1>5. CASE c.cb = "advertise" /\ advertise(q)
    BY <1>3, <1>5, AdvertiseInv
<1>6. CASE c.cb = "scan" /\ scan(q)
    BY <1>3, <1>6, ModeInv
<1>7. CASE c.cb = "end_scanning_mode" /\ end_scanning_mode(q)
    BY <1>3, <1>7, ModeInv
<1>8. CASE c.cb = "end_advertising_mode" /\ end_advertising_mode(q)
    BY <1>3, <1>8, ModeInv
<1>9. CASE c.cb = "disconnect" /\ disconnect(q, c.arg)
    BY <1>3, <1>9, DisconnectInv
<1>10. CASE c.cb = "onAdvertisingReport" /\ onAdvertisingReport(q)
    BY <1>4, <1>10, ReportInv
<1>11. CASE c.cb = "onAdvertisingEnd" /\ onAdvertisingEnd(q, c.arg)
    BY <1>3, <1>11, AdvertisingEndInv
<1>12. CASE c.cb = "onScanTimeout" /\ onScanTimeout(q)
    BY <1>3, <1>12, ModeInv
<1>13. CASE c.cb = "onConnectionComplete" /\ onConnectionComplete(q, c.arg)
    BY <1>2, <1>3, <1>13, ConnectionInv
<1>14. CASE c.cb = "onDisconnectionComplete" /\ onDisconnectionComplete(q, c.arg)
    BY <1>3, <1>14, DisconnectionInv
<1>15. QED
    BY <1>5, <1>6, <1>7, <1>8, <1>9, <1>10, <1>11, <1>12, <1>13, <1>14 DEF Dispatch, q

-----------------------------------------------------------------------------
(* The stack and the peers.                                                *)

LEMMA SignalFits ==
    ASSUME IInv, NEW cb \in Callbacks, NEW arg \in Anything, NEW m \in Nat, made <= m,
           cb = "onConnectionComplete" => arg \in 0..m, cb = "disconnect" => arg \in 1..m,
           cb # "onAdvertisingReport", Signal(cb, arg), NEW n \in Int, Room <= n
    PROVE  Fits(calls', m, n)
<1>1. Call(cb, arg, 0) \in Waiting(m) /\ Call(cb, arg, 0).cb = cb
    BY CallWaits
<1>2. Fits(calls, m, n)
    BY RoomTyped, FitsStill DEF IInv
<1>3. Fits(post(calls, Call(cb, arg, 0)), m, n)
    BY <1>1, <1>2, FitsPosted
<1>4. QED
    BY <1>3 DEF Signal

LEMMA EndInv ==
    ASSUME IInv, LegacyEnds \/ ExtendedEnds \/ ScanExpires \/ LinkLost
    PROVE  IInv'
<1>1. Fits(calls', made, Room)
    <2>1. Room \in Int /\ Room <= Room /\ made \in Nat /\ made <= made
        BY RoomTyped
    <2>2. PICK cb \in {"onAdvertisingEnd", "onScanTimeout", "onDisconnectionComplete"},
               arg \in {0, "legacy", "extended", "remote", "lost"} : Signal(cb, arg)
        BY DEF LegacyEnds, ExtendedEnds, ScanExpires, LinkLost
    <2>3. cb \in Callbacks /\ arg \in Anything
          /\ cb \notin {"onConnectionComplete", "disconnect", "onAdvertisingReport"}
        BY DEF Callbacks, Anything
    <2>4. QED
        BY <2>1, <2>2, <2>3, SignalFits
<1>2. made' = made /\ Room' = Room /\ links' \subseteq links
    BY DEF LegacyEnds, ExtendedEnds, ScanExpires, LinkLost, Room, linkVars
<1>3. Fits(calls, made, Room)'
    BY <1>1, <1>2 DEF Fits
<1>4. TypeOK'
    BY <1>2, <1>3, TypesKept, Types
       DEF Flags, Sets, LegacyEnds, ExtendedEnds, ScanExpires, LinkLost, demoVars, setVars, linkVars, IInv
<1>5. QED
    BY <1>3, <1>4 DEF IInv

LEMMA AttemptsTyped == ASSUME IInv, Attempts < MaxConnections
                       PROVE  Room > 0 /\ Reported(calls) <= Room - 1
<1>1. Reported(calls) \in Nat
    BY FitsTyped DEF IInv
<1>2. QED
    BY <1>1, RoomTyped DEF Attempts, Room, Reported

LEMMA ReportedInv ==
    ASSUME IInv, Report
    PROVE  IInv'
<1> DEFINE r == Call("onAdvertisingReport", 0, 0)
<1>1. r \in Waiting(made) /\ r.cb = "onAdvertisingReport"
    BY CallWaits DEF Callbacks, Anything
<1> HIDE DEF r
<1>2. calls' = post(calls, r) /\ calls \in Seq(Waiting(made))
    BY DEF Report, Signal, r, IInv, Fits
<1>3. calls' \in Seq(Waiting(made))
    BY <1>1, <1>2, PostIn
<1>4. Reported(calls') = Reported(calls) + 1
    BY <1>1, <1>2, PostCount DEF Reported
<1>5. Reported(calls) \in Nat /\ Reported(calls) <= Room - 1 /\ Room \in Int
    BY AttemptsTyped, FitsTyped, RoomTyped DEF Report, IInv
<1>6. made' = made /\ Room' = Room
    BY DEF Report, Room, linkVars
<1>7. Fits(calls, made, Room)'
    <2>1. Reported(calls') <= Room
        BY <1>4, <1>5
    <2>2. QED
        BY <1>3, <1>6, <2>1 DEF Fits
<1>8. TypeOK'
    BY <1>6, <1>7, TypesKept, Types DEF Flags, Sets, Report, demoVars, setVars, linkVars, IInv
<1>9. QED
    BY <1>7, <1>8 DEF IInv

LEMMA AnsweredInv ==
    ASSUME IInv, Established \/ NotEstablished \/ CentralConnects
    PROVE  IInv'
<1>1. /\ Room \in Int /\ made \in Nat /\ MaxConnections \in Nat /\ Reported(calls) \in Nat
      /\ Reported(calls) <= Room
    BY RoomTyped, FitsTyped DEF IInv, Fits
<1>2. /\ initiating' \in BOOLEAN /\ failed' \in BOOLEAN
      /\ legacy' \in {"off", "on", "stopping"} /\ links' \subseteq links \union {made'}
      /\ \/ made' = made + 1 /\ Signal("onConnectionComplete", made')
         \/ made' = made /\ Signal("onConnectionComplete", 0) /\ links' = links
    BY Types DEF Flags, Sets, Established, NotEstablished, CentralConnects, setVars, IInv
<1>3. made' \in 0..MaxConnections /\ Reported(calls) <= Room' /\ Room' \in Int
    <2>1. CASE Established \/ NotEstablished
        BY <1>1, <1>2, <2>1, Types DEF Flags, Sets, Established, NotEstablished, Room, IInv
    <2>2. CASE CentralConnects
        BY <1>1, <1>2, <2>2, AttemptsTyped, Types DEF Flags, Sets, CentralConnects, Room, IInv
    <2>3. QED
        BY <2>1, <2>2
<1>4. Fits(calls, made', Room')
    <2>1. Waiting(made) \subseteq Waiting(made')
        BY <1>1, <1>2 DEF Waiting
    <2>2. QED
        BY <1>3, <2>1, SeqMonotonic DEF IInv, Fits
<1>5. Fits(calls', made', Room')
    <2>1. PICK arg \in {0, made'} : Signal("onConnectionComplete", arg)
        BY <1>2
    <2>2. Call("onConnectionComplete", arg, 0) \in Waiting(made')
          /\ Call("onConnectionComplete", arg, 0).cb = "onConnectionComplete"
        <3>1. arg \in 0..made' /\ arg \in Anything /\ "onConnectionComplete" \in Callbacks
            BY <1>3 DEF Callbacks, Anything
        <3>2. QED
            BY <3>1, CallWaits
    <2>3. QED
        BY <1>4, <2>1, <2>2, FitsPosted DEF Signal
<1>6. links' \subseteq 1..made'
    BY <1>1, <1>2, Types DEF Flags, Sets, IInv
<1>7. undestroyed' \in BOOLEAN /\ races' \subseteq RaceKinds
    BY Types DEF Flags, Sets, IInv, RaceKinds, Race, setVars, Established,
       NotEstablished, CentralConnects
<1>8. TypeOK'
    BY <1>2, <1>3, <1>5, <1>6, <1>7, TypesKept, Types
       DEF Flags, Sets, Established, NotEstablished, CentralConnects, demoVars, setVars, IInv
<1>9. QED
    BY <1>5, <1>8 DEF IInv, Fits

-----------------------------------------------------------------------------

LEMMA InitInv == ASSUME Init PROVE IInv
<1> DEFINE a == Call("advertise", 0, 0)
<1>1. a \in Waiting(made) /\ a.cb = "advertise"
    BY CallWaits DEF Callbacks, Anything
<1> HIDE DEF a
<1>2. <<>> \in Seq(Waiting(made)) /\ Reported(<<>>) = 0
    BY FS_EmptySet, EmptySeq DEF Reported, Pending
<1>3. Room \in Int /\ Room >= 0
    BY GapAssumption DEF Init, Room
<1>4. Fits(<<>>, made, Room)
    BY <1>2, <1>3 DEF Fits
<1>5. calls = post(<<>>, a)
    BY DEF Init, a, post
<1>6. Fits(calls, made, Room)
    BY <1>1, <1>4, <1>5, FitsPosted
<1>7. TypeOK
    <2>1. MaxConnections \in Nat
        BY GapAssumption
    <2>2. Flags
        BY DEF Flags, Init
    <2>3. Sets
        BY <2>1 DEF Sets, Init
    <2>4. QED
        BY <1>6, <2>2, <2>3, CallsTyped DEF TypeOK, Flags, Sets
<1>8. QED
    BY <1>6, <1>7 DEF IInv

LEMMA NextInv == ASSUME IInv, [Next]_vars PROVE IInv'
<1>1. CASE Served
    BY <1>1, DispatchInv DEF Served
<1>2. CASE LegacyEnds \/ ExtendedEnds \/ ScanExpires \/ LinkLost
    BY <1>2, EndInv
<1>3. CASE Report
    BY <1>3, ReportedInv
<1>4. CASE Established \/ NotEstablished \/ CentralConnects
    BY <1>4, AnsweredInv
<1>5. CASE UNCHANGED vars
    <2>1. Room' = Room /\ Fits(calls, made, Room)'
        BY <1>5 DEF vars, linkVars, Room, Fits, IInv
    <2>2. QED
        BY <1>5, <2>1, TypesKept, Types DEF Flags, Sets, vars, demoVars, setVars, linkVars, IInv
<1>6. QED
    BY <1>1, <1>2, <1>3, <1>4, <1>5 DEF Next

LEMMA Invariant == Spec => []IInv
<1>1. QED
    BY InitInv, NextInv, PTL DEF Spec

(* The variables keep their types on every build and controller, and a     *)
(* disconnection is only posted for a connection that was established.     *)
THEOREM GapTyped == Spec => []TypeOK
<1>1. IInv => TypeOK
    BY DEF IInv
<1>2. QED
    BY <1>1, Invariant, PTL

-----------------------------------------------------------------------------
(* A board that nobody connects to asks for one connection at a time, on   *)
(* every build and after every race: the flag is set while the stack       *)
(* initiates or its answer waits, never both, and one answer waits.        *)

Answers == {c \in AnyCall : c.cb = "onConnectionComplete"}

AskInv ==
    /\ ~(initiating /\ Some(calls, Answers))
    /\ is_connecting <=> initiating \/ Some(calls, Answers)
    /\ AtMostOne(calls, Answers)

(* The queue x has the answers that q has.                                 *)
Keeps(q, x) == /\ Some(x, Answers) <=> Some(q, Answers)
               /\ AtMostOne(q, Answers) => AtMostOne(x, Answers)

LEMMA KeepsPosted ==
    ASSUME NEW m, NEW q \in Seq(Waiting(m)), NEW c, c.cb # "onConnectionComplete"
    PROVE  Keeps(q, post(q, c))
<1>1. c \notin Answers
    BY DEF Answers
<1>2. QED
    BY <1>1, PostSome, PostAtMostOne DEF Keeps

LEMMA KeepsHeld ==
    ASSUME NEW m, NEW q \in Seq(Waiting(m)), NEW c \in Waiting(m), c.cb \in Timers
    PROVE  Keeps(q, post_held(q, c))
<1>1. [c EXCEPT !.held = TRUE] \notin Answers
    BY DEF Answers, AnyCall, Waiting, Timers
<1>2. \A d \in Waiting(m) : [d EXCEPT !.held = FALSE] \in Answers <=> d \in Answers
    BY DEF Answers, AnyCall, Waiting
<1>3. QED
    BY <1>1, <1>2, HeldSome DEF Keeps

LEMMA KeepsCancelled ==
    ASSUME NEW m, NEW q \in Seq(Waiting(m))
    PROVE  cancel(q) \in Seq(Waiting(m)) /\ Keeps(q, cancel(q))
<1>1. \A c \in Waiting(m) : c.held => c \notin Answers
    BY DEF Waiting, Answers, Timers
<1>2. QED
    BY <1>1, CancelIn, CancelSome DEF Keeps

LEMMA KeepsAsking ==
    ASSUME AskInv, NEW q, Keeps(q, calls'), Keeps(calls, q),
           UNCHANGED <<initiating, is_connecting>>
    PROVE  AskInv'
BY DEF AskInv, Keeps

LEMMA DispatchAsk ==
    ASSUME IInv, AskInv, NEW p \in DOMAIN calls, Dispatch(p)
    PROVE  AskInv'
<1> DEFINE q == RemoveAt(calls, p)
           c == calls[p]
           S == Seq(Waiting(made))
<1>1. calls \in S /\ q \in S /\ c \in Waiting(made) /\ (c \in Answers <=> c.cb = "onConnectionComplete")
    BY ServedIn DEF IInv, Fits, Waiting, Answers
<1>2. /\ c \notin Answers => Keeps(calls, q)
      /\ c \in Answers => Some(calls, Answers) /\ ~Some(q, Answers)
    <2>1. AtMostOne(calls, Answers)
        BY DEF AskInv
    <2>2. AtMostOne(q, Answers)
        BY <1>1, <2>1, ServedAtMostOne
    <2>3. /\ c \notin Answers => (Some(q, Answers) <=> Some(calls, Answers))
          /\ c \in Answers => ~Some(q, Answers)
        BY <1>1, <2>1, ServedSome
    <2>4. c \in Answers => Some(calls, Answers)
        BY DEF Some
    <2>5. QED
        BY <2>2, <2>3, <2>4 DEF Keeps
<1> HIDE DEF q
<1>3. \A x \in S : \A cb \in Callbacks \ {"onConnectionComplete"} : \A arg, delay :
          Keeps(x, post(x, Call(cb, arg, delay)))
    <2> TAKE x \in S
    <2> TAKE cb \in Callbacks \ {"onConnectionComplete"}
    <2> TAKE arg, delay
    <2>1. Call(cb, arg, delay).cb # "onConnectionComplete"
        BY DEF Call
    <2>2. QED
        BY <2>1, KeepsPosted
<1>4. cancel(q) \in S /\ Keeps(q, cancel(q)) /\ Keeps(q, q)
    BY <1>1, KeepsCancelled DEF Keeps
<1>5. CASE c.cb = "advertise" /\ advertise(q)
    <2> DEFINE d == Call("end_advertising_mode", 0, 10)
    <2>1. d \in Waiting(made) /\ d.cb \in Timers
        BY CallWaits DEF Callbacks, Anything, Timers
    <2> HIDE DEF d
    <2>2. Keeps(q, post_held(q, d))
        BY <1>1, <2>1, KeepsHeld
    <2>3. Keeps(q, calls') /\ UNCHANGED <<initiating, is_connecting>>
        BY <1>4, <1>5, <2>2 DEF advertise, startExtendedSet, linkVars, d
    <2>4. QED
        BY <1>1, <1>2, <1>5, <2>3, KeepsAsking
<1>6. CASE c.cb = "scan" /\ scan(q)
    BY <1>1, <1>2, <1>4, <1>6, KeepsAsking DEF scan, demoVars, linkVars
<1>7. CASE c.cb = "end_scanning_mode" /\ end_scanning_mode(q)
    BY <1>1, <1>2, <1>3, <1>7, KeepsAsking DEF end_scanning_mode, linkVars, Callbacks
<1>8. CASE c.cb = "end_advertising_mode" /\ end_advertising_mode(q)
    <2>1. Keeps(q, calls')
        BY <1>1, <1>3, <1>4, <1>8 DEF end_advertising_mode, Callbacks
    <2>2. QED
        BY <1>1, <1>2, <1>8, <2>1, KeepsAsking DEF end_advertising_mode, linkVars
<1>9. CASE c.cb = "disconnect" /\ disconnect(q, c.arg)
    <2>1. Keeps(q, calls')
        BY <1>1, <1>3, <1>4, <1>9 DEF disconnect, Callbacks
    <2>2. QED
        BY <1>1, <1>2, <1>9, <2>1, KeepsAsking DEF disconnect, demoVars
<1>10. CASE c.cb = "onAdvertisingReport" /\ onAdvertisingReport(q)
    <2>1. Keeps(q, calls') /\ Keeps(calls, q)
        BY <1>1, <1>2, <1>4, <1>10 DEF onAdvertisingReport
    <2>2. CASE UNCHANGED <<initiating, is_connecting>>
        BY <2>1, <2>2, KeepsAsking
    <2>3. CASE ~is_connecting /\ initiating' /\ is_connecting'
        BY <2>1, <2>3 DEF AskInv, Keeps
    <2>4. QED
        BY <1>10, <2>2, <2>3, Zenon DEF onAdvertisingReport
<1>11. CASE c.cb = "onAdvertisingEnd" /\ onAdvertisingEnd(q, c.arg)
    <2>1. Keeps(q, calls')
        BY <1>1, <1>3, <1>4, <1>11 DEF onAdvertisingEnd, scanNext, Callbacks
    <2>2. QED
        BY <1>1, <1>2, <1>11, <2>1, KeepsAsking DEF onAdvertisingEnd, linkVars
<1>12. CASE c.cb = "onScanTimeout" /\ onScanTimeout(q)
    BY <1>1, <1>2, <1>3, <1>12, KeepsAsking DEF onScanTimeout, demoVars, linkVars, Callbacks
<1>13. CASE c.cb = "onConnectionComplete" /\ onConnectionComplete(q, c.arg)
    <2> DEFINE d == Call("disconnect", c.arg, Delay)
    <2>1. ASSUME c.arg # 0
          PROVE  Keeps(cancel(q), post_held(cancel(q), d))
        <3>1. c.arg \in 1..made /\ c.arg \in Anything /\ Delay \in Nat
            BY <1>1, <1>13, <2>1, RoomTyped DEF Anything, Delay, Waiting
        <3>2. /\ "disconnect" \in Callbacks /\ "disconnect" # "onConnectionComplete"
              /\ "disconnect" \in Timers
            BY DEF Callbacks, Timers
        <3>3. d \in Waiting(made) /\ d.cb \in Timers
            BY <3>1, <3>2, CallWaits
        <3> HIDE DEF d
        <3>4. QED
            BY <1>4, <3>3, KeepsHeld
    <2>2. Keeps(q, calls')
        BY <1>4, <1>13, <2>1 DEF onConnectionComplete, connectionHandled, Keeps
    <2>3. ~Some(calls', Answers) /\ AtMostOne(calls', Answers)
        BY <1>1, <1>2, <1>13, <2>2 DEF Keeps, AtMostOne, Some
    <2>4. ~initiating' /\ ~is_connecting'
        BY <1>1, <1>2, <1>13 DEF AskInv, onConnectionComplete, connectionHandled, linkVars
    <2>5. QED
        BY <2>3, <2>4 DEF AskInv
<1>14. CASE c.cb = "onDisconnectionComplete" /\ onDisconnectionComplete(q, c.arg)
    <2>1. \A x \in S : Keeps(x, post(x, endOfMode))
        BY <1>3 DEF endOfMode, Callbacks
    <2>2. Keeps(q, calls')
        BY <1>1, <1>4, <1>14, <2>1 DEF onDisconnectionComplete, Keeps
    <2>3. QED
        BY <1>1, <1>2, <1>14, <2>2, KeepsAsking DEF onDisconnectionComplete, demoVars, linkVars
<1>15. QED
    BY <1>5, <1>6, <1>7, <1>8, <1>9, <1>10, <1>11, <1>12, <1>13, <1>14 DEF Dispatch, q

LEMMA StackAsk ==
    ASSUME IInv, AskInv, ~Connectable,
           \/ LegacyEnds \/ ExtendedEnds \/ ScanExpires \/ LinkLost \/ Report
           \/ Established \/ NotEstablished \/ CentralConnects
    PROVE  AskInv'
<1>1. calls \in Seq(Waiting(made))
    BY DEF IInv, Fits
<1>2. CASE LegacyEnds \/ ExtendedEnds \/ ScanExpires \/ LinkLost \/ Report
    <2>1. PICK cb \in Callbacks \ {"onConnectionComplete"}, arg \in {0, "legacy", "extended", "remote", "lost"} :
              Signal(cb, arg)
        BY <1>2 DEF LegacyEnds, ExtendedEnds, ScanExpires, LinkLost, Report, Callbacks
    <2>2. Call(cb, arg, 0).cb # "onConnectionComplete"
        BY <2>1 DEF Call
    <2>3. Keeps(calls, calls') /\ Keeps(calls, calls)
        BY <1>1, <2>1, <2>2, KeepsPosted DEF Signal, Keeps
    <2>4. QED
        BY <1>2, <2>3, KeepsAsking
           DEF LegacyEnds, ExtendedEnds, ScanExpires, LinkLost, Report, demoVars, linkVars
<1>3. CASE Established \/ NotEstablished
    <2>1. PICK arg \in {0, made + 1} : Signal("onConnectionComplete", arg)
        BY <1>3 DEF Established, NotEstablished
    <2> DEFINE d == Call("onConnectionComplete", arg, 0)
    <2>2. d \in Answers
        <3>1. arg \in 0..(made + 1) /\ arg \in Anything
            BY RoomTyped DEF Anything
        <3>2. d \in Waiting(made + 1) /\ d.cb = "onConnectionComplete"
            BY <3>1, CallWaits DEF Callbacks
        <3>3. QED
            BY <3>2 DEF Answers, Waiting
    <2>3. calls' = post(calls, d)
        BY <2>1 DEF Signal
    <2> HIDE DEF d
    <2>4. ~Some(calls, Answers) /\ is_connecting /\ is_connecting' = is_connecting /\ ~initiating'
        BY <1>3 DEF AskInv, Established, NotEstablished, demoVars
    <2>5. Some(calls', Answers)
        BY <1>1, <2>2, <2>3, PostSome
    <2>6. AtMostOne(calls', Answers)
        BY <1>1, <2>3, <2>4, PostAtMostOne DEF AskInv
    <2>7. QED
        BY <2>4, <2>5, <2>6 DEF AskInv
<1>4. QED
    BY <1>2, <1>3 DEF CentralConnects

LEMMA AskInvariant ==
    ASSUME ~Connectable
    PROVE  Spec => [](IInv /\ AskInv)
<1>1. ASSUME Init
      PROVE  AskInv
    <2>1. Call("advertise", 0, 0) \notin Answers
        BY DEF Call, Answers
    <2>2. QED
        BY <1>1, <2>1 DEF Init, AskInv, Some, AtMostOne
<1>2. ASSUME IInv, AskInv, [Next]_vars
      PROVE  AskInv'
    <2>1. CASE Served
        BY <1>2, <2>1, DispatchAsk DEF Served
    <2>2. CASE UNCHANGED vars
        BY <1>2, <2>2 DEF vars, demoVars, linkVars, AskInv
    <2>3. QED
        BY <1>2, <2>1, <2>2, StackAsk DEF Next
<1>3. QED
    BY <1>1, <1>2, InitInv, NextInv, PTL DEF Spec

-----------------------------------------------------------------------------
(* One chain of modes, until two ends of a mode race.  The controller      *)
(* stops scanning to connect; events, timers and reports may pile up in    *)
(* the queue as they like.                                                 *)

Named(cbs) == {c \in AnyCall : c.cb \in cbs}

Held  == {c \in AnyCall : c.held}
Timer == {c \in Held : c.cb = "end_advertising_mode"}

(* The disconnection of connection m that can still be cancelled.          *)
Closing(m) == {c \in Held : c.cb = "disconnect" /\ c.arg = m}

(* The calls that enter or end a mode, and the events that lead to one.    *)
Steps == {c \in Named({"advertise", "scan", "end_scanning_mode", "end_advertising_mode",
                        "onScanTimeout", "onDisconnectionComplete"}) : ~c.held}
Enters      == Named({"advertise"})
Arms        == Named({"advertise", "scan"})
Scanners    == Named({"scan", "end_scanning_mode", "onScanTimeout"})
Advertisers == Named({"advertise", "end_advertising_mode"})
Success     == {c \in Answers : c.arg # 0}
Losses      == Named({"onDisconnectionComplete"})
LegacyOver  == {c \in Named({"onAdvertisingEnd"}) : c.arg = "legacy"}
ExtOver     == {c \in Named({"onAdvertisingEnd"}) : c.arg = "extended"}

(* What may wait: the answer of the last connection or of a failed one.    *)
Known(m) == {c \in Waiting(m) :
    /\ c.cb = "onConnectionComplete" => c.arg \in {0, m} /\ c.delay = 0
    /\ c.cb = "onAdvertisingEnd" => c.arg \in {"legacy", "extended"}}

KnownInv == calls \in Seq(Known(made))

(* A loss follows the answer of its connection.                            *)
OnceInv == /\ AtMostOne(calls, Held) /\ AtMostOne(calls, Steps) /\ AtMostOne(calls, Answers)
           /\ AtMostOne(calls, LegacyOver) /\ AtMostOne(calls, ExtOver)
           /\ Before(calls, Answers, Losses)

(* The stack refused a call, or lacks what the build waits for.            *)
Excused == failed \/ (ExtCompiled /\ ~ExtSupported)

Idle == scanner = "off" /\ ~initiating
Free == links = {} /\ Idle /\ legacy # "on"

(* Nothing carries the demo on.                                            *)
Resting ==
    /\ Free /\ ext = "none" /\ Excused
    /\ ~Some(calls, Steps) /\ ~Some(calls, Timer) /\ ~Some(calls, Success)

(* A step waits, with nothing that could start or end a mode beside it.    *)
Stepping ==
    /\ Free /\ ext = "none"
    /\ Some(calls, Steps) /\ ~Some(calls, Timer) /\ ~Some(calls, Answers)
    /\ Excused \/ is_scanning_phase \/ Some(calls, Enters) \/ ~ExtCompiled

Alone == ~Some(calls, Steps) /\ ~Some(calls, Answers) /\ links = {}

(* The advertising mode, until its timer or a connection ends it.          *)
Advertising ==
    /\ Alone /\ Idle /\ ~is_scanning_phase /\ legacy = "on" /\ ext # "stopping"
    /\ Excused \/ (Some(calls, Timer) /\ (ExtCompiled => ext = "on"))

(* The extended set stops, and its end leads to the next mode.             *)
Ending ==
    /\ Alone /\ Idle /\ ~is_scanning_phase /\ legacy # "on" /\ ~Some(calls, Timer)
    /\ ext = "stopping" \/ (ext = "off" /\ Excused)

(* The scanning mode, until its timeout or a peer is found.                *)
Scanning ==
    /\ Alone /\ is_scanning_phase /\ legacy # "on" /\ ext = "none" /\ ~Some(calls, Timer)
    /\ scanner = "on" <=> ~initiating

(* The link is made and its answer or its disconnection waits; or it was   *)
(* lost before the demo learned of it.                                     *)
Linked ==
    /\ Idle /\ legacy # "on" /\ ext = "none"
    /\ Excused \/ is_scanning_phase \/ ~ExtCompiled
    /\ \/ /\ links = {made} /\ ~Some(calls, Steps)
          /\ \/ Some(calls, Success)
             \/ ~Some(calls, Timer) /\ ~Some(calls, Answers) /\ Some(calls, Closing(made))
       \/ links = {} /\ Some(calls, Losses) /\ Some(calls, Success)

Shape == Resting \/ Stepping \/ Advertising \/ Ending \/ Scanning \/ Linked

PhaseInv ==
    /\ Some(calls, Scanners) => is_scanning_phase
    /\ Some(calls, Advertisers) => ~is_scanning_phase

SetInv ==
    /\ ext # "none" => ExtCompiled /\ ExtSupported
    /\ extended_adv_handle <=> (ext # "none")
    /\ Some(calls, LegacyOver) => legacy = "stopping"
    /\ Some(calls, ExtOver) => ext = "stopping"
    /\ leaked => undestroyed

FlagInv ==
    /\ initiating => is_connecting
    /\ is_connecting => initiating \/ Some(calls, Answers)

BoardInv == KnownInv /\ OnceInv /\ Shape /\ PhaseInv /\ SetInv /\ FlagInv

GapInv == IInv /\ (races = {} => BoardInv)

LEMMA Members ==
    ASSUME NEW m, NEW c \in Known(m)
    PROVE  /\ c \in Held <=> c.held
           /\ c \in Timer <=> c.held /\ c.cb = "end_advertising_mode"
           /\ \A n : c \in Closing(n) <=> c.held /\ c.cb = "disconnect" /\ c.arg = n
           /\ c \in Steps <=> /\ c.cb \in {"advertise", "scan", "end_scanning_mode", "end_advertising_mode",
                                           "onScanTimeout", "onDisconnectionComplete"}
                              /\ ~c.held
           /\ c \in Enters <=> c.cb = "advertise"
           /\ c \in Arms <=> c.cb \in {"advertise", "scan"}
           /\ c \in Scanners <=> c.cb \in {"scan", "end_scanning_mode", "onScanTimeout"}
           /\ c \in Advertisers <=> c.cb \in {"advertise", "end_advertising_mode"}
           /\ c \in Answers <=> c.cb = "onConnectionComplete"
           /\ c \in Success <=> c.cb = "onConnectionComplete" /\ c.arg # 0
           /\ c \in Losses <=> c.cb = "onDisconnectionComplete"
           /\ c \in LegacyOver <=> c.cb = "onAdvertisingEnd" /\ c.arg = "legacy"
           /\ c \in ExtOver <=> c.cb = "onAdvertisingEnd" /\ c.arg = "extended"
           /\ c.held => c.cb \in {"end_advertising_mode", "disconnect"}
<1>1. c \in AnyCall /\ (c.held => c.cb \in Timers)
    BY DEF Known, Waiting
<1>2. QED
    BY <1>1 DEF Named, Held, Timer, Closing, Steps, Enters, Arms, Scanners, Advertisers, Answers, Success,
                Losses, LegacyOver, ExtOver, Timers

LEMMA Inclusions ==
    ASSUME NEW m, NEW q \in Seq(Known(m))
    PROVE  /\ Some(q, Timer) => Some(q, Held)
           /\ Some(q, Success) => Some(q, Answers)
           /\ Some(q, Enters) => Some(q, Arms)
           /\ Some(q, Arms) \/ Some(q, Scanners) \/ Some(q, Losses) => Some(q, Steps)
           /\ Some(q, Advertisers) => Some(q, Steps) \/ Some(q, Timer)
<1>1. \A i \in DOMAIN q : q[i] \in Known(m)
    BY LenProperties, ElementOfSeq
<1>2. \A c \in Known(m) :
          /\ c \in Timer => c \in Held
          /\ c \in Success => c \in Answers
          /\ c \in Enters => c \in Arms
          /\ c \in Arms \/ c \in Scanners \/ c \in Losses => c \in Steps
          /\ c \in Advertisers => c \in Steps \/ c \in Timer
    <2> TAKE c \in Known(m)
    <2>1. /\ c \in Timer => c \in Held
          /\ c \in Success => c \in Answers
          /\ c \in Enters => c \in Arms
        BY Members
    <2>2. c.held \in BOOLEAN
        BY DEF Known, Waiting, AnyCall
    <2>3. c \in Arms \/ c \in Scanners \/ c \in Losses => c \in Steps
        BY <2>2, Members
    <2>4. c \in Advertisers => c \in Steps \/ c \in Timer
        BY <2>2, Members
    <2>5. QED
        BY <2>1, <2>3, <2>4
<1>3. QED
    BY <1>1, <1>2 DEF Some

LEMMA KnownCall ==
    ASSUME NEW m \in Nat, NEW cb \in Callbacks \ {"disconnect"}, NEW arg \in Anything, NEW delay \in Nat,
           cb = "onConnectionComplete" => arg \in {0, m} /\ delay = 0,
           cb = "onAdvertisingEnd" => arg \in {"legacy", "extended"}
    PROVE  /\ Call(cb, arg, delay) \in Known(m)
           /\ Call(cb, arg, delay).cb = cb /\ Call(cb, arg, delay).arg = arg
           /\ ~Call(cb, arg, delay).held
<1>1. Call(cb, arg, delay) \in Waiting(m)
    BY CallWaits
<1>2. QED
    BY <1>1 DEF Call, Known

(* The calls that the modes post.                                          *)
LEMMA ModeCall ==
    ASSUME NEW m \in Nat, NEW cb \in Posts, NEW delay \in Nat
    PROVE  /\ Call(cb, 0, delay) \in Known(m) /\ Call(cb, 0, delay) \in Steps
           /\ Call(cb, 0, delay) \in Enters <=> cb = "advertise"
           /\ Call(cb, 0, delay) \in Arms <=> cb \in {"advertise", "scan"}
           /\ Call(cb, 0, delay) \in Scanners <=> cb \in {"scan", "end_scanning_mode", "onScanTimeout"}
           /\ Call(cb, 0, delay) \in Advertisers <=> cb \in {"advertise", "end_advertising_mode"}
           /\ Call(cb, 0, delay) \notin Losses
<1> DEFINE d == Call(cb, 0, delay)
<1>1. cb \in Callbacks \ {"disconnect", "onConnectionComplete", "onAdvertisingEnd"} /\ 0 \in Anything
    BY DEF Posts, Callbacks, Anything
<1>2. d \in Known(m) /\ d.cb = cb /\ ~d.held
    BY <1>1, KnownCall
<1> HIDE DEF d
<1>3. cb \in {"advertise", "scan", "end_scanning_mode", "end_advertising_mode", "onScanTimeout"}
    BY DEF Posts
<1>4. /\ d \in Known(m) /\ d \in Steps
      /\ d \in Enters <=> cb = "advertise"
      /\ d \in Arms <=> cb \in {"advertise", "scan"}
      /\ d \in Scanners <=> cb \in {"scan", "end_scanning_mode", "onScanTimeout"}
      /\ d \in Advertisers <=> cb \in {"advertise", "end_advertising_mode"}
      /\ d \notin Losses
    BY <1>2, <1>3, Members
<1>5. QED
    BY <1>4 DEF d

(* What the queue holds once c was posted.                                 *)
LEMMA Posted ==
    ASSUME NEW A, NEW q \in Seq(A), NEW c \in A
    PROVE  /\ post(q, c) \in Seq(A)
           /\ \A S : Some(post(q, c), S) <=> Some(q, S) \/ c \in S
           /\ \A S : AtMostOne(q, S) /\ (c \in S => ~Some(q, S)) => AtMostOne(post(q, c), S)
           /\ \A S, T : Before(q, S, T) /\ (c \in S => c \notin T /\ ~Some(q, T))
                            => Before(post(q, c), S, T)
<1>1. \A S : Some(post(q, c), S) <=> Some(q, S) \/ c \in S
    BY PostSome
<1>2. \A S : AtMostOne(q, S) /\ (c \in S => ~Some(q, S)) => AtMostOne(post(q, c), S)
    BY PostAtMostOne
<1>3. \A S, T : Before(q, S, T) /\ (c \in S => c \notin T /\ ~Some(q, T)) => Before(post(q, c), S, T)
    BY PostBefore
<1>4. QED
    BY <1>1, <1>2, <1>3, PostIn

(* cancel takes the call that is held, and no other one.                   *)
LEMMA Cancelled ==
    ASSUME NEW m, NEW q \in Seq(Known(m)), AtMostOne(q, Held)
    PROVE  /\ cancel(q) \in Seq(Known(m)) /\ ~Some(cancel(q), Held)
           /\ \A S : Some(cancel(q), S) => Some(q, S)
           /\ \A S : (\A c \in Known(m) : c.held => c \notin S) => (Some(cancel(q), S) <=> Some(q, S))
           /\ \A S : AtMostOne(q, S) => AtMostOne(cancel(q), S)
           /\ \A S, T : Before(q, S, T) => Before(cancel(q), S, T)
<1>1. \A c \in Known(m) : c \in Held <=> c.held
    BY Members
<1>2. cancel(q) \in Seq(Known(m)) /\ ~Some(cancel(q), Held)
    BY <1>1, CancelIn, CancelsHeld
<1>3. /\ \A S : Some(cancel(q), S) => Some(q, S)
      /\ \A S : (\A c \in Known(m) : c.held => c \notin S) => (Some(cancel(q), S) <=> Some(q, S))
      /\ \A S : AtMostOne(q, S) => AtMostOne(cancel(q), S)
    BY CancelSome
<1>4. \A S, T : Before(q, S, T) => Before(cancel(q), S, T)
    BY CancelBefore
<1>5. QED
    BY <1>2, <1>3, <1>4

(* Without elements of a set, it is the first and the only one of any.     *)
LEMMA NoneOf ==
    ASSUME NEW q, NEW S, ~Some(q, S)
    PROVE  AtMostOne(q, S) /\ \A T : Before(q, S, T)
BY DEF Some, AtMostOne, Before

(* q is what the queue holds while c runs.                                 *)
Running(q, c) ==
    /\ c \in Known(made) /\ q \in Seq(Known(made))
    /\ \A S : Some(q, S) => Some(calls, S)
    /\ \A S : c \in S => Some(calls, S)
    /\ \A S : c \notin S => (Some(q, S) <=> Some(calls, S))
    /\ \A S : c \in S /\ AtMostOne(calls, S) => ~Some(q, S)
    /\ \A S : AtMostOne(calls, S) => AtMostOne(q, S)
    /\ Before(q, Answers, Losses)
    /\ c \in Losses => ~Some(q, Answers)

LEMMA Runs ==
    ASSUME BoardInv, NEW p \in DOMAIN calls, Dispatch(p)
    PROVE  Running(RemoveAt(calls, p), calls[p])
<1> DEFINE q == RemoveAt(calls, p)
           c == calls[p]
<1>1. calls \in Seq(Known(made)) /\ Before(calls, Answers, Losses) /\ Due(calls, p)
    BY DEF BoardInv, KnownInv, OnceInv, Dispatch
<1>2. c \in Known(made) /\ q \in Seq(Known(made))
    BY <1>1, ServedIn
<1>3. \A S : /\ Some(q, S) => Some(calls, S)
             /\ c \notin S => (Some(q, S) <=> Some(calls, S))
             /\ c \in S /\ AtMostOne(calls, S) => ~Some(q, S)
    <2> TAKE S
    <2> QED
        BY <1>1, ServedSome
<1>4. \A S : c \in S => Some(calls, S)
    BY DEF Some
<1>5. \A S : AtMostOne(calls, S) => AtMostOne(q, S)
    BY <1>1, ServedAtMostOne
<1>6. Before(q, Answers, Losses)
    BY <1>1, ServedBefore
<1>7. ASSUME c \in Losses
      PROVE  ~Some(q, Answers)
    <2>1. c.delay \in Nat
        BY <1>2 DEF Known, Waiting, AnyCall
    <2>2. \A d \in Known(made) : d \in Answers => d.delay = 0
        BY DEF Answers, Known
    <2>3. QED
        BY <1>1, <1>7, <2>1, <2>2, ServedAfter
<1>8. QED
    BY <1>2, <1>3, <1>4, <1>5, <1>6, <1>7 DEF Running

(* Nothing is under way but the end of the legacy set; a disconnection for *)
(* a link that is gone may wait.                                           *)
Still(q) ==
    /\ q \in Seq(Known(made)) /\ AtMostOne(q, Held) /\ AtMostOne(q, LegacyOver)
    /\ ~Some(q, Steps) /\ ~Some(q, Timer) /\ ~Some(q, Answers) /\ ~Some(q, ExtOver)
    /\ Some(q, LegacyOver) => legacy = "stopping"

(* The steps of the board that are steps of DemoModes, and the others.     *)
Entered == /\ Some(calls, Arms) /\ legacy # "on" /\ scanner # "on" /\ ~Some(calls', Arms)
           /\ is_scanning_phase' = is_scanning_phase
           /\ legacy' = "on" => ~is_scanning_phase
           /\ scanner' = "on" => is_scanning_phase
           /\ ~(legacy' = "on" /\ scanner' = "on")
Jumped  == /\ ~Some(calls, Arms) /\ Some(calls', Arms) /\ legacy' # "on" /\ scanner' # "on"
           /\ is_scanning_phase' # is_scanning_phase
Same    == /\ Some(calls', Arms) <=> Some(calls, Arms)
           /\ is_scanning_phase' = is_scanning_phase
Quieted == Same /\ legacy' # "on" /\ scanner' # "on"
Kept    == Same /\ (legacy' = "on" <=> legacy = "on") /\ (scanner' = "on" <=> scanner = "on")

Moves == Entered \/ Jumped \/ Quieted \/ Kept

(* The board has one step to take: d.                                      *)
LEMMA ToStep ==
    ASSUME NEW q, Still(q), NEW d \in Known(made), d \in Steps, calls' = post(q, d),
           made' = made, links' = {}, scanner' = "off", ~initiating', ~is_connecting',
           legacy' # "on", legacy' = legacy \/ ~Some(q, LegacyOver),
           ext' = "none", ~extended_adv_handle', leaked' => undestroyed',
           d \in Scanners => is_scanning_phase', d \in Advertisers => ~is_scanning_phase',
           Excused' \/ is_scanning_phase' \/ d \in Enters \/ ~ExtCompiled,
           ~Some(calls, Arms), is_scanning_phase' # is_scanning_phase <=> d \in Arms
    PROVE  BoardInv' /\ Moves
<1>1. /\ q \in Seq(Known(made)) /\ AtMostOne(q, Held) /\ AtMostOne(q, LegacyOver)
      /\ ~Some(q, Steps) /\ ~Some(q, Timer) /\ ~Some(q, Answers) /\ ~Some(q, ExtOver)
      /\ Some(q, LegacyOver) => legacy = "stopping"
    BY DEF Still
<1>2. d \notin Held /\ d \notin Timer /\ d \notin Answers /\ d \notin LegacyOver /\ d \notin ExtOver
    BY Members
<1>3. ~Some(q, Arms) /\ ~Some(q, Scanners) /\ ~Some(q, Advertisers) /\ ~Some(q, Enters) /\ ~Some(q, Losses)
    BY <1>1, Inclusions
<1>4. /\ calls' \in Seq(Known(made))
      /\ \A S : Some(calls', S) <=> Some(q, S) \/ d \in S
      /\ \A S : AtMostOne(q, S) /\ (d \in S => ~Some(q, S)) => AtMostOne(calls', S)
    BY <1>1, Posted
<1>5. ~Some(calls', Answers) /\ ~Some(calls', ExtOver)
    BY <1>1, <1>2, <1>4
<1>6. AtMostOne(q, Steps)
    BY <1>1, NoneOf
<1>7. AtMostOne(calls', Answers) /\ AtMostOne(calls', ExtOver) /\ Before(calls, Answers, Losses)'
    BY <1>5, NoneOf
<1>8. KnownInv' /\ OnceInv'
    BY <1>1, <1>2, <1>4, <1>6, <1>7 DEF KnownInv, OnceInv
<1>9. Stepping'
    BY <1>1, <1>2, <1>3, <1>4, <1>5 DEF Stepping, Free, Idle
<1>10. PhaseInv' /\ SetInv' /\ FlagInv'
    BY <1>1, <1>2, <1>3, <1>4, <1>5 DEF PhaseInv, SetInv, FlagInv
<1>11. Some(calls', Arms) <=> d \in Arms
    BY <1>3, <1>4
<1>12. Moves
    BY <1>11 DEF Moves, Jumped, Quieted, Same
<1>13. QED
    BY <1>8, <1>9, <1>10, <1>12 DEF BoardInv, Shape

(* The board goes to no other mode, as the stack refused.                  *)
LEMMA ToRest ==
    ASSUME NEW q, Still(q), calls' = q, Excused',
           made' = made, links' = {}, scanner' = "off", ~initiating', ~is_connecting',
           legacy' # "on", legacy' = legacy,
           ext' = "none", ~extended_adv_handle', leaked' => undestroyed',
           is_scanning_phase' = is_scanning_phase, Some(calls, Arms) => legacy # "on" /\ scanner # "on"
    PROVE  BoardInv' /\ Moves
<1>1. /\ q \in Seq(Known(made)) /\ AtMostOne(q, Held) /\ AtMostOne(q, LegacyOver)
      /\ ~Some(q, Steps) /\ ~Some(q, Timer) /\ ~Some(q, Answers) /\ ~Some(q, ExtOver)
      /\ Some(q, LegacyOver) => legacy = "stopping"
    BY DEF Still
<1>2. ~Some(q, Arms) /\ ~Some(q, Scanners) /\ ~Some(q, Advertisers) /\ ~Some(q, Success)
    BY <1>1, Inclusions
<1>3. AtMostOne(q, Steps) /\ AtMostOne(q, Answers) /\ AtMostOne(q, ExtOver) /\ Before(q, Answers, Losses)
    BY <1>1, NoneOf
<1>4. KnownInv' /\ OnceInv'
    BY <1>1, <1>3 DEF KnownInv, OnceInv
<1>5. Resting'
    BY <1>1, <1>2 DEF Resting, Free, Idle
<1>6. PhaseInv' /\ SetInv' /\ FlagInv'
    BY <1>1, <1>2 DEF PhaseInv, SetInv, FlagInv
<1>7. Moves
    BY <1>2 DEF Moves, Entered, Quieted, Same
<1>8. QED
    BY <1>4, <1>5, <1>6, <1>7 DEF BoardInv, Shape

(* The queue changed in nothing that the board's state tells of.           *)
Alike ==
    /\ Some(calls', Steps) <=> Some(calls, Steps)
    /\ Some(calls', Timer) <=> Some(calls, Timer)
    /\ Some(calls', Answers) <=> Some(calls, Answers)
    /\ Some(calls', Success) <=> Some(calls, Success)
    /\ Some(calls', Losses) <=> Some(calls, Losses)
    /\ Some(calls', Enters) <=> Some(calls, Enters)
    /\ Some(calls', Arms) <=> Some(calls, Arms)
    /\ Some(calls', Scanners) <=> Some(calls, Scanners)
    /\ Some(calls', Advertisers) <=> Some(calls, Advertisers)
    /\ links # {} /\ Some(calls, Closing(made)) => Some(calls', Closing(made))

LEMMA ToSame ==
    ASSUME BoardInv, Alike, KnownInv', OnceInv', SetInv',
           UNCHANGED <<is_scanning_phase, is_connecting, ext, scanner, initiating, links, made>>,
           failed => failed', legacy' = "on" <=> legacy = "on"
    PROVE  BoardInv' /\ Moves
<1>1. Shape /\ PhaseInv /\ FlagInv
    BY DEF BoardInv
<1>2. Excused => Excused'
    BY DEF Excused
<1>3. Idle' = Idle /\ (Free' <=> Free) /\ (Alone' <=> Alone)
    BY DEF Free, Idle, Alone, Alike
<1>4. Shape'
    <2>1. Resting => Resting'
        BY <1>2, <1>3 DEF Resting, Alike
    <2>2. Stepping => Stepping'
        BY <1>2, <1>3 DEF Stepping, Alike
    <2>3. Advertising => Advertising'
        BY <1>2, <1>3 DEF Advertising, Alike
    <2>4. Ending => Ending'
        BY <1>2, <1>3 DEF Ending, Alike
    <2>5. Scanning => Scanning'
        BY <1>2, <1>3 DEF Scanning, Alike
    <2>6. Linked => Linked'
        <3>1. links # {} /\ Some(calls, Closing(made)) => Some(calls, Closing(made))'
            BY DEF Alike
        <3>2. links' = links /\ made' = made
            OBVIOUS
        <3>3. QED
            BY <1>2, <1>3, <3>1, <3>2 DEF Linked, Alike
    <2>7. QED
        BY <1>1, <2>1, <2>2, <2>3, <2>4, <2>5, <2>6 DEF Shape
<1>5. PhaseInv' /\ FlagInv'
    BY <1>1 DEF PhaseInv, FlagInv, Alike
<1>6. Moves
    BY DEF Moves, Kept, Same, Alike
<1>7. QED
    BY <1>4, <1>5, <1>6 DEF BoardInv

-----------------------------------------------------------------------------
(* The handlers, once more.                                                *)

(* A step finds nothing beside it.                                         *)
LEMMA StepStill ==
    ASSUME BoardInv, NEW q, NEW c, Running(q, c), c \in Steps
    PROVE  /\ Still(q) /\ links = {} /\ scanner = "off" /\ ~initiating /\ legacy # "on" /\ ext = "none"
           /\ ~is_connecting /\ ~extended_adv_handle /\ (leaked => undestroyed)
           /\ Some(calls, Arms) <=> c \in Arms
           /\ Excused \/ is_scanning_phase \/ c \in Enters \/ ~ExtCompiled
           /\ c \in Scanners => is_scanning_phase
           /\ c \in Advertisers => ~is_scanning_phase
<1>1. Shape /\ PhaseInv /\ SetInv /\ FlagInv /\ OnceInv
    BY DEF BoardInv
<1>2. ~Some(q, Steps) /\ Some(calls, Steps)
    BY <1>1 DEF Running, OnceInv
<1>3. c \in Known(made) /\ q \in Seq(Known(made))
    BY DEF Running
<1>4. ~Some(q, Arms) /\ ~Some(q, Losses)
    BY <1>2, <1>3, Inclusions
<1>5. (Some(calls, Arms) <=> c \in Arms) /\ (Some(calls, Enters) => c \in Enters)
    <2>1. ~Some(q, Enters)
        BY <1>3, <1>4, Inclusions
    <2>2. QED
        BY <1>4, <2>1 DEF Running
<1>6. ~Linked
    <2> SUFFICES ASSUME Linked
                 PROVE  FALSE
        OBVIOUS
    <2>1. Some(calls, Losses) /\ Some(calls, Success)
        BY <1>2 DEF Linked
    <2>2. c \in Losses
        BY <1>4, <2>1 DEF Running
    <2>3. c \notin Success
        BY <1>3, <2>2, Members
    <2>4. Some(q, Success)
        BY <2>1, <2>3 DEF Running
    <2>5. Some(q, Answers)
        BY <1>3, <2>4, Inclusions
    <2>6. QED
        BY <2>2, <2>5 DEF Running
<1>7. Stepping
    BY <1>1, <1>2, <1>6 DEF Shape, Resting, Advertising, Ending, Scanning, Alone
<1>8. Still(q)
    <2>1. ~Some(q, Timer) /\ ~Some(q, Answers) /\ ~Some(q, ExtOver)
        BY <1>1, <1>7 DEF Running, Stepping, SetInv
    <2>2. AtMostOne(q, Held) /\ AtMostOne(q, LegacyOver) /\ (Some(q, LegacyOver) => legacy = "stopping")
        BY <1>1 DEF Running, OnceInv, SetInv
    <2>3. QED
        BY <1>2, <1>3, <2>1, <2>2 DEF Still
<1>9. ~is_connecting /\ ~extended_adv_handle /\ (leaked => undestroyed)
    BY <1>1, <1>7 DEF FlagInv, SetInv, Stepping, Free, Idle
<1>10. (c \in Scanners => is_scanning_phase) /\ (c \in Advertisers => ~is_scanning_phase)
    BY <1>1 DEF PhaseInv, Running
<1>11. QED
    BY <1>5, <1>7, <1>8, <1>9, <1>10 DEF Stepping, Free, Idle

(* The timer of the advertising mode is the call that can be cancelled.    *)
LEMMA TimerPosted ==
    ASSUME NEW m \in Nat, NEW q \in Seq(Known(m)), ~Some(q, Steps), ~Some(q, Timer), ~Some(q, Answers),
           ~Some(q, ExtOver), ~Some(q, LegacyOver)
    PROVE  LET x == post_held(q, Call("end_advertising_mode", 0, 10))
           IN  /\ x \in Seq(Known(m)) /\ AtMostOne(x, Held) /\ Some(x, Timer)
               /\ ~Some(x, Steps) /\ ~Some(x, Answers) /\ ~Some(x, ExtOver) /\ ~Some(x, LegacyOver)
<1> DEFINE d == Call("end_advertising_mode", 0, 10)
           h == [d EXCEPT !.held = TRUE]
           x == post_held(q, d)
           A == {c \in Known(m) : c \notin Timer}
<1>1. d \in Known(m) /\ d.cb = "end_advertising_mode"
    BY KnownCall DEF Callbacks, Anything
<1> HIDE DEF d
<1>2. \A c \in Known(m) : \A b \in BOOLEAN :
          (b => c.cb \in Timers) => /\ [c EXCEPT !.held = b] \in Known(m)
                                    /\ [c EXCEPT !.held = b].cb = c.cb /\ [c EXCEPT !.held = b].arg = c.arg
                                    /\ [c EXCEPT !.held = b].held = b
    BY DEF Known, Waiting, AnyCall
<1>3. h \in Known(m) /\ h.cb = "end_advertising_mode" /\ h.held
    BY <1>1, <1>2 DEF Timers
<1>4. q \in Seq(A)
    <2>1. DOMAIN q = 1..Len(q) /\ Len(q) \in Nat /\ \A i \in 1..Len(q) : q[i] \in Known(m)
        BY LenProperties, ElementOfSeq
    <2>2. \A i \in 1..Len(q) : q[i] \in A
        BY <2>1 DEF Some
    <2>3. q \in [1..Len(q) -> A]
        BY <2>1, <2>2
    <2>4. QED
        BY <2>1, <2>3, SeqDef
<1>5. \A c \in A : /\ [c EXCEPT !.held = FALSE] \in Known(m) /\ [c EXCEPT !.held = FALSE].cb = c.cb
                   /\ [c EXCEPT !.held = FALSE].arg = c.arg /\ ~[c EXCEPT !.held = FALSE].held
                   /\ c.held \in BOOLEAN
    BY <1>2 DEF Known, Waiting, AnyCall
<1>6. x \in Seq(Known(m))
    <2>1. \A c \in Known(m) : [c EXCEPT !.held = FALSE] \in Known(m)
        BY <1>2
    <2>2. QED
        BY <1>3, <2>1, PostHeldIn
<1> HIDE DEF h
<1>7. ASSUME NEW c \in A
      PROVE  /\ [c EXCEPT !.held = FALSE] \in Steps <=> c \in Steps
             /\ [c EXCEPT !.held = FALSE] \in Timer <=> c \in Timer
             /\ [c EXCEPT !.held = FALSE] \in Answers <=> c \in Answers
             /\ [c EXCEPT !.held = FALSE] \in LegacyOver <=> c \in LegacyOver
             /\ [c EXCEPT !.held = FALSE] \in ExtOver <=> c \in ExtOver
             /\ [c EXCEPT !.held = FALSE] \notin Held
    <2> DEFINE e == [c EXCEPT !.held = FALSE]
    <2>1. e \in Known(m) /\ e.cb = c.cb /\ e.arg = c.arg /\ ~e.held /\ c \in Known(m) /\ c \notin Timer
          /\ c.held \in BOOLEAN
        BY <1>5
    <2> HIDE DEF e
    <2>2. /\ e \in Timer <=> c \in Timer
          /\ e \in Answers <=> c \in Answers
          /\ e \in LegacyOver <=> c \in LegacyOver
          /\ e \in ExtOver <=> c \in ExtOver
          /\ e \notin Held
        BY <2>1, Members
    <2>3. c.held => c.cb = "disconnect"
        BY <2>1, Members
    <2>4. e \in Steps <=> c \in Steps
        BY <2>1, <2>3, Members
    <2>5. QED
        BY <2>2, <2>4 DEF e
<1>8. h \notin Steps /\ h \notin Answers /\ h \notin ExtOver /\ h \notin LegacyOver /\ h \in Timer
    BY <1>3, Members
<1>9. \A S \in {Steps, Timer, Answers, LegacyOver, ExtOver} : Some(x, S) <=> Some(q, S) \/ h \in S
    <2> TAKE S \in {Steps, Timer, Answers, LegacyOver, ExtOver}
    <2>1. \A c \in A : [c EXCEPT !.held = FALSE] \in S <=> c \in S
        BY <1>7
    <2>2. QED
        BY <1>4, <2>1, HeldSome DEF h
<1>10. AtMostOne(x, Held)
    BY <1>4, <1>7, HeldOnce
<1>11. QED
    BY <1>6, <1>8, <1>9, <1>10 DEF x, d

(* The advertising mode is entered, with its timer or without.             *)
LEMMA AdvertiseBoard ==
    ASSUME IInv, BoardInv, NEW q, NEW c, Running(q, c), c.cb = "advertise", advertise(q)
    PROVE  BoardInv' /\ Moves
<1>1. c \in Known(made) /\ q \in Seq(Known(made)) /\ SetInv
    BY DEF Running, BoardInv
<1>2. c \in Steps /\ c \in Arms /\ c \in Advertisers
    <2>1. ~c.held
        BY <1>1, Members
    <2>2. QED
        BY <1>1, <2>1, Members
<1>3. /\ Still(q) /\ links = {} /\ scanner = "off" /\ ~initiating /\ legacy # "on" /\ ext = "none"
      /\ ~is_connecting /\ ~extended_adv_handle /\ (leaked => undestroyed) /\ ~is_scanning_phase
      /\ Some(calls, Arms)
    BY <1>2, StepStill
<1>4. UNCHANGED <<is_scanning_phase, is_connecting, scanner, initiating, links, made>>
    BY DEF advertise, linkVars
<1>5. CASE calls' = q /\ failed' = TRUE /\ UNCHANGED <<setVars, extended_adv_handle>>
    BY <1>3, <1>4, <1>5, ToRest DEF setVars, Excused
<1>6. CASE /\ legacy = "off" /\ legacy' = "on" /\ UNCHANGED undestroyed
           /\ IF ExtCompiled /\ ExtSupported
              THEN startExtendedSet(q, post_held(q, Call("end_advertising_mode", 0, 10)))
              ELSE /\ calls' = post_held(q, Call("end_advertising_mode", 0, 10))
                   /\ UNCHANGED <<extended_adv_handle, ext, leaked, failed>>
    <2> DEFINE x == post_held(q, Call("end_advertising_mode", 0, 10))
    <2>1. /\ ~Some(q, Steps) /\ ~Some(q, Timer) /\ ~Some(q, Answers) /\ ~Some(q, ExtOver)
          /\ ~Some(q, LegacyOver) /\ AtMostOne(q, Held)
        BY <1>3, <1>6 DEF Still
    <2>2. made \in Nat
        BY RoomTyped
    <2>3. /\ x \in Seq(Known(made)) /\ AtMostOne(x, Held) /\ Some(x, Timer)
          /\ ~Some(x, Steps) /\ ~Some(x, Answers) /\ ~Some(x, ExtOver) /\ ~Some(x, LegacyOver)
        BY <1>1, <2>1, <2>2, TimerPosted
    <2> HIDE DEF x
    <2>4. /\ calls' \in {q, x} /\ ext' # "stopping" /\ (leaked' => undestroyed')
          /\ extended_adv_handle' <=> ext' # "none"
          /\ ext' # "none" => ExtCompiled /\ ExtSupported
          /\ Excused' \/ (calls' = x /\ (ExtCompiled => ext' = "on"))
        <3>1. CASE ExtCompiled /\ ExtSupported
            BY <1>3, <1>6, <3>1 DEF startExtendedSet, x, Excused
        <3>2. CASE ~(ExtCompiled /\ ExtSupported)
            BY <1>3, <1>6, <3>2 DEF x, Excused
        <3>3. QED
            BY <3>1, <3>2
    <2>5. /\ calls' \in Seq(Known(made)) /\ AtMostOne(calls', Held)
          /\ ~Some(calls', Steps) /\ ~Some(calls', Answers) /\ ~Some(calls', ExtOver)
          /\ ~Some(calls', LegacyOver)
        BY <1>1, <2>1, <2>3, <2>4
    <2>6. ~Some(calls', Arms) /\ ~Some(calls', Scanners)
        BY <2>5, Inclusions
    <2>7. AtMostOne(calls', Steps) /\ AtMostOne(calls', Answers) /\ AtMostOne(calls', LegacyOver)
          /\ AtMostOne(calls', ExtOver) /\ Before(calls', Answers, Losses)
        BY <2>5, NoneOf
    <2>8. KnownInv' /\ OnceInv'
        BY <1>4, <2>5, <2>7 DEF KnownInv, OnceInv
    <2>9. Advertising'
        BY <1>3, <1>4, <1>6, <2>3, <2>4, <2>5 DEF Advertising, Alone, Idle
    <2>10. PhaseInv' /\ SetInv' /\ FlagInv'
        BY <1>3, <1>4, <2>4, <2>5, <2>6 DEF PhaseInv, SetInv, FlagInv
    <2>11. Moves
        BY <1>3, <1>4, <2>6 DEF Moves, Entered
    <2>12. QED
        BY <2>8, <2>9, <2>10, <2>11 DEF BoardInv, Shape
<1>7. QED
    BY <1>5, <1>6 DEF advertise

(* The scanning mode is entered, or the stack refused to scan.             *)
LEMMA ScanBoard ==
    ASSUME IInv, BoardInv, NEW q, NEW c, Running(q, c), c.cb = "scan", scan(q)
    PROVE  BoardInv' /\ Moves
<1>1. c \in Known(made) /\ q \in Seq(Known(made)) /\ SetInv
    BY DEF Running, BoardInv
<1>2. c \in Steps /\ c \in Arms /\ c \in Scanners
    <2>1. ~c.held
        BY <1>1, Members
    <2>2. QED
        BY <1>1, <2>1, Members
<1>3. /\ Still(q) /\ links = {} /\ scanner = "off" /\ ~initiating /\ legacy # "on" /\ ext = "none"
      /\ ~is_connecting /\ ~extended_adv_handle /\ (leaked => undestroyed) /\ is_scanning_phase
      /\ Some(calls, Arms)
    BY <1>2, StepStill
<1>4. UNCHANGED <<demoVars, setVars, linkVars>> /\ calls' = q
    BY DEF scan
<1>5. CASE failed' = TRUE /\ UNCHANGED scanner
    BY <1>3, <1>4, <1>5, ToRest DEF demoVars, setVars, linkVars, Excused
<1>6. CASE scanner' = "on" /\ UNCHANGED failed
    <2>1. /\ ~Some(q, Steps) /\ ~Some(q, Timer) /\ ~Some(q, Answers) /\ ~Some(q, ExtOver)
          /\ AtMostOne(q, LegacyOver) /\ AtMostOne(q, Held) /\ (Some(q, LegacyOver) => legacy = "stopping")
        BY <1>3 DEF Still
    <2>2. ~Some(q, Arms) /\ ~Some(q, Advertisers)
        BY <1>1, <2>1, Inclusions
    <2>3. AtMostOne(q, Steps) /\ AtMostOne(q, Answers) /\ AtMostOne(q, ExtOver) /\ Before(q, Answers, Losses)
        BY <2>1, NoneOf
    <2>4. KnownInv' /\ OnceInv'
        BY <1>1, <1>4, <2>1, <2>3 DEF KnownInv, OnceInv, linkVars
    <2>5. Scanning'
        BY <1>3, <1>4, <1>6, <2>1 DEF Scanning, Alone, demoVars, setVars, linkVars
    <2>6. PhaseInv' /\ SetInv' /\ FlagInv'
        BY <1>1, <1>3, <1>4, <2>1, <2>2 DEF PhaseInv, SetInv, FlagInv, demoVars, setVars, linkVars
    <2>7. Moves
        BY <1>3, <1>4, <2>2 DEF Moves, Entered, demoVars, setVars
    <2>8. QED
        BY <2>4, <2>5, <2>6, <2>7 DEF BoardInv, Shape
<1>7. QED
    BY <1>5, <1>6 DEF scan

(* The modes follow each other by a step, as long as the board may.        *)
LEMMA ModeBoard ==
    ASSUME IInv, BoardInv, NEW q, NEW c, Running(q, c), races' = {},
           \/ c.cb = "end_scanning_mode" /\ end_scanning_mode(q)
           \/ c.cb = "onScanTimeout" /\ onScanTimeout(q)
           \/ c.cb = "end_advertising_mode" /\ ~c.held /\ end_advertising_mode(q)
    PROVE  BoardInv' /\ Moves
<1>1. c \in Known(made) /\ q \in Seq(Known(made)) /\ SetInv /\ made \in Nat
    BY RoomTyped DEF Running, BoardInv
<1>2. c \in Steps /\ c \notin Arms /\ c \notin Enters
    <2>1. ~c.held
        BY <1>1, Members
    <2>2. QED
        BY <1>1, <2>1, Members
<1>3. /\ Still(q) /\ links = {} /\ scanner = "off" /\ ~initiating /\ legacy # "on" /\ ext = "none"
      /\ ~is_connecting /\ ~extended_adv_handle /\ (leaked => undestroyed)
      /\ ~Some(calls, Arms) /\ (Excused \/ is_scanning_phase \/ ~ExtCompiled)
    BY <1>2, StepStill
<1>4. CASE c.cb = "end_scanning_mode" /\ end_scanning_mode(q)
    <2>1. c \in Scanners
        BY <1>1, <1>4, Members
    <2>2. is_scanning_phase
        BY <1>2, <2>1, StepStill
    <2> DEFINE d == Call("advertise", 0, Delay)
    <2>3. d \in Known(made) /\ d \in Steps /\ d \in Enters /\ d \in Arms /\ d \notin Scanners
        BY <1>1, ModeCall DEF Posts, Delay
    <2>4. /\ calls' = post(q, d) /\ scanner' = "off" /\ is_scanning_phase' = FALSE
          /\ UNCHANGED <<is_connecting, extended_adv_handle, setVars, linkVars>>
        BY <1>4 DEF end_scanning_mode
    <2> HIDE DEF d
    <2>5. QED
        BY <1>3, <2>2, <2>3, <2>4, ToStep DEF setVars, linkVars
<1>5. CASE c.cb = "onScanTimeout" /\ onScanTimeout(q)
    <2>1. c \in Scanners
        BY <1>1, <1>5, Members
    <2>2. is_scanning_phase
        BY <1>2, <2>1, StepStill
    <2> DEFINE d == Call("end_scanning_mode", 0, 0)
    <2>3. d \in Known(made) /\ d \in Steps /\ d \notin Advertisers /\ d \notin Arms
        BY <1>1, ModeCall DEF Posts
    <2>4. calls' = post(q, d) /\ UNCHANGED <<demoVars, setVars, scanner, linkVars>>
        BY <1>5 DEF onScanTimeout
    <2> HIDE DEF d
    <2>5. QED
        BY <1>3, <2>2, <2>3, <2>4, ToStep DEF setVars, linkVars, demoVars
<1>6. CASE c.cb = "end_advertising_mode" /\ end_advertising_mode(q)
    <2>1. c \in Advertisers
        BY <1>1, <1>6, Members
    <2>2. ~is_scanning_phase
        BY <1>2, <2>1, StepStill
    <2>3. UNCHANGED <<is_connecting, extended_adv_handle, leaked, undestroyed, scanner, linkVars, failed>>
          /\ legacy' = legacy
        BY <1>3, <1>6 DEF end_advertising_mode, stopAdvertising
    <2>4. CASE ExtCompiled
        <3>1. calls' = q /\ ext' = ext /\ is_scanning_phase' = is_scanning_phase
            BY <1>3, <1>6, <2>4 DEF end_advertising_mode
        <3>2. Excused'
            BY <1>3, <2>2, <2>3, <2>4 DEF Excused
        <3>3. QED
            BY <1>3, <2>3, <3>1, <3>2, ToRest DEF linkVars
    <2>5. CASE ~ExtCompiled
        <3> DEFINE d == Call("scan", 0, Delay)
        <3>1. d \in Known(made) /\ d \in Steps /\ d \notin Advertisers /\ d \in Arms
            BY <1>1, ModeCall DEF Posts, Delay
        <3>2. calls' = post(q, d) /\ ext' = ext /\ is_scanning_phase' = TRUE
            BY <1>6, <2>5 DEF end_advertising_mode
        <3> HIDE DEF d
        <3>3. QED
            BY <1>3, <2>2, <2>3, <3>1, <3>2, ToStep DEF linkVars
    <2>6. QED
        BY <2>4, <2>5
<1>7. QED
    BY <1>4, <1>5, <1>6

(* The advertising timer ends the mode it was started for, unless it ran   *)
(* before the answer of a connection.                                      *)
LEMMA TimerBoard ==
    ASSUME IInv, BoardInv, NEW q, NEW c, Running(q, c), races' = {},
           c.cb = "end_advertising_mode", c.held, end_advertising_mode(q)
    PROVE  BoardInv' /\ Moves
<1>1. c \in Known(made) /\ q \in Seq(Known(made)) /\ SetInv /\ OnceInv /\ Shape /\ made \in Nat
    BY RoomTyped DEF Running, BoardInv
<1>2. c \in Timer /\ c \in Held /\ c \notin Success /\ c \notin Steps /\ c \notin Arms /\ c \notin Answers
    BY <1>1, Members
<1>3. ~Some(q, Answers)
    <2>1. Pending(q, {"onConnectionComplete"}) = {}
        BY DEF end_advertising_mode, Race
    <2>2. QED
        BY <2>1 DEF Some, Answers, Pending
<1>4. ~Some(calls, Success) /\ Some(calls, Timer)
    BY <1>1, <1>2, <1>3, Inclusions DEF Running
<1>5. Advertising
    BY <1>1, <1>4 DEF Shape, Resting, Stepping, Ending, Scanning, Linked
<1>6. ~Some(q, Held) /\ ~Some(q, Timer) /\ AtMostOne(q, Held) /\ AtMostOne(q, LegacyOver)
    <2>1. ~Some(q, Held)
        BY <1>1, <1>2 DEF Running, OnceInv
    <2>2. QED
        BY <1>1, <2>1, Inclusions, NoneOf DEF Running, OnceInv
<1>7. ~Some(q, Steps) /\ ~Some(q, ExtOver) /\ ~Some(q, LegacyOver)
    BY <1>1, <1>5 DEF Running, Advertising, Alone, SetInv
<1>8. Still(q)
    BY <1>1, <1>3, <1>6, <1>7 DEF Still
<1>9. ~Some(calls, Arms)
    <2>1. ~Some(calls, Steps) /\ calls \in Seq(Known(made))
        BY <1>5 DEF Advertising, Alone, BoardInv, KnownInv
    <2>2. QED
        BY <2>1, Inclusions
<1>10. links = {} /\ scanner = "off" /\ ~initiating /\ ~is_scanning_phase /\ ~is_connecting
       /\ (leaked => undestroyed)
    BY <1>1, <1>5 DEF Advertising, Alone, Idle, SetInv, BoardInv, FlagInv
<1>11. /\ UNCHANGED <<is_connecting, extended_adv_handle, leaked, undestroyed, scanner, linkVars, failed>>
       /\ legacy' = "stopping"
    BY <1>5 DEF end_advertising_mode, stopAdvertising, Advertising
<1>12. CASE ~ExtCompiled
    <2> DEFINE d == Call("scan", 0, Delay)
    <2>1. d \in Known(made) /\ d \in Steps /\ d \notin Advertisers /\ d \in Arms
        BY <1>1, ModeCall DEF Posts, Delay
    <2>2. calls' = post(q, d) /\ ext' = ext /\ is_scanning_phase' = TRUE
        BY <1>12 DEF end_advertising_mode
    <2>3. ext = "none" /\ ~extended_adv_handle
        BY <1>1, <1>12 DEF SetInv
    <2> HIDE DEF d
    <2>4. QED
        BY <1>7, <1>8, <1>9, <1>10, <1>11, <1>12, <2>1, <2>2, <2>3, ToStep DEF linkVars
<1>13. CASE ExtCompiled /\ ext = "none"
    <2>1. Excused' /\ calls' = q /\ ext' = "none" /\ ~extended_adv_handle /\ UNCHANGED is_scanning_phase
        BY <1>1, <1>5, <1>11, <1>13
           DEF end_advertising_mode, SetInv, Advertising, Excused, stopAdvertising
    <2>2. KnownInv' /\ OnceInv'
        <3>1. AtMostOne(q, Steps) /\ AtMostOne(q, Answers) /\ AtMostOne(q, ExtOver)
              /\ Before(q, Answers, Losses)
            BY <1>3, <1>7, NoneOf
        <3>2. QED
            BY <1>1, <1>6, <1>11, <2>1, <3>1 DEF KnownInv, OnceInv, linkVars
    <2>3. ~Some(q, Arms) /\ ~Some(q, Scanners) /\ ~Some(q, Advertisers) /\ ~Some(q, Success)
        BY <1>1, <1>3, <1>6, <1>7, Inclusions
    <2>4. Resting'
        BY <1>6, <1>7, <1>10, <1>11, <2>1, <2>3 DEF Resting, Free, Idle, linkVars
    <2>5. PhaseInv' /\ SetInv' /\ FlagInv'
        BY <1>7, <1>10, <1>11, <2>1, <2>3 DEF PhaseInv, SetInv, FlagInv, linkVars
    <2>6. Moves
        BY <1>9, <1>10, <1>11, <2>1, <2>3 DEF Moves, Quieted, Same
    <2>7. QED
        BY <2>2, <2>4, <2>5, <2>6 DEF BoardInv, Shape
<1>14. CASE ExtCompiled /\ ext # "none"
    <2>1. /\ calls' = q /\ UNCHANGED is_scanning_phase /\ extended_adv_handle
          /\ ext' = stopAdvertising(ext) /\ ext \in {"off", "on"}
        <3>1. ext \in {"none", "off", "on", "stopping"}
            BY Types DEF IInv, Sets
        <3>2. QED
            BY <1>1, <1>5, <1>14, <3>1 DEF end_advertising_mode, SetInv, Advertising
    <2>2. ext' = "stopping" \/ (ext' = "off" /\ Excused')
        BY <1>5, <1>11, <1>14, <2>1 DEF Advertising, stopAdvertising, Excused
    <2>3. KnownInv' /\ OnceInv'
        <3>1. AtMostOne(q, Steps) /\ AtMostOne(q, Answers) /\ AtMostOne(q, ExtOver)
              /\ Before(q, Answers, Losses)
            BY <1>3, <1>7, NoneOf
        <3>2. QED
            BY <1>1, <1>6, <1>11, <2>1, <3>1 DEF KnownInv, OnceInv, linkVars
    <2>4. ~Some(q, Arms) /\ ~Some(q, Scanners) /\ ~Some(q, Advertisers)
        BY <1>1, <1>6, <1>7, Inclusions
    <2>5. Ending'
        BY <1>3, <1>6, <1>7, <1>10, <1>11, <2>1, <2>2 DEF Ending, Alone, Idle, linkVars
    <2>6. PhaseInv' /\ SetInv' /\ FlagInv'
        BY <1>1, <1>7, <1>10, <1>11, <1>14, <2>1, <2>2, <2>4 DEF PhaseInv, SetInv, FlagInv, linkVars
    <2>7. Moves
        BY <1>9, <1>10, <1>11, <2>1, <2>4 DEF Moves, Quieted, Same
    <2>8. QED
        BY <2>3, <2>5, <2>6, <2>7 DEF BoardInv, Shape
<1>15. QED
    BY <1>12, <1>13, <1>14

(* A link ends: at once when the demo knew of it, else once it learns.     *)
LEMMA LinkBoard ==
    ASSUME IInv, BoardInv, links # {}, NEW q \in Seq(Known(made)),
           \A S : Some(q, S) => Some(calls, S), \A S : AtMostOne(calls, S) => AtMostOne(q, S),
           Before(q, Answers, Losses), Some(calls, Success) => Some(q, Success),
           NEW reason \in {"local", "remote", "lost"},
           calls' = post(q, Call("onDisconnectionComplete", reason, 0)), links' \subseteq links \ {made},
           UNCHANGED <<demoVars, setVars, scanner, initiating, made, failed>>
    PROVE  BoardInv' /\ Moves
<1> DEFINE d == Call("onDisconnectionComplete", reason, 0)
<1>1. Shape /\ OnceInv /\ PhaseInv /\ SetInv /\ FlagInv /\ made \in Nat
    BY RoomTyped DEF BoardInv
<1>2. Linked /\ links = {made} /\ ~Some(calls, Steps)
    BY <1>1 DEF Shape, Resting, Stepping, Advertising, Ending, Scanning, Free, Alone, Linked
<1>3. links' = {}
    BY <1>2
<1>4. d \in Known(made) /\ d.cb = "onDisconnectionComplete" /\ ~d.held
    <2>1. /\ "onDisconnectionComplete" \in Callbacks \ {"disconnect"} /\ reason \in Anything /\ 0 \in Nat
          /\ "onDisconnectionComplete" # "onConnectionComplete" /\ "onDisconnectionComplete" # "onAdvertisingEnd"
        BY DEF Callbacks, Anything
    <2>2. QED
        BY <1>1, <2>1, KnownCall
<1> HIDE DEF d
<1>5. /\ d \in Steps /\ d \in Losses /\ d \notin Arms /\ d \notin Scanners /\ d \notin Advertisers
      /\ d \notin Held /\ d \notin Answers /\ d \notin LegacyOver /\ d \notin ExtOver /\ d \notin Success
    BY <1>4, Members
<1>6. ~Some(q, Steps) /\ ~Some(calls, Arms) /\ ~Some(q, Arms) /\ ~Some(q, Scanners)
    <2>1. calls \in Seq(Known(made)) /\ ~Some(q, Steps)
        BY <1>2 DEF BoardInv, KnownInv
    <2>2. QED
        BY <1>2, <2>1, Inclusions
<1>7. /\ scanner = "off" /\ ~initiating /\ legacy # "on" /\ ext = "none" /\ ~extended_adv_handle
      /\ Excused \/ is_scanning_phase \/ ~ExtCompiled
      /\ ~Some(q, ExtOver) /\ (Some(q, LegacyOver) => legacy = "stopping") /\ (leaked => undestroyed)
      /\ AtMostOne(q, Held) /\ AtMostOne(q, LegacyOver) /\ AtMostOne(q, Answers) /\ AtMostOne(q, ExtOver)
    BY <1>1, <1>2 DEF Linked, Idle, SetInv, OnceInv
<1>8. CASE Some(calls, Success)
    <2>1. /\ calls' \in Seq(Known(made))
          /\ \A S : Some(calls', S) <=> Some(q, S) \/ d \in S
          /\ \A S : AtMostOne(q, S) /\ (d \in S => ~Some(q, S)) => AtMostOne(calls', S)
          /\ Before(calls', Answers, Losses)
        BY <1>4, <1>5, Posted DEF d
    <2>2. AtMostOne(q, Steps)
        BY <1>6, NoneOf
    <2>3. KnownInv' /\ OnceInv'
        BY <1>5, <1>6, <1>7, <2>1, <2>2 DEF KnownInv, OnceInv
    <2>4. Linked'
        BY <1>3, <1>5, <1>7, <1>8, <2>1 DEF Linked, Idle, Excused, demoVars, setVars
    <2>5. SetInv'
        BY <1>1, <1>5, <1>7, <2>1 DEF SetInv, setVars, demoVars
    <2>6. Some(q, Advertisers) => Some(calls, Advertisers)
        OBVIOUS
    <2>7. Some(calls', Answers)
        <3>1. Some(q, Answers)
            BY <1>8, Inclusions
        <3>2. QED
            BY <2>1, <3>1
    <2>8. PhaseInv' /\ FlagInv'
        BY <1>1, <1>5, <1>6, <2>1, <2>6, <2>7 DEF PhaseInv, FlagInv, demoVars
    <2>9. Moves
        BY <1>5, <1>6, <2>1 DEF Moves, Kept, Same, demoVars, setVars
    <2>10. QED
        BY <2>3, <2>4, <2>5, <2>8, <2>9 DEF BoardInv, Shape
<1>9. CASE ~Some(calls, Success)
    <2>1. ~Some(calls, Timer) /\ ~Some(calls, Answers)
        BY <1>2, <1>9 DEF Linked
    <2>2. Still(q)
        BY <1>6, <1>7, <2>1 DEF Still
    <2>3. ~is_connecting
        BY <1>1, <1>7, <2>1 DEF FlagInv
    <2>4. QED
        BY <1>3, <1>4, <1>5, <1>6, <1>7, <2>2, <2>3, ToStep DEF d, demoVars, setVars, Excused
<1>10. QED
    BY <1>8, <1>9

(* Whatever runs besides the steps leaves the rest of the queue alone.     *)
LEMMA ServedAlike ==
    ASSUME BoardInv, NEW q, NEW c, Running(q, c), calls' = q, made' = made,
           c.cb \in {"disconnect", "onAdvertisingReport", "onAdvertisingEnd"},
           links # {} => c \notin Closing(made)
    PROVE  Alike /\ KnownInv' /\ OnceInv'
<1>1. c \in Known(made) /\ q \in Seq(Known(made)) /\ OnceInv
    BY DEF Running, BoardInv
<1>2. c \notin Steps /\ c \notin Timer /\ c \notin Answers /\ c \notin Success /\ c \notin Losses
      /\ c \notin Enters /\ c \notin Arms /\ c \notin Scanners /\ c \notin Advertisers
    BY <1>1, Members
<1>3. Alike
    BY <1>2 DEF Alike, Running
<1>4. KnownInv' /\ OnceInv'
    BY <1>1 DEF KnownInv, OnceInv, Running
<1>5. QED
    BY <1>3, <1>4

LEMMA DisconnectBoard ==
    ASSUME IInv, BoardInv, NEW q, NEW c, Running(q, c), c.cb = "disconnect", disconnect(q, c.arg)
    PROVE  BoardInv' /\ Moves
<1>1. c \in Known(made) /\ q \in Seq(Known(made)) /\ c \notin Success
    <2>1. c \in Known(made) /\ q \in Seq(Known(made))
        BY DEF Running
    <2>2. QED
        BY <2>1, Members
<1>2. UNCHANGED <<demoVars, setVars, scanner, initiating, made, failed>>
    BY DEF disconnect
<1>3. CASE c.arg \in links
    <2>1. c.arg = made
        <3>1. links = {made}
            BY <1>3 DEF BoardInv, Shape, Resting, Stepping, Advertising, Ending, Scanning, Free, Alone, Linked
        <3>2. QED
            BY <1>3, <3>1
    <2>2. calls' = post(q, Call("onDisconnectionComplete", "local", 0)) /\ links' = links \ {made}
        BY <1>3, <2>1 DEF disconnect
    <2>3. QED
        BY <1>1, <1>2, <1>3, <2>2, LinkBoard DEF Running
<1>4. CASE c.arg \notin links
    <2>1. calls' = q /\ links' = links
        BY <1>4 DEF disconnect
    <2>2. links # {} => c \notin Closing(made)
        <3>1. links # {} => links = {made}
            BY DEF BoardInv, Shape, Resting, Stepping, Advertising, Ending, Scanning, Free, Alone, Linked
        <3>2. QED
            BY <1>4, <3>1 DEF Closing
    <2>3. Alike /\ KnownInv' /\ OnceInv'
        BY <1>2, <2>1, <2>2, ServedAlike
    <2>4. SetInv'
        BY <1>2, <2>1 DEF BoardInv, SetInv, Running, demoVars, setVars
    <2>5. QED
        BY <1>2, <2>1, <2>3, <2>4, ToSame DEF demoVars, setVars
<1>5. QED
    BY <1>3, <1>4

(* A report is ignored, or the board asks for a connection in the scanning *)
(* mode, unless the scan is over already.                                  *)
LEMMA ReportBoard ==
    ASSUME ConnectStopsScan, IInv, BoardInv, NEW q, NEW c, Running(q, c), races' = {},
           c.cb = "onAdvertisingReport", onAdvertisingReport(q)
    PROVE  BoardInv' /\ Moves
<1>1. c \in Known(made) /\ q \in Seq(Known(made)) /\ OnceInv /\ SetInv /\ Shape /\ FlagInv /\ PhaseInv
    BY DEF Running, BoardInv
<1>2. UNCHANGED <<is_scanning_phase, extended_adv_handle, setVars, links, made>>
    BY DEF onAdvertisingReport
<1>3. CASE is_connecting
    <2>1. calls' = q /\ UNCHANGED <<is_connecting, scanner, initiating, failed>>
        BY <1>3 DEF onAdvertisingReport
    <2>2. c \notin Closing(made)
        BY <1>1, Members
    <2>3. Alike /\ KnownInv' /\ OnceInv'
        BY <1>2, <2>1, <2>2, ServedAlike
    <2>4. SetInv'
        BY <1>1, <1>2, <2>1 DEF SetInv, Running, setVars
    <2>5. QED
        BY <1>2, <2>1, <2>3, <2>4, ToSame DEF setVars
<1>4. CASE ~is_connecting
    <2>1. scanner = "on"
        <3>1. scanner # "off"
            BY <1>4 DEF onAdvertisingReport, Race
        <3>2. QED
            BY <3>1, Types DEF IInv, Sets
    <2>2. Scanning
        BY <1>1, <2>1 DEF Shape, Resting, Stepping, Advertising, Ending, Linked, Free, Idle
    <2>3. /\ ~Some(q, Steps) /\ ~Some(q, Answers) /\ ~Some(q, Timer) /\ ~Some(q, ExtOver)
          /\ Some(q, LegacyOver) => legacy = "stopping"
          /\ AtMostOne(q, Held) /\ AtMostOne(q, LegacyOver) /\ ~Some(calls, Steps)
        BY <1>1, <2>2 DEF Running, Scanning, Alone, OnceInv, SetInv
    <2>4. /\ calls' = cancel(q) /\ calls' \in Seq(Known(made))
          /\ \A S : Some(calls', S) => Some(q, S)
          /\ \A S : AtMostOne(q, S) => AtMostOne(calls', S)
        BY <1>1, <1>4, <2>3, Cancelled DEF onAdvertisingReport
    <2>5. /\ ~Some(calls', Steps) /\ ~Some(calls', Answers) /\ ~Some(calls', Timer) /\ ~Some(calls', ExtOver)
          /\ Some(calls', LegacyOver) => legacy = "stopping"
          /\ AtMostOne(calls', Held) /\ AtMostOne(calls', LegacyOver)
        BY <2>3, <2>4
    <2>6. AtMostOne(calls', Steps) /\ AtMostOne(calls', Answers) /\ AtMostOne(calls', ExtOver)
          /\ Before(calls', Answers, Losses)
        BY <2>5, NoneOf
    <2>7. KnownInv' /\ OnceInv'
        BY <1>2, <2>4, <2>5, <2>6 DEF KnownInv, OnceInv
    <2>8. ~Some(calls', Arms) /\ ~Some(calls', Scanners) /\ ~Some(calls', Advertisers) /\ ~Some(calls, Arms)
        <3>1. calls \in Seq(Known(made))
            BY DEF BoardInv, KnownInv
        <3>2. QED
            BY <2>3, <2>4, <2>5, <3>1, Inclusions
    <2>9. /\ ~initiating /\ legacy # "on" /\ (failed => failed')
          /\ \/ initiating' = TRUE /\ is_connecting' = TRUE /\ scanner' = "off"
             \/ UNCHANGED <<initiating, is_connecting, scanner>>
        <3>1. ~initiating /\ legacy # "on"
            BY <2>1, <2>2, Types DEF IInv, Flags, Scanning
        <3>2. \/ initiating' = TRUE /\ is_connecting' = TRUE /\ scanner' = "off" /\ UNCHANGED failed
              \/ failed' = TRUE /\ UNCHANGED <<initiating, is_connecting, scanner>>
            BY <1>4 DEF onAdvertisingReport
        <3>3. QED
            BY <3>1, <3>2
    <2>10. Scanning'
        BY <1>2, <2>1, <2>2, <2>5, <2>9 DEF Scanning, Alone, setVars
    <2>11. PhaseInv' /\ SetInv' /\ FlagInv'
        BY <1>1, <1>2, <1>4, <2>5, <2>8, <2>9 DEF PhaseInv, SetInv, FlagInv, setVars
    <2>12. Moves
        BY <1>2, <2>1, <2>8, <2>9 DEF Moves, Kept, Quieted, Same, setVars
    <2>13. QED
        BY <2>7, <2>10, <2>11, <2>12 DEF BoardInv, Shape
<1>5. QED
    BY <1>3, <1>4

(* The end of the legacy set is noticed; that of the extended set is the   *)
(* step to the next mode.                                                  *)
LEMMA AdvertisingEndBoard ==
    ASSUME IInv, BoardInv, NEW q, NEW c, Running(q, c), c.cb = "onAdvertisingEnd", onAdvertisingEnd(q, c.arg)
    PROVE  BoardInv' /\ Moves
<1>1. c \in Known(made) /\ q \in Seq(Known(made)) /\ OnceInv /\ SetInv /\ Shape /\ FlagInv /\ made \in Nat
    BY RoomTyped DEF Running, BoardInv
<1>2. UNCHANGED <<is_connecting, scanner, linkVars, failed>>
    BY DEF onAdvertisingEnd
<1>3. CASE c.arg = "legacy"
    <2>1. c \in LegacyOver /\ c \notin Closing(made) /\ c \notin ExtOver
        BY <1>1, <1>3, Members
    <2>2. legacy = "stopping" /\ ~Some(q, LegacyOver)
        BY <1>1, <2>1 DEF Running, SetInv, OnceInv
    <2>3. legacy' = "off" /\ calls' = q
          /\ UNCHANGED <<ext, leaked, undestroyed, extended_adv_handle, is_scanning_phase>>
        BY <1>3 DEF onAdvertisingEnd
    <2>4. Alike /\ KnownInv' /\ OnceInv'
        BY <1>2, <2>1, <2>3, ServedAlike DEF linkVars
    <2>5. SetInv'
        BY <1>1, <2>2, <2>3 DEF SetInv, Running
    <2>6. QED
        BY <1>2, <2>2, <2>3, <2>4, <2>5, ToSame DEF linkVars
<1>4. CASE c.arg = "extended"
    <2>1. c \in ExtOver
        BY <1>1, <1>4, Members
    <2>2. ext = "stopping" /\ ~Some(q, ExtOver)
        BY <1>1, <2>1 DEF Running, SetInv, OnceInv
    <2>3. Ending
        BY <1>1, <2>2 DEF Shape, Resting, Stepping, Advertising, Scanning, Linked
    <2>4. Still(q) /\ ~Some(calls, Steps)
        BY <1>1, <2>2, <2>3 DEF Still, Running, Ending, Alone, OnceInv, SetInv
    <2>5. ~Some(calls, Arms)
        <3>1. calls \in Seq(Known(made))
            BY DEF BoardInv, KnownInv
        <3>2. QED
            BY <2>4, <3>1, Inclusions
    <2>6. links = {} /\ scanner = "off" /\ ~initiating /\ ~is_connecting /\ legacy # "on" /\ ~is_scanning_phase
        BY <1>1, <2>3 DEF Ending, Alone, Idle, FlagInv
    <2> DEFINE d == Call("scan", 0, Delay)
    <2>7. d \in Known(made) /\ d \in Steps /\ d \notin Advertisers /\ d \in Arms
        BY <1>1, ModeCall DEF Posts, Delay
    <2>8. /\ calls' = post(q, d) /\ ext' = "none" /\ ~extended_adv_handle' /\ is_scanning_phase' = TRUE
          /\ legacy' = legacy /\ (leaked' => undestroyed')
        BY <1>1, <1>4 DEF onAdvertisingEnd, scanNext, SetInv
    <2> HIDE DEF d
    <2>9. QED
        BY <1>2, <2>4, <2>5, <2>6, <2>7, <2>8, ToStep DEF linkVars
<1>5. QED
    BY <1>1, <1>3, <1>4 DEF Known

(* The handle of the demo names the only call it is kept for.              *)
LEMMA ClosePosted ==
    ASSUME NEW m \in Nat \ {0}, NEW q \in Seq(Known(m)), ~Some(q, Held)
    PROVE  \E h \in Known(m) : /\ h.cb = "disconnect" /\ h.held /\ h.arg = m
                               /\ post_held(q, Call("disconnect", m, Delay)) = post(q, h)
<1> DEFINE d == Call("disconnect", m, Delay)
           h == [d EXCEPT !.held = TRUE]
<1>1. d \in Waiting(m) /\ d.cb = "disconnect" /\ d.arg = m
    <2>1. "disconnect" \in Callbacks /\ m \in Anything /\ Delay \in Nat /\ m \in 1..m
        BY DEF Callbacks, Anything, Delay
    <2>2. QED
        BY <2>1, CallWaits DEF Call
<1> HIDE DEF d
<1>2. h \in Waiting(m) /\ h.cb = "disconnect"
    BY <1>1, HeldWaits DEF Timers
<1>3. h.held /\ h.arg = m
    BY <1>1 DEF Waiting, AnyCall
<1>4. h \in Known(m)
    BY <1>2 DEF Known
<1>5. \A i \in DOMAIN q : [q[i] EXCEPT !.held = FALSE] = q[i]
    <2> TAKE i \in DOMAIN q
    <2>1. q[i] \in Known(m) /\ q[i] \notin Held
        BY LenProperties, ElementOfSeq DEF Some
    <2>2. q[i] \in AnyCall /\ ~q[i].held
        BY <2>1 DEF Known, Waiting, Held
    <2>3. QED
        BY <2>2 DEF AnyCall
<1>6. post_held(q, d) = post(q, h)
    BY <1>5, HeldAlone
<1> HIDE DEF h
<1>7. QED
    BY <1>2, <1>3, <1>4, <1>6 DEF d

(* The answer of a connection: the timer that still runs is cancelled and  *)
(* the disconnection posted, unless the link is gone by now.               *)
LEMMA ConnectionBoard ==
    ASSUME IInv, BoardInv, NEW q, NEW c, Running(q, c), c.cb = "onConnectionComplete",
           onConnectionComplete(q, c.arg)
    PROVE  BoardInv' /\ Moves
<1>1. c \in Known(made) /\ q \in Seq(Known(made)) /\ calls \in Seq(Known(made)) /\ made \in Nat
      /\ OnceInv /\ SetInv /\ Shape /\ FlagInv /\ PhaseInv
    BY RoomTyped DEF Running, BoardInv, KnownInv
<1>2. /\ c \in Answers /\ (c \in Success <=> c.arg # 0) /\ c.arg \in {0, made}
      /\ c \notin Steps /\ c \notin Timer /\ c \notin Arms /\ c \notin Losses /\ c \notin Held
      /\ c \notin LegacyOver /\ c \notin ExtOver /\ c \notin Scanners /\ c \notin Advertisers
    BY <1>1, Members DEF Known
<1>3. Some(calls, Answers) /\ ~Some(q, Answers) /\ ~Some(q, Success) /\ (c.arg # 0 => Some(calls, Success))
    <2>1. Some(calls, Answers) /\ ~Some(q, Answers)
        BY <1>1, <1>2 DEF Running, OnceInv
    <2>2. QED
        BY <1>1, <1>2, <2>1, Inclusions DEF Running
<1>4. Some(calls, Success) => c.arg # 0
    BY <1>2, <1>3 DEF Running
<1>5. CASE c.arg = 0
    <2>1. Resting
        BY <1>1, <1>3, <1>4, <1>5 DEF Shape, Stepping, Advertising, Ending, Scanning, Alone, Linked
    <2>2. ~is_connecting' /\ calls' = q
          /\ UNCHANGED <<is_scanning_phase, extended_adv_handle, leaked, undestroyed, scanner, linkVars, failed>>
        BY <1>5 DEF onConnectionComplete, connectionHandled
    <2>3. ext = "none" /\ ~extended_adv_handle /\ links = {} /\ scanner = "off" /\ ~initiating /\ legacy # "on"
          /\ Excused /\ (leaked => undestroyed)
        BY <1>1, <2>1 DEF Resting, Free, Idle, SetInv
    <2>4. ext' = ext /\ legacy' = legacy
        BY <2>3 DEF onConnectionComplete, connectionHandled, stopActiveSets
    <2>5. Still(q)
        BY <1>1, <1>2, <1>3, <2>1, <2>3 DEF Still, Running, Resting, OnceInv, SetInv
    <2>6. QED
        BY <2>2, <2>3, <2>4, <2>5, ToRest DEF linkVars, Excused
<1>6. CASE c.arg # 0
    <2>1. Linked
        BY <1>1, <1>3, <1>6, Inclusions DEF Shape, Resting, Stepping, Advertising, Ending, Scanning, Alone
    <2>2. made # 0 /\ c.arg = made
        BY <1>2, <1>6
    <2>3. /\ cancel(q) \in Seq(Known(made)) /\ ~Some(cancel(q), Held)
          /\ \A S : Some(cancel(q), S) => Some(q, S)
          /\ \A S : (\A e \in Known(made) : e.held => e \notin S) => (Some(cancel(q), S) <=> Some(q, S))
          /\ \A S : AtMostOne(q, S) => AtMostOne(cancel(q), S)
        BY <1>1, Cancelled DEF Running, OnceInv
    <2>4. PICK h \in Known(made) : /\ h.cb = "disconnect" /\ h.held /\ h.arg = made
                                   /\ calls' = post(cancel(q), h)
        <3>1. PICK h \in Known(made) : /\ h.cb = "disconnect" /\ h.held /\ h.arg = made
                       /\ post_held(cancel(q), Call("disconnect", made, Delay)) = post(cancel(q), h)
            BY <1>1, <2>2, <2>3, ClosePosted
        <3>2. QED
            BY <1>6, <2>2, <3>1 DEF onConnectionComplete, connectionHandled
    <2>5. /\ h \in Held /\ h \in Closing(made) /\ h \notin Steps /\ h \notin Timer /\ h \notin Answers
          /\ h \notin LegacyOver /\ h \notin ExtOver /\ h \notin Scanners /\ h \notin Advertisers
          /\ h \notin Losses /\ h \notin Arms
        BY <2>4, Members
    <2>6. /\ calls' \in Seq(Known(made))
          /\ \A S : Some(calls', S) <=> Some(cancel(q), S) \/ h \in S
          /\ \A S : AtMostOne(cancel(q), S) /\ (h \in S => ~Some(cancel(q), S)) => AtMostOne(calls', S)
        BY <2>3, <2>4, Posted
    <2>7. ~Some(calls', Answers) /\ ~Some(calls', Timer)
        <3>1. ~Some(cancel(q), Timer)
            BY <2>3, Inclusions
        <3>2. QED
            BY <1>3, <2>3, <2>5, <2>6, <3>1
    <2>8. (Some(calls', Losses) <=> Some(calls, Losses)) /\ (Some(calls', Steps) <=> Some(calls, Steps))
          /\ (Some(calls', Arms) <=> Some(calls, Arms))
        <3>1. \A e \in Known(made) : e.held => e \notin Losses /\ e \notin Steps /\ e \notin Arms
            <4> TAKE e \in Known(made)
            <4>1. e.held => e.cb \in {"end_advertising_mode", "disconnect"}
                BY Members
            <4>2. QED
                BY <4>1, Members
        <3>2. /\ Some(cancel(q), Losses) <=> Some(q, Losses)
              /\ Some(cancel(q), Steps) <=> Some(q, Steps)
              /\ Some(cancel(q), Arms) <=> Some(q, Arms)
            BY <2>3, <3>1
        <3>3. QED
            BY <1>2, <2>5, <2>6, <3>2 DEF Running
    <2>9. KnownInv' /\ OnceInv'
        <3>1. AtMostOne(cancel(q), Held) /\ AtMostOne(calls', Answers) /\ Before(calls', Answers, Losses)
            BY <2>3, <2>7, NoneOf
        <3>2. AtMostOne(calls', Held) /\ AtMostOne(calls', Steps) /\ AtMostOne(calls', LegacyOver)
              /\ AtMostOne(calls', ExtOver)
            BY <1>1, <2>3, <2>5, <2>6, <3>1 DEF Running, OnceInv
        <3>3. made' = made
            BY DEF onConnectionComplete, connectionHandled, linkVars
        <3>4. QED
            BY <2>6, <3>1, <3>2, <3>3 DEF KnownInv, OnceInv
    <2>10. ~is_connecting'
           /\ UNCHANGED <<is_scanning_phase, extended_adv_handle, leaked, undestroyed, scanner, linkVars, failed>>
        BY DEF onConnectionComplete, connectionHandled
    <2>11. ext = "none" /\ ~extended_adv_handle /\ scanner = "off" /\ ~initiating /\ legacy # "on"
           /\ (Excused \/ is_scanning_phase \/ ~ExtCompiled)
        BY <1>1, <2>1 DEF Linked, Idle, SetInv
    <2>12. ext' = ext /\ legacy' = legacy
        BY <2>11 DEF onConnectionComplete, connectionHandled, stopActiveSets
    <2>13. Shape'
        <3>1. CASE links = {made} /\ ~Some(calls, Steps)
            <4>1. Linked'
                BY <2>5, <2>6, <2>7, <2>8, <2>10, <2>11, <2>12, <3>1 DEF Linked, Idle, Excused, linkVars
            <4>2. QED
                BY <4>1 DEF Shape
        <3>2. CASE links = {} /\ Some(calls, Losses)
            <4>1. Some(calls', Steps)
                BY <1>1, <2>8, <3>2, Inclusions
            <4>2. Stepping'
                BY <2>7, <2>10, <2>11, <2>12, <3>2, <4>1 DEF Stepping, Free, Idle, Excused, linkVars
            <4>3. QED
                BY <4>2 DEF Shape
        <3>3. QED
            BY <2>1, <3>1, <3>2, <1>3 DEF Linked
    <2>14. PhaseInv' /\ SetInv' /\ FlagInv'
        <3>1. Some(calls', Scanners) => Some(calls, Scanners)
            BY <2>3, <2>5, <2>6 DEF Running
        <3>2. Some(calls', Advertisers) => Some(calls, Advertisers)
            BY <2>3, <2>5, <2>6 DEF Running
        <3>3. Some(calls', LegacyOver) => Some(calls, LegacyOver)
            BY <2>3, <2>5, <2>6 DEF Running
        <3>4. Some(calls', ExtOver) => Some(calls, ExtOver)
            BY <2>3, <2>5, <2>6 DEF Running
        <3>5. QED
            BY <1>1, <2>10, <2>11, <2>12, <3>1, <3>2, <3>3, <3>4 DEF PhaseInv, SetInv, FlagInv, linkVars
    <2>15. Moves
        BY <2>8, <2>10, <2>12 DEF Moves, Kept, Same
    <2>16. QED
        BY <2>9, <2>13, <2>14, <2>15 DEF BoardInv
<1>7. QED
    BY <1>5, <1>6

(* The link is gone: the mode it ended is left.                            *)
LEMMA DisconnectionBoard ==
    ASSUME IInv, BoardInv, NEW q, NEW c, Running(q, c), c.cb = "onDisconnectionComplete",
           onDisconnectionComplete(q, c.arg)
    PROVE  BoardInv' /\ Moves
<1>1. c \in Known(made) /\ q \in Seq(Known(made)) /\ made \in Nat
    BY RoomTyped DEF Running
<1>2. c \in Steps /\ c \notin Arms /\ c \notin Enters
    <2>1. ~c.held
        BY <1>1, Members
    <2>2. QED
        BY <1>1, <2>1, Members
<1>3. /\ Still(q) /\ links = {} /\ scanner = "off" /\ ~initiating /\ legacy # "on" /\ ext = "none"
      /\ ~is_connecting /\ ~extended_adv_handle /\ (leaked => undestroyed)
      /\ ~Some(calls, Arms) /\ (Excused \/ is_scanning_phase \/ ~ExtCompiled)
    BY <1>2, StepStill
<1>4. PICK x \in {q, cancel(q)} : calls' = post(x, endOfMode)
    BY DEF onDisconnectionComplete
<1>5. Still(x) /\ (Some(x, LegacyOver) => Some(q, LegacyOver))
    <2>1. Still(cancel(q)) /\ (Some(cancel(q), LegacyOver) => Some(q, LegacyOver))
        BY <1>1, <1>3, Cancelled DEF Still
    <2>2. QED
        BY <1>3, <2>1
<1>6. /\ endOfMode \in Known(made) /\ endOfMode \in Steps /\ endOfMode \notin Arms
      /\ endOfMode \in Scanners => is_scanning_phase
      /\ endOfMode \in Advertisers => ~is_scanning_phase
    BY <1>1, ModeCall DEF endOfMode, Posts
<1>7. UNCHANGED <<demoVars, setVars, scanner, linkVars, failed>>
    BY DEF onDisconnectionComplete
<1>8. QED
    BY <1>3, <1>4, <1>5, <1>6, <1>7, ToStep DEF demoVars, setVars, linkVars, Excused

LEMMA DispatchBoard ==
    ASSUME ConnectStopsScan, IInv, BoardInv, races' = {}, NEW p \in DOMAIN calls, Dispatch(p)
    PROVE  BoardInv' /\ Moves
<1> DEFINE q == RemoveAt(calls, p)
           c == calls[p]
<1>1. Running(q, c)
    BY Runs
<1> HIDE DEF q
<1>2. CASE c.cb = "advertise" /\ advertise(q)
    BY <1>1, <1>2, AdvertiseBoard
<1>3. CASE c.cb = "scan" /\ scan(q)
    BY <1>1, <1>3, ScanBoard
<1>4. CASE \/ c.cb = "end_scanning_mode" /\ end_scanning_mode(q)
           \/ c.cb = "onScanTimeout" /\ onScanTimeout(q)
           \/ c.cb = "end_advertising_mode" /\ ~c.held /\ end_advertising_mode(q)
    BY <1>1, <1>4, ModeBoard
<1>5. CASE c.cb = "end_advertising_mode" /\ c.held /\ end_advertising_mode(q)
    BY <1>1, <1>5, TimerBoard
<1>6. CASE c.cb = "disconnect" /\ disconnect(q, c.arg)
    BY <1>1, <1>6, DisconnectBoard
<1>7. CASE c.cb = "onAdvertisingReport" /\ onAdvertisingReport(q)
    BY <1>1, <1>7, ReportBoard
<1>8. CASE c.cb = "onAdvertisingEnd" /\ onAdvertisingEnd(q, c.arg)
    BY <1>1, <1>8, AdvertisingEndBoard
<1>9. CASE c.cb = "onConnectionComplete" /\ onConnectionComplete(q, c.arg)
    BY <1>1, <1>9, ConnectionBoard
<1>10. CASE c.cb = "onDisconnectionComplete" /\ onDisconnectionComplete(q, c.arg)
    BY <1>1, <1>10, DisconnectionBoard
<1>11. QED
    BY <1>2, <1>3, <1>4, <1>5, <1>6, <1>7, <1>8, <1>9, <1>10 DEF Dispatch, q

-----------------------------------------------------------------------------
(* The stack and the peers, once more.                                     *)

(* A set that stopped, or a report, tells the board nothing it acts on yet. *)
LEMMA NoticeBoard ==
    ASSUME IInv, BoardInv, LegacyEnds \/ ExtendedEnds \/ Report
    PROVE  BoardInv' /\ Moves
<1>1. calls \in Seq(Known(made)) /\ made \in Nat /\ OnceInv /\ SetInv
    BY RoomTyped DEF BoardInv, KnownInv
<1>2. UNCHANGED <<demoVars, setVars, scanner, linkVars, failed>>
    BY DEF LegacyEnds, ExtendedEnds, Report
<1>3. PICK cb \in {"onAdvertisingEnd", "onAdvertisingReport"}, arg \in {0, "legacy", "extended"} :
          /\ calls' = post(calls, Call(cb, arg, 0))
          /\ cb = "onAdvertisingEnd" =>
                 \/ arg = "legacy" /\ legacy = "stopping" /\ ~EndRaised("legacy")
                 \/ arg = "extended" /\ ext = "stopping" /\ ~EndRaised("extended")
    BY DEF LegacyEnds, ExtendedEnds, Report, Signal
<1> DEFINE d == Call(cb, arg, 0)
<1>4. d \in Known(made) /\ d.cb = cb /\ d.arg = arg /\ ~d.held
    <2>1. /\ cb \in Callbacks \ {"disconnect"} /\ cb # "onConnectionComplete" /\ arg \in Anything /\ 0 \in Nat
          /\ cb = "onAdvertisingEnd" => arg \in {"legacy", "extended"}
        BY <1>3 DEF Callbacks, Anything
    <2>2. QED
        BY <1>1, <2>1, KnownCall
<1>5. calls' = post(calls, d)
    BY <1>3
<1> HIDE DEF d
<1>6. /\ d \notin Steps /\ d \notin Timer /\ d \notin Answers /\ d \notin Success /\ d \notin Losses
      /\ d \notin Enters /\ d \notin Arms /\ d \notin Scanners /\ d \notin Advertisers /\ d \notin Held
      /\ d \in LegacyOver => legacy = "stopping" /\ ~EndRaised("legacy")
      /\ d \in ExtOver => ext = "stopping" /\ ~EndRaised("extended")
    BY <1>3, <1>4, Members
<1>7. /\ calls' \in Seq(Known(made))
      /\ \A S : Some(calls', S) <=> Some(calls, S) \/ d \in S
      /\ \A S : AtMostOne(calls, S) /\ (d \in S => ~Some(calls, S)) => AtMostOne(calls', S)
      /\ \A S, T : Before(calls, S, T) /\ (d \in S => d \notin T /\ ~Some(calls, T)) => Before(calls', S, T)
    BY <1>1, <1>4, <1>5, Posted
<1>8. /\ ~EndRaised("legacy") => ~Some(calls, LegacyOver)
      /\ ~EndRaised("extended") => ~Some(calls, ExtOver)
    BY DEF EndRaised, Pending, Some, LegacyOver, ExtOver, Named
<1>9. Alike
    BY <1>6, <1>7 DEF Alike
<1>10. KnownInv' /\ OnceInv'
    BY <1>1, <1>2, <1>6, <1>7, <1>8 DEF KnownInv, OnceInv, linkVars
<1>11. SetInv'
    BY <1>1, <1>2, <1>6, <1>7 DEF SetInv, demoVars, setVars
<1>12. QED
    BY <1>2, <1>9, <1>10, <1>11, ToSame DEF demoVars, setVars, linkVars

LEMMA ScanExpiresBoard ==
    ASSUME IInv, BoardInv, ScanExpires
    PROVE  BoardInv' /\ Moves
<1>1. calls \in Seq(Known(made)) /\ made \in Nat /\ OnceInv /\ SetInv /\ Shape /\ FlagInv
    BY RoomTyped DEF BoardInv, KnownInv
<1>2. UNCHANGED <<demoVars, setVars, linkVars, failed>> /\ scanner = "on" /\ scanner' = "off"
    BY DEF ScanExpires
<1>3. Scanning
    BY <1>1, <1>2 DEF Shape, Resting, Stepping, Advertising, Ending, Linked, Free, Idle
<1>4. Still(calls) /\ ~Some(calls, Arms)
    <2>1. Still(calls)
        BY <1>1, <1>3 DEF Still, Scanning, Alone, OnceInv, SetInv
    <2>2. QED
        BY <1>1, <2>1, Inclusions DEF Still
<1> DEFINE d == Call("onScanTimeout", 0, 0)
<1>5. d \in Known(made) /\ d \in Steps /\ d \notin Advertisers /\ d \notin Arms
    BY <1>1, ModeCall DEF Posts
<1>6. calls' = post(calls, d)
    BY DEF ScanExpires, Signal
<1> HIDE DEF d
<1>7. links = {} /\ ~initiating /\ ~is_connecting /\ legacy # "on" /\ ext = "none" /\ ~extended_adv_handle
      /\ is_scanning_phase /\ (leaked => undestroyed)
    BY <1>1, <1>2, <1>3 DEF Scanning, Alone, FlagInv, SetInv
<1>8. QED
    BY <1>2, <1>4, <1>5, <1>6, <1>7, ToStep DEF demoVars, setVars, linkVars

(* Calls that are known once m connections were made still are when one    *)
(* more is, unless an answer waits.                                        *)
LEMMA MadeKnown ==
    ASSUME NEW m \in Nat, NEW q \in Seq(Known(m)), ~Some(q, Answers)
    PROVE  q \in Seq(Known(m + 1))
<1>1. DOMAIN q = 1..Len(q) /\ Len(q) \in Nat /\ \A i \in 1..Len(q) : q[i] \in Known(m) /\ q[i] \notin Answers
    BY LenProperties, ElementOfSeq DEF Some
<1>2. \A c \in Known(m) : c \notin Answers => c \in Known(m + 1)
    <2> TAKE c \in Known(m)
    <2>1. c \notin Answers => c.cb # "onConnectionComplete"
        BY Members
    <2>2. c \in AnyCall /\ 1..m \subseteq 1..(m + 1)
        BY DEF Known, Waiting
    <2>3. QED
        BY <2>1, <2>2 DEF Known, Waiting
<1>3. q \in [1..Len(q) -> Known(m + 1)]
    BY <1>1, <1>2
<1>4. QED
    BY <1>1, <1>3, SeqDef

(* A connection is established, with the peer of a report or a central, or *)
(* it fails.                                                               *)
LEMMA AnsweredBoard ==
    ASSUME IInv, BoardInv, races' = {}, Established \/ NotEstablished \/ CentralConnects
    PROVE  BoardInv' /\ Moves
<1>1. calls \in Seq(Known(made)) /\ made \in Nat /\ OnceInv /\ SetInv /\ Shape /\ FlagInv /\ PhaseInv
    BY RoomTyped DEF BoardInv, KnownInv
<1>2. /\ UNCHANGED <<demoVars, ext, leaked, undestroyed, scanner>> /\ (failed => failed')
      /\ ~initiating' /\ (legacy' = legacy \/ (legacy = "on" /\ legacy' = "stopping"))
    <2>1. CASE Established \/ NotEstablished
        BY <2>1 DEF Established, NotEstablished, setVars
    <2>2. CASE CentralConnects
        BY <1>1, <2>2 DEF CentralConnects, Shape, Resting, Stepping, Advertising, Ending, Scanning, Linked, Free, Idle
    <2>3. QED
        BY <2>1, <2>2
<1>3. /\ Alone /\ scanner = "off" /\ ext = "none" /\ legacy' # "on"
      /\ NotEstablished => ~Some(calls, Timer)
      /\ CentralConnects => ~is_connecting
      /\ Excused \/ is_scanning_phase \/ ~ExtCompiled
    <2>1. CASE Established \/ NotEstablished
        <3>1. Scanning /\ initiating
            BY <1>1, <2>1 DEF Established, NotEstablished, Shape, Resting, Stepping, Advertising, Ending, Linked, Free, Idle
        <3>2. scanner = "off"
            BY <3>1, Types DEF Scanning, IInv, Sets
        <3>3. legacy' = legacy
            BY <2>1 DEF Established, NotEstablished, setVars
        <3>4. ~CentralConnects
            BY <2>1, <3>1, <3>3 DEF Scanning, CentralConnects
        <3>5. QED
            BY <3>1, <3>2, <3>3, <3>4 DEF Scanning
    <2>2. CASE CentralConnects
        <3>1. Advertising
            BY <1>1, <2>2 DEF CentralConnects, Shape, Resting, Stepping, Ending, Scanning, Linked, Free
        <3>2. ~extended_adv_handle /\ legacy' = "stopping"
            BY <2>2 DEF CentralConnects, Race
        <3>3. ext = "none"
            BY <1>1, <3>2 DEF SetInv
        <3>4. ~NotEstablished
            BY <3>1 DEF NotEstablished, Advertising, Idle
        <3>5. ~is_connecting
            BY <1>1, <3>1 DEF FlagInv, Advertising, Alone, Idle
        <3>6. QED
            BY <3>1, <3>2, <3>3, <3>4, <3>5 DEF Advertising, Idle
    <2>3. QED
        BY <2>1, <2>2
<1>4. ~Some(calls, Steps) /\ ~Some(calls, Answers) /\ links = {}
    BY <1>3 DEF Alone
<1>5. PICK arg \in {0, made'} : /\ calls' = post(calls, Call("onConnectionComplete", arg, 0))
                                /\ \/ arg # 0 /\ made' = made + 1 /\ links' = {made'}
                                      /\ (Established \/ CentralConnects)
                                   \/ arg = 0 /\ made' = made /\ links' = {} /\ failed' /\ NotEstablished
    <2>1. CASE Established
        BY <1>1, <1>4, <2>1 DEF Established, Signal
    <2>2. CASE CentralConnects
        BY <1>1, <1>4, <2>2 DEF CentralConnects, Signal
    <2>3. CASE NotEstablished
        BY <1>1, <1>4, <2>3 DEF NotEstablished, Signal
    <2>4. QED
        BY <2>1, <2>2, <2>3
<1> DEFINE d == Call("onConnectionComplete", arg, 0)
<1>6. calls \in Seq(Known(made')) /\ made' \in Nat
    BY <1>1, <1>4, <1>5, MadeKnown
<1>7. d \in Known(made') /\ d.cb = "onConnectionComplete" /\ d.arg = arg /\ ~d.held
    <2>1. /\ "onConnectionComplete" \in Callbacks \ {"disconnect"} /\ arg \in Anything /\ 0 \in Nat
          /\ "onConnectionComplete" # "onAdvertisingEnd"
        BY <1>6 DEF Callbacks, Anything
    <2>2. QED
        BY <1>6, <2>1, KnownCall
<1>8. calls' = post(calls, d)
    BY <1>5
<1> HIDE DEF d
<1>9. /\ d \in Answers /\ (d \in Success <=> arg # 0) /\ d \notin Steps /\ d \notin Timer /\ d \notin Held
      /\ d \notin Arms /\ d \notin Scanners /\ d \notin Advertisers /\ d \notin LegacyOver
      /\ d \notin ExtOver /\ d \notin Losses
    BY <1>7, Members
<1>10. /\ calls' \in Seq(Known(made'))
       /\ \A S : Some(calls', S) <=> Some(calls, S) \/ d \in S
       /\ \A S : AtMostOne(calls, S) /\ (d \in S => ~Some(calls, S)) => AtMostOne(calls', S)
       /\ \A S, T : Before(calls, S, T) /\ (d \in S => d \notin T /\ ~Some(calls, T)) => Before(calls', S, T)
    BY <1>6, <1>7, <1>8, Posted
<1>11. ~Some(calls, Losses) /\ ~Some(calls, Arms) /\ ~Some(calls, Scanners) /\ ~Some(calls, Success)
    BY <1>1, <1>4, Inclusions
<1>12. KnownInv' /\ OnceInv'
    BY <1>1, <1>4, <1>9, <1>10, <1>11 DEF KnownInv, OnceInv
<1>13. Shape'
    <2>1. CASE arg # 0
        <3>1. Linked'
            BY <1>2, <1>3, <1>4, <1>5, <1>9, <1>10, <2>1 DEF Linked, Idle, Excused, demoVars
        <3>2. QED
            BY <3>1 DEF Shape
    <2>2. CASE arg = 0
        <3>1. made' \in Nat /\ failed' /\ links' = {} /\ NotEstablished
            BY <1>5, <1>6, <2>2
        <3>2. Resting'
            BY <1>2, <1>3, <1>4, <1>9, <1>10, <1>11, <2>2, <3>1 DEF Resting, Free, Idle, Excused, demoVars
        <3>3. QED
            BY <3>2 DEF Shape
    <2>3. QED
        BY <2>1, <2>2
<1>14. PhaseInv' /\ SetInv' /\ FlagInv'
    <2>1. ~Some(calls, LegacyOver) \/ legacy' = legacy
        BY <1>1, <1>2 DEF SetInv
    <2>2. QED
        BY <1>1, <1>2, <1>9, <1>10, <1>11, <2>1 DEF PhaseInv, SetInv, FlagInv, demoVars
<1>15. Moves
    BY <1>2, <1>3, <1>9, <1>10, <1>11 DEF Moves, Quieted, Same, demoVars
<1>16. QED
    BY <1>12, <1>13, <1>14, <1>15 DEF BoardInv

LEMMA LinkLostBoard ==
    ASSUME IInv, BoardInv, LinkLost
    PROVE  BoardInv' /\ Moves
<1>1. PICK handle \in links : links' = links \ {handle}
    BY DEF LinkLost
<1>2. PICK reason \in {"remote", "lost"} : calls' = post(calls, Call("onDisconnectionComplete", reason, 0))
    BY DEF LinkLost, Signal
<1>3. handle = made
    <2>1. links = {made}
        BY <1>1 DEF BoardInv, Shape, Resting, Stepping, Advertising, Ending, Scanning, Free, Alone, Linked
    <2>2. QED
        BY <1>1, <2>1
<1>4. UNCHANGED <<demoVars, setVars, scanner, initiating, made, failed>>
    BY DEF LinkLost
<1>5. calls \in Seq(Known(made)) /\ Before(calls, Answers, Losses)
    BY DEF BoardInv, KnownInv, OnceInv
<1>6. QED
    BY <1>1, <1>2, <1>3, <1>4, <1>5, LinkBoard

LEMMA InitBoard == ASSUME Init PROVE BoardInv
<1> DEFINE d == Call("advertise", 0, 0)
<1>1. made \in Nat /\ made = 0 /\ calls = <<d>>
    BY DEF Init
<1>2. d \in Known(made) /\ d \in Steps /\ d \in Enters /\ d \notin Scanners
    BY <1>1, ModeCall DEF Posts
<1>3. d \notin Timer /\ d \notin Answers /\ d \notin LegacyOver /\ d \notin ExtOver
    BY <1>2, Members
<1> HIDE DEF d
<1>4. calls \in Seq(Known(made)) /\ DOMAIN calls = {1} /\ calls[1] = d
    <2>1. calls = Append(<<>>, d)
        BY <1>1
    <2>2. QED
        BY <1>1, <1>2, <2>1, EmptySeq, AppendProperties
<1>5. /\ \A S : Some(calls, S) <=> d \in S
      /\ \A S : AtMostOne(calls, S)
    BY <1>4 DEF Some, AtMostOne
<1>6. ~Some(calls, Answers)
    BY <1>3, <1>5
<1>7. Before(calls, Answers, Losses)
    BY <1>6, NoneOf
<1>8. Stepping
    BY <1>2, <1>3, <1>5 DEF Stepping, Free, Idle, Init
<1>9. PhaseInv /\ SetInv /\ FlagInv
    BY <1>2, <1>3, <1>5 DEF PhaseInv, SetInv, FlagInv, Init
<1>10. QED
    BY <1>4, <1>5, <1>7, <1>8, <1>9 DEF BoardInv, KnownInv, OnceInv, Shape

LEMMA NextBoard ==
    ASSUME ConnectStopsScan, IInv, BoardInv, [Next]_vars, races' = {}
    PROVE  BoardInv' /\ Moves
<1>1. CASE Served
    BY <1>1, DispatchBoard DEF Served
<1>2. CASE LegacyEnds \/ ExtendedEnds \/ Report
    BY <1>2, NoticeBoard
<1>3. CASE ScanExpires
    BY <1>3, ScanExpiresBoard
<1>4. CASE Established \/ NotEstablished \/ CentralConnects
    BY <1>4, AnsweredBoard
<1>5. CASE LinkLost
    BY <1>5, LinkLostBoard
<1>6. CASE UNCHANGED vars
    <2>1. Alike
        BY <1>6 DEF Alike, vars
    <2>2. KnownInv' /\ OnceInv' /\ SetInv'
        BY <1>6 DEF BoardInv, KnownInv, OnceInv, SetInv, vars, demoVars, setVars, linkVars
    <2>3. QED
        BY <1>6, <2>1, <2>2, ToSame DEF vars, demoVars, setVars, linkVars
<1>7. QED
    BY <1>1, <1>2, <1>3, <1>4, <1>5, <1>6 DEF Next

(* A race that happened is not forgotten.                                  *)
LEMMA RacesKept == ASSUME [Next]_vars, races' = {} PROVE races = {}
<1>1. races \subseteq races'
    <2>1. ASSUME NEW p \in DOMAIN calls, Dispatch(p)
          PROVE  races \subseteq races'
        BY <2>1 DEF Dispatch, advertise, scan, end_scanning_mode, end_advertising_mode, disconnect,
               onAdvertisingReport, onAdvertisingEnd, onScanTimeout, onConnectionComplete, connectionHandled,
               onDisconnectionComplete, Race
    <2>2. QED
        BY <2>1 DEF Next, Served, LegacyEnds, ExtendedEnds, ScanExpires, Report, Established, NotEstablished,
               CentralConnects, LinkLost, Race, vars
<1>2. QED
    BY <1>1

LEMMA GapInvariant ==
    ASSUME ConnectStopsScan
    PROVE  Spec => []GapInv
<1>1. Init => GapInv
    BY InitInv, InitBoard DEF GapInv
<1>2. ASSUME GapInv, [Next]_vars
      PROVE  GapInv'
    BY <1>2, NextInv, NextBoard, RacesKept DEF GapInv
<1>3. QED
    BY <1>1, <1>2, PTL DEF Spec

-----------------------------------------------------------------------------
(* What the chain of modes shows.                                          *)

(* No link is left open: the demo's disconnection is posted or follows     *)
(* from the event that waits, and onDisconnectionComplete (main.cpp:411)   *)
(* can cancel it, until a connection races a timer or a report its scan.   *)
THEOREM LinksClosed ==
    ASSUME ConnectStopsScan
    PROVE  Spec => []LinksAreClosed
<1>1. ASSUME GapInv
      PROVE  LinksAreClosed
    <2> SUFFICES ASSUME races = {}, NEW handle \in links
                 PROVE  \E p \in DOMAIN calls : /\ \/ calls[p].cb = "onConnectionComplete"
                                                   \/ calls[p].cb = "disconnect" /\ calls[p].held
                                                /\ calls[p].arg = handle
        BY DEF LinksAreClosed
    <2>1. calls \in Seq(Known(made)) /\ Shape
        BY <1>1 DEF GapInv, BoardInv, KnownInv
    <2>2. \A p \in DOMAIN calls : calls[p] \in Known(made)
        BY <2>1, LenProperties, ElementOfSeq
    <2>3. handle = made /\ (Some(calls, Success) \/ Some(calls, Closing(made)))
        BY <2>1 DEF Shape, Resting, Stepping, Advertising, Ending, Scanning, Free, Alone, Linked
    <2>4. PICK p \in DOMAIN calls : calls[p] \in Success \/ calls[p] \in Closing(made)
        BY <2>3 DEF Some
    <2>5. CASE calls[p] \in Success
        BY <2>2, <2>3, <2>5 DEF Success, Answers, Known
    <2>6. CASE calls[p] \in Closing(made)
        BY <2>3, <2>6 DEF Closing, Held
    <2>7. QED
        BY <2>4, <2>5, <2>6
<1>2. QED
    BY <1>1, GapInvariant, PTL

(* onAdvertisingEnd (main.cpp:354) destroys the extended set before        *)
(* advertise creates the next one: a set is only left in the controller    *)
(* where the stack refused to destroy it.                                  *)
THEOREM NoSetLeaked ==
    ASSUME ConnectStopsScan
    PROVE  Spec => []NoLeakedSet
<1>1. GapInv => NoLeakedSet
    BY DEF GapInv, BoardInv, SetInv, NoLeakedSet
<1>2. QED
    BY <1>1, GapInvariant, PTL

(* The board never scans while its legacy set advertises (main.cpp:27),    *)
(* until two ends of a mode race.                                          *)
THEOREM ModesApart ==
    ASSUME ConnectStopsScan
    PROVE  Spec => [](races = {} => ModesInSequence)
<1>1. GapInv => (races = {} => ModesInSequence)
    BY DEF GapInv, BoardInv, Shape, Resting, Stepping, Advertising, Ending, Scanning, Linked, Free, Idle,
           ModesInSequence
<1>2. QED
    BY <1>1, GapInvariant, PTL

LEMMA AnswersWait == ASSUME Some(calls, Answers) PROVE Pending(calls, {"onConnectionComplete"}) # {}
BY DEF Some, Answers, Pending

(* _is_connecting (main.cpp:326) stays set from connect() to its answer,   *)
(* whatever piles up in the queue, on a board that nobody connects to.     *)
THEOREM FlagWithoutCentrals ==
    ASSUME ~Connectable
    PROVE  Spec => []ConnectingFlagRight
<1>1. AskInv => ConnectingFlagRight
    BY AnswersWait DEF AskInv, ConnectingFlagRight
<1>2. QED
    BY <1>1, AskInvariant, PTL

(* It does too on a connectable board, until two ends of a mode race.      *)
THEOREM FlagInSequence ==
    ASSUME ConnectStopsScan \/ ~Connectable
    PROVE  Spec => []ConnectingFlagRight
<1>1. CASE ConnectStopsScan
    <2>1. ASSUME Connectable, GapInv
          PROVE  ConnectingFlagRight
        BY <2>1, AnswersWait DEF GapInv, BoardInv, FlagInv, ConnectingFlagRight
    <2>2. ASSUME Connectable
          PROVE  Spec => []ConnectingFlagRight
        <3>1. GapInv => ConnectingFlagRight
            BY <2>1, <2>2
        <3>2. Spec => []GapInv
            BY <1>1, GapInvariant
        <3>3. QED
            BY <3>1, <3>2, PTL
    <2>3. QED
        BY <2>2, FlagWithoutCentrals
<1>2. QED
    BY <1>1, FlagWithoutCentrals

(* The calls that OneDriver counts.                                        *)
Driving == {"advertise", "scan", "end_scanning_mode", "end_advertising_mode",
            "onScanTimeout", "onDisconnectionComplete"}

LEMMA DrivingCalls ==
    ASSUME NEW m, NEW c \in Known(m)
    PROVE  /\ c.cb \in Driving <=> c \in Timer \/ c \in Steps
           /\ ~(c \in Timer /\ c \in Steps)
<1>1. c.held \in BOOLEAN
    BY DEF Known, Waiting, AnyCall
<1>2. QED
    BY <1>1, Members DEF Driving

(* The driving calls of a queue that has at most one of them.              *)
LEMMA DrivenCount ==
    ASSUME NEW m, NEW q \in Seq(Known(m)), AtMostOne(q, Held), AtMostOne(q, Steps),
           ~Some(q, Steps) \/ ~Some(q, Timer)
    PROVE  Cardinality(Pending(q, Driving)) = IF Some(q, Steps) \/ Some(q, Timer) THEN 1 ELSE 0
<1>1. \A i \in DOMAIN q : q[i] \in Known(m)
    BY LenProperties, ElementOfSeq
<1>2. \A i \in DOMAIN q : i \in Pending(q, Driving) <=> q[i] \in Timer \/ q[i] \in Steps
    BY <1>1, DrivingCalls DEF Pending
<1>3. Pending(q, Driving) \subseteq DOMAIN q
    BY DEF Pending
<1>4. ASSUME NEW i \in Pending(q, Driving), NEW j \in Pending(q, Driving)
      PROVE  i = j
    <2>1. \/ q[i] \in Timer /\ q[j] \in Timer
          \/ q[i] \in Steps /\ q[j] \in Steps
        BY <1>2, <1>3, <1>4 DEF Some
    <2>2. q[i] \in Timer /\ q[j] \in Timer => q[i] \in Held /\ q[j] \in Held
        BY DEF Timer
    <2>3. QED
        BY <1>3, <1>4, <2>1, <2>2 DEF AtMostOne
<1>5. CASE Some(q, Steps) \/ Some(q, Timer)
    <2>1. PICK i \in DOMAIN q : i \in Pending(q, Driving)
        BY <1>2, <1>5 DEF Some
    <2>2. Pending(q, Driving) = {i}
        BY <1>4, <2>1
    <2>3. QED
        BY <1>5, <2>2, FS_Singleton
<1>6. CASE ~(Some(q, Steps) \/ Some(q, Timer))
    <2>1. Pending(q, Driving) = {}
        BY <1>2, <1>3, <1>6 DEF Some
    <2>2. QED
        BY <1>6, <2>1, FS_EmptySet
<1>7. QED
    BY <1>5, <1>6

LEMMA Counts ==
    /\ Cardinality({}) = 0 /\ \A x : Cardinality({x}) = 1
    /\ \A P \in BOOLEAN : Cardinality({x \in {1} : P}) = IF P THEN 1 ELSE 0
<1>1. Cardinality({}) = 0 /\ \A x : Cardinality({x}) = 1
    BY FS_EmptySet, FS_Singleton
<1>2. ASSUME NEW P \in BOOLEAN
      PROVE  Cardinality({x \in {1} : P}) = IF P THEN 1 ELSE 0
    <2>1. CASE P
        <3>1. {x \in {1} : P} = {1}
            BY <2>1
        <3>2. QED
            BY <1>1, <2>1, <3>1
    <2>2. CASE ~P
        <3>1. {x \in {1} : P} = {}
            BY <2>2
        <3>2. QED
            BY <1>1, <2>2, <3>1
    <2>3. QED
        BY <2>1, <2>2
<1>3. QED
    BY <1>1, <1>2

(* A connection that waits takes the chain over from the timer it cancels. *)
LEMMA DrivenByCalls ==
    ASSUME BoardInv
    PROVE  Cardinality(Pending(IF Connected THEN cancel(calls) ELSE calls, Driving)) =
               IF Some(calls, Steps) \/ (Some(calls, Timer) /\ ~Some(calls, Success)) THEN 1 ELSE 0
<1>1. calls \in Seq(Known(made)) /\ OnceInv /\ Shape
    BY DEF BoardInv, KnownInv
<1>2. Connected <=> Some(calls, Success)
    <2>1. \A p \in DOMAIN calls : calls[p] \in Known(made)
        BY <1>1, LenProperties, ElementOfSeq
    <2>2. \A p \in DOMAIN calls :
              calls[p] \in Success <=> calls[p].cb = "onConnectionComplete" /\ calls[p].arg # 0
        BY <2>1, Members
    <2>3. QED
        BY <2>2 DEF Connected, Pending, Some
<1>3. CASE Some(calls, Success)
    <2>1. /\ cancel(calls) \in Seq(Known(made)) /\ ~Some(cancel(calls), Held)
          /\ \A S : (\A c \in Known(made) : c.held => c \notin S) => (Some(cancel(calls), S) <=> Some(calls, S))
          /\ AtMostOne(cancel(calls), Held) /\ AtMostOne(cancel(calls), Steps)
        BY <1>1, Cancelled DEF OnceInv
    <2>2. \A c \in Known(made) : c.held => c \notin Steps
        BY Members
    <2>3. ~Some(cancel(calls), Timer) /\ (Some(cancel(calls), Steps) <=> Some(calls, Steps))
        BY <2>1, <2>2, Inclusions
    <2>4. QED
        BY <1>2, <1>3, <2>1, <2>3, DrivenCount
<1>4. CASE ~Some(calls, Success)
    <2>1. ~Some(calls, Steps) \/ ~Some(calls, Timer)
        BY <1>1, <1>4 DEF Shape, Resting, Stepping, Advertising, Ending, Scanning, Linked, Alone
    <2>2. QED
        BY <1>1, <1>2, <1>4, <2>1, DrivenCount DEF OnceInv
<1>5. QED
    BY <1>3, <1>4

(* onConnectionComplete, onDisconnectionComplete and the timers hand one   *)
(* chain of calls on, whatever piles up in the queue, until two ends of a  *)
(* mode race: no mode is entered twice as often from then on, and the      *)
(* demo stops only where the stack refused a call or lacks what the build  *)
(* waits for.                                                              *)
THEOREM OneDriverOnly ==
    ASSUME ConnectStopsScan
    PROVE  Spec => []OneDriver
<1>1. ASSUME GapInv
      PROVE  OneDriver
    <2> SUFFICES ASSUME races = {}
                 PROVE  Drivers <= 1 /\ (Drivers = 0 => Excused)
        BY DEF OneDriver, Excused
    <2> DEFINE n == Cardinality(Pending(IF Connected THEN cancel(calls) ELSE calls, Driving))
               l == Cardinality(links)
               s == Cardinality({x \in {1} : scanner = "on"})
               t == Cardinality({x \in {1} : initiating})
               e == Cardinality({x \in {1} : ext = "stopping"})
    <2>1. BoardInv /\ Shape /\ initiating \in BOOLEAN /\ scanner \in {"off", "on"}
        BY <1>1, Types DEF GapInv, IInv, Flags, Sets, BoardInv
    <2>2. /\ n = IF Some(calls, Steps) \/ (Some(calls, Timer) /\ ~Some(calls, Success)) THEN 1 ELSE 0
          /\ s = IF scanner = "on" THEN 1 ELSE 0
          /\ t = IF initiating THEN 1 ELSE 0
          /\ e = IF ext = "stopping" THEN 1 ELSE 0
        <3>1. (scanner = "on") \in BOOLEAN /\ (ext = "stopping") \in BOOLEAN
            OBVIOUS
        <3>2. QED
            BY <2>1, <3>1, DrivenByCalls, Counts
    <2>3. l = IF links = {} THEN 0 ELSE 1
        <3>1. links = {} \/ links = {made}
            BY <2>1 DEF Shape, Resting, Stepping, Advertising, Ending, Scanning, Linked, Free, Alone
        <3>2. QED
            BY <3>1, Counts
    <2>4. Drivers = n + l + s + t + e
        BY DEF Drivers, Driving
    <2>5. calls \in Seq(Known(made))
        BY <2>1 DEF BoardInv, KnownInv
    <2>6. /\ Some(calls, Success) => Some(calls, Answers)
          /\ Some(calls, Losses) => Some(calls, Steps)
        BY <2>5, Inclusions
    <2> HIDE DEF n, l, s, t, e
    <2>7. n + l + s + t + e <= 1 /\ (n + l + s + t + e = 0 => Excused)
        <3>1. CASE Resting
            BY <2>2, <2>3, <3>1 DEF Resting, Free, Idle
        <3>2. CASE Stepping
            BY <2>2, <2>3, <3>2 DEF Stepping, Free, Idle
        <3>3. CASE Advertising
            BY <2>2, <2>3, <2>6, <3>3 DEF Advertising, Alone, Idle
        <3>4. CASE Ending
            BY <2>2, <2>3, <3>4 DEF Ending, Alone, Idle
        <3>5. CASE Scanning
            BY <2>1, <2>2, <2>3, <3>5 DEF Scanning, Alone
        <3>6. CASE Linked
            BY <2>2, <2>3, <2>6, <3>6 DEF Linked, Idle
        <3>7. QED
            BY <2>1, <3>1, <3>2, <3>3, <3>4, <3>5, <3>6 DEF Shape
    <2>8. QED
        BY <2>4, <2>7
<1>2. QED
    BY <1>1, GapInvariant, PTL

-----------------------------------------------------------------------------
(* The board goes through its modes as DemoModes says.                     *)

(* The abstract state.                                                     *)
Mode  == IF is_scanning_phase THEN "scanning" ELSE "advertising"
Armed == Pending(calls, {"advertise", "scan"}) # {}
Radio == (IF legacy = "on" THEN {"advertising"} ELSE {}) \union (IF scanner = "on" THEN {"scanning"} ELSE {})

LEMMA ArmsWait ==
    ASSUME NEW m, NEW q \in Seq(Known(m))
    PROVE  Pending(q, {"advertise", "scan"}) # {} <=> Some(q, Arms)
<1>1. \A i \in DOMAIN q : q[i] \in Known(m)
    BY LenProperties, ElementOfSeq
<1>2. QED
    BY <1>1, Members DEF Pending, Some

LEMMA MovesSuffice ==
    ASSUME IInv, IInv', BoardInv, BoardInv', Moves
    PROVE  [Modes!Next]_Modes!vars
<1>1. (Armed <=> Some(calls, Arms)) /\ (Armed' <=> Some(calls', Arms))
    BY ArmsWait DEF BoardInv, KnownInv, Armed
<1>2. Armed \in BOOLEAN /\ Armed' \in BOOLEAN
    BY DEF Armed
<1>3. is_scanning_phase \in BOOLEAN /\ is_scanning_phase' \in BOOLEAN
    BY DEF IInv, TypeOK
<1>4. CASE Entered
    <2>1. Armed /\ Radio = {}
        BY <1>1, <1>4 DEF Entered, Radio
    <2>2. ~Armed' /\ Mode' = Mode
        BY <1>1, <1>4 DEF Entered, Mode
    <2>3. ~(legacy' = "on" /\ scanner' = "on")
        BY <1>4 DEF Entered
    <2>4. Radio' \in {{Mode}, {}}
        BY <1>4, <2>3 DEF Entered, Radio, Mode
    <2>5. Modes!Enter
        BY <1>2, <2>1, <2>2, <2>4 DEF Modes!Enter, Mode, Armed, Radio
    <2>6. QED
        BY <2>5 DEF Modes!Next
<1>5. CASE Jumped
    <2>1. ~Armed /\ Armed' /\ Radio' = {}
        BY <1>1, <1>5 DEF Jumped, Radio
    <2>2. Mode' \in {"advertising", "scanning"} \ {Mode}
        BY <1>3, <1>5 DEF Jumped, Mode
    <2>3. Modes!Jump
        BY <1>2, <2>1, <2>2 DEF Modes!Jump, Modes!Modes, Mode, Armed, Radio
    <2>4. QED
        BY <2>3 DEF Modes!Next
<1>6. CASE Quieted
    <2>1. Radio' = {} /\ Mode' = Mode
        BY <1>6 DEF Quieted, Same, Radio, Mode
    <2>2. Armed' = Armed
        BY <1>1, <1>2, <1>6 DEF Quieted, Same
    <2>3. CASE Radio = {}
        BY <2>1, <2>2, <2>3 DEF Modes!vars, Mode, Armed, Radio
    <2>4. CASE Radio # {}
        BY <2>1, <2>2, <2>4 DEF Modes!Next, Modes!Quiet, Mode, Armed, Radio
    <2>5. QED
        BY <2>3, <2>4
<1>7. CASE Kept
    <2>1. Radio' = Radio /\ Mode' = Mode
        BY <1>7 DEF Kept, Same, Radio, Mode
    <2>2. Armed' = Armed
        BY <1>1, <1>2, <1>7 DEF Kept, Same
    <2>3. QED
        BY <2>1, <2>2 DEF Modes!vars, Mode, Armed, Radio
<1>8. QED
    BY <1>4, <1>5, <1>6, <1>7 DEF Moves

(* "The demonstrations happens in sequence" (main.cpp:27), and each mode   *)
(* "jumps to the next mode" (main.cpp:28): until two ends of a mode race,  *)
(* the phase flag, the posted mode and the radio step as DemoModes says,   *)
(* so that no mode is entered twice, out of turn or while the other one    *)
(* holds the radio.                                                        *)
THEOREM ModesImplemented ==
    ASSUME ConnectStopsScan
    PROVE  Spec => ImplementsModes
<1>1. ASSUME Init
      PROVE  Modes!Init
    <2>1. Pending(calls, {"advertise", "scan"}) # {}
        BY <1>1 DEF Init, Call, Pending
    <2>2. QED
        BY <1>1, <2>1 DEF Init, Modes!Init
<1>2. ASSUME GapInv, GapInv', [Next]_vars
      PROVE  [Modes!Next \/ races' # {}]_(Modes!vars)
    <2>1. CASE races' # {}
        BY <2>1
    <2>2. CASE races' = {}
        <3>1. races = {} /\ BoardInv /\ BoardInv'
            BY <1>2, <2>2, RacesKept DEF GapInv
        <3>2. Moves
            BY <1>2, <2>2, <3>1, NextBoard DEF GapInv
        <3>3. QED
            BY <1>2, <3>1, <3>2, MovesSuffice DEF GapInv
    <2>3. QED
        BY <2>1, <2>2
<1>3. Spec => []GapInv
    BY GapInvariant
<1>4. QED
    BY <1>1, <1>2, <1>3, PTL DEF Spec, ImplementsModes
=============================================================================
