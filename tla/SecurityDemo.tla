---------------------------- MODULE SecurityDemo ----------------------------
(***************************************************************************)
(* BLE_SecurityAndPrivacy, run by two boards.  main alternates between an  *)
(* object of SecurityPeripheral and one of SecurityCentral; break_dispatch *)
(* ends an object and makes the next one.  The boards connect, pair and    *)
(* disconnect; an object that has bonded stays, and the boards connect     *)
(* again and again.  The event queue outlives the objects, and so does the *)
(* stack's security database.  Radio, links, pairing and the order in      *)
(* which the air lets them happen are external.                            *)
(***************************************************************************)
EXTENDS EventQueue, FiniteSets

CONSTANTS
    Boards,       \* the two boards
    SharedSlot,   \* the build lays the objects of both roles at one stack address
    Failures,     \* what may fail, of FailureKinds
    MaxFailures,  \* bound: failures in one behaviour
    MaxReports    \* bound: reports waiting in a board's queue

(* A call refused by the stack, a connection not established, a pairing    *)
(* that fails, a link lost, a scan timeout raised behind a report, a board *)
(* that is reset.                                                          *)
FailureKinds == {"refusal", "connection", "pairing", "link", "late", "reset"}

ASSUME BoardsAssumption == (\E a, b \in Boards : a # b /\ Boards = {a, b}) /\ "none" \notin Boards
ASSUME BoundsAssumption ==
    /\ MaxFailures \in Nat /\ MaxReports \in Nat \ {0}
    /\ SharedSlot \in BOOLEAN /\ Failures \subseteq FailureKinds

(* Where the addresses differ, a call that outlives a bonded object would  *)
(* run on its dead memory: without late timeouts none does.                *)
ASSUME SlotAssumption == SharedSlot \/ "late" \notin Failures

VARIABLES
    calls,         \* a board's event queue
    role,          \* the class of the object main runs: peripheral or central
    bonded,        \* its _bonded
    handle,        \* its _handle is that of a connection
    is_connecting, \* _is_connecting of a central
    handler,       \* the object that registered with the security manager: its class, or none
    breaking,      \* run is to return: break_dispatch was called, or there is no object yet
    batch,         \* calls the loop may still run before it breaks
    scanner,       \* the scanner: off, timed or endless
    adv,           \* advertising: off, timed or endless
    filters,       \* the roles in which the stack lets only known devices through
    initiating,    \* the stack is establishing the connection of connect()
    keys,          \* the security database holds the keys of the peer
    link,          \* the board that is master of the link, or NoLink
    pairing,       \* pairing on the link: none, requested, asked or accepted
    failures       \* history: how many failures there were, of which kinds

objectVars == <<role, bonded, handle, is_connecting, handler, breaking>>
radioVars  == <<scanner, adv, filters, initiating>>
linkVars   == <<keys, link, pairing>>
vars == <<calls, batch, objectVars, radioVars, linkVars, failures>>

NoLink == "none"
Delay == 3

Peer(b) == CHOOSE other \in Boards : other # b
OtherRole(r) == IF r = "peripheral" THEN "central" ELSE "peripheral"

Fails(kind) ==
    /\ kind \in Failures /\ failures.count < MaxFailures
    /\ failures' = [count |-> failures.count + 1, kinds |-> failures.kinds \union {kind}]

(* The queue of b becomes q.                                               *)
Leaves(b, q) == calls' = [calls EXCEPT ![b] = q]

(* The delayed disconnection posted by an object that has bonded or not.   *)
(* History: whether the link it is meant for is up (own) or gone (old).    *)
Disconnect(cb, known) ==
    Call(cb, IF ~known THEN "failed" ELSE IF link = NoLink THEN "old" ELSE "own", Delay)
Disconnects == {"disconnect", "disconnect_current"}
Aged(q) ==
    [i \in DOMAIN q |-> IF q[i].cb \in Disconnects /\ q[i].arg = "own" THEN [q[i] EXCEPT !.arg = "old"] ELSE q[i]]

(* The link goes: both boards will handle the event.                       *)
LinkEnds(queues) ==
    /\ link' = NoLink /\ pairing' = "none"
    /\ calls' = [b \in Boards |-> post(Aged(queues[b]), Call("onDisconnectionComplete", 0, 0))]
    /\ UNCHANGED keys

-----------------------------------------------------------------------------
(* The roles' start, for an object that has bonded (known) or not: first   *)
(* the privacy configuration of its role, then the activity.  Unbonded, it *)
(* accepts anyone: the resolution strategies that pair with an unresolved  *)
(* address or do not resolve it let every board through.                   *)

Filter(b, r, known) == filters' = [filters EXCEPT ![b] = IF known THEN @ \union {r} ELSE @ \ {r}]

(* The parameters of an active set cannot be changed.                      *)
start_advertising(b, known) ==
    /\ Filter(b, "peripheral", known)
    /\ \/ /\ adv[b] = "off" /\ UNCHANGED failures
          /\ adv' = [adv EXCEPT ![b] = IF known THEN "endless" ELSE "timed"]
       \/ /\ \/ adv[b] # "off" /\ UNCHANGED failures
             \/ Fails("refusal")
          /\ UNCHANGED adv
    /\ UNCHANGED scanner

start_scanning(b, known) ==
    /\ Filter(b, "central", known)
    /\ \/ /\ scanner' = [scanner EXCEPT ![b] = IF known THEN "endless" ELSE "timed"]
          /\ UNCHANGED failures
       \/ Fails("refusal") /\ UNCHANGED scanner
    /\ UNCHANGED adv

start(b, r, known) ==
    IF r = "peripheral" THEN start_advertising(b, known) ELSE start_scanning(b, known)

(* run: a board's first object initialises the stack, later ones start at   *)
(* once.  Where ble.init is refused run returns, and main makes the next   *)
(* object.                                                                 *)
run(b, q, r) ==
    IF handler[b] = "none"
    THEN /\ \/ /\ Leaves(b, post(q, Call("on_init_complete", 0, 0)))
               /\ breaking' = [breaking EXCEPT ![b] = FALSE] /\ UNCHANGED failures
            \/ Fails("refusal") /\ Leaves(b, q) /\ UNCHANGED breaking
         /\ UNCHANGED <<scanner, adv, filters>>
    ELSE /\ Leaves(b, q) /\ breaking' = [breaking EXCEPT ![b] = FALSE]
         /\ start(b, r, FALSE)

(* on_init_complete registers the object with the security manager, which  *)
(* no later object does; enabling privacy is answered by onPrivacyEnabled. *)
on_init_complete(b, q) ==
    /\ \/ /\ handler' = [handler EXCEPT ![b] = role[b]]
          /\ Leaves(b, post(q, Call("start", 0, 0))) /\ UNCHANGED failures
       \/ /\ Fails("refusal") /\ Leaves(b, q)
          /\ handler' \in {handler, [handler EXCEPT ![b] = role[b]]}
    /\ UNCHANGED <<role, bonded, handle, is_connecting, breaking, radioVars, linkVars>>

(* Seeded fault: a central does not forget its attempt (main.cpp:428).     *)
startAgain_StillConnecting(b, q) ==
    /\ Leaves(b, q)
    /\ start(b, role[b], bonded[b])
    /\ UNCHANGED <<role, bonded, handle, is_connecting, handler, breaking, initiating, linkVars>>

(* onPrivacyEnabled, and the call posted by onDisconnectionComplete.       *)
startAgain(b, q) ==
    /\ Leaves(b, q)
    /\ start(b, role[b], bonded[b])
    /\ is_connecting' = [is_connecting EXCEPT ![b] = @ /\ role[b] = "peripheral"]
    /\ UNCHANGED <<role, bonded, handle, handler, breaking, initiating, linkVars>>

(* Seeded fault: the next object takes the flag over.                      *)
SwitchRole_KeepsFlag(b) ==
    /\ breaking[b]
    /\ role' = [role EXCEPT ![b] = OtherRole(@)]
    /\ bonded' = [bonded EXCEPT ![b] = FALSE]
    /\ handle' = [handle EXCEPT ![b] = FALSE]
    /\ batch' = [batch EXCEPT ![b] = 0]
    /\ run(b, calls[b], role'[b])
    /\ UNCHANGED <<is_connecting, handler, initiating, linkVars>>

(* run returned: the object is destroyed and main runs one of the other    *)
(* class.  What the old one posted stays in the queue.                     *)
SwitchRole(b) ==
    /\ breaking[b]
    /\ role' = [role EXCEPT ![b] = OtherRole(@)]
    /\ bonded' = [bonded EXCEPT ![b] = FALSE]
    /\ handle' = [handle EXCEPT ![b] = FALSE]
    /\ is_connecting' = [is_connecting EXCEPT ![b] = FALSE]
    /\ batch' = [batch EXCEPT ![b] = 0]
    /\ run(b, calls[b], role'[b])
    /\ UNCHANGED <<handler, initiating, linkVars>>

(* The lambda of pairingResult names the handle of its connection; that of *)
(* onConnectionComplete reads _handle when it runs.  One link at a time:   *)
(* its handle is the same each time.                                       *)
disconnect(b, q, valid) ==
    /\ IF valid /\ link # NoLink
       THEN LinkEnds([calls EXCEPT ![b] = q])
       ELSE Leaves(b, q) /\ UNCHANGED linkVars
    /\ UNCHANGED <<objectVars, radioVars, failures>>

-----------------------------------------------------------------------------
(* The handlers.  q is the queue of b without the running call.            *)

onAdvertisingReport(b, q) ==
    /\ Leaves(b, q)
    /\ IF role[b] = "peripheral" \/ is_connecting[b]
       THEN UNCHANGED <<is_connecting, scanner, initiating, failures>>
       ELSE \/ Fails("refusal") /\ UNCHANGED <<is_connecting, scanner, initiating>>
            \/ /\ scanner' = [scanner EXCEPT ![b] = "off"]
               /\ \/ /\ ~initiating[b] /\ UNCHANGED failures
                     /\ initiating' = [initiating EXCEPT ![b] = TRUE]
                     /\ is_connecting' = [is_connecting EXCEPT ![b] = TRUE]
                  \/ /\ \/ initiating[b] /\ UNCHANGED failures
                        \/ Fails("refusal")
                     /\ UNCHANGED <<is_connecting, initiating>>
    /\ UNCHANGED <<role, bonded, handle, handler, breaking, adv, filters, linkVars>>

break_dispatch(b) == breaking' = [breaking EXCEPT ![b] = TRUE]

onScanTimeout(b, q) ==
    /\ Leaves(b, q)
    /\ break_dispatch(b)
    /\ UNCHANGED <<role, bonded, handle, is_connecting, handler, radioVars, linkVars, failures>>

onAdvertisingEnd(b, q, connected) ==
    /\ Leaves(b, q)
    /\ IF connected THEN UNCHANGED breaking ELSE break_dispatch(b)
    /\ UNCHANGED <<role, bonded, handle, is_connecting, handler, radioVars, linkVars, failures>>

(* setLinkSecurity: boards that both hold the keys encrypt with them, which *)
(* linkEncryptionResult prints; else they pair, unless keys that only one  *)
(* holds make the encryption fail.                                         *)
setLinkSecurity ==
    \/ /\ \E b \in Boards : ~keys[b]
       /\ pairing' = IF pairing = "none" THEN "requested" ELSE pairing
    \/ (\E b \in Boards : keys[b]) /\ UNCHANGED pairing

(* onConnectionComplete does not look at the status: a failed connection   *)
(* is secured or disconnected like any other, to no effect.                *)
onConnectionComplete(b, q, success) ==
    /\ handle' = [handle EXCEPT ![b] = success]
    /\ \/ /\ bonded[b]
          /\ Leaves(b, post(q, Disconnect("disconnect_current", TRUE)))
          /\ UNCHANGED <<linkVars, failures>>
       \/ /\ ~bonded[b] /\ success /\ link # NoLink
          /\ \/ setLinkSecurity /\ Leaves(b, q) /\ UNCHANGED <<keys, link, failures>>
             \/ Fails("refusal") /\ LinkEnds([calls EXCEPT ![b] = q])
       \/ /\ ~bonded[b] /\ (~success \/ link = NoLink)
          /\ Leaves(b, q) /\ UNCHANGED <<linkVars, failures>>
    /\ UNCHANGED <<role, bonded, is_connecting, handler, breaking, radioVars>>

pairingRequest(b, q) ==
    /\ Leaves(b, q)
    /\ pairing' = IF pairing = "asked" THEN "accepted" ELSE pairing
    /\ UNCHANGED <<objectVars, radioVars, keys, link, failures>>

(* The security manager calls the object that registered, wherever it was: *)
(* the running object has its address if it is of the same class, or if    *)
(* the build shares the stack slot.                                        *)
reached(b) == SharedSlot \/ handler[b] = role[b]

(* Seeded fault: a failed pairing is only printed.                         *)
pairingResult_SuccessOnly(b, q, success) ==
    /\ bonded' = [bonded EXCEPT ![b] = @ \/ (success /\ reached(b))]
    /\ Leaves(b, IF success THEN post(q, Disconnect("disconnect", bonded'[b])) ELSE q)
    /\ UNCHANGED <<role, handle, is_connecting, handler, breaking, radioVars, linkVars, failures>>

pairingResult(b, q, success) ==
    /\ bonded' = [bonded EXCEPT ![b] = @ \/ (success /\ reached(b))]
    /\ Leaves(b, post(q, Disconnect("disconnect", bonded'[b])))
    /\ UNCHANGED <<role, handle, is_connecting, handler, breaking, radioVars, linkVars, failures>>

(* What follows a disconnection: the next connection, or the next role.    *)
(* Seeded faults: nothing follows a failure, the next connection is not    *)
(* delayed, a bonded object goes too.                                      *)
afterDisconnection_Bonded(b, q) ==
    /\ Leaves(b, IF bonded[b] THEN post(q, Call("start", 0, Delay)) ELSE q)
    /\ UNCHANGED breaking

afterDisconnection_AtOnce(b, q) ==
    IF bonded[b]
    THEN Leaves(b, post(q, Call("start", 0, 0))) /\ UNCHANGED breaking
    ELSE Leaves(b, q) /\ break_dispatch(b)

afterDisconnection_Breaks(b, q) == Leaves(b, q) /\ break_dispatch(b)

afterDisconnection(b, q) ==
    IF bonded[b]
    THEN Leaves(b, post(q, Call("start", 0, Delay))) /\ UNCHANGED breaking
    ELSE Leaves(b, q) /\ break_dispatch(b)

onDisconnectionComplete(b, q) ==
    /\ afterDisconnection(b, q)
    /\ UNCHANGED <<role, bonded, handle, is_connecting, handler, radioVars, linkVars, failures>>

(* The queue of b runs the call at p; a loop that was told to break still  *)
(* runs calls that were due with that one.                                 *)
Dispatch(b, p) ==
    LET q == RemoveAt(calls[b], p)
        c == calls[b][p]
    IN  /\ Due(calls[b], p) /\ (breaking[b] => p <= batch[b])
        /\ \/ c.cb = "on_init_complete"        /\ on_init_complete(b, q)
           \/ c.cb = "start"                   /\ startAgain(b, q)
           \/ c.cb = "disconnect"              /\ disconnect(b, q, TRUE)
           \/ c.cb = "disconnect_current"      /\ disconnect(b, q, handle[b])
           \/ c.cb = "onAdvertisingReport"     /\ onAdvertisingReport(b, q)
           \/ c.cb = "onAdvertisingEnd"        /\ onAdvertisingEnd(b, q, c.arg)
           \/ c.cb = "onScanTimeout"           /\ onScanTimeout(b, q)
           \/ c.cb = "onConnectionComplete"    /\ onConnectionComplete(b, q, c.arg)
           \/ c.cb = "pairingRequest"          /\ pairingRequest(b, q)
           \/ c.cb = "pairingResult"           /\ pairingResult(b, q, c.arg)
           \/ c.cb = "onDisconnectionComplete" /\ onDisconnectionComplete(b, q)
        /\ batch' = [batch EXCEPT ![b] = IF breaking[b] THEN @ - 1
                                         ELSE IF breaking'[b] THEN Len(calls[b]) - 1 ELSE 0]

-----------------------------------------------------------------------------
(* The stacks and the air.                                                 *)

Signal(b, cb, arg) == Leaves(b, post(calls[b], Call(cb, arg, 0)))

AdvertisingExpires(b) ==
    /\ adv[b] = "timed"
    /\ adv' = [adv EXCEPT ![b] = "off"]
    /\ Signal(b, "onAdvertisingEnd", FALSE)
    /\ UNCHANGED <<batch, objectVars, scanner, filters, initiating, linkVars, failures>>

(* A scan that times out with a report still waiting: the demo will begin  *)
(* to connect before it handles the timeout.                               *)
ScanExpires(b) ==
    /\ scanner[b] = "timed"
    /\ IF Pending(calls[b], {"onAdvertisingReport"}) = {} THEN UNCHANGED failures ELSE Fails("late")
    /\ scanner' = [scanner EXCEPT ![b] = "off"]
    /\ Signal(b, "onScanTimeout", 0)
    /\ UNCHANGED <<batch, objectVars, adv, filters, initiating, linkVars>>

(* The address of a device is resolved with the keys that both boards      *)
(* store: a board whose database is gone is a stranger to the other one.   *)
Known == \A b \in Boards : keys[b]
Lets(b, r) == r \in filters[b] => Known

Report(b) ==
    /\ scanner[b] # "off" /\ adv[Peer(b)] # "off" /\ Lets(b, "central")
    /\ Cardinality(Pending(calls[b], {"onAdvertisingReport"})) < MaxReports
    /\ Signal(b, "onAdvertisingReport", 0)
    /\ UNCHANGED <<batch, objectVars, radioVars, linkVars, failures>>

(* The connection ends the peer's advertising: both boards are told.       *)
Established(b) ==
    /\ initiating[b] /\ adv[Peer(b)] # "off" /\ Lets(Peer(b), "peripheral") /\ link = NoLink
    /\ initiating' = [initiating EXCEPT ![b] = FALSE]
    /\ adv' = [adv EXCEPT ![Peer(b)] = "off"]
    /\ link' = b
    /\ LET event == Call("onConnectionComplete", TRUE, 0)
       IN  calls' = [calls EXCEPT ![b] = post(@, event),
                                  ![Peer(b)] = post(post(@, event), Call("onAdvertisingEnd", TRUE, 0))]
    /\ UNCHANGED <<batch, objectVars, scanner, filters, keys, pairing, failures>>

(* A peer that only accepts known devices refuses the connection: the      *)
(* board is told of a link and at once of its end, the peer of nothing.    *)
Rejected(b) ==
    /\ initiating[b] /\ adv[Peer(b)] # "off" /\ ~Lets(Peer(b), "peripheral") /\ link = NoLink
    /\ initiating' = [initiating EXCEPT ![b] = FALSE]
    /\ Leaves(b, post(post(calls[b], Call("onConnectionComplete", TRUE, 0)),
                      Call("onDisconnectionComplete", 0, 0)))
    /\ UNCHANGED <<batch, objectVars, scanner, adv, filters, linkVars, failures>>

NotEstablished(b) ==
    /\ initiating[b] /\ Fails("connection")
    /\ initiating' = [initiating EXCEPT ![b] = FALSE]
    /\ Signal(b, "onConnectionComplete", FALSE)
    /\ UNCHANGED <<batch, objectVars, scanner, adv, filters, linkVars>>

(* The master pairs; the application of the other board is asked.          *)
PairingAsked ==
    /\ pairing = "requested"
    /\ pairing' = "asked"
    /\ Signal(Peer(link), "pairingRequest", 0)
    /\ UNCHANGED <<batch, objectVars, radioVars, keys, link, failures>>

PairingEnds ==
    /\ \E success \in BOOLEAN :
          /\ IF success THEN pairing = "accepted" /\ UNCHANGED failures
                        ELSE pairing # "none" /\ Fails("pairing")
          /\ keys' = IF success THEN [b \in Boards |-> TRUE] ELSE keys
          /\ calls' = [b \in Boards |-> post(calls[b], Call("pairingResult", success, 0))]
    /\ pairing' = "none"
    /\ UNCHANGED <<batch, objectVars, radioVars, link>>

LinkLost ==
    /\ link # NoLink /\ Fails("link")
    /\ LinkEnds(calls)
    /\ UNCHANGED <<batch, objectVars, radioVars>>

(* b is reset: everything in memory is lost, but not always the database   *)
(* (preserveBondingStateOnReset), and main begins.  A link times out at    *)
(* the other board.                                                        *)
Reset(b) ==
    /\ Fails("reset")
    /\ role' = [role EXCEPT ![b] = "central"]
    /\ bonded' = [bonded EXCEPT ![b] = FALSE]
    /\ handle' = [handle EXCEPT ![b] = FALSE]
    /\ is_connecting' = [is_connecting EXCEPT ![b] = FALSE]
    /\ handler' = [handler EXCEPT ![b] = "none"]
    /\ breaking' = [breaking EXCEPT ![b] = TRUE]
    /\ batch' = [batch EXCEPT ![b] = 0]
    /\ scanner' = [scanner EXCEPT ![b] = "off"]
    /\ adv' = [adv EXCEPT ![b] = "off"]
    /\ filters' = [filters EXCEPT ![b] = {}]
    /\ initiating' = [initiating EXCEPT ![b] = FALSE]
    /\ keys' \in {keys, [keys EXCEPT ![b] = FALSE]}
    /\ link' = NoLink /\ pairing' = "none"
    /\ calls' = [calls EXCEPT
          ![b] = <<>>,
          ![Peer(b)] = IF link = NoLink THEN @ ELSE post(Aged(@), Call("onDisconnectionComplete", 0, 0))]

-----------------------------------------------------------------------------
(* main is about to run its first object, a peripheral, as it does when a  *)
(* central has ended.                                                      *)
Init ==
    /\ calls = [b \in Boards |-> <<>>]
    /\ role = [b \in Boards |-> "central"]
    /\ bonded = [b \in Boards |-> FALSE]
    /\ handle = [b \in Boards |-> FALSE]
    /\ is_connecting = [b \in Boards |-> FALSE]
    /\ handler = [b \in Boards |-> "none"]
    /\ breaking = [b \in Boards |-> TRUE]
    /\ batch = [b \in Boards |-> 0]
    /\ scanner = [b \in Boards |-> "off"]
    /\ adv = [b \in Boards |-> "off"]
    /\ filters = [b \in Boards |-> {}]
    /\ initiating = [b \in Boards |-> FALSE]
    /\ keys = [b \in Boards |-> FALSE]
    /\ link = NoLink /\ pairing = "none"
    /\ failures = [count |-> 0, kinds |-> {}]

Next ==
    \/ \E b \in Boards :
          \/ \E p \in DOMAIN calls[b] : Dispatch(b, p)
          \/ SwitchRole(b)
          \/ AdvertisingExpires(b) \/ ScanExpires(b) \/ Report(b)
          \/ Established(b) \/ Rejected(b) \/ NotEstablished(b)
          \/ Reset(b)
    \/ PairingAsked \/ PairingEnds
    \/ LinkLost

Spec == Init /\ [][Next]_vars

(* A queue runs its oldest call and its loop breaks when told to, timed    *)
(* activities end, pairing is answered.  A scanner that scans again and    *)
(* again during a peer's advertising hears it, and connects: the boards    *)
(* draw the time they advertise at random.                                 *)
FairSpec ==
    /\ Spec
    /\ \A b \in Boards :
          /\ WF_vars(calls[b] # <<>> /\ Dispatch(b, 1)) /\ WF_vars(SwitchRole(b))
          /\ WF_vars(AdvertisingExpires(b)) /\ WF_vars(ScanExpires(b))
          /\ SF_vars(Report(b)) /\ SF_vars(Established(b) \/ Rejected(b))
    /\ WF_vars(PairingAsked) /\ WF_vars(PairingEnds)

-----------------------------------------------------------------------------
(* The variables keep their types; only a central is connecting.           *)
TypeOK ==
    /\ {bonded, handle, is_connecting, breaking, initiating, keys} \subseteq [Boards -> BOOLEAN]
    /\ role \in [Boards -> {"peripheral", "central"}]
    /\ handler \in [Boards -> {"none", "peripheral", "central"}]
    /\ {scanner, adv} \subseteq [Boards -> {"off", "timed", "endless"}]
    /\ filters \in [Boards -> SUBSET {"peripheral", "central"}]
    /\ link \in Boards \union {NoLink}
    /\ pairing \in {"none", "requested", "asked", "accepted"}
    /\ \A b \in Boards : batch[b] \in 0..Len(calls[b]) /\ (is_connecting[b] => role[b] = "central")
    /\ failures \in [count : 0..MaxFailures, kinds : SUBSET Failures]

Had(kinds) == failures.kinds \cap kinds # {}

(* A link does not stay up for ever: it is being paired, or one of the     *)
(* boards will disconnect it (main.cpp:197, 240).  The exceptions are      *)
(* boards that hold stored keys their objects know nothing of, which only  *)
(* encrypt, get no pairingResult and never disconnect; and a connection    *)
(* attempt left by a late timeout: its failure, reported on the next link, *)
(* overwrites the _handle that the delayed disconnection will read.        *)
LinksAreClosed ==
    link # NoLink =>
        \/ pairing # "none"
        \/ \E b \in Boards : Pending(calls[b], Disconnects \union {"onConnectionComplete", "pairingResult"}) # {}
        \/ (\A b \in Boards : ~bonded[b]) /\ (\E b \in Boards : keys[b])
        \/ {"connection", "late"} \subseteq failures.kinds

(* The demo goes on: each board has an activity, a connection attempt, a   *)
(* link or a call that will carry it on.  Known exceptions: a refused call *)
(* (main.cpp:490) and a connection that failed (main.cpp:236).             *)
GoesOn ==
    Had({"refusal", "connection"}) \/
    \A b \in Boards :
        \/ scanner[b] # "off" \/ adv[b] # "off" \/ initiating[b] \/ breaking[b]
        \/ calls[b] # <<>> \/ link # NoLink

(* The delayed disconnection of an object that has bonded never closes a   *)
(* later link, which has the handle of the one it was posted for           *)
(* (main.cpp:200, 243): its start comes after it.  The disconnection posted *)
(* after a failed pairing may: nothing delays the next role.               *)
OwnDisconnection ==
    [][\A b \in Boards : \A p \in DOMAIN calls[b] :
          calls[b][p].cb \in Disconnects /\ calls[b][p].arg = "old" /\ Dispatch(b, p)
             => link' = link \/ Had({"late"})]_vars

(* "from now on we will use the second start function and stay in the same *)
(* role as peripheral or central" (main.cpp:263): a board that has paired  *)
(* keeps its role, unless it is reset or a scan timeout comes late.        *)
KeepsRole ==
    [][\A b \in Boards : keys[b] /\ role'[b] # role[b] => Had({"late", "reset"})']_vars

(* "Subsequent connections" (README.md:11): as long as one board remains   *)
(* bonded and neither has lost the keys, the boards connect and disconnect *)
(* again and again, whichever filters they set and in whichever role the   *)
(* other one runs: a reset may have made it forget all but its keys.       *)
(* A refused call or a failed connection may stop a board, and late        *)
(* timeouts may leave both of them advertising.                            *)
MeetAgain ==
    <>[]((\E b \in Boards : bonded[b]) /\ Known)
      => \/ []<>(link # NoLink) /\ []<>(link = NoLink)
         \/ <>Had({"refusal", "connection", "late"})
=============================================================================
