---------------------------- MODULE PeriodicDemo ----------------------------
(***************************************************************************)
(* BLE_PeriodicAdvertising, run by two boards.  Each one alternates        *)
(* between scanning and connectable advertising until a connection         *)
(* establishes the roles: the scanner then disconnects, and synchronises   *)
(* with the periodic advertising of the other one.  Each board has its own *)
(* event queue; the boards only meet on the air, which is external like    *)
(* the stacks' scanners, advertising sets, links and syncs.                *)
(***************************************************************************)
EXTENDS EventQueue, FiniteSets

CONSTANTS
    Boards,            \* the two boards
    ConnectStopsScan,  \* the controller stops scanning to initiate a connection
    Failures,          \* what may fail, of FailureKinds
    MaxFailures,       \* bound: failures in one behaviour
    MaxReports         \* bound: reports waiting in a board's queue

(* A call refused by the stack, a connection not established, a link lost, *)
(* a sync not established, a sync lost.                                    *)
FailureKinds == {"refusal", "connection", "link", "sync", "loss"}

ASSUME BoardsAssumption == \E a, b \in Boards : a # b /\ Boards = {a, b}
ASSUME BoundsAssumption == MaxFailures \in Nat /\ MaxReports \in Nat \ {0} 
                            /\ ConnectStopsScan \in BOOLEAN /\ Failures \subseteq FailureKinds

VARIABLES
    calls,                    \* a board's event queue
    is_scanner,               \* _is_scanner
    is_connecting_or_syncing, \* _is_connecting_or_syncing
    role_established,         \* _role_established
    sync_handle,              \* _sync_handle is a sync
    scanner,                  \* the scanner: off, timed or endless
    adv,                      \* the advertising set (none until _adv_handle is valid)
    initiating,               \* the stack is establishing the connection of connect()
    sync,                     \* the stack's sync: none, creating or up
    linked,                   \* the boards are connected
    failures                  \* history: how many failures there were, of which kinds

demoVars  == <<is_scanner, is_connecting_or_syncing, role_established, sync_handle>>
radioVars == <<scanner, adv, initiating, sync, linked>>
vars == <<calls, demoVars, radioVars, failures>>

Peer(b) == CHOOSE other \in Boards : other # b

Fails(kind) ==
    /\ kind \in Failures /\ failures.count < MaxFailures
    /\ failures' = [count |-> failures.count + 1, kinds |-> failures.kinds \union {kind}]

(* The queue of b becomes q.                                               *)
Leaves(b, q) == calls' = [calls EXCEPT ![b] = q]

-----------------------------------------------------------------------------
(* The calls the demo posts.  q is the queue of b without the running call. *)

(* Seeded fault: a board without a role scans for periodic advertising.    *)
Mode_ScansPeriodic(established, scans) ==
    IF scans THEN "scan_periodic"
             ELSE IF established THEN "advertise_periodic" ELSE "advertise"

(* The mode start_role posts.                                              *)
Mode(established, scans) ==
    IF established THEN (IF scans THEN "scan_periodic" ELSE "advertise_periodic")
                   ELSE (IF scans THEN "scan" ELSE "advertise")

(* Seeded fault: the roles are cycled even once they are established.      *)
start_role_Cycles(b, q) ==
    /\ is_scanner' = [is_scanner EXCEPT ![b] = ~@]
    /\ Leaves(b, post(q, Call(Mode(role_established[b], is_scanner'[b]), 0, 0)))

(* start_role: cycle the roles until they are established.                 *)
start_role(b, q) ==
    /\ is_scanner' = IF role_established[b] THEN is_scanner ELSE [is_scanner EXCEPT ![b] = ~@]
    /\ Leaves(b, post(q, Call(Mode(role_established[b], is_scanner'[b]), 0, 0)))

(* advertise: the set is created the first time only.  A failure returns,  *)
(* maybe after the set was created.                                        *)
advertise(b, q) ==
    /\ \/ /\ adv[b] \in {"none", "off"}
          /\ adv' = [adv EXCEPT ![b] = "connectable"]
          /\ Leaves(b, post(q, Call("onAdvertisingStart", 0, 0)))
          /\ UNCHANGED failures
       \/ /\ adv[b] \notin {"none", "off"}
          /\ Leaves(b, q)
          /\ UNCHANGED <<adv, failures>>
       \/ /\ Fails("refusal")
          /\ Leaves(b, q)
          /\ adv' \in {adv, [adv EXCEPT ![b] = IF @ = "none" THEN "off" ELSE @]}
    /\ UNCHANGED <<demoVars, scanner, initiating, sync, linked>>

(* advertise_periodic: the parameters of an active set cannot be changed.  *)
advertise_periodic(b, q) ==
    /\ \/ /\ adv[b] = "off"
          /\ adv' = [adv EXCEPT ![b] = "announcing"]
          /\ Leaves(b, post(q, Call("onAdvertisingStart", 0, 0)))
          /\ UNCHANGED failures
       \/ /\ \/ adv[b] # "off" /\ UNCHANGED failures
             \/ Fails("refusal")
          /\ Leaves(b, q)
          /\ UNCHANGED adv
    /\ UNCHANGED <<demoVars, scanner, initiating, sync, linked>>

(* scan and scan_periodic, which differ in how long they scan.             *)
startScan(b, q, how) ==
    /\ is_connecting_or_syncing' = [is_connecting_or_syncing EXCEPT ![b] = FALSE]
    /\ Leaves(b, q)
    /\ \/ scanner' = [scanner EXCEPT ![b] = how] /\ UNCHANGED failures
       \/ Fails("refusal") /\ UNCHANGED scanner
    /\ UNCHANGED <<is_scanner, role_established, sync_handle, adv, initiating, sync, linked>>

scan(b, q)          == startScan(b, q, "timed")
scan_periodic(b, q) == startScan(b, q, "endless")

(* The disconnection onConnectionComplete posted, an error without a link. *)
disconnect(b, q) ==
    /\ linked' = FALSE
    /\ IF linked
       THEN calls' = [c \in Boards |-> post(IF c = b THEN q ELSE calls[c],
                                            Call("onDisconnectionComplete", 0, 0))]
       ELSE Leaves(b, q)
    /\ UNCHANGED <<demoVars, scanner, adv, initiating, sync, failures>>

-----------------------------------------------------------------------------
(* The handlers of the stack's events.                                     *)

(* onAdvertisingStart: the periodic train needs an active set.             *)
onAdvertisingStart(b, q) ==
    /\ Leaves(b, q)
    /\ \/ /\ adv' = IF role_established[b] /\ adv[b] = "announcing"
                    THEN [adv EXCEPT ![b] = "periodic"] ELSE adv
          /\ UNCHANGED failures
       \/ role_established[b] /\ Fails("refusal") /\ UNCHANGED adv
    /\ UNCHANGED <<demoVars, scanner, initiating, sync, linked>>

(* Seeded fault: the attempt is not remembered.                            *)
Attempting_Forgotten(b) == UNCHANGED is_connecting_or_syncing

(* Reports already waiting in the queue must be ignored from now on.       *)
Attempting(b) == is_connecting_or_syncing' = [is_connecting_or_syncing EXCEPT ![b] = TRUE]

(* The report is of the peer, by its name: connect, or synchronise with    *)
(* it once the roles are established and if it advertises periodically.    *)
onAdvertisingReport(b, q, periodic) ==
    /\ Leaves(b, q)
    /\ IF is_connecting_or_syncing[b] \/ (role_established[b] /\ ~periodic)
       THEN UNCHANGED <<is_connecting_or_syncing, radioVars, failures>>
       ELSE \/ /\ role_established[b] /\ sync[b] = "none"
               /\ sync' = [sync EXCEPT ![b] = "creating"]
               /\ Attempting(b)
               /\ UNCHANGED <<scanner, adv, initiating, linked, failures>>
            \/ /\ ~role_established[b] /\ ~initiating[b]
               /\ initiating' = [initiating EXCEPT ![b] = TRUE]
               /\ Attempting(b)
               /\ scanner' = IF ConnectStopsScan THEN [scanner EXCEPT ![b] = "off"] ELSE scanner
               /\ UNCHANGED <<adv, sync, linked, failures>>
            \/ /\ \/ Fails("refusal")
                  \/ initiating[b] /\ UNCHANGED failures
                  \/ sync[b] # "none" /\ UNCHANGED failures
               /\ UNCHANGED <<is_connecting_or_syncing, radioVars>>
    /\ UNCHANGED <<is_scanner, role_established, sync_handle>>

onAdvertisingEnd(b, q, connected) ==
    /\ IF connected THEN Leaves(b, q) /\ UNCHANGED is_scanner ELSE start_role(b, q)
    /\ UNCHANGED <<is_connecting_or_syncing, role_established, sync_handle, radioVars, failures>>

(* Seeded fault: the mode is switched during a connection attempt.         *)
onScanTimeout_Always(b, q) ==
    /\ start_role(b, q)
    /\ UNCHANGED <<is_connecting_or_syncing, role_established, sync_handle, radioVars, failures>>

onScanTimeout(b, q) ==
    /\ IF is_connecting_or_syncing[b] THEN Leaves(b, q) /\ UNCHANGED is_scanner ELSE start_role(b, q)
    /\ UNCHANGED <<is_connecting_or_syncing, role_established, sync_handle, radioVars, failures>>

(* onConnectionComplete: the role is the one the board has now, and the    *)
(* scanner will disconnect.                                                *)
onConnectionComplete(b, q, success) ==
    /\ IF success
       THEN /\ role_established' = [role_established EXCEPT ![b] = TRUE]
            /\ Leaves(b, IF is_scanner[b] THEN post(q, Call("disconnect", 0, 1)) ELSE q)
            /\ UNCHANGED is_scanner
       ELSE start_role(b, q) /\ UNCHANGED role_established
    /\ UNCHANGED <<is_connecting_or_syncing, sync_handle, radioVars, failures>>

onDisconnectionComplete(b, q) ==
    /\ start_role(b, q)
    /\ UNCHANGED <<is_connecting_or_syncing, role_established, sync_handle, radioVars, failures>>

(* onPeriodicAdvertisingSyncEstablished: a failure is only printed.        *)
onSyncEstablished(b, q, success) ==
    /\ Leaves(b, q)
    /\ sync_handle' = IF success THEN [sync_handle EXCEPT ![b] = TRUE] ELSE sync_handle
    /\ UNCHANGED <<is_scanner, is_connecting_or_syncing, role_established, radioVars, failures>>

(* Seeded fault: the board does not look for the peer again.               *)
onSyncLoss_NoScan(b, q) ==
    /\ Leaves(b, q)
    /\ sync_handle' = [sync_handle EXCEPT ![b] = FALSE]
    /\ UNCHANGED <<is_scanner, is_connecting_or_syncing, role_established, radioVars, failures>>

(* onPeriodicAdvertisingSyncLoss                                           *)
onSyncLoss(b, q) ==
    /\ Leaves(b, post(q, Call("scan_periodic", 0, 0)))
    /\ sync_handle' = [sync_handle EXCEPT ![b] = FALSE]
    /\ UNCHANGED <<is_scanner, is_connecting_or_syncing, role_established, radioVars, failures>>

(* The queue of b runs the call at p.                                      *)
Dispatch(b, p) ==
    LET q == RemoveAt(calls[b], p)
        c == calls[b][p]
    IN  /\ Due(calls[b], p)
        /\ \/ c.cb = "scan"                    /\ scan(b, q)
           \/ c.cb = "scan_periodic"           /\ scan_periodic(b, q)
           \/ c.cb = "advertise"               /\ advertise(b, q)
           \/ c.cb = "advertise_periodic"      /\ advertise_periodic(b, q)
           \/ c.cb = "disconnect"              /\ disconnect(b, q)
           \/ c.cb = "onAdvertisingStart"      /\ onAdvertisingStart(b, q)
           \/ c.cb = "onAdvertisingReport"     /\ onAdvertisingReport(b, q, c.arg)
           \/ c.cb = "onAdvertisingEnd"        /\ onAdvertisingEnd(b, q, c.arg)
           \/ c.cb = "onScanTimeout"           /\ onScanTimeout(b, q)
           \/ c.cb = "onConnectionComplete"    /\ onConnectionComplete(b, q, c.arg)
           \/ c.cb = "onDisconnectionComplete" /\ onDisconnectionComplete(b, q)
           \/ c.cb = "onSyncEstablished"       /\ onSyncEstablished(b, q, c.arg)
           \/ c.cb = "onSyncLoss"              /\ onSyncLoss(b, q)

-----------------------------------------------------------------------------
(* The stacks and the air.                                                 *)

Signal(b, cb, arg) == Leaves(b, post(calls[b], Call(cb, arg, 0)))

AdvertisingExpires(b) ==
    /\ adv[b] = "connectable"
    /\ adv' = [adv EXCEPT ![b] = "off"]
    /\ Signal(b, "onAdvertisingEnd", FALSE)
    /\ UNCHANGED <<demoVars, scanner, initiating, sync, linked, failures>>

ScanExpires(b) ==
    /\ scanner[b] = "timed"
    /\ scanner' = [scanner EXCEPT ![b] = "off"]
    /\ Signal(b, "onScanTimeout", 0)
    /\ UNCHANGED <<demoVars, adv, initiating, sync, linked, failures>>

(* The report says whether the set carries a periodic train.               *)
Report(b) ==
    /\ scanner[b] # "off" /\ adv[Peer(b)] \notin {"none", "off"}
    /\ Cardinality(Pending(calls[b], {"onAdvertisingReport"})) < MaxReports
    /\ Signal(b, "onAdvertisingReport", adv[Peer(b)] = "periodic")
    /\ UNCHANGED <<demoVars, radioVars, failures>>

(* The connection ends the peer's advertising: both boards are told.       *)
Established(b) ==
    /\ initiating[b] /\ adv[Peer(b)] = "connectable" /\ ~linked
    /\ initiating' = [initiating EXCEPT ![b] = FALSE]
    /\ adv' = [adv EXCEPT ![Peer(b)] = "off"]
    /\ linked' = TRUE
    /\ LET event == Call("onConnectionComplete", TRUE, 0)
       IN  calls' = [calls EXCEPT ![b] = post(@, event),
                                  ![Peer(b)] = post(post(@, event), Call("onAdvertisingEnd", TRUE, 0))]
    /\ UNCHANGED <<demoVars, scanner, sync, failures>>

NotEstablished(b) ==
    /\ initiating[b] /\ Fails("connection")
    /\ initiating' = [initiating EXCEPT ![b] = FALSE]
    /\ Signal(b, "onConnectionComplete", FALSE)
    /\ UNCHANGED <<demoVars, scanner, adv, sync, linked>>

LinkLost ==
    /\ linked /\ Fails("link")
    /\ linked' = FALSE
    /\ calls' = [b \in Boards |-> post(calls[b], Call("onDisconnectionComplete", 0, 0))]
    /\ UNCHANGED <<demoVars, scanner, adv, initiating, sync>>

SyncEstablished(b) ==
    /\ sync[b] = "creating" /\ adv[Peer(b)] = "periodic"
    /\ sync' = [sync EXCEPT ![b] = "up"]
    /\ Signal(b, "onSyncEstablished", TRUE)
    /\ UNCHANGED <<demoVars, scanner, adv, initiating, linked, failures>>

SyncFails(b) ==
    /\ sync[b] = "creating" /\ Fails("sync")
    /\ sync' = [sync EXCEPT ![b] = "none"]
    /\ Signal(b, "onSyncEstablished", FALSE)
    /\ UNCHANGED <<demoVars, scanner, adv, initiating, linked>>

SyncLost(b) ==
    /\ sync[b] = "up" /\ Fails("loss")
    /\ sync' = [sync EXCEPT ![b] = "none"]
    /\ Signal(b, "onSyncLoss", 0)
    /\ UNCHANGED <<demoVars, scanner, adv, initiating, linked>>

-----------------------------------------------------------------------------
(* on_init_complete has run start_role on each board.                      *)
Init ==
    /\ calls = [b \in Boards |-> <<Call("scan", 0, 0)>>]
    /\ is_scanner = [b \in Boards |-> TRUE]
    /\ is_connecting_or_syncing = [b \in Boards |-> FALSE]
    /\ role_established = [b \in Boards |-> FALSE]
    /\ sync_handle = [b \in Boards |-> FALSE]
    /\ scanner = [b \in Boards |-> "off"]
    /\ adv = [b \in Boards |-> "none"]
    /\ initiating = [b \in Boards |-> FALSE]
    /\ sync = [b \in Boards |-> "none"]
    /\ linked = FALSE /\ failures = [count |-> 0, kinds |-> {}]

Served(b) == \E p \in DOMAIN calls[b] : Dispatch(b, p)

Next ==
    \/ \E b \in Boards :
          \/ Served(b)
          \/ AdvertisingExpires(b) \/ ScanExpires(b) \/ Report(b)
          \/ Established(b) \/ NotEstablished(b)
          \/ SyncEstablished(b) \/ SyncFails(b) \/ SyncLost(b)
    \/ LinkLost

Spec == Init /\ [][Next]_vars

(* Queues are served, a scanner that goes on hears an advertiser that goes *)
(* on, and a sync with a periodic train that goes on comes up.             *)
FairSpec ==
    /\ Spec
    /\ \A b \in Boards : WF_vars(Served(b)) /\ WF_vars(Report(b)) /\ WF_vars(SyncEstablished(b))

-----------------------------------------------------------------------------
(* The variables keep their types; the periodic modes are for boards that  *)
(* have a role.                                                            *)
TypeOK ==
    /\ {is_scanner, is_connecting_or_syncing, role_established, sync_handle, initiating}
         \subseteq [Boards -> BOOLEAN]
    /\ scanner \in [Boards -> {"off", "timed", "endless"}]
    /\ adv \in [Boards -> {"none", "off", "connectable", "announcing", "periodic"}]
    /\ sync \in [Boards -> {"none", "creating", "up"}]
    /\ linked \in BOOLEAN /\ failures \in [count : 0..MaxFailures, kinds : SUBSET Failures]
    /\ \A b \in Boards :
          scanner[b] = "endless" \/ adv[b] \in {"announcing", "periodic"} => role_established[b]

(* "adopt complementary roles" (README.md:2): a board keeps the role it    *)
(* took when it connected, and it is not the role of the other one,        *)
(* whatever timeouts, reports and connection events wait in the queues.    *)
Roles == INSTANCE RoleElection WITH
    role <- [b \in Boards |-> IF ~role_established[b] THEN "none"
                              ELSE IF is_scanner[b] THEN "scanner" ELSE "advertiser"]

ImplementsElection == Roles!Spec

(* The boards never wait for one another, each connecting to an            *)
(* advertising that the other one has given up (main.cpp:303, 378).        *)
SomeoneAnswers == \E b \in Boards : ~initiating[b]

(* Until its role is established a board either scans or advertises:       *)
(* start_role never starts one mode over the other (main.cpp:101).         *)
OneModeAtATime == \A b \in Boards : ~(scanner[b] # "off" /\ adv[b] \notin {"none", "off"})

(* The flag that makes the demo ignore reports and scan timeouts           *)
(* (main.cpp:356) is set as long as the stack has an attempt under way.    *)
AttemptNoticed == \A b \in Boards : initiating[b] \/ sync[b] # "none" => is_connecting_or_syncing[b]

(* "The other attempts to scan and sync with the periodic advertising"     *)
(* (README.md:3): once the roles are established, and as long as no call   *)
(* was refused and no synchronisation failed, the scanner ends up          *)
(* synchronised, however late reports, timeouts, lost links and lost syncs *)
(* come.                                                                   *)
RolesEstablished == \A b \in Boards : role_established[b]
Synchronised == \E b \in Boards : sync_handle[b]
SyncFollows ==
    [](RolesEstablished => <>[](Synchronised \/ failures.kinds \cap {"refusal", "sync"} # {}))
=============================================================================
