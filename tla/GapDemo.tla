------------------------------ MODULE GapDemo ------------------------------
(***************************************************************************)
(* BLE_GAP: a board that alternates between an advertising mode and a      *)
(* scanning mode.  A mode ends by its timer, by the scan's timeout, or by  *)
(* a connection, which the demo closes three seconds later.  Everything    *)
(* runs on one event queue: the calls the demo posts, and the events of    *)
(* the stack, which schedule_ble_events turns into calls of processEvents. *)
(* The stack's advertising sets, scanner and links are external.           *)
(***************************************************************************)
EXTENDS EventQueue, FiniteSets

CONSTANTS
    ExtCompiled,      \* BLE_FEATURE_EXTENDED_ADVERTISING
    ExtSupported,     \* the controller supports LE_EXTENDED_ADVERTISING
    ConnectStopsScan, \* the controller stops scanning to initiate a connection
    Faults,           \* a call that sets up or starts an activity may fail
    Connectable,      \* a remote central may connect while the board advertises
    Discoverable,     \* a remote peripheral may be discovered while it scans
    MaxConnections    \* bound: connections in one behaviour

ASSUME GapAssumption ==
    /\ {ExtCompiled, ExtSupported, ConnectStopsScan, Faults} \subseteq BOOLEAN
    /\ {Connectable, Discoverable} \subseteq BOOLEAN
    /\ MaxConnections \in Nat

VARIABLES
    calls,               \* the event queue
    is_scanning_phase,   \* _is_in_scanning_phase
    is_connecting,       \* _is_connecting
    extended_adv_handle, \* _extended_adv_handle is a set, not INVALID_ADVERTISING_HANDLE
    legacy,              \* the legacy advertising set: off, on or stopping
    ext,                 \* the extended set: none, off, on or stopping
    leaked,              \* an extended set of the controller has no handle any more
    scanner,             \* the scanner: off or on
    initiating,          \* the stack is establishing a connection for connect()
    links,               \* the live connections
    made,                \* connections established so far
    failed,              \* history: the stack refused a call or a connection failed
    undestroyed,         \* history: the stack refused to destroy the extended set
    races                \* history: the races between two ends of a mode that happened

demoVars  == <<is_scanning_phase, is_connecting, extended_adv_handle>>
setVars   == <<legacy, ext, leaked, undestroyed>>
linkVars  == <<initiating, links, made>>
vars == <<calls, demoVars, setVars, scanner, linkVars, failed, races>>

Delay == 3  \* seconds between modes, and before the demo disconnects

(* A call or an event that ends the mode comes upon another one that does. *)
(* The demo has no answer to these:                                        *)
(*   timer    the advertising timer expires while the event of a connection *)
(*            waits in the queue, so that cancelling it comes too late;     *)
(*   scan     a report is acted on when its scan is over, and the timeout   *)
(*            of that scan waits behind it;                                *)
(*   central  a central connects to a board that has an extended set, whose *)
(*            end leads to the next mode as the disconnection does.         *)
RaceKinds == {"timer", "scan", "central"}

Race(kind, happens) == races' = races \union (IF happens THEN {kind} ELSE {})

(* isAdvertisingActive: until the AdvertisingEnd event is handled.         *)
Active(set) == set \in {"on", "stopping"}

(* stopAdvertising: only an advertising set stops.                         *)
stopAdvertising(set) == IF set = "on" THEN "stopping" ELSE set

-----------------------------------------------------------------------------
(* The calls the demo posts.  q is the queue without the call that runs.   *)

(* The extended set, created, filled and started: each step may fail and   *)
(* return, before the timer is posted.                                     *)
startExtendedSet(q, timer) ==
    \/ /\ extended_adv_handle' = TRUE
       /\ ext' = "on"
       /\ leaked' = (leaked \/ ext # "none")
       /\ calls' = timer
       /\ UNCHANGED failed
    \/ /\ Faults
       /\ failed' = TRUE
       /\ calls' = q
       /\ \/ UNCHANGED <<extended_adv_handle, ext, leaked>>
          \/ /\ extended_adv_handle' = TRUE
             /\ ext' = "off"
             /\ leaked' = (leaked \/ ext # "none")

(* advertise: the parameters of an active set cannot be changed, so that   *)
(* it returns early; after any failure no timer is posted.                 *)
advertise(q) ==
    LET timer == post_held(q, Call("end_advertising_mode", 0, 10))
    IN  /\ \/ /\ Active(legacy) \/ Faults
              /\ failed' = TRUE
              /\ calls' = q
              /\ UNCHANGED <<setVars, extended_adv_handle>>
           \/ /\ legacy = "off"
              /\ legacy' = "on"
              /\ IF ExtCompiled /\ ExtSupported
                 THEN startExtendedSet(q, timer)
                 ELSE calls' = timer /\ UNCHANGED <<extended_adv_handle, ext, leaked, failed>>
              /\ UNCHANGED undestroyed
        /\ UNCHANGED <<is_scanning_phase, is_connecting, scanner, linkVars, races>>

(* scan: a failure returns with the scanner as it was.                     *)
scan(q) ==
    /\ calls' = q
    /\ \/ scanner' = "on" /\ UNCHANGED failed
       \/ Faults /\ failed' = TRUE /\ UNCHANGED scanner
    /\ UNCHANGED <<demoVars, setVars, linkVars, races>>

(* Seeded fault: the phase is not reset.                                   *)
end_scanning_mode_KeepsPhase(q) ==
    /\ scanner' = "off"
    /\ calls' = post(q, Call("advertise", 0, Delay))
    /\ UNCHANGED <<demoVars, setVars, linkVars, failed, races>>

(* Seeded fault: the scan is posted again.                                 *)
end_scanning_mode_ScansAgain(q) ==
    /\ scanner' = "off"
    /\ is_scanning_phase' = FALSE
    /\ calls' = post(q, Call("scan", 0, Delay))
    /\ UNCHANGED <<is_connecting, extended_adv_handle, setVars, linkVars, failed, races>>

(* end_scanning_mode: stopping a scan that is over is an error that is only *)
(* printed.                                                                *)
end_scanning_mode(q) ==
    /\ scanner' = "off"
    /\ is_scanning_phase' = FALSE
    /\ calls' = post(q, Call("advertise", 0, Delay))
    /\ UNCHANGED <<is_connecting, extended_adv_handle, setVars, linkVars, failed, races>>

(* end_advertising_mode: with extended advertising compiled in, the next   *)
(* mode is left to the end event of the extended set.                      *)
end_advertising_mode(q) ==
    /\ legacy' = stopAdvertising(legacy)
    /\ IF ExtCompiled
       THEN /\ ext' = IF extended_adv_handle THEN stopAdvertising(ext) ELSE ext
            /\ calls' = q
            /\ UNCHANGED is_scanning_phase
       ELSE /\ is_scanning_phase' = TRUE
            /\ calls' = post(q, Call("scan", 0, Delay))
            /\ UNCHANGED ext
    /\ Race("timer", Pending(q, {"onConnectionComplete"}) # {})
    /\ UNCHANGED <<is_connecting, extended_adv_handle, leaked, undestroyed, scanner, linkVars, failed>>

(* The lambda posted by onConnectionComplete: disconnecting a link that is *)
(* already gone is an error the demo ignores.                              *)
disconnect(q, handle) ==
    /\ links' = links \ {handle}
    /\ calls' = IF handle \in links THEN post(q, Call("onDisconnectionComplete", "local", 0)) ELSE q
    /\ UNCHANGED <<demoVars, setVars, scanner, initiating, made, failed, races>>

-----------------------------------------------------------------------------
(* The handlers of the stack's events.                                     *)

(* onAdvertisingReport of a discoverable device at close range: cancel the *)
(* timer, connect and remember it.  A refused connect returns early.       *)
onAdvertisingReport(q) ==
    /\ IF is_connecting
       THEN calls' = q /\ UNCHANGED <<is_connecting, scanner, initiating, failed>>
       ELSE /\ calls' = cancel(q)
            /\ \/ /\ ~initiating
                  /\ initiating' = TRUE
                  /\ is_connecting' = TRUE
                  /\ scanner' = IF ConnectStopsScan THEN "off" ELSE scanner
                  /\ UNCHANGED failed
               \/ /\ Faults \/ initiating
                  /\ failed' = TRUE
                  /\ UNCHANGED <<initiating, is_connecting, scanner>>
    /\ Race("scan", ~is_connecting /\ scanner = "off")
    /\ UNCHANGED <<is_scanning_phase, extended_adv_handle, setVars, links, made>>

(* Seeded fault: the advertising mode is scheduled again.                  *)
scanNext_Advertises(q) == post(q, Call("advertise", 0, Delay))

(* What follows the end of the extended set.                               *)
scanNext(q) == post(q, Call("scan", 0, Delay))

(* Seeded fault: the extended set is not destroyed.                        *)
onAdvertisingEnd_KeepsSet(q, set) ==
    /\ IF set = "legacy" THEN legacy' = "off" /\ UNCHANGED ext
                         ELSE ext' = "off" /\ UNCHANGED legacy
    /\ IF set = "extended" /\ extended_adv_handle
       THEN /\ extended_adv_handle' = FALSE
            /\ is_scanning_phase' = TRUE
            /\ calls' = scanNext(q)
       ELSE calls' = q /\ UNCHANGED <<extended_adv_handle, is_scanning_phase>>
    /\ UNCHANGED <<is_connecting, leaked, undestroyed, scanner, linkVars, failed, races>>

(* onAdvertisingEnd: the extended set is destroyed and scanning scheduled. *)
(* A destruction that is refused is only printed: the handle is dropped,   *)
(* and the set stays in the controller.                                    *)
onAdvertisingEnd(q, set) ==
    /\ IF set = "legacy"
       THEN /\ legacy' = "off" /\ calls' = q
            /\ UNCHANGED <<ext, leaked, undestroyed, extended_adv_handle, is_scanning_phase>>
       ELSE /\ ext' = "none" /\ extended_adv_handle' = FALSE
            /\ is_scanning_phase' = TRUE
            /\ calls' = scanNext(q)
            /\ \/ UNCHANGED <<leaked, undestroyed>>
               \/ Faults /\ leaked' = TRUE /\ undestroyed' = TRUE
            /\ UNCHANGED legacy
    /\ UNCHANGED <<is_connecting, scanner, linkVars, failed, races>>

onScanTimeout(q) ==
    /\ calls' = post(q, Call("end_scanning_mode", 0, 0))
    /\ UNCHANGED <<demoVars, setVars, scanner, linkVars, failed, races>>

(* The sets onConnectionComplete stops while advertising: the extended set *)
(* if it is still active, else the legacy one.                             *)
stopActiveSets ==
    IF ExtCompiled /\ ~is_scanning_phase /\ extended_adv_handle
    THEN IF Active(ext)
         THEN ext' = stopAdvertising(ext) /\ UNCHANGED legacy
         ELSE legacy' = stopAdvertising(legacy) /\ UNCHANGED ext
    ELSE UNCHANGED <<legacy, ext>>

(* onConnectionComplete leaves the queue that it passes here.              *)
connectionHandled(queue) ==
    /\ calls' = queue
    /\ stopActiveSets
    /\ UNCHANGED <<is_scanning_phase, extended_adv_handle, leaked, undestroyed, scanner, linkVars>>
    /\ UNCHANGED <<failed, races>>

(* Seeded fault: a failed connection does not return.                      *)
onConnectionComplete_NoReturn(q, handle) ==
    /\ is_connecting' = FALSE
    /\ connectionHandled(post_held(cancel(q), Call("disconnect", handle, Delay)))

(* Seeded fault: the mode's timer is left running.                         *)
onConnectionComplete_TimerRuns(q, handle) ==
    /\ is_connecting' = FALSE
    /\ connectionHandled(IF handle = 0 THEN q ELSE post_held(q, Call("disconnect", handle, Delay)))

(* Seeded fault: the timer is cancelled after the handle was overwritten.  *)
onConnectionComplete_CancelsLast(q, handle) ==
    /\ is_connecting' = FALSE
    /\ connectionHandled(IF handle = 0 THEN q ELSE cancel(post_held(q, Call("disconnect", handle, Delay))))

(* Seeded fault: the flag is cleared after the early return.               *)
onConnectionComplete_ClearsLate(q, handle) ==
    /\ is_connecting' = (is_connecting /\ handle = 0)
    /\ connectionHandled(IF handle = 0 THEN q ELSE post_held(cancel(q), Call("disconnect", handle, Delay)))

(* onConnectionComplete: a failure (handle 0) returns before the timer is  *)
(* cancelled; a success replaces it by the disconnection.                  *)
onConnectionComplete(q, handle) ==
    /\ is_connecting' = FALSE
    /\ connectionHandled(IF handle = 0 THEN q ELSE post_held(cancel(q), Call("disconnect", handle, Delay)))

endOfMode == Call(IF is_scanning_phase THEN "end_scanning_mode" ELSE "end_advertising_mode", 0, 0)

(* onDisconnectionComplete: cancel our attempt if the peer was first, and  *)
(* end the mode.                                                           *)
onDisconnectionComplete(q, reason) ==
    /\ calls' = post(IF reason = "remote" THEN cancel(q) ELSE q, endOfMode)
    /\ UNCHANGED <<demoVars, setVars, scanner, linkVars, failed, races>>

(* The queue runs the call at p.                                           *)
Dispatch(p) ==
    /\ Due(calls, p)
    /\ LET q == RemoveAt(calls, p)
           c == calls[p]
       IN  \/ c.cb = "advertise"               /\ advertise(q)
           \/ c.cb = "scan"                    /\ scan(q)
           \/ c.cb = "end_scanning_mode"       /\ end_scanning_mode(q)
           \/ c.cb = "end_advertising_mode"    /\ end_advertising_mode(q)
           \/ c.cb = "disconnect"              /\ disconnect(q, c.arg)
           \/ c.cb = "onAdvertisingReport"     /\ onAdvertisingReport(q)
           \/ c.cb = "onAdvertisingEnd"        /\ onAdvertisingEnd(q, c.arg)
           \/ c.cb = "onScanTimeout"           /\ onScanTimeout(q)
           \/ c.cb = "onConnectionComplete"    /\ onConnectionComplete(q, c.arg)
           \/ c.cb = "onDisconnectionComplete" /\ onDisconnectionComplete(q, c.arg)

-----------------------------------------------------------------------------
(* The stack and the peers.  Each event is a call on the queue.            *)

Signal(cb, arg) == calls' = post(calls, Call(cb, arg, 0))

(* Connections made, under way or about to be.                             *)
Attempts == made + (IF initiating THEN 1 ELSE 0) + Cardinality(Pending(calls, {"onAdvertisingReport"}))

EndRaised(set) == \E p \in Pending(calls, {"onAdvertisingEnd"}) : calls[p].arg = set

LegacyEnds ==
    /\ legacy = "stopping" /\ ~EndRaised("legacy")
    /\ Signal("onAdvertisingEnd", "legacy")
    /\ UNCHANGED <<demoVars, setVars, scanner, linkVars, failed, races>>

ExtendedEnds ==
    /\ ext = "stopping" /\ ~EndRaised("extended")
    /\ Signal("onAdvertisingEnd", "extended")
    /\ UNCHANGED <<demoVars, setVars, scanner, linkVars, failed, races>>

ScanExpires ==
    /\ scanner = "on"
    /\ scanner' = "off"
    /\ Signal("onScanTimeout", 0)
    /\ UNCHANGED <<demoVars, setVars, linkVars, failed, races>>

Report ==
    /\ Discoverable /\ scanner = "on" /\ Attempts < MaxConnections
    /\ Signal("onAdvertisingReport", 0)
    /\ UNCHANGED <<demoVars, setVars, scanner, linkVars, failed, races>>

(* The connection connect() asked for is established, or fails.            *)
Established ==
    /\ initiating
    /\ initiating' = FALSE
    /\ made' = made + 1
    /\ links' = links \union {made'}
    /\ Signal("onConnectionComplete", made')
    /\ UNCHANGED <<demoVars, setVars, scanner, failed, races>>

NotEstablished ==
    /\ initiating /\ Faults
    /\ initiating' = FALSE
    /\ failed' = TRUE
    /\ Signal("onConnectionComplete", 0)
    /\ UNCHANGED <<demoVars, setVars, scanner, links, made, races>>

(* A central connects to the legacy set, which stops for it.               *)
CentralConnects ==
    /\ Connectable /\ legacy = "on" /\ Attempts < MaxConnections
    /\ legacy' = "stopping"
    /\ made' = made + 1
    /\ links' = links \union {made'}
    /\ Signal("onConnectionComplete", made')
    /\ Race("central", extended_adv_handle)
    /\ UNCHANGED <<demoVars, ext, leaked, undestroyed, scanner, initiating, failed>>

(* The peer ends the link, or it is lost for another reason.               *)
LinkLost ==
    /\ \E handle \in links : links' = links \ {handle}
    /\ \E reason \in {"remote", "lost"} : Signal("onDisconnectionComplete", reason)
    /\ UNCHANGED <<demoVars, setVars, scanner, initiating, made, failed, races>>

-----------------------------------------------------------------------------
(* on_init_complete has posted the first mode.                             *)
Init ==
    /\ calls = <<Call("advertise", 0, 0)>>
    /\ is_scanning_phase = FALSE /\ is_connecting = FALSE /\ extended_adv_handle = FALSE
    /\ legacy = "off" /\ ext = "none" /\ leaked = FALSE /\ scanner = "off"
    /\ initiating = FALSE /\ links = {} /\ made = 0
    /\ failed = FALSE /\ undestroyed = FALSE /\ races = {}

Served == \E p \in DOMAIN calls : Dispatch(p)

Next ==
    \/ Served
    \/ LegacyEnds \/ ExtendedEnds
    \/ ScanExpires \/ Report
    \/ Established \/ NotEstablished
    \/ CentralConnects \/ LinkLost

Spec == Init /\ [][Next]_vars

(* The queue serves its calls, a set that is asked to stop does, a scan    *)
(* times out and a connection is established.  Peers owe nothing.          *)
FairSpec ==
    /\ Spec
    /\ WF_vars(Served) /\ WF_vars(LegacyEnds) /\ WF_vars(ExtendedEnds)
    /\ WF_vars(ScanExpires) /\ WF_vars(Established)

-----------------------------------------------------------------------------
Callbacks == {"advertise", "scan", "end_scanning_mode", "end_advertising_mode", "disconnect",
              "onAdvertisingReport", "onAdvertisingEnd", "onScanTimeout",
              "onConnectionComplete", "onDisconnectionComplete"}

(* The variables keep their types; a disconnection is only posted for a    *)
(* connection that was established.                                        *)
TypeOK ==
    /\ \A p \in DOMAIN calls : calls[p].cb \in Callbacks
    /\ \A p \in Pending(calls, {"disconnect"}) : calls[p].arg \in 1..made
    /\ {is_scanning_phase, is_connecting, extended_adv_handle, leaked, initiating, failed, undestroyed}
         \subseteq BOOLEAN
    /\ legacy \in {"off", "on", "stopping"}
    /\ ext \in {"none", "off", "on", "stopping"}
    /\ scanner \in {"off", "on"}
    /\ links \subseteq 1..made /\ made \in 0..MaxConnections
    /\ races \subseteq RaceKinds

(* "The demonstrations happens in sequence" (main.cpp:27): the board never *)
(* scans while its legacy set advertises.                                  *)
ModesInSequence == ~(scanner = "on" /\ legacy = "on")

(* main.cpp:27 in full: until two ends of a mode race, the radio and the   *)
(* phase flag go through the modes as DemoModes says, so that no mode is   *)
(* entered twice, out of turn or while the other one holds the radio.      *)
Modes == INSTANCE DemoModes WITH
    mode  <- IF is_scanning_phase THEN "scanning" ELSE "advertising",
    armed <- Pending(calls, {"advertise", "scan"}) # {},
    radio <- (IF legacy = "on" THEN {"advertising"} ELSE {})
             \union (IF scanner = "on" THEN {"scanning"} ELSE {})

ImplementsModes == Modes!Init /\ [][Modes!Next \/ races' # {}]_(Modes!vars)

(* What will carry the demo on: a posted call that enters or ends a mode   *)
(* and that no waiting connection is about to cancel, the scan, a          *)
(* connection being made, a link, an extended set that is stopping.        *)
Connected == \E p \in Pending(calls, {"onConnectionComplete"}) : calls[p].arg # 0
Drivers ==
    Cardinality(Pending(IF Connected THEN cancel(calls) ELSE calls,
                        {"advertise", "scan", "end_scanning_mode", "end_advertising_mode",
                         "onScanTimeout", "onDisconnectionComplete"}))
    + Cardinality(links)
    + Cardinality({x \in {1} : scanner = "on"}) + Cardinality({x \in {1} : initiating})
    + Cardinality({x \in {1} : ext = "stopping"})

(* onConnectionComplete, onDisconnectionComplete and the timers hand one   *)
(* chain of calls on, whatever piles up in the queue: until two ends of a  *)
(* mode race, the demo never has two of them under way, which would enter  *)
(* modes twice as often from then on, and it has one, unless the stack     *)
(* refused a call or lacks the advertising the build waits for.            *)
OneDriver ==
    races = {} =>
        /\ Drivers <= 1
        /\ Drivers = 0 => failed \/ (ExtCompiled /\ ~ExtSupported)

(* A connected link is closed by the demo itself if not by its peer: its   *)
(* disconnection is posted, and still can be cancelled (main.cpp:411),     *)
(* until a connection races a timer or a report its scan's end.            *)
LinksAreClosed ==
    races = {} =>
        \A handle \in links :
            \E p \in DOMAIN calls :
                /\ \/ calls[p].cb = "onConnectionComplete"
                   \/ calls[p].cb = "disconnect" /\ calls[p].held
                /\ calls[p].arg = handle

(* _is_connecting (main.cpp:326) is set while a connection is asked for and *)
(* cleared by its answer, so that reports waiting in the queue never ask   *)
(* for a second one and never are ignored for good.                        *)
ConnectingFlagRight ==
    races = {} \/ ~Connectable =>
        /\ initiating => is_connecting
        /\ is_connecting => initiating \/ Pending(calls, {"onConnectionComplete"}) # {}

(* A set is destroyed before the next one is created, and the controller's *)
(* pool of sets is not used up, unless the stack refuses to destroy one    *)
(* (main.cpp:354).                                                         *)
NoLeakedSet == leaked => undestroyed \/ races # {}

(* After each mode "the demo jumps to the next mode to continue"           *)
(* (main.cpp:28): the board advertises and scans again and again, unless   *)
(* the stack refused a call or a connection, or two ends of a mode raced.  *)
BothModesRecur ==
    <>(failed \/ races # {}) \/ ([]<>(scanner = "on") /\ []<>(legacy = "on"))
=============================================================================
