--------------------------- MODULE GattClientDemo ---------------------------
(***************************************************************************)
(* BLE_GattClient_CharacteristicUpdates: a GATT client that discovers the  *)
(* characteristics of its peer, then reads each one and subscribes to it,  *)
(* one GATT procedure at a time.  The class GattClientDemo is driven by    *)
(* the callbacks of the BLE stack and by one call it posts on the event    *)
(* queue; everything runs on one thread, so a handler is one step.         *)
(*                                                                         *)
(* The peer, the link and the stack's single procedure slot are external:  *)
(* they are modelled from how the demo uses them.                          *)
(***************************************************************************)
EXTENDS Naturals, Sequences, FiniteSets

CONSTANTS
    Layouts,         \* the GATT servers the peer may be: sequences of characteristics
    Handles,         \* connection handles the stack hands out (0 is none)
    MaxConnections,  \* bound: connections made in one behaviour
    Faults           \* TRUE: a local call (stack, allocator, queue) may be refused

(* What a server's characteristic looks like to this client: its read,     *)
(* notify and indicate properties, and whether it has a CCCD descriptor.   *)
Characteristic == [read : BOOLEAN, notify : BOOLEAN, indicate : BOOLEAN, hasCccd : BOOLEAN]

ASSUME LayoutsAssumption == Layouts \subseteq Seq(Characteristic)
ASSUME HandlesAssumption == Handles \subseteq Nat \ {0}
ASSUME BoundsAssumption  == MaxConnections \in Nat /\ Faults \in BOOLEAN

VARIABLES
    server,             \* the peer's characteristics, fixed by Init
    link,               \* the live connection's handle, 0 when disconnected
    op,                 \* the GATT procedure in flight in the stack
    connection_handle,  \* _connection_handle
    characteristics,    \* the list headed by _characteristics
    it,                 \* _it: a position in the list, 0 for nullptr
    descriptor_handle,  \* _descriptor_handle: the characteristic whose CCCD it is, or 0
    dataWritten,        \* times the demo is registered in onDataWritten() and onHVX()
    terminationHandler, \* onServiceDiscoveryTermination is set
    queued,             \* process_next_characteristic calls on the event queue
    crashed,            \* a null _it was dereferenced
    connections,        \* connections made so far
    unsolicited,        \* history: the "should never happen" branch was taken
    answeredReads,      \* history: characteristics whose read was answered on this link
    answeredWrites,     \* history: the value of the CCCD write answered on this link
    outcome             \* history: how the survey of this connection ended

peerVars    == <<server, link, connections>>
cleanVars   == <<connection_handle, characteristics>>
handlerVars == <<dataWritten, terminationHandler>>
answerVars  == <<answeredReads, answeredWrites>>
vars == <<peerVars, cleanVars, handlerVars, answerVars, op, it, descriptor_handle,
          queued, crashed, unsolicited, outcome>>

Chars    == 1..Len(server)
Kinds    == {"none", "discovery", "read", "descriptors", "ending", "write"}
NoOp     == [kind |-> "none", char |-> 0, val |-> 0]
Outcomes == {"idle", "running", "processed", "stopped", "failed", "lost"}

(* The first end of a survey is the one history keeps.                     *)
Ended(how) == IF outcome = "running" THEN how ELSE outcome

(* properties.notify() || properties.indicate()                            *)
Emits(c) == server[c].notify \/ server[c].indicate

(* Seeded fault: the two bits shifted one place too far.                   *)
CccdValue_Shifted(c) == (IF server[c].notify THEN 2 ELSE 0) + (IF server[c].indicate THEN 4 ELSE 0)

(* (notify() << 0) | (indicate() << 1)                                     *)
CccdValue(c) == (IF server[c].notify THEN 1 ELSE 0) + (IF server[c].indicate THEN 2 ELSE 0)

-----------------------------------------------------------------------------
(* The steps shared by the handlers.                                       *)

(* Seeded fault: stop() frees the list and leaves _it on a freed node.     *)
stop_KeepsIterator(n) ==
    /\ dataWritten' = IF n <= dataWritten THEN dataWritten - n ELSE 0
    /\ terminationHandler' = FALSE
    /\ connection_handle' = 0
    /\ characteristics' = <<>>
    /\ it' = it
    /\ descriptor_handle' = 0
    /\ outcome' = Ended("stopped")

(* stop(), called n times in a row: each call detaches one registration of *)
(* each handler, frees the list and resets every member.  It does not      *)
(* cancel the procedure the stack has in flight.                           *)
stop(n) ==
    /\ dataWritten' = IF n <= dataWritten THEN dataWritten - n ELSE 0
    /\ terminationHandler' = FALSE
    /\ connection_handle' = 0
    /\ characteristics' = <<>>
    /\ it' = 0
    /\ descriptor_handle' = 0
    /\ outcome' = Ended("stopped")

(* Seeded fault: the loop stops at readable nodes only.                    *)
WorkAfter_ReadableOnly(i) == {n \in DOMAIN characteristics :
                                n > i /\ server[characteristics[n].char].read}

(* The list positions after i where the while loop of process_next stops.  *)
WorkAfter(i) == {n \in DOMAIN characteristics :
                   n > i /\ LET c == characteristics[n].char IN server[c].read \/ Emits(c)}

(* n is the node the iterator moves to from it.                            *)
IsNext(n) == n \in WorkAfter(it) /\ \A m \in WorkAfter(it) : n <= m

(* The procedure process_next_characteristic launches for the node at n.   *)
Work(n) == LET c == characteristics[n].char
           IN  [kind |-> IF server[c].read THEN "read" ELSE "descriptors", char |-> c, val |-> 0]

(* The stack takes a procedure on connection h when it has none in flight  *)
(* (busy is what it still has) and h is the live link.                     *)
Accepts(busy, h) == busy = NoOp /\ link # 0 /\ h = link

(* read_characteristic and discover_descriptors on the node at n: the      *)
(* latter resets _descriptor_handle, and an error of either calls stop().  *)
(* d is the value _descriptor_handle has at the call.                      *)
launch(o, n, busy, d) ==
    \/ /\ Accepts(busy, characteristics[n].conn)
       /\ op' = o
       /\ it' = n
       /\ descriptor_handle' = IF o.kind = "read" THEN d ELSE 0
       /\ UNCHANGED <<cleanVars, handlerVars, outcome>>
    \/ /\ Faults \/ ~Accepts(busy, characteristics[n].conn)
       /\ op' = busy
       /\ stop(1)

(* process_next_characteristic: advance to the next node that has work, or *)
(* end the survey.                                                         *)
process_next_characteristic(busy, d) ==
    \/ \E n \in DOMAIN characteristics : IsNext(n) /\ launch(Work(n), n, busy, d)
    \/ /\ WorkAfter(it) = {}
       /\ it' = 0
       /\ op' = busy
       /\ descriptor_handle' = d
       /\ outcome' = Ended("processed")
       /\ UNCHANGED <<cleanVars, handlerVars>>

(* process_next_characteristic followed by k calls of stop(): what the     *)
(* second and later registrations of when_descriptor_written add.          *)
process_next_then_stop(k) ==
    \/ \E n \in DOMAIN characteristics :
          /\ IsNext(n)
          /\ \/ Accepts(NoOp, characteristics[n].conn) /\ op' = Work(n) /\ stop(k)
             \/ /\ Faults \/ ~Accepts(NoOp, characteristics[n].conn)
                /\ op' = NoOp
                /\ stop(k + 1)
    \/ WorkAfter(it) = {} /\ op' = NoOp /\ stop(k)

(* A dereference of a null _it ends the program.                           *)
Crash ==
    /\ crashed' = TRUE
    /\ UNCHANGED <<peerVars, cleanVars, handlerVars, answerVars, op, it, descriptor_handle,
                   queued, unsolicited, outcome>>

-----------------------------------------------------------------------------
(* The handlers.                                                           *)

(* The ble_process connects and calls start_discovery, which registers the *)
(* handlers and launches the discovery.  A refused launch returns with the *)
(* handlers still registered.                                              *)
start_discovery(h) ==
    /\ link = 0 /\ op = NoOp
    /\ connections < MaxConnections
    /\ connections' = connections + 1
    /\ link' = h
    /\ connection_handle' = h
    /\ dataWritten' = dataWritten + 1
    /\ terminationHandler' = TRUE
    /\ answeredReads' = {}
    /\ answeredWrites' = [c \in Chars |-> 0]
    /\ \/ op' = [NoOp EXCEPT !.kind = "discovery"] /\ outcome' = "running"
       \/ Faults /\ op' = NoOp /\ outcome' = "failed"
    /\ UNCHANGED <<server, characteristics, it, descriptor_handle, queued, crashed, unsolicited>>

(* when_characteristic_discovered: append the node; an allocation failure  *)
(* terminates the discovery and stops.  Terminating may invoke             *)
(* when_service_discovery_ends before stop(), which then posts a call.     *)
when_characteristic_discovered ==
    /\ op.kind = "discovery" /\ link # 0 /\ op.char < Len(server)
    /\ \/ /\ characteristics' = Append(characteristics, [char |-> op.char + 1, conn |-> link])
          /\ op' = [op EXCEPT !.char = @ + 1]
          /\ UNCHANGED <<connection_handle, handlerVars, it, descriptor_handle, queued, outcome>>
       \/ /\ Faults
          /\ op' = NoOp
          /\ queued' \in {queued, IF terminationHandler /\ characteristics # <<>>
                                  THEN queued + 1 ELSE queued}
          /\ stop(1)
    /\ UNCHANGED <<peerVars, answerVars, crashed, unsolicited>>

(* Seeded fault: the call is never posted.                                 *)
when_service_discovery_ends_NoPost ==
    /\ op.kind = "discovery" /\ (link = 0 \/ op.char = Len(server))
    /\ op' = NoOp
    /\ UNCHANGED <<peerVars, cleanVars, handlerVars, answerVars, descriptor_handle, it,
                   queued, outcome, crashed, unsolicited>>

(* when_service_discovery_ends, when the server is exhausted or the link   *)
(* is lost: reset the iterator and post process_next_characteristic.  The  *)
(* event queue may have no room for the call.                              *)
when_service_discovery_ends ==
    /\ op.kind = "discovery" /\ (link = 0 \/ op.char = Len(server))
    /\ op' = NoOp
    /\ \/ /\ terminationHandler /\ characteristics # <<>>
          /\ it' = 0
          /\ \/ queued' = queued + 1 /\ UNCHANGED outcome
             \/ Faults /\ UNCHANGED queued /\ outcome' = Ended("failed")
       \/ /\ terminationHandler /\ characteristics = <<>>
          /\ outcome' = Ended("processed")
          /\ UNCHANGED <<it, queued>>
       \/ /\ ~terminationHandler
          /\ UNCHANGED <<it, queued, outcome>>
    /\ UNCHANGED <<peerVars, cleanVars, handlerVars, answerVars, descriptor_handle,
                   crashed, unsolicited>>

(* Seeded fault: the call is posted with call_every and comes back.        *)
dispatch_Every ==
    /\ queued > 0
    /\ process_next_characteristic(op, descriptor_handle)
    /\ UNCHANGED <<peerVars, answerVars, crashed, unsolicited, queued>>

(* The event queue runs the posted process_next_characteristic.            *)
dispatch ==
    /\ queued > 0
    /\ queued' = queued - 1
    /\ process_next_characteristic(op, descriptor_handle)
    /\ UNCHANGED <<peerVars, answerVars, crashed, unsolicited>>

(* A read response; an aborted read is reported by the same callback and   *)
(* the demo does not look at the status.                                   *)
when_characteristic_read ==
    /\ op.kind = "read"
    /\ IF it = 0
       THEN Crash
       ELSE /\ answeredReads' = IF link # 0 THEN answeredReads \union {op.char} ELSE answeredReads
            /\ IF Emits(characteristics[it].char)
               THEN launch([NoOp EXCEPT !.kind = "descriptors", !.char = characteristics[it].char],
                           it, NoOp, descriptor_handle)
               ELSE process_next_characteristic(NoOp, descriptor_handle)
            /\ UNCHANGED <<peerVars, answeredWrites, queued, crashed, unsolicited>>

(* A CCCD is discovered: remember it and terminate the discovery.          *)
when_descriptor_discovered ==
    /\ op.kind = "descriptors" /\ link # 0 /\ server[op.char].hasCccd
    /\ descriptor_handle' = op.char
    /\ op' = [op EXCEPT !.kind = "ending"]
    /\ UNCHANGED <<peerVars, cleanVars, handlerVars, answerVars, it, queued, crashed,
                   unsolicited, outcome>>

(* Seeded fault: the properties of the list's head are used, not _it's.    *)
write_cccd_HeadValue ==
    \/ /\ Accepts(NoOp, connection_handle)
       /\ op' = [kind |-> "write", char |-> descriptor_handle,
                 val |-> CccdValue(characteristics[1].char)]
       /\ UNCHANGED <<cleanVars, handlerVars, it, descriptor_handle, outcome>>
    \/ /\ Faults \/ ~Accepts(NoOp, connection_handle)
       /\ op' = NoOp
       /\ stop(1)

(* The write of the CCCD the discovery of descriptors ends with.           *)
write_cccd ==
    \/ /\ Accepts(NoOp, connection_handle)
       /\ op' = [kind |-> "write", char |-> descriptor_handle,
                 val |-> CccdValue(characteristics[it].char)]
       /\ UNCHANGED <<cleanVars, handlerVars, it, descriptor_handle, outcome>>
    \/ /\ Faults \/ ~Accepts(NoOp, connection_handle)
       /\ op' = NoOp
       /\ stop(1)

(* Seeded fault: a missing CCCD does not return early.                     *)
when_descriptor_discovery_ends_NoReturn ==
    /\ \/ op.kind = "ending"
       \/ op.kind = "descriptors" /\ (link = 0 \/ ~server[op.char].hasCccd)
    /\ IF it = 0
       THEN Crash
       ELSE write_cccd /\ UNCHANGED <<peerVars, answerVars, queued, crashed, unsolicited>>

(* Descriptor discovery ends: terminated by the demo, exhausted without a  *)
(* CCCD, or aborted with the link.                                         *)
when_descriptor_discovery_ends ==
    /\ \/ op.kind = "ending"
       \/ op.kind = "descriptors" /\ (link = 0 \/ ~server[op.char].hasCccd)
    /\ IF descriptor_handle # 0 /\ it = 0
       THEN Crash
       ELSE /\ IF descriptor_handle = 0
               THEN process_next_characteristic(NoOp, descriptor_handle)
               ELSE write_cccd
            /\ UNCHANGED <<peerVars, answerVars, queued, crashed, unsolicited>>

(* A write response reaches every registration of when_descriptor_written: *)
(* the first that finds _descriptor_handle set clears it and goes on, one  *)
(* that finds it null takes the branch that "should never happen".         *)
when_descriptor_written ==
    /\ op.kind = "write"
    /\ answeredWrites' = IF link # 0 THEN [answeredWrites EXCEPT ![op.char] = op.val]
                                     ELSE answeredWrites
    /\ \/ /\ dataWritten = 0
          /\ op' = NoOp
          /\ UNCHANGED <<cleanVars, handlerVars, it, descriptor_handle, outcome, unsolicited>>
       \/ /\ dataWritten > 0 /\ descriptor_handle = 0
          /\ op' = NoOp
          /\ unsolicited' = TRUE
          /\ stop(dataWritten)
       \/ /\ dataWritten = 1 /\ descriptor_handle # 0
          /\ process_next_characteristic(NoOp, 0)
          /\ UNCHANGED unsolicited
       \/ /\ dataWritten > 1 /\ descriptor_handle # 0
          /\ process_next_then_stop(dataWritten - 1)
          /\ unsolicited' = TRUE
    /\ UNCHANGED <<peerVars, answeredReads, queued, crashed>>

(* The link is lost.  The demo registers no handler for it: a procedure in *)
(* flight ends later through its own callback, or is dropped with the      *)
(* stack's state.                                                          *)
Disconnect ==
    /\ link # 0
    /\ link' = 0
    /\ op' \in {op, NoOp}
    /\ outcome' = Ended("lost")
    /\ UNCHANGED <<server, connections, cleanVars, handlerVars, answerVars, it,
                   descriptor_handle, queued, crashed, unsolicited>>

-----------------------------------------------------------------------------
Init ==
    /\ server \in Layouts
    /\ link = 0 /\ op = NoOp
    /\ connection_handle = 0 /\ characteristics = <<>> /\ it = 0 /\ descriptor_handle = 0
    /\ dataWritten = 0 /\ terminationHandler = FALSE
    /\ queued = 0 /\ crashed = FALSE /\ connections = 0 /\ unsolicited = FALSE
    /\ answeredReads = {} /\ answeredWrites = [c \in Chars |-> 0]
    /\ outcome = "idle"

(* The steps the stack and the event queue owe the demo.                   *)
Progress ==
    \/ when_characteristic_discovered
    \/ when_service_discovery_ends
    \/ dispatch
    \/ when_characteristic_read
    \/ when_descriptor_discovered
    \/ when_descriptor_discovery_ends
    \/ when_descriptor_written

Next ==
    /\ ~crashed
    /\ \/ \E h \in Handles : start_discovery(h)
       \/ Disconnect
       \/ Progress

Spec == Init /\ [][Next]_vars

FairSpec == Spec /\ WF_vars(~crashed /\ Progress)

-----------------------------------------------------------------------------
(* The variables keep their types.                                         *)
TypeOK ==
    /\ server \in Layouts
    /\ link \in Handles \union {0} /\ connection_handle \in Handles \union {0}
    /\ op \in [kind : Kinds, char : 0..Len(server), val : 0..3]
    /\ characteristics \in Seq([char : Chars, conn : Handles])
    /\ it \in Nat /\ descriptor_handle \in 0..Len(server)
    /\ dataWritten \in Nat /\ terminationHandler \in BOOLEAN
    /\ queued \in Nat /\ connections \in Nat
    /\ crashed \in BOOLEAN /\ unsolicited \in BOOLEAN
    /\ answeredReads \subseteq Chars /\ answeredWrites \in [Chars -> 0..3]
    /\ outcome \in Outcomes

(* The iterator _it never points at a node stop() has freed: lines 301 and *)
(* 370 dereference it long after the procedure was launched.               *)
IteratorLive == it \in 0..Len(characteristics)

(* Within one connection, no completion handler dereferences a null _it:   *)
(* whatever is refused, aborted or cut off, the callbacks of 293-308 and   *)
(* 360-390 run only while the iteration stands.                            *)
NoNullDereference == connections < 2 => ~crashed

(* Within one connection the branch of 397 commented "should never happen" *)
(* is not taken.                                                           *)
SolicitedOnce == connections < 2 => ~unsolicited

(* The branch of 397 commented "should never happen" is not taken.         *)
NeverUnsolicited == ~unsolicited

(* A CCCD only ever receives the value its own characteristic calls for,   *)
(* though _descriptor_handle and _it are read callbacks apart.             *)
SubscriptionValueRight ==
    \A c \in Chars : answeredWrites[c] \in {0, CccdValue(c)}

(* One connection's survey implements the abstract one: in the order of    *)
(* the server, each read and each subscription once, nothing skipped.      *)
Survey == INSTANCE GattSurvey WITH
    reads  <- answeredReads,
    writes <- answeredWrites,
    status <- IF outcome = "processed" THEN "complete"
              ELSE IF outcome \in {"idle", "running"} THEN outcome ELSE "abandoned"

ImplementsSurvey == Survey!Spec

(* Every connection's survey comes to an end: it is processed, stopped by  *)
(* an error or lost with the link; no chain of callbacks goes silent.      *)
SurveyEnds == (outcome = "running") ~> (outcome # "running")
=============================================================================
