------------------------ MODULE GattClientDemo_proofs ------------------------
(***************************************************************************)
(* Theorems about GattClientDemo, for every set of servers and handles and *)
(* every number of connections.                                            *)
(***************************************************************************)
EXTENDS GattClientDemo, TLAPS

(* A procedure on one characteristic names it.                             *)
Op == {o \in [kind : Kinds, char : 0..Len(server), val : 0..3] :
         o.kind \in {"read", "descriptors", "ending", "write"} => o.char \in Chars}
Node == [char : Chars, conn : Handles]

(* The typing of what the shared steps assign, and of the rest.            *)
DemoTypeOK ==
    /\ op \in Op
    /\ connection_handle \in Handles \union {0}
    /\ characteristics \in Seq(Node)
    /\ it \in 0..Len(characteristics)
    /\ descriptor_handle \in 0..Len(server)
    /\ dataWritten \in Nat /\ terminationHandler \in BOOLEAN
    /\ outcome \in Outcomes

RestTypeOK ==
    /\ server \in Layouts
    /\ link \in Handles \union {0}
    /\ queued \in Nat /\ connections \in Nat
    /\ crashed \in BOOLEAN /\ unsolicited \in BOOLEAN
    /\ answeredReads \subseteq Chars /\ answeredWrites \in [Chars -> 0..3]

TypeInv == DemoTypeOK /\ RestTypeOK

(* A server is a sequence of characteristics.                              *)
LEMMA ServerType ==
    ASSUME RestTypeOK
    PROVE  /\ server \in Seq(Characteristic)
           /\ Len(server) \in Nat
           /\ \A c \in Chars : server[c] \in Characteristic
<1>1. server \in Seq(Characteristic)
  BY LayoutsAssumption DEF RestTypeOK
<1> QED
  BY <1>1 DEF Chars

(* The value written to a CCCD is two bits.                                *)
LEMMA CccdValueType == \A c : CccdValue(c) \in 0..3
  BY DEF CccdValue

-----------------------------------------------------------------------------
(* Each shared step keeps the typing.                                      *)
LEMMA StopTyped ==
    ASSUME TypeInv, NEW n \in Nat, stop(n), UNCHANGED server, op' \in Op
    PROVE  DemoTypeOK'
<1>1. dataWritten' \in Nat
  BY DEF stop, TypeInv, DemoTypeOK
<1>2. outcome' \in Outcomes
  BY DEF stop, TypeInv, DemoTypeOK, Ended, Outcomes
<1>3. Len(server) \in Nat
  BY ServerType DEF TypeInv
<1>4. op' \in Op' /\ 0 \in 0..Len(server')
  BY <1>3 DEF Op, Chars
<1>5. characteristics' \in Seq(Node)' /\ it' \in 0..Len(characteristics')
  BY DEF stop
<1> QED
  BY <1>1, <1>2, <1>4, <1>5 DEF stop, DemoTypeOK

LEMMA NoOpTyped == ASSUME TypeInv PROVE NoOp \in Op
  BY ServerType DEF TypeInv, NoOp, Op, Kinds

LEMMA LaunchTyped ==
    ASSUME TypeInv, UNCHANGED server,
           NEW o \in Op, NEW n \in 1..Len(characteristics), NEW busy \in Op,
           NEW d \in 0..Len(server), launch(o, n, busy, d)
    PROVE  DemoTypeOK'
<1>1. CASE op' = busy /\ stop(1)
  BY <1>1, StopTyped
<1>2. CASE /\ op' = o /\ it' = n
           /\ descriptor_handle' = IF o.kind = "read" THEN d ELSE 0
           /\ UNCHANGED <<cleanVars, handlerVars, outcome>>
  <2>1. 0 \in 0..Len(server)
    BY ServerType DEF TypeInv
  <2>2. it' \in 0..Len(characteristics')
    BY <1>2 DEF cleanVars, TypeInv, DemoTypeOK
  <2> QED
    BY <1>2, <2>1, <2>2 DEF TypeInv, DemoTypeOK, cleanVars, handlerVars, Op, Node, Chars
<1> QED
  BY <1>1, <1>2 DEF launch

LEMMA NodeTyped ==
    ASSUME TypeInv, NEW n \in 1..Len(characteristics)
    PROVE  characteristics[n] \in Node /\ characteristics[n].char \in Chars
           /\ characteristics[n].char \in 0..Len(server) /\ characteristics[n].conn \in Handles
<1>1. characteristics[n] \in Node
  BY DEF TypeInv, DemoTypeOK
<1> QED
  BY <1>1, ServerType DEF Node, Chars, TypeInv

LEMMA WorkTyped ==
    ASSUME TypeInv, NEW n \in 1..Len(characteristics)
    PROVE  Work(n) \in Op
  BY NodeTyped DEF Work, Op, Kinds

LEMMA ProcessNextTyped ==
    ASSUME TypeInv, UNCHANGED server, NEW busy \in Op, NEW d \in 0..Len(server),
           process_next_characteristic(busy, d)
    PROVE  DemoTypeOK'
<1>1. CASE \E n \in DOMAIN characteristics : IsNext(n) /\ launch(Work(n), n, busy, d)
  <2>1. PICK n \in 1..Len(characteristics) : launch(Work(n), n, busy, d)
    BY <1>1 DEF TypeInv, DemoTypeOK
  <2> QED
    BY <2>1, WorkTyped, LaunchTyped
<1>2. CASE /\ it' = 0 /\ op' = busy /\ descriptor_handle' = d
           /\ outcome' = Ended("processed") /\ UNCHANGED <<cleanVars, handlerVars>>
  <2>2. outcome' \in Outcomes
    BY <1>2 DEF Ended, Outcomes, TypeInv, DemoTypeOK
  <2>3. it' \in 0..Len(characteristics')
    BY <1>2 DEF cleanVars, TypeInv, DemoTypeOK
  <2> QED
    BY <1>2, <2>2, <2>3 DEF TypeInv, DemoTypeOK, cleanVars, handlerVars, Op, Node, Chars
<1> QED
  BY <1>1, <1>2 DEF process_next_characteristic

LEMMA ProcessNextThenStopTyped ==
    ASSUME TypeInv, UNCHANGED server, NEW k \in Nat, process_next_then_stop(k)
    PROVE  DemoTypeOK'
<1>1. CASE op' = NoOp /\ stop(k)
  BY <1>1, StopTyped, NoOpTyped
<1>2. CASE op' = NoOp /\ stop(k + 1)
  BY <1>2, StopTyped, NoOpTyped, k + 1 \in Nat
<1>3. CASE \E n \in 1..Len(characteristics) : op' = Work(n) /\ stop(k)
  BY <1>3, WorkTyped, StopTyped
<1>4. DOMAIN characteristics = 1..Len(characteristics)
  BY DEF TypeInv, DemoTypeOK
<1> QED
  BY <1>1, <1>2, <1>3, <1>4 DEF process_next_then_stop
-----------------------------------------------------------------------------
(* The step lemma of the type invariant: one case per action.              *)
LEMMA TypeInvInit == Init => TypeInv
<1> SUFFICES ASSUME Init PROVE TypeInv
  OBVIOUS
<1>1. Len(server) \in Nat /\ 0 \in 0..Len(server)
  BY LayoutsAssumption DEF Init
<1>2. NoOp \in Op
  BY <1>1 DEF NoOp, Op, Kinds
<1>3. characteristics \in Seq(Node) /\ it \in 0..Len(characteristics)
  BY DEF Init
<1>4. DemoTypeOK
  BY <1>1, <1>2, <1>3 DEF Init, DemoTypeOK, Outcomes
<1>5. answeredWrites \in [Chars -> 0..3] /\ answeredReads \subseteq Chars
  BY DEF Init
<1>6. RestTypeOK
  BY <1>5 DEF Init, RestTypeOK
<1> QED
  BY <1>4, <1>6 DEF TypeInv

LEMMA TypeInvStep == TypeInv /\ [Next]_vars => TypeInv'
<1> SUFFICES ASSUME TypeInv, [Next]_vars PROVE TypeInv'
  OBVIOUS
<1> USE DEF TypeInv
<1>0. Len(server) \in Nat /\ 0 \in 0..Len(server) /\ NoOp \in Op
  BY ServerType, NoOpTyped
<1>1. ASSUME NEW h \in Handles, start_discovery(h) PROVE TypeInv'
  <2>1. op' \in Op /\ outcome' \in Outcomes
    BY <1>0, <1>1 DEF start_discovery, Op, Kinds, NoOp, Outcomes
  <2>2. RestTypeOK'
    BY <1>1 DEF start_discovery, RestTypeOK, Chars
  <2> QED
    BY <1>0, <1>1, <2>1, <2>2 DEF start_discovery, DemoTypeOK, Op, Node, Chars
<1>2. ASSUME when_characteristic_discovered PROVE TypeInv'
  <2>1. RestTypeOK'
    BY <1>2 DEF when_characteristic_discovered, RestTypeOK, peerVars, answerVars, Chars
  <2>2. CASE op' = NoOp /\ stop(1)
    BY <1>0, <1>2, <2>1, <2>2, StopTyped DEF when_characteristic_discovered, peerVars
  <2>3. CASE /\ characteristics' = Append(characteristics, [char |-> op.char + 1, conn |-> link])
             /\ op' = [op EXCEPT !.char = @ + 1]
             /\ UNCHANGED <<connection_handle, handlerVars, it, descriptor_handle, queued, outcome>>
    <3>1. op.kind = "discovery" /\ op.char + 1 \in Chars /\ link \in Handles
      BY <1>0, <1>2 DEF when_characteristic_discovered, RestTypeOK, DemoTypeOK, Op, Chars
    <3>2. /\ characteristics' \in Seq(Node)
          /\ Len(characteristics') = Len(characteristics) + 1
      BY <2>3, <3>1 DEF DemoTypeOK, Node
    <3>3. op' \in Op
      <4>1. op \in [kind : Kinds, char : 0..Len(server), val : 0..3]
        BY DEF DemoTypeOK, Op
      <4>2. op.char + 1 \in 0..Len(server)
        BY <1>0, <3>1 DEF Chars
      <4> QED
        BY <2>3, <3>1, <4>1, <4>2 DEF Op
    <3>4. it' \in 0..Len(characteristics')
      BY <2>3, <3>2 DEF DemoTypeOK
    <3> QED
      BY <1>2, <2>1, <2>3, <3>2, <3>3, <3>4
      DEF when_characteristic_discovered, DemoTypeOK, handlerVars, peerVars, Op, Node, Chars
  <2> QED
    BY <1>2, <2>2, <2>3 DEF when_characteristic_discovered
<1>3. ASSUME when_service_discovery_ends PROVE TypeInv'
  <2>1. RestTypeOK'
    BY <1>3 DEF when_service_discovery_ends, RestTypeOK, peerVars, answerVars, Chars
  <2>2. outcome' \in Outcomes
    BY <1>3 DEF when_service_discovery_ends, DemoTypeOK, Ended, Outcomes
  <2>3. it' \in 0..Len(characteristics')
    BY <1>3 DEF when_service_discovery_ends, DemoTypeOK, cleanVars
  <2> QED
    BY <1>0, <1>3, <2>1, <2>2, <2>3
    DEF when_service_discovery_ends, DemoTypeOK, cleanVars, handlerVars, peerVars, Op, Node, Chars
<1>4. ASSUME dispatch PROVE TypeInv'
  <2>1. RestTypeOK'
    BY <1>4 DEF dispatch, RestTypeOK, peerVars, answerVars, Chars
  <2>2. op \in Op /\ descriptor_handle \in 0..Len(server) /\ UNCHANGED server
    BY <1>4 DEF dispatch, DemoTypeOK, peerVars
  <2> QED
    BY <1>4, <2>1, <2>2, ProcessNextTyped DEF dispatch
<1>5. ASSUME Crash PROVE TypeInv'
  BY <1>5 DEF Crash, DemoTypeOK, RestTypeOK, peerVars, cleanVars, handlerVars, answerVars,
              Op, Node, Chars
<1>6. ASSUME when_characteristic_read, it # 0 PROVE TypeInv'
  <2>1. it \in 1..Len(characteristics) /\ descriptor_handle \in 0..Len(server)
    BY <1>6 DEF DemoTypeOK
  <2>2. /\ answeredReads' = IF link # 0 THEN answeredReads \union {op.char} ELSE answeredReads
        /\ UNCHANGED <<peerVars, answeredWrites, queued, crashed, unsolicited>>
        /\ \/ launch([NoOp EXCEPT !.kind = "descriptors", !.char = characteristics[it].char],
                      it, NoOp, descriptor_handle)
           \/ process_next_characteristic(NoOp, descriptor_handle)
    BY <1>6 DEF when_characteristic_read
  <2>3. op.char \in Chars
    BY <1>6 DEF DemoTypeOK, Op, when_characteristic_read
  <2>4. [NoOp EXCEPT !.kind = "descriptors", !.char = characteristics[it].char] \in Op
    BY <1>0, <2>1, NodeTyped DEF NoOp, Op, Kinds
  <2>5. DemoTypeOK'
    BY <1>0, <2>1, <2>2, <2>4, LaunchTyped, ProcessNextTyped DEF peerVars
  <2> QED
    BY <2>2, <2>3, <2>5 DEF RestTypeOK, peerVars, Chars
<1>7. ASSUME when_descriptor_discovered PROVE TypeInv'
  <2>1. op.kind = "descriptors" /\ op.char \in Chars /\ op.char \in 0..Len(server)
    BY <1>7 DEF when_descriptor_discovered, DemoTypeOK, Op
  <2>2. op' \in Op
    BY <1>7, <2>1 DEF when_descriptor_discovered, DemoTypeOK, Op, Kinds
  <2> QED
    BY <1>7, <2>1, <2>2 DEF when_descriptor_discovered, DemoTypeOK, RestTypeOK, peerVars,
                            cleanVars, handlerVars, answerVars, Op, Node, Chars
<1>8. ASSUME UNCHANGED server, it # 0, descriptor_handle # 0, write_cccd PROVE DemoTypeOK'
  <2>1. it \in 1..Len(characteristics) /\ descriptor_handle \in Chars
    BY <1>0, <1>8 DEF DemoTypeOK, Chars
  <2>2. CASE op' = NoOp /\ stop(1)
    BY <1>0, <1>8, <2>2, StopTyped
  <2>3. CASE /\ op' = [kind |-> "write", char |-> descriptor_handle,
                       val |-> CccdValue(characteristics[it].char)]
             /\ UNCHANGED <<cleanVars, handlerVars, it, descriptor_handle, outcome>>
    <3>1. op' \in Op
      BY <1>0, <2>1, <2>3, CccdValueType DEF Op, Kinds, Chars
    <3> QED
      BY <1>8, <2>3, <3>1 DEF DemoTypeOK, cleanVars, handlerVars, Op, Node, Chars
  <2> QED
    BY <1>8, <2>2, <2>3 DEF write_cccd
<1>9. ASSUME when_descriptor_discovery_ends, ~(descriptor_handle # 0 /\ it = 0) PROVE TypeInv'
  <2>1. /\ UNCHANGED <<peerVars, answerVars, queued, crashed, unsolicited>>
        /\ \/ process_next_characteristic(NoOp, descriptor_handle)
           \/ it # 0 /\ descriptor_handle # 0 /\ write_cccd
    BY <1>9 DEF when_descriptor_discovery_ends
  <2>2. descriptor_handle \in 0..Len(server) /\ UNCHANGED server
    BY <2>1 DEF DemoTypeOK, peerVars
  <2>3. DemoTypeOK'
    BY <1>0, <1>8, <2>1, <2>2, ProcessNextTyped
  <2> QED
    BY <2>1, <2>3 DEF RestTypeOK, peerVars, answerVars, Chars
<1>10. ASSUME when_descriptor_written PROVE TypeInv'
  <2>1. op.val \in 0..3 /\ UNCHANGED <<peerVars, answeredReads, queued, crashed>>
    BY <1>10 DEF when_descriptor_written, DemoTypeOK, Op
  <2>2. answeredWrites' \in [Chars -> 0..3]
    BY <1>10, <2>1 DEF when_descriptor_written, RestTypeOK
  <2>3. unsolicited' \in BOOLEAN
    BY <1>10 DEF when_descriptor_written, RestTypeOK
  <2>4. dataWritten \in Nat /\ UNCHANGED server
    BY <2>1 DEF DemoTypeOK, peerVars
  <2>5. DemoTypeOK'
    <3>1. CASE op' = NoOp /\ UNCHANGED <<cleanVars, handlerVars, it, descriptor_handle, outcome>>
      BY <1>0, <2>4, <3>1 DEF DemoTypeOK, cleanVars, handlerVars, Op, Node, Chars
    <3>2. CASE op' = NoOp /\ stop(dataWritten)
      BY <1>0, <2>4, <3>2, StopTyped
    <3>3. CASE process_next_characteristic(NoOp, 0)
      BY <1>0, <2>4, <3>3, ProcessNextTyped
    <3>4. CASE dataWritten > 1 /\ process_next_then_stop(dataWritten - 1)
      <4>1. dataWritten - 1 \in Nat
        BY <2>4, <3>4
      <4> QED
        BY <2>4, <3>4, <4>1, ProcessNextThenStopTyped
    <3> QED
      BY <1>10, <3>1, <3>2, <3>3, <3>4 DEF when_descriptor_written
  <2> QED
    BY <2>1, <2>2, <2>3, <2>5 DEF RestTypeOK, peerVars, Chars
<1>11. ASSUME Disconnect PROVE TypeInv'
  <2>1. outcome' \in Outcomes /\ op' \in Op
    BY <1>0, <1>11 DEF Disconnect, DemoTypeOK, Ended, Outcomes
  <2> QED
    BY <1>11, <2>1 DEF Disconnect, DemoTypeOK, RestTypeOK, cleanVars, handlerVars, answerVars,
                       Op, Node, Chars
<1>12. CASE UNCHANGED vars
  BY <1>12 DEF vars, DemoTypeOK, RestTypeOK, peerVars, cleanVars, handlerVars, answerVars,
               Op, Node, Chars
<1> QED
  BY <1>1, <1>2, <1>3, <1>4, <1>5, <1>6, <1>7, <1>9, <1>10, <1>11, <1>12
  DEF Next, Progress, when_characteristic_read, when_descriptor_discovery_ends

(* The members of the demo keep their types, whatever the number of        *)
(* connections and however the stack refuses or aborts.                    *)
THEOREM TypeCorrect == Spec => [](TypeOK /\ IteratorLive)
<1>1. TypeInv => TypeOK /\ IteratorLive
  BY DEF TypeInv, DemoTypeOK, RestTypeOK, TypeOK, IteratorLive, Op, Node
<1> QED
  BY <1>1, TypeInvInit, TypeInvStep, PTL DEF Spec

-----------------------------------------------------------------------------
(* The inductive invariant of one connection.                              *)
Untouched(c) == c \notin answeredReads /\ answeredWrites[c] = 0

(* Before the first connection nothing has happened.                       *)
IdleInv ==
    /\ link = 0 /\ op = NoOp /\ queued = 0 /\ outcome = "idle"
    /\ characteristics = <<>> /\ it = 0 /\ descriptor_handle = 0 /\ dataWritten = 0
    /\ answeredReads = {} /\ answeredWrites = [c \in Chars |-> 0]

(* The list is a prefix of the server, all of it once discovery has ended. *)
ListInv ==
    /\ Len(characteristics) <= Len(server)
    /\ \A n \in 1..Len(characteristics) : characteristics[n].char = n
    /\ op.kind = "discovery" /\ link # 0 => op.char = Len(characteristics)
    /\ outcome = "running" /\ op.kind # "discovery" => Len(characteristics) = Len(server)

(* Which chain of callbacks is alive: at most one procedure or one posted  *)
(* call, and one registration while a procedure is in flight.              *)
ChainInv ==
    /\ ~crashed /\ ~unsolicited
    /\ dataWritten <= 1
    /\ op # NoOp => dataWritten = 1 /\ queued = 0
    /\ characteristics # <<>> => dataWritten = 1
    /\ op.kind = "discovery" => terminationHandler
    /\ op.kind = "none" => op = NoOp
    /\ queued > 0 => queued = 1 /\ it = 0 /\ descriptor_handle = 0
    /\ link # 0 /\ op # NoOp => outcome = "running"
    /\ link # 0 /\ queued > 0 => outcome = "running" \/ characteristics = <<>>
    /\ outcome = "running" => link # 0 /\ (op # NoOp \/ queued > 0)

(* What a procedure in flight says of the members.                         *)
ProcedureInv ==
    /\ op.kind = "discovery" => it = 0 /\ descriptor_handle = 0
    /\ op.kind \in {"read", "descriptors", "ending", "write"} =>
          it # 0 /\ it = op.char /\ answeredWrites[it] = 0
    /\ op.kind = "read" => server[it].read /\ it \notin answeredReads
    /\ op.kind \in {"read", "descriptors"} => descriptor_handle = 0
    /\ op.kind \in {"descriptors", "ending", "write"} =>
          Emits(it) /\ (link # 0 => Survey!WasRead(it))
    /\ op.kind \in {"ending", "write"} => server[it].hasCccd /\ descriptor_handle = it
    /\ op.kind = "write" => op.val = CccdValue(it)

(* How far the survey got: everything before _it is served, nothing after. *)
OrderInv ==
    /\ outcome = "running" =>
          /\ \A c \in Chars : c < it => Survey!Served(c)
          /\ \A c \in Chars : c > it => Untouched(c)
    /\ outcome = "processed" => op = NoOp /\ queued = 0

SurveyInv ==
    connections < 2 =>
        /\ IF connections = 0 THEN IdleInv ELSE outcome # "idle"
        /\ ListInv
        /\ ChainInv
        /\ ProcedureInv
        /\ OrderInv

SurveyParts == ListInv /\ ChainInv /\ ProcedureInv /\ OrderInv

LEMMA SurveyInvInit == Init => SurveyInv
<1> SUFFICES ASSUME Init PROVE IdleInv /\ SurveyParts
  BY DEF SurveyInv, SurveyParts, Init
<1>1. Len(server) \in Nat
  BY LayoutsAssumption DEF Init
<1>2. IdleInv
  BY DEF Init, IdleInv
<1>3. ListInv
  BY <1>1 DEF Init, ListInv, NoOp
<1>4. ChainInv /\ ProcedureInv /\ OrderInv
  BY DEF Init, ChainInv, ProcedureInv, OrderInv, NoOp
<1> QED
  BY <1>2, <1>3, <1>4 DEF SurveyParts

(* A characteristic with nothing to do is served if a step leaves it       *)
(* untouched.                                                              *)
LEMMA NothingToServe ==
    ASSUME TypeInv, UNCHANGED server, NEW c \in Chars,
           ~server[c].read, ~Emits(c), Untouched(c)'
    PROVE  Survey!Served(c)'
<1>1. server[c] \in Characteristic
  BY ServerType DEF TypeInv
<1> QED
  BY <1>1 DEF Untouched, Survey!Served, Survey!WasRead, Survey!Wanted, Emits, Characteristic

(* Once stop() has run with no procedure left, the invariant holds: the    *)
(* chain of callbacks is dead.                                             *)
LEMMA StopSafe ==
    ASSUME TypeInv, ChainInv, stop(1), op' = NoOp, queued' \in {0, 1},
           ~crashed', ~unsolicited', UNCHANGED server, outcome # "processed"
    PROVE  SurveyParts'
<1>1. /\ characteristics' = <<>> /\ it' = 0 /\ descriptor_handle' = 0 /\ dataWritten' = 0
      /\ outcome' = Ended("stopped")
  BY DEF stop, ChainInv, TypeInv, DemoTypeOK
<1>2. outcome' # "running" /\ outcome' # "processed"
  BY <1>1 DEF Ended
<1>3. op'.kind = "none" /\ Len(server') \in Nat
  BY ServerType DEF TypeInv, NoOp
<1>4. ListInv'
  BY <1>1, <1>2, <1>3 DEF ListInv
<1>5. ChainInv'
  BY <1>1, <1>2, <1>3 DEF ChainInv, NoOp
<1>6. ProcedureInv' /\ OrderInv'
  BY <1>2, <1>3 DEF ProcedureInv, OrderInv
<1> QED
  BY <1>4, <1>5, <1>6 DEF SurveyParts

(* Where a handler stands when it moves on: the list is whole, everything  *)
(* up to _it is served, nothing after it is touched.                       *)
Advancing ==
    /\ link # 0 /\ characteristics # <<>> => outcome = "running"
    /\ outcome # "processed"
    /\ outcome = "running" =>
          /\ link # 0
          /\ Len(characteristics) = Len(server)
          /\ \A c \in Chars : c <= it => Survey!Served(c)'
          /\ \A c \in Chars : c > it => Untouched(c)'

(* Moving on keeps the invariant, and processes the survey only when every *)
(* characteristic is served.                                               *)
LEMMA ProcessNextSafe ==
    ASSUME TypeInv, ListInv, ChainInv, Advancing,
           TypeInv', UNCHANGED peerVars, queued' = 0, ~crashed', ~unsolicited',
           process_next_characteristic(NoOp, 0)
    PROVE  /\ SurveyParts'
           /\ outcome' \in {outcome, "processed", "stopped"}
           /\ outcome' # outcome => outcome = "running"
           /\ outcome' = "processed" => \A c \in Chars : Survey!Served(c)'
<1>0. /\ UNCHANGED <<server, link>> /\ Len(server) \in Nat
      /\ DOMAIN characteristics = 1..Len(characteristics)
      /\ it \in 0..Len(characteristics) /\ Len(characteristics) \in Nat
  BY ServerType DEF peerVars, TypeInv, DemoTypeOK
<1>1. CASE op' = NoOp /\ stop(1)
  <2>1. SurveyParts'
    BY <1>0, <1>1, StopSafe DEF Advancing
  <2>2. outcome' = Ended("stopped")
    BY <1>1 DEF stop
  <2> QED
    BY <2>1, <2>2 DEF Ended, Advancing
<1>2. CASE /\ WorkAfter(it) = {} /\ it' = 0 /\ op' = NoOp /\ descriptor_handle' = 0
           /\ outcome' = Ended("processed") /\ UNCHANGED <<cleanVars, handlerVars>>
  <2>1. /\ op'.kind = "none" /\ outcome' # "running"
    BY <1>2 DEF NoOp, Ended
  <2>2. ListInv'
    BY <1>0, <1>2, <2>1 DEF ListInv, cleanVars
  <2>3. ChainInv'
    BY <1>2, <2>1 DEF ChainInv, cleanVars, handlerVars, NoOp
  <2>4. ProcedureInv' /\ OrderInv'
    BY <1>2, <2>1 DEF ProcedureInv, OrderInv
  <2>5. ASSUME outcome = "running", NEW c \in Chars PROVE Survey!Served(c)'
    <3>1. CASE c <= it
      BY <2>5, <3>1 DEF Advancing
    <3>2. CASE c > it
      <4>1. c \in DOMAIN characteristics /\ characteristics[c].char = c /\ c \in Nat
        BY <1>0, <2>5 DEF Advancing, ListInv, Chars
      <4>2. ~server[c].read /\ ~Emits(c)
        BY <1>2, <3>2, <4>1 DEF WorkAfter
      <4>3. Untouched(c)'
        BY <2>5, <3>2 DEF Advancing
      <4> QED
        BY <1>0, <4>2, <4>3, NothingToServe
    <3> QED
      BY <1>0, <3>1, <3>2 DEF Chars
  <2>6. outcome' \in {outcome, "processed"} /\ (outcome' # outcome => outcome = "running")
    BY <1>2 DEF Ended
  <2> QED
    BY <2>2, <2>3, <2>4, <2>5, <2>6 DEF SurveyParts, Advancing
<1>3. ASSUME NEW n \in DOMAIN characteristics, IsNext(n), Accepts(NoOp, characteristics[n].conn),
             op' = Work(n), it' = n, descriptor_handle' = 0,
             UNCHANGED <<cleanVars, handlerVars, outcome>>
      PROVE  SurveyParts'
  <2>1. link # 0 /\ characteristics # <<>> /\ outcome = "running"
    BY <1>0, <1>3 DEF Accepts, Advancing
  <2>2. /\ n \in Chars /\ n \in Nat /\ n # 0 /\ n > it /\ characteristics[n].char = n
        /\ server[n].read \/ Emits(n)
    BY <1>0, <1>3, <2>1 DEF IsNext, WorkAfter, ListInv, Advancing, Chars
  <2>3. /\ op'.kind = IF server[n].read THEN "read" ELSE "descriptors"
        /\ op'.char = n /\ op' # NoOp
    BY <1>3, <2>2 DEF Work, NoOp
  <2>4. ListInv'
    BY <1>0, <1>3, <2>1, <2>3 DEF ListInv, cleanVars, Advancing
  <2>5. ChainInv'
    BY <1>0, <1>3, <2>1, <2>3 DEF ChainInv, cleanVars, handlerVars
  <2>6. Untouched(n)'
    BY <2>1, <2>2 DEF Advancing
  <2>7. ProcedureInv'
    BY <1>0, <1>3, <2>2, <2>3, <2>6
    DEF ProcedureInv, Untouched, Emits, Survey!WasRead
  <2>8. OrderInv'
    <3>1. ASSUME NEW c \in Chars, c < n PROVE Survey!Served(c)'
      <4>1. CASE c <= it
        BY <2>1, <4>1 DEF Advancing
      <4>2. CASE c > it
        <5>1. c \in DOMAIN characteristics /\ characteristics[c].char = c /\ c \in Nat
          BY <1>0, <2>1 DEF Advancing, ListInv, Chars
        <5>2. c \notin WorkAfter(it)
          BY <1>3, <2>2, <3>1, <5>1 DEF IsNext
        <5>3. ~server[c].read /\ ~Emits(c)
          BY <4>2, <5>1, <5>2 DEF WorkAfter
        <5>4. Untouched(c)'
          BY <2>1, <4>2 DEF Advancing
        <5> QED
          BY <1>0, <5>3, <5>4, NothingToServe
      <4> QED
        BY <1>0, <4>1, <4>2 DEF Chars
    <3>2. ASSUME NEW c \in Chars, c > n PROVE Untouched(c)'
      <4>1. c > it
        BY <1>0, <2>2, <3>2 DEF Chars
      <4> QED
        BY <2>1, <4>1 DEF Advancing
    <3>3. Chars' = Chars
      BY <1>0 DEF Chars
    <3> QED
      BY <1>3, <2>1, <3>1, <3>2, <3>3 DEF OrderInv
  <2> QED
    BY <2>4, <2>5, <2>7, <2>8 DEF SurveyParts
<1>4. ASSUME NEW n \in DOMAIN characteristics, IsNext(n), launch(Work(n), n, NoOp, 0)
      PROVE  \/ op' = NoOp /\ stop(1)
             \/ /\ Accepts(NoOp, characteristics[n].conn)
                /\ op' = Work(n) /\ it' = n /\ descriptor_handle' = 0
                /\ UNCHANGED <<cleanVars, handlerVars, outcome>>
  BY <1>4 DEF launch
<1> QED
  BY <1>1, <1>2, <1>3, <1>4 DEF process_next_characteristic, Advancing

(* A step of a running survey that serves at most one characteristic is a  *)
(* step of the abstract survey; one that changes nothing of it stutters.   *)
AbstractStep == Survey!Next \/ UNCHANGED Survey!vars

LEMMA ServeStep ==
    ASSUME outcome = "running", outcome' # "idle", UNCHANGED server,
           \/ UNCHANGED answerVars
           \/ \E c \in Chars : Survey!Read(c) \/ Survey!Subscribe(c),
           outcome' = "processed" => \A c \in Chars : Survey!Served(c)'
    PROVE  AbstractStep
<1>1. \/ UNCHANGED <<server, answeredReads, answeredWrites>>
      \/ \E c \in Survey!Chars : Survey!Read(c) \/ Survey!Subscribe(c)
  BY DEF answerVars, Chars, Survey!Chars
<1>2. Survey!MayEnd
  BY DEF Survey!MayEnd, Survey!Chars, Chars, Outcomes
<1> QED
  BY <1>1, <1>2 DEF AbstractStep, Survey!Next, Survey!Serve

LEMMA StutterStep ==
    ASSUME UNCHANGED <<server, answerVars, outcome>>
    PROVE  AbstractStep
  BY DEF AbstractStep, Survey!vars, answerVars

(* A step that leaves the answers alone and ends the survey at most.       *)
LEMMA EndStep ==
    ASSUME UNCHANGED <<server, answerVars>>, outcome # "idle",
           outcome' # outcome => outcome = "running" /\ outcome' # "idle",
           outcome' = "processed" /\ outcome = "running" => \A c \in Chars : Survey!Served(c)'
    PROVE  AbstractStep
<1>1. CASE outcome = "running"
  BY <1>1, ServeStep
<1>2. CASE outcome # "running"
  BY <1>2, StutterStep
<1> QED
  BY <1>1, <1>2

LEMMA StartStep ==
    ASSUME TypeInv, TypeInv', IdleInv, ~crashed, ~unsolicited,
           NEW h \in Handles, start_discovery(h)
    PROVE  SurveyParts' /\ outcome' # "idle" /\ AbstractStep
<1>1. Len(server) \in Nat /\ h # 0 /\ server' = server /\ Chars' = Chars
  BY ServerType, HandlesAssumption DEF TypeInv, start_discovery, Chars
<1>2. /\ link' = h /\ dataWritten' = 1 /\ queued' = 0 /\ terminationHandler'
      /\ characteristics' = <<>> /\ it' = 0 /\ descriptor_handle' = 0
      /\ answeredReads' = {} /\ answeredWrites' = [c \in Chars |-> 0]
      /\ ~crashed' /\ ~unsolicited'
  BY DEF start_discovery, IdleInv
<1>3. /\ op'.kind \in {"none", "discovery"} /\ op'.char = 0
      /\ op'.kind = "none" => op' = NoOp /\ outcome' = "failed"
      /\ op'.kind = "discovery" => op' # NoOp /\ outcome' = "running"
  BY DEF start_discovery, NoOp
<1>4. ListInv'
  BY <1>1, <1>2, <1>3 DEF ListInv
<1>5. ChainInv'
  BY <1>1, <1>2, <1>3 DEF ChainInv, NoOp
<1>6. ProcedureInv' /\ OrderInv'
  BY <1>1, <1>2, <1>3 DEF ProcedureInv, OrderInv, Untouched, Chars
<1>7. AbstractStep
  BY <1>1, <1>2, <1>3 DEF AbstractStep, Survey!Next, Survey!Begin, IdleInv
<1> QED
  BY <1>3, <1>4, <1>5, <1>6, <1>7 DEF SurveyParts

(* Every other step, from a state of the one connection.                   *)
LEMMA ConnectedStep ==
    ASSUME TypeInv, TypeInv', SurveyParts, outcome # "idle", ~crashed, Progress \/ Disconnect
    PROVE  SurveyParts' /\ outcome' # "idle" /\ AbstractStep
<1>0. /\ ListInv /\ ChainInv /\ ProcedureInv /\ OrderInv /\ ~unsolicited
      /\ Len(server) \in Nat /\ Len(characteristics) \in Nat
      /\ it \in 0..Len(characteristics) /\ queued \in Nat
      /\ DOMAIN characteristics = 1..Len(characteristics)
  BY ServerType DEF SurveyParts, ChainInv, TypeInv, DemoTypeOK, RestTypeOK
<1>1. ASSUME when_characteristic_discovered PROVE SurveyParts' /\ outcome' # "idle" /\ AbstractStep
  <2>1. /\ op.kind = "discovery" /\ link # 0 /\ op # NoOp /\ outcome = "running" /\ queued = 0
        /\ op.char = Len(characteristics) /\ op.char < Len(server)
        /\ UNCHANGED <<server, link, answerVars, crashed, unsolicited>>
    BY <1>0, <1>1 DEF when_characteristic_discovered, NoOp, ChainInv, ListInv, peerVars
  <2>2. CASE op' = NoOp /\ queued' \in {0, 1} /\ stop(1)
    <3>1. SurveyParts'
      BY <1>0, <2>1, <2>2, StopSafe
    <3>2. outcome' = "stopped"
      BY <2>1, <2>2 DEF stop, Ended
    <3> QED
      BY <2>1, <3>1, <3>2, EndStep
  <2>3. CASE /\ characteristics' = Append(characteristics, [char |-> op.char + 1, conn |-> link])
             /\ op' = [op EXCEPT !.char = @ + 1]
             /\ UNCHANGED <<connection_handle, handlerVars, it, descriptor_handle, queued, outcome>>
    <3>1. /\ op'.kind = "discovery" /\ op'.char = op.char + 1 /\ op' # NoOp
          /\ it = 0 /\ descriptor_handle = 0
      BY <1>0, <2>1, <2>3 DEF TypeInv, DemoTypeOK, Op, NoOp, ProcedureInv
    <3>2. /\ characteristics' # <<>> /\ Len(characteristics') = Len(characteristics) + 1
          /\ \A n \in 1..Len(characteristics') : characteristics'[n].char = n
      BY <1>0, <2>1, <2>3 DEF ListInv, TypeInv, DemoTypeOK
    <3>3. ListInv'
      BY <1>0, <2>1, <2>3, <3>1, <3>2 DEF ListInv
    <3>4. ChainInv'
      BY <1>0, <2>1, <2>3, <3>1, <3>2 DEF ChainInv, handlerVars
    <3>5. ProcedureInv'
      BY <2>3, <3>1 DEF ProcedureInv
    <3>6. OrderInv'
      BY <1>0, <2>1, <2>3, <3>1 DEF OrderInv, Untouched, Survey!Served, Survey!WasRead,
                                    Survey!Wanted, answerVars, Chars
    <3> QED
      BY <2>1, <2>3, <3>3, <3>4, <3>5, <3>6, StutterStep DEF SurveyParts
  <2> QED
    BY <1>1, <2>1, <2>2, <2>3 DEF when_characteristic_discovered
<1>2. ASSUME when_service_discovery_ends PROVE SurveyParts' /\ outcome' # "idle" /\ AbstractStep
  <2>1. /\ op.kind = "discovery" /\ op # NoOp /\ terminationHandler /\ queued = 0
        /\ it = 0 /\ descriptor_handle = 0 /\ dataWritten = 1
        /\ link # 0 => outcome = "running" /\ Len(characteristics) = Len(server)
        /\ outcome = "running" => link # 0
        /\ outcome # "processed"
        /\ op' = NoOp /\ op'.kind = "none"
        /\ UNCHANGED <<server, link, cleanVars, handlerVars, answerVars, crashed,
                      unsolicited, descriptor_handle>>
    BY <1>0, <1>2 DEF when_service_discovery_ends, NoOp, ChainInv, ListInv, ProcedureInv,
                      OrderInv, peerVars
  <2>2. \/ it' = 0 /\ queued' = 1 /\ UNCHANGED outcome
        \/ it' = 0 /\ queued' = 0 /\ outcome' = Ended("failed")
        \/ it' = 0 /\ queued' = 0 /\ outcome' = Ended("processed") /\ characteristics = <<>>
    BY <1>2, <2>1 DEF when_service_discovery_ends
  <2>3. ListInv'
    BY <1>0, <2>1, <2>2 DEF ListInv, cleanVars, Ended
  <2>4. ChainInv'
    BY <1>0, <2>1, <2>2 DEF ChainInv, cleanVars, handlerVars, Ended
  <2>5. ProcedureInv'
    BY <2>1 DEF ProcedureInv
  <2>6. OrderInv'
    BY <1>0, <2>1, <2>2 DEF OrderInv, Untouched, Survey!Served, Survey!WasRead,
                            Survey!Wanted, answerVars, Chars, Ended
  <2>7. outcome' = "processed" => outcome = "running" /\ characteristics = <<>>
    BY <2>1, <2>2 DEF Ended
  <2>8. outcome' = "processed" => Chars = {}
    BY <1>0, <2>1, <2>7 DEF Chars
  <2>9. outcome' # outcome => outcome = "running" /\ outcome' # "idle"
    BY <2>2 DEF Ended
  <2> QED
    BY <2>1, <2>3, <2>4, <2>5, <2>6, <2>8, <2>9, EndStep DEF SurveyParts
<1>3. ASSUME dispatch PROVE SurveyParts' /\ outcome' # "idle" /\ AbstractStep
  <2>1. /\ op = NoOp /\ queued = 1 /\ queued' = 0 /\ it = 0 /\ descriptor_handle = 0
        /\ UNCHANGED <<peerVars, answerVars, crashed, unsolicited>>
        /\ UNCHANGED <<server, link>>
        /\ process_next_characteristic(NoOp, 0)
    BY <1>0, <1>3 DEF dispatch, ChainInv, peerVars
  <2>2. Advancing
    <3>1. op.kind # "discovery"
      BY <2>1 DEF NoOp
    <3>2. \A c \in Chars : c > 0 /\ ~(c <= 0)
      BY <1>0 DEF Chars
    <3> QED
      BY <1>0, <2>1, <3>1, <3>2 DEF Advancing, ChainInv, ListInv, OrderInv, Untouched, answerVars
  <2>3. /\ SurveyParts'
        /\ outcome' \in {outcome, "processed", "stopped"}
        /\ outcome' # outcome => outcome = "running"
        /\ outcome' = "processed" => \A c \in Chars : Survey!Served(c)'
    BY <1>0, <2>1, <2>2, ProcessNextSafe
  <2> QED
    BY <2>1, <2>3, EndStep
<1>4. ASSUME when_characteristic_read PROVE SurveyParts' /\ outcome' # "idle" /\ AbstractStep
  <2>1. /\ op.kind = "read" /\ op # NoOp /\ queued = 0 /\ it # 0 /\ op.char = it
        /\ descriptor_handle = 0 /\ outcome # "processed" /\ dataWritten = 1
        /\ server[it].read /\ it \notin answeredReads /\ answeredWrites[it] = 0
        /\ it \in Chars /\ characteristics[it].char = it
        /\ outcome = "running" => Len(characteristics) = Len(server)
        /\ link # 0 <=> outcome = "running"
    BY <1>0, <1>4 DEF when_characteristic_read, NoOp, ChainInv, ListInv, ProcedureInv, OrderInv, Chars
  <2>2. /\ answeredReads' = IF link # 0 THEN answeredReads \union {it} ELSE answeredReads
        /\ UNCHANGED <<peerVars, server, link, answeredWrites, queued, crashed, unsolicited>>
        /\ IF Emits(it)
           THEN launch([NoOp EXCEPT !.kind = "descriptors", !.char = it], it, NoOp, 0)
           ELSE process_next_characteristic(NoOp, 0)
    BY <1>4, <2>1 DEF when_characteristic_read, peerVars
  <2> PICK i \in Chars : i = it
    BY <2>1
  <2>3. outcome = "running" =>
           /\ \A c \in Chars : c < it => Survey!Served(c)'
           /\ \A c \in Chars : c > it => Untouched(c)'
           /\ Survey!WasRead(i)'
    BY <1>0, <2>1, <2>2 DEF OrderInv, Untouched, Survey!Served, Survey!WasRead, Survey!Wanted, Chars
  <2>4. outcome = "running" => \E c \in Chars : Survey!Read(c)
    BY <1>0, <2>1, <2>2 DEF OrderInv, Survey!Read, Chars
  <2>5. outcome # "running" => UNCHANGED answerVars
    BY <2>1, <2>2 DEF answerVars
  <2>6. CASE ~Emits(it)
    <3>1. outcome = "running" => Survey!Served(i)'
      <4>1. server[it] \in Characteristic
        BY <2>1, ServerType DEF TypeInv
      <4> QED
        BY <2>1, <2>2, <2>3, <2>6, <4>1 DEF Survey!Served, Survey!Wanted, Emits, Characteristic
    <3>2. Advancing
      BY <1>0, <2>1, <2>3, <3>1 DEF Advancing, Chars
    <3>3. /\ SurveyParts'
          /\ outcome' \in {outcome, "processed", "stopped"}
          /\ outcome' # outcome => outcome = "running"
          /\ outcome' = "processed" => \A c \in Chars : Survey!Served(c)'
      BY <1>0, <2>1, <2>2, <2>6, <3>2, ProcessNextSafe
    <3>4. CASE outcome = "running"
      BY <2>2, <2>4, <3>3, <3>4, ServeStep
    <3>5. CASE outcome # "running"
      BY <2>2, <2>5, <3>3, <3>5, StutterStep
    <3> QED
      BY <3>3, <3>4, <3>5
  <2>7. CASE Emits(it) /\ op' = NoOp /\ stop(1)
    <3>1. SurveyParts'
      BY <1>0, <2>1, <2>2, <2>7, StopSafe
    <3>2. outcome' = IF outcome = "running" THEN "stopped" ELSE outcome
      BY <2>7 DEF stop, Ended
    <3> QED
      BY <2>1, <2>2, <2>4, <2>5, <3>1, <3>2, ServeStep, StutterStep
  <2>8. CASE /\ Emits(it) /\ link # 0 /\ op' = [NoOp EXCEPT !.kind = "descriptors", !.char = it]
             /\ it' = it /\ descriptor_handle' = 0 /\ UNCHANGED <<cleanVars, handlerVars, outcome>>
    <3>1. op'.kind = "descriptors" /\ op'.char = it /\ op' # NoOp
      BY <2>8 DEF NoOp
    <3>2. ListInv'
      BY <1>0, <2>1, <2>2, <2>8, <3>1 DEF ListInv, cleanVars
    <3>3. ChainInv'
      BY <1>0, <2>1, <2>2, <2>8, <3>1 DEF ChainInv, cleanVars, handlerVars
    <3>4. ProcedureInv'
      BY <1>0, <2>1, <2>2, <2>3, <2>8, <3>1 DEF ProcedureInv, Emits
    <3>5. OrderInv'
      BY <2>1, <2>2, <2>3, <2>8 DEF OrderInv, Chars
    <3> QED
      BY <2>1, <2>2, <2>4, <2>8, <3>2, <3>3, <3>4, <3>5, ServeStep DEF SurveyParts
  <2>9. launch([NoOp EXCEPT !.kind = "descriptors", !.char = it], it, NoOp, 0) =>
          \/ op' = NoOp /\ stop(1)
          \/ /\ link # 0 /\ op' = [NoOp EXCEPT !.kind = "descriptors", !.char = it]
             /\ it' = it /\ descriptor_handle' = 0 /\ UNCHANGED <<cleanVars, handlerVars, outcome>>
    BY DEF launch, Accepts
  <2> QED
    BY <2>2, <2>6, <2>7, <2>8, <2>9
<1>5. ASSUME when_descriptor_discovered PROVE SurveyParts' /\ outcome' # "idle" /\ AbstractStep
  <2>1. /\ op.kind = "descriptors" /\ link # 0 /\ it # 0 /\ op.char = it /\ server[it].hasCccd
        /\ op' = [op EXCEPT !.kind = "ending"] /\ descriptor_handle' = it
        /\ UNCHANGED <<server, link, cleanVars, handlerVars, answerVars, it, queued, crashed,
                      unsolicited, outcome>>
    BY <1>0, <1>5 DEF when_descriptor_discovered, ProcedureInv, peerVars
  <2>2. /\ op # NoOp /\ op'.kind = "ending" /\ op'.char = it /\ op' # NoOp
    BY <2>1 DEF NoOp, TypeInv, DemoTypeOK, Op
  <2>3. ListInv'
    BY <1>0, <2>1, <2>2 DEF ListInv, cleanVars
  <2>4. ChainInv'
    BY <1>0, <2>1, <2>2 DEF ChainInv, cleanVars, handlerVars
  <2>5. ProcedureInv'
    BY <1>0, <2>1, <2>2 DEF ProcedureInv, answerVars, Emits, Survey!WasRead
  <2>6. OrderInv'
    BY <1>0, <2>1, <2>2 DEF OrderInv, Untouched, Survey!Served, Survey!WasRead,
                            Survey!Wanted, answerVars, Chars
  <2> QED
    BY <2>1, <2>3, <2>4, <2>5, <2>6, StutterStep DEF SurveyParts
<1>6. ASSUME when_descriptor_discovery_ends PROVE SurveyParts' /\ outcome' # "idle" /\ AbstractStep
  <2>1. /\ op # NoOp /\ queued = 0 /\ it # 0 /\ it \in Chars /\ outcome # "processed"
        /\ dataWritten = 1 /\ answeredWrites[it] = 0 /\ Emits(it) /\ op.kind # "discovery"
        /\ link # 0 => Survey!WasRead(it)
        /\ link # 0 <=> outcome = "running"
        /\ characteristics[it].char = it
        /\ outcome = "running" => Len(characteristics) = Len(server)
        /\ UNCHANGED <<peerVars, server, link, answerVars, queued, crashed, unsolicited>>
    BY <1>0, <1>6 DEF when_descriptor_discovery_ends, NoOp, ChainInv, ListInv, ProcedureInv,
                      OrderInv, Chars, peerVars, Crash
  <2> PICK i \in Chars : i = it
    BY <2>1
  <2>2. CASE op.kind = "descriptors"
    <3>1. /\ descriptor_handle = 0 /\ (link # 0 => ~server[it].hasCccd)
          /\ process_next_characteristic(NoOp, 0)
      BY <1>0, <1>6, <2>1, <2>2 DEF when_descriptor_discovery_ends, ProcedureInv
    <3>2. outcome = "running" => Survey!Served(i)'
      BY <2>1, <3>1 DEF Survey!Served, Survey!WasRead, Survey!Wanted, answerVars
    <3>3. outcome = "running" => \A c \in Chars : c < i => Survey!Served(c)'
      BY <1>0, <2>1 DEF OrderInv, Survey!Served, Survey!WasRead, Survey!Wanted, answerVars
    <3>4. outcome = "running" => \A c \in Chars : c > i => Untouched(c)'
      BY <1>0, <2>1 DEF OrderInv, Untouched, answerVars
    <3>5. Advancing
      BY <1>0, <2>1, <3>2, <3>3, <3>4 DEF Advancing, Chars
    <3>6. /\ SurveyParts'
          /\ outcome' \in {outcome, "processed", "stopped"}
          /\ outcome' # outcome => outcome = "running"
          /\ outcome' = "processed" => \A c \in Chars : Survey!Served(c)'
      BY <1>0, <2>1, <3>1, <3>5, ProcessNextSafe
    <3> QED
      BY <2>1, <3>6, EndStep
  <2>3. CASE op.kind = "ending"
    <3>1. descriptor_handle = it /\ server[it].hasCccd /\ write_cccd
      BY <1>0, <1>6, <2>1, <2>3 DEF when_descriptor_discovery_ends, ProcedureInv
    <3>2. CASE op' = NoOp /\ stop(1)
      <4>1. SurveyParts'
        BY <1>0, <2>1, <3>2, StopSafe
      <4>2. outcome' = IF outcome = "running" THEN "stopped" ELSE outcome
        BY <3>2 DEF stop, Ended
      <4> QED
        BY <2>1, <4>1, <4>2, EndStep
    <3>3. CASE /\ link # 0 /\ op' = [kind |-> "write", char |-> it, val |-> CccdValue(it)]
               /\ UNCHANGED <<cleanVars, handlerVars, it, descriptor_handle, outcome>>
      <4>1. op'.kind = "write" /\ op'.char = it /\ op'.val = CccdValue(it) /\ op' # NoOp
        BY <3>3 DEF NoOp
      <4>2. ListInv'
        BY <1>0, <2>1, <3>3, <4>1 DEF ListInv, cleanVars
      <4>3. ChainInv'
        BY <1>0, <2>1, <3>3, <4>1 DEF ChainInv, cleanVars, handlerVars
      <4>4. ProcedureInv'
        BY <1>0, <2>1, <3>1, <3>3, <4>1
        DEF ProcedureInv, answerVars, Emits, Survey!WasRead, CccdValue
      <4>5. OrderInv'
        BY <1>0, <2>1, <3>3, <4>1 DEF OrderInv, Untouched, Survey!Served, Survey!WasRead,
                                      Survey!Wanted, answerVars, Chars
      <4> QED
        BY <2>1, <3>3, <4>2, <4>3, <4>4, <4>5, StutterStep DEF SurveyParts
    <3> QED
      BY <2>1, <3>1, <3>2, <3>3 DEF write_cccd, Accepts
  <2> QED
    BY <1>6, <2>2, <2>3 DEF when_descriptor_discovery_ends
<1>7. ASSUME when_descriptor_written PROVE SurveyParts' /\ outcome' # "idle" /\ AbstractStep
  <2>1. /\ op.kind = "write" /\ op # NoOp /\ queued = 0 /\ it # 0 /\ it \in Chars
        /\ op.char = it /\ op.val = CccdValue(it) /\ descriptor_handle = it
        /\ outcome # "processed" /\ dataWritten = 1 /\ answeredWrites[it] = 0
        /\ Emits(it) /\ server[it].hasCccd
        /\ link # 0 => Survey!WasRead(it)
        /\ link # 0 <=> outcome = "running"
        /\ characteristics[it].char = it
        /\ outcome = "running" => Len(characteristics) = Len(server)
    BY <1>0, <1>7 DEF when_descriptor_written, NoOp, ChainInv, ListInv, ProcedureInv,
                      OrderInv, Chars
  <2>2. /\ answeredWrites' = IF link # 0 THEN [answeredWrites EXCEPT ![it] = CccdValue(it)]
                                         ELSE answeredWrites
        /\ UNCHANGED <<peerVars, server, link, answeredReads, queued, crashed, unsolicited>>
        /\ process_next_characteristic(NoOp, 0)
    BY <1>7, <2>1 DEF when_descriptor_written, peerVars
  <2> PICK i \in Chars : i = it
    BY <2>1
  <2>3. DOMAIN answeredWrites = Chars /\ server[i] \in Characteristic
    BY ServerType DEF TypeInv, RestTypeOK
  <2>4. outcome = "running" => Survey!Served(i)' /\ Survey!Subscribe(i)
    <3>1. Survey!Wanted(i) = CccdValue(i) /\ CccdValue(i) # 0
      BY <2>1, <2>3 DEF Survey!Wanted, CccdValue, Emits, Characteristic
    <3>2. Survey!Wanted(i)' = Survey!Wanted(i)
      BY <2>2 DEF Survey!Wanted
    <3>3. outcome = "running" => answeredWrites' = [answeredWrites EXCEPT ![i] = Survey!Wanted(i)]
      BY <2>1, <2>2, <3>1
    <3>4. outcome = "running" => Survey!Served(i)'
      BY <2>1, <2>2, <2>3, <3>2, <3>3 DEF Survey!Served, Survey!WasRead
    <3>5. outcome = "running" => \A d \in 1..(i - 1) : Survey!Served(d)
      BY <1>0 DEF OrderInv, Chars
    <3> QED
      BY <2>1, <2>2, <3>1, <3>3, <3>4, <3>5 DEF Survey!Subscribe
  <2>5. outcome = "running" => \A c \in Chars : c < i => Survey!Served(c)'
    BY <1>0, <2>1, <2>2, <2>3 DEF OrderInv, Survey!Served, Survey!WasRead, Survey!Wanted, Chars
  <2>6. outcome = "running" => \A c \in Chars : c > i => Untouched(c)'
    BY <1>0, <2>1, <2>2, <2>3 DEF OrderInv, Untouched, Chars
  <2>7. Advancing
    BY <1>0, <2>1, <2>4, <2>5, <2>6 DEF Advancing, Chars
  <2>9. /\ SurveyParts'
        /\ outcome' \in {outcome, "processed", "stopped"}
        /\ outcome' # outcome => outcome = "running"
        /\ outcome' = "processed" => \A c \in Chars : Survey!Served(c)'
    BY <1>0, <2>1, <2>2, <2>7, ProcessNextSafe
  <2>10. CASE outcome = "running"
    BY <2>2, <2>4, <2>9, <2>10, ServeStep
  <2>11. CASE outcome # "running"
    BY <2>1, <2>2, <2>9, <2>11, StutterStep DEF answerVars
  <2> QED
    BY <2>9, <2>10, <2>11
<1>8. ASSUME Disconnect PROVE SurveyParts' /\ outcome' # "idle" /\ AbstractStep
  <2>1. /\ link' = 0 /\ op' \in {op, NoOp} /\ outcome' = Ended("lost")
        /\ UNCHANGED <<server, cleanVars, handlerVars, answerVars, it, descriptor_handle,
                      queued, crashed, unsolicited>>
    BY <1>8 DEF Disconnect
  <2>2. outcome' # "running" /\ outcome' # "idle" /\ (outcome' = "processed" => outcome = "processed")
        /\ (outcome' # outcome => outcome = "running")
    BY <2>1 DEF Ended
  <2>3. ListInv'
    BY <1>0, <2>1, <2>2 DEF ListInv, cleanVars
  <2>4. ChainInv'
    BY <1>0, <2>1, <2>2 DEF ChainInv, cleanVars, handlerVars, NoOp
  <2>5. ProcedureInv'
    BY <1>0, <2>1 DEF ProcedureInv, answerVars, NoOp, Emits, CccdValue
  <2>6. OrderInv'
    BY <1>0, <2>1, <2>2 DEF OrderInv
  <2> QED
    BY <2>1, <2>2, <2>3, <2>4, <2>5, <2>6, EndStep DEF SurveyParts
<1> QED
  BY <1>1, <1>2, <1>3, <1>4, <1>5, <1>6, <1>7, <1>8 DEF Progress

LEMMA SurveyInvStep ==
    ASSUME TypeInv, TypeInv', SurveyInv, [Next]_vars
    PROVE  SurveyInv' /\ (connections' < 2 => AbstractStep)
<1> SUFFICES ASSUME connections' < 2
             PROVE  /\ IF connections' = 0 THEN IdleInv' ELSE outcome' # "idle"
                    /\ SurveyParts' /\ AbstractStep
  BY DEF SurveyInv, SurveyParts
<1>1. CASE UNCHANGED vars
  <2>1. SurveyParts /\ IF connections = 0 THEN IdleInv ELSE outcome # "idle"
    BY <1>1 DEF SurveyInv, SurveyParts, vars, peerVars
  <2>2. /\ UNCHANGED <<server, link, connections, connection_handle, characteristics, dataWritten>>
        /\ UNCHANGED <<terminationHandler, answeredReads, answeredWrites, op, it>>
        /\ UNCHANGED <<descriptor_handle, queued, crashed, unsolicited, outcome>>
    BY <1>1 DEF vars, peerVars, cleanVars, handlerVars, answerVars
  <2>3. ListInv' /\ ChainInv' /\ OrderInv'
    BY <2>1, <2>2 DEF SurveyParts, ListInv, ChainInv, OrderInv, Chars, Untouched,
                      Survey!Served, Survey!WasRead, Survey!Wanted
  <2>4. ProcedureInv'
    BY <2>1, <2>2 DEF SurveyParts, ProcedureInv, Emits, CccdValue, Survey!WasRead
  <2>5. IF connections' = 0 THEN IdleInv' ELSE outcome' # "idle"
    BY <2>1, <2>2 DEF IdleInv, Chars
  <2> QED
    BY <2>2, <2>3, <2>4, <2>5, StutterStep DEF SurveyParts, answerVars
<1>2. ASSUME NEW h \in Handles, start_discovery(h), ~crashed
      PROVE  SurveyParts' /\ connections' # 0 /\ outcome' # "idle" /\ AbstractStep
  <2>1. connections = 0 /\ connections' = 1
    BY <1>2 DEF start_discovery, TypeInv, RestTypeOK
  <2>2. IdleInv /\ ~unsolicited
    BY <2>1 DEF SurveyInv, ChainInv
  <2> QED
    BY <1>2, <2>1, <2>2, StartStep
<1>3. ASSUME Progress \/ Disconnect, ~crashed
      PROVE  SurveyParts' /\ connections' # 0 /\ outcome' # "idle" /\ AbstractStep
  <2>1. connections' = connections /\ SurveyParts
    <3>1. connections' = connections
      BY <1>3 DEF Progress, Disconnect, when_characteristic_discovered, when_service_discovery_ends,
                  dispatch, when_characteristic_read, when_descriptor_discovered,
                  when_descriptor_discovery_ends, when_descriptor_written, Crash, peerVars
    <3> QED
      BY <3>1 DEF SurveyInv, SurveyParts
  <2>2. connections # 0
    <3>1. connections = 0 => op.kind = "none" /\ queued = 0 /\ link = 0
      BY <2>1 DEF SurveyInv, IdleInv, NoOp
    <3> QED
      BY <1>3, <3>1
      DEF Progress, Disconnect, when_characteristic_discovered, when_service_discovery_ends,
          dispatch, when_characteristic_read, when_descriptor_discovered,
          when_descriptor_discovery_ends, when_descriptor_written
  <2>3. outcome # "idle"
    BY <2>1, <2>2 DEF SurveyInv
  <2> QED
    BY <1>3, <2>1, <2>2, <2>3, ConnectedStep
<1> QED
  BY <1>1, <1>2, <1>3 DEF Next

(* During the first connection no completion handler dereferences a null   *)
(* _it (lines 301, 370), and when_descriptor_written never finds           *)
(* _descriptor_handle null (line 397), for every server and every pattern  *)
(* of refusals, aborts and losses.                                         *)
THEOREM FirstConnectionSafe == Spec => [](NoNullDereference /\ SolicitedOnce)
<1>1. SurveyInv => NoNullDereference /\ SolicitedOnce
  BY DEF SurveyInv, ChainInv, NoNullDereference, SolicitedOnce
<1>2. TypeInv /\ SurveyInv /\ TypeInv' /\ [Next]_vars => SurveyInv'
  BY SurveyInvStep
<1> QED
  BY <1>1, <1>2, TypeInvInit, TypeInvStep, SurveyInvInit, PTL DEF Spec

(* On one connection the client implements the abstract survey: the        *)
(* characteristics are served in order, none twice, and "all               *)
(* characteristics discovered have been processed" only once all are.      *)
THEOREM SurveyImplemented ==
    ASSUME MaxConnections = 1
    PROVE  Spec => ImplementsSurvey
<1>1. Init => Survey!Init
  BY DEF Init, Survey!Init, Chars, Survey!Chars
<1>2. Init => connections < 2
  BY DEF Init
<1>3. TypeInv /\ connections < 2 /\ [Next]_vars => (connections < 2)'
  <2> SUFFICES ASSUME TypeInv, connections < 2, [Next]_vars PROVE (connections < 2)'
    OBVIOUS
  <2>1. connections' = connections \/ \E h \in Handles : start_discovery(h)
    BY DEF Next, Progress, Disconnect, when_characteristic_discovered, when_service_discovery_ends,
           dispatch, when_characteristic_read, when_descriptor_discovered,
           when_descriptor_discovery_ends, when_descriptor_written, Crash, peerVars, vars
  <2> QED
    BY <2>1 DEF start_discovery, TypeInv, RestTypeOK
<1>4. TypeInv /\ SurveyInv /\ TypeInv' /\ [Next]_vars => SurveyInv'
  BY SurveyInvStep
<1>5. /\ TypeInv /\ SurveyInv /\ TypeInv' /\ (connections < 2)' /\ [Next]_vars
      => [Survey!Next]_(Survey!vars)
  BY SurveyInvStep DEF AbstractStep
<1> QED
  BY <1>1, <1>2, <1>3, <1>4, <1>5, TypeInvInit, TypeInvStep, SurveyInvInit, PTL
  DEF Spec, ImplementsSurvey, Survey!Spec

-----------------------------------------------------------------------------
(* The value of a subscription, over any number of connections.            *)

(* While descriptors are discovered, the iterator and the handle speak of  *)
(* the characteristic the procedure is about, or of none.                  *)
ProcedureSub ==
    /\ op.kind = "descriptors" => descriptor_handle = 0
    /\ op.kind = "ending" => descriptor_handle \in {0, op.char}
    /\ op.kind \in {"descriptors", "ending"} /\ it # 0 => characteristics[it].char = op.char
    /\ op.kind = "write" => op.val = CccdValue(op.char)

SubInv == TypeInv /\ ProcedureSub /\ SubscriptionValueRight

LEMMA SameValue == ASSUME UNCHANGED server, NEW c PROVE CccdValue(c)' = CccdValue(c)
  BY DEF CccdValue

LEMMA StopSub ==
    ASSUME ProcedureSub, UNCHANGED server, NEW n, stop(n), op' = op \/ op'.kind # "write"
    PROVE  ProcedureSub'
  BY SameValue DEF ProcedureSub, stop

LEMMA LaunchSub ==
    ASSUME TypeInv, ProcedureSub, UNCHANGED server, NEW n \in 1..Len(characteristics),
           NEW o, o.kind \in {"read", "descriptors"}, o.char = characteristics[n].char,
           NEW busy \in {op, NoOp}, NEW d, launch(o, n, busy, d)
    PROVE  ProcedureSub'
<1>1. CASE op' = busy /\ stop(1)
  BY <1>1, StopSub DEF NoOp
<1>2. CASE /\ op' = o /\ it' = n
           /\ descriptor_handle' = IF o.kind = "read" THEN d ELSE 0
           /\ UNCHANGED <<cleanVars, handlerVars, outcome>>
  BY <1>2 DEF ProcedureSub, cleanVars
<1> QED
  BY <1>1, <1>2 DEF launch

LEMMA ProcessNextSub ==
    ASSUME TypeInv, ProcedureSub, UNCHANGED server, NEW busy \in {op, NoOp},
           NEW d \in {descriptor_handle, 0}, process_next_characteristic(busy, d)
    PROVE  ProcedureSub'
<1>1. CASE \E n \in DOMAIN characteristics : IsNext(n) /\ launch(Work(n), n, busy, d)
  <2>1. PICK n \in 1..Len(characteristics) : launch(Work(n), n, busy, d)
    BY <1>1 DEF TypeInv, DemoTypeOK
  <2>2. Work(n).kind \in {"read", "descriptors"} /\ Work(n).char = characteristics[n].char
    BY DEF Work
  <2> QED
    BY <2>1, <2>2, LaunchSub
<1>2. CASE it' = 0 /\ op' = busy /\ descriptor_handle' = d
  BY <1>2, SameValue DEF ProcedureSub, NoOp
<1> QED
  BY <1>1, <1>2 DEF process_next_characteristic

LEMMA WriteCccdSub ==
    ASSUME TypeInv, ProcedureSub, UNCHANGED server, it # 0, descriptor_handle # 0,
           op.kind \in {"descriptors", "ending"}, write_cccd
    PROVE  ProcedureSub'
<1>1. op.kind = "ending" /\ descriptor_handle = op.char /\ characteristics[it].char = op.char
  BY DEF ProcedureSub
<1>2. CASE op' = NoOp /\ stop(1)
  BY <1>2, StopSub DEF NoOp
<1>3. CASE op' = [kind |-> "write", char |-> descriptor_handle,
                  val |-> CccdValue(characteristics[it].char)]
  BY <1>1, <1>3, SameValue DEF ProcedureSub
<1> QED
  BY <1>2, <1>3 DEF write_cccd

LEMMA SubInvInit == Init => SubInv
<1> SUFFICES ASSUME Init PROVE SubInv
  OBVIOUS
<1>1. ProcedureSub
  BY DEF Init, NoOp, ProcedureSub
<1>2. SubscriptionValueRight
  BY DEF Init, SubscriptionValueRight
<1> QED
  BY <1>1, <1>2, TypeInvInit DEF SubInv

LEMMA ProcedureSubStep ==
    ASSUME TypeInv, ProcedureSub, [Next]_vars
    PROVE  ProcedureSub'
<1>1. ASSUME NEW h \in Handles, start_discovery(h) PROVE ProcedureSub'
  BY <1>1 DEF start_discovery, ProcedureSub, NoOp
<1>2. ASSUME when_characteristic_discovered PROVE ProcedureSub'
  <2>1. op.kind = "discovery" /\ UNCHANGED server
    BY <1>2 DEF when_characteristic_discovered, peerVars
  <2>2. CASE op' = NoOp /\ stop(1)
    BY <2>1, <2>2, StopSub DEF NoOp
  <2>3. CASE op' = [op EXCEPT !.char = @ + 1]
    <3>1. op'.kind = "discovery"
      BY <2>1, <2>3 DEF TypeInv, DemoTypeOK, Op
    <3> QED
      BY <3>1 DEF ProcedureSub
  <2> QED
    BY <1>2, <2>2, <2>3 DEF when_characteristic_discovered
<1>3. ASSUME when_service_discovery_ends PROVE ProcedureSub'
  BY <1>3 DEF when_service_discovery_ends, ProcedureSub, NoOp
<1>4. ASSUME dispatch PROVE ProcedureSub'
  BY <1>4, ProcessNextSub DEF dispatch, peerVars
<1>5. ASSUME Crash PROVE ProcedureSub'
  BY <1>5, SameValue DEF Crash, ProcedureSub, peerVars, cleanVars
<1>6. ASSUME when_characteristic_read, it # 0 PROVE ProcedureSub'
  <2>1. it \in 1..Len(characteristics) /\ UNCHANGED server
    BY <1>6 DEF when_characteristic_read, peerVars, TypeInv, DemoTypeOK
  <2>2. CASE launch([NoOp EXCEPT !.kind = "descriptors", !.char = characteristics[it].char],
                    it, NoOp, descriptor_handle)
    <3> DEFINE o == [NoOp EXCEPT !.kind = "descriptors", !.char = characteristics[it].char]
    <3>1. o.kind = "descriptors" /\ o.char = characteristics[it].char
      BY DEF NoOp
    <3>2. launch(o, it, NoOp, descriptor_handle)
      BY <2>2
    <3> HIDE DEF o
    <3> QED
      BY <2>1, <3>1, <3>2, LaunchSub
  <2>3. CASE process_next_characteristic(NoOp, descriptor_handle)
    BY <2>1, <2>3, ProcessNextSub
  <2> QED
    BY <1>6, <2>2, <2>3 DEF when_characteristic_read
<1>7. ASSUME when_descriptor_discovered PROVE ProcedureSub'
  <2>1. /\ op.kind = "descriptors" /\ descriptor_handle' = op.char
        /\ op' = [op EXCEPT !.kind = "ending"] /\ UNCHANGED <<characteristics, it>>
    BY <1>7 DEF when_descriptor_discovered, cleanVars
  <2>2. op'.kind = "ending" /\ op'.char = op.char
    BY <2>1 DEF TypeInv, DemoTypeOK, Op
  <2> QED
    BY <2>1, <2>2 DEF ProcedureSub
<1>8. ASSUME when_descriptor_discovery_ends, ~(descriptor_handle # 0 /\ it = 0) PROVE ProcedureSub'
  <2>1. op.kind \in {"descriptors", "ending"} /\ UNCHANGED server
    BY <1>8 DEF when_descriptor_discovery_ends, peerVars
  <2>2. CASE process_next_characteristic(NoOp, descriptor_handle)
    BY <2>1, <2>2, ProcessNextSub
  <2>3. CASE descriptor_handle # 0 /\ it # 0 /\ write_cccd
    BY <2>1, <2>3, WriteCccdSub
  <2> QED
    BY <1>8, <2>2, <2>3 DEF when_descriptor_discovery_ends
<1>9. ASSUME when_descriptor_written PROVE ProcedureSub'
  <2>1. UNCHANGED server
    BY <1>9 DEF when_descriptor_written, peerVars
  <2>2. CASE op' = NoOp
    BY <2>2 DEF ProcedureSub, NoOp
  <2>3. CASE process_next_characteristic(NoOp, 0)
    BY <2>1, <2>3, ProcessNextSub
  <2>4. CASE process_next_then_stop(dataWritten - 1)
    <3>1. PICK k : (op' = NoOp \/ \E n : op' = Work(n)) /\ stop(k)
      BY <2>4 DEF process_next_then_stop
    <3> QED
      BY <2>1, <3>1, StopSub DEF NoOp, Work
  <2> QED
    BY <1>9, <2>2, <2>3, <2>4 DEF when_descriptor_written
<1>10. ASSUME Disconnect PROVE ProcedureSub'
  BY <1>10, SameValue DEF Disconnect, ProcedureSub, cleanVars, NoOp
<1>11. CASE UNCHANGED vars
  BY <1>11, SameValue DEF vars, peerVars, cleanVars, ProcedureSub
<1> QED
  BY <1>1, <1>2, <1>3, <1>4, <1>5, <1>6, <1>7, <1>8, <1>9, <1>10, <1>11
  DEF Next, Progress, when_characteristic_read, when_descriptor_discovery_ends

(* Only a connection and a write response touch what the CCCDs hold.       *)
LEMMA AnsweredStep ==
    ASSUME SubInv, [Next]_vars
    PROVE  SubscriptionValueRight'
<1>1. UNCHANGED server
  BY DEF Next, Progress, vars, peerVars, start_discovery, Disconnect, when_characteristic_discovered,
     when_service_discovery_ends, dispatch, when_characteristic_read, Crash,
     when_descriptor_discovered, when_descriptor_discovery_ends, when_descriptor_written
<1>2. Chars' = Chars /\ \A c \in Chars : CccdValue(c)' = CccdValue(c)
  BY <1>1, SameValue DEF Chars
<1>3. ASSUME NEW h \in Handles, start_discovery(h) PROVE SubscriptionValueRight'
  BY <1>2, <1>3 DEF start_discovery, SubscriptionValueRight
<1>4. ASSUME when_descriptor_written PROVE SubscriptionValueRight'
  <2>1. op.val = CccdValue(op.char)
    BY <1>4 DEF when_descriptor_written, SubInv, ProcedureSub
  <2>2. answeredWrites \in [Chars -> 0..3] /\ op.char \in Chars
    BY <1>4 DEF when_descriptor_written, SubInv, TypeInv, RestTypeOK, DemoTypeOK, Op
  <2>3. \A c \in Chars : answeredWrites'[c] \in {answeredWrites[c], CccdValue(c)}
    BY <1>4, <2>1, <2>2 DEF when_descriptor_written
  <2> QED
    BY <1>2, <2>3 DEF SubInv, SubscriptionValueRight
<1>5. CASE UNCHANGED answeredWrites
  BY <1>2, <1>5 DEF SubInv, SubscriptionValueRight
<1>6. \/ \E h \in Handles : start_discovery(h)
      \/ when_descriptor_written
      \/ UNCHANGED answeredWrites
  BY DEF Next, Progress, vars, answerVars, Disconnect, when_characteristic_discovered,
     when_service_discovery_ends, dispatch, when_characteristic_read, Crash,
     when_descriptor_discovered, when_descriptor_discovery_ends
<1> QED
  BY <1>3, <1>4, <1>5, <1>6

(* On any connection, a CCCD gets no value but that of the properties of   *)
(* its own characteristic (lines 360-390).                                 *)
THEOREM SubscriptionsRight == Spec => []SubscriptionValueRight
<1>1. SubInv /\ [Next]_vars => SubInv'
  BY TypeInvStep, ProcedureSubStep, AnsweredStep DEF SubInv
<1>2. SubInv => SubscriptionValueRight
  BY DEF SubInv
<1> QED
  BY <1>1, <1>2, SubInvInit, PTL DEF Spec

(* The two halves of TypeCorrect and of FirstConnectionSafe by themselves. *)
THEOREM MembersTyped == Spec => []TypeOK
  BY TypeCorrect, PTL

(* The second half: the iterator stays within the list.                    *)
THEOREM IteratorStaysLive == Spec => []IteratorLive
  BY TypeCorrect, PTL

(* Within one connection nothing dereferences a null iterator.             *)
THEOREM NeverNull == Spec => []NoNullDereference
  BY FirstConnectionSafe, PTL

(* Within one connection "should never happen" is true.                    *)
THEOREM AlwaysSolicited == Spec => []SolicitedOnce
  BY FirstConnectionSafe, PTL
=============================================================================
