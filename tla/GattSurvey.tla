----------------------------- MODULE GattSurvey -----------------------------
(***************************************************************************)
(* What the client promises of one connection (readme.md:5-12 and the      *)
(* class comment): the characteristics are served in the order of the      *)
(* server; a readable one is read, one that emits and has a CCCD is        *)
(* subscribed to, after it was read; nothing is done twice; the survey is  *)
(* complete when everything was served, and may be abandoned at any time.  *)
(***************************************************************************)
EXTENDS Naturals, Sequences

CONSTANT Layouts    \* the servers: sequences of characteristics

VARIABLES
    server,     \* the peer's characteristics
    reads,      \* the characteristics read so far
    writes,     \* the subscription made of each characteristic, 0 for none
    status      \* idle, running, complete or abandoned

vars == <<server, reads, writes, status>>

Chars == 1..Len(server)

(* The subscription a characteristic calls for: 1 for notifications, 2 for *)
(* indications, 3 for both, 0 when there is nothing to subscribe to.       *)
Wanted(c) == IF server[c].hasCccd
             THEN (IF server[c].notify THEN 1 ELSE 0) + (IF server[c].indicate THEN 2 ELSE 0)
             ELSE 0

WasRead(c) == server[c].read => c \in reads
Served(c)  == WasRead(c) /\ writes[c] = Wanted(c)

Init ==
    /\ server \in Layouts
    /\ reads = {}
    /\ writes = [c \in Chars |-> 0]
    /\ status = "idle"

Begin ==
    /\ status = "idle"
    /\ status' \in {"running", "abandoned"}
    /\ UNCHANGED <<server, reads, writes>>

(* A step may also end the survey; as complete only once all is served.    *)
MayEnd ==
    /\ status' \in {"running", "complete", "abandoned"}
    /\ status' = "complete" => \A c \in Chars : Served(c)'

Read(c) ==
    /\ server[c].read /\ c \notin reads
    /\ \A d \in 1..(c - 1) : Served(d)
    /\ reads' = reads \union {c}
    /\ UNCHANGED <<server, writes>>

Subscribe(c) ==
    /\ WasRead(c)
    /\ writes[c] = 0 /\ Wanted(c) # 0
    /\ \A d \in 1..(c - 1) : Served(d)
    /\ writes' = [writes EXCEPT ![c] = Wanted(c)]
    /\ UNCHANGED <<server, reads>>

Serve ==
    /\ status = "running"
    /\ \/ \E c \in Chars : Read(c) \/ Subscribe(c)
       \/ UNCHANGED <<server, reads, writes>>
    /\ MayEnd

Next == Begin \/ Serve

Spec == Init /\ [][Next]_vars
=============================================================================
