----------------------------- MODULE WritePair -----------------------------
(***************************************************************************)
(* BLE_GattClient_CharacteristicWrite against the server of                *)
(* BLE_GattServer_CharacteristicWrite.  main starts the client, which ends *)
(* up in start() until on_write stops it, sleeps and starts it again.  On  *)
(* every link a discovery is launched; when one terminates and the         *)
(* characteristic was found a read is posted; on_read increments the byte  *)
(* and writes it back; the write response ends the round.  The client also *)
(* accepts links of other boards, on which it looks for the characteristic *)
(* too.  BLEApp, the stack and the other clients of the server are         *)
(* external.                                                               *)
(***************************************************************************)
EXTENDS Integers

CONSTANTS
    Modulus,    \* 2^8 in the code: the values of uint8_t
    Callers,    \* boards without the service that may connect to the client
    MaxLosses,  \* bound: links to the server lost, by the radio or its reset
    MaxForeign  \* bound: writes of the server's other clients

ASSUME ModulusAssumption == Modulus \in Nat \ {0}
ASSUME BoundsAssumption  == MaxLosses \in Nat /\ MaxForeign \in Nat
ASSUME CallersAssumption == "server" \notin Callers

VARIABLES
    app,       \* the client: asleep, starting or up
    op,        \* per peer: no link (down), no procedure (idle), or the procedure's stage
    byte,      \* the byte a read response or a write request carries
    found,     \* writable_characteristic_found
    posted,    \* reads in the client's event queue
    value,     \* the server's _characteristic_value
    shown,     \* the byte last printed by the client and by the server
    losses, foreign,  \* history: links lost, writes of others
    stale,     \* history: others changed the value since the client's read
    missed     \* history: the server's discovery terminated, found unset

client  == <<app, found, posted>>
history == <<losses, foreign, stale, missed>>
vars    == <<client, op, byte, value, shown, history>>

Empty == -1   \* the value of an attribute of length zero
NoCopy == -2
Byte  == 0..(Modulus - 1)
Value == Byte \union {Empty}
Peers == {"server"} \union Callers

Stages == {"down", "idle", "discovery", "found", "read", "answer", "write", "ack"}

Becomes(peer, stage) == op' = [op EXCEPT ![peer] = stage]
Says(who, data) == shown' = [shown EXCEPT ![who] = data]

Init ==
    /\ app = "asleep" /\ found = FALSE /\ posted = 0
    /\ op = [p \in Peers |-> "down"] /\ byte = 0 /\ value = 0
    /\ shown = [client |-> 0, server |-> 0]
    /\ losses = 0 /\ foreign = 0 /\ stale = FALSE /\ missed = FALSE

-----------------------------------------------------------------------------
(* The client.                                                             *)

(* main: start() blocks in _ble_app.start until the application is stopped.*)
(* The gap handler that start() adds again each round at most launches the *)
(* discovery of a link twice; the stack has one procedure per link.        *)
start ==
    /\ app = "asleep" /\ app' = "starting"
    /\ UNCHANGED <<found, posted, op, byte, value, shown, history>>

on_init ==
    /\ app = "starting" /\ app' = "up"
    /\ UNCHANGED <<found, posted, op, byte, value, shown, history>>

(* Launched whoever the peer is, once per link.                            *)
onConnectionComplete(peer) ==
    /\ app = "up" /\ op[peer] = "down"
    /\ Becomes(peer, "discovery")
    /\ missed' = (peer # "server" /\ missed)
    /\ UNCHANGED <<client, byte, value, shown, losses, foreign, stale>>

characteristic_discovery ==
    /\ op["server"] = "discovery" /\ Becomes("server", "found")
    /\ found' = TRUE
    /\ UNCHANGED <<app, posted, byte, value, shown, history>>

(* discovery_termination does not ask which link it is about.              *)
discovery_termination ==
    /\ posted' = IF found THEN posted + 1 ELSE posted
    /\ found' = FALSE

DiscoveryEnds(peer) ==
    /\ op[peer] = (IF peer = "server" THEN "found" ELSE "discovery")
    /\ Becomes(peer, "idle")
    /\ discovery_termination
    /\ missed' = (missed \/ (peer = "server" /\ ~found))
    /\ UNCHANGED <<app, byte, value, shown, losses, foreign, stale>>

(* The posted read, refused without a link or behind another procedure.    *)
read ==
    /\ app = "up" /\ posted > 0 /\ posted' = posted - 1
    /\ IF op["server"] = "idle" THEN Becomes("server", "read") ELSE UNCHANGED op
    /\ UNCHANGED <<app, found, byte, value, shown, history>>

(* Seeded fault: the increment after the write.                            *)
on_read_After(data) ==
    /\ byte' = data /\ Says("client", (data + 1) % Modulus)
    /\ Becomes("server", "write")

(* Seeded faults: no wrap, the client's own count, a handler called twice.  *)
on_read_Wide(data) ==
    /\ byte' = data + 1 /\ Says("client", (data + 1) % Modulus)
    /\ Becomes("server", "write")

on_read_Own(data) ==
    /\ byte' = (shown.client + 1) % Modulus /\ Says("client", (shown.client + 1) % Modulus)
    /\ Becomes("server", "write")

on_read_Twice(data) ==
    /\ byte' = (data + 2) % Modulus /\ Says("client", (data + 2) % Modulus)
    /\ Becomes("server", "write")

(* data[0] is read whatever the status and the length of the response.     *)
on_read(data) ==
    /\ byte' = (data + 1) % Modulus /\ Says("client", (data + 1) % Modulus)
    /\ Becomes("server", "write")

ReadAnswered ==
    /\ op["server"] = "answer"
    /\ \E data \in IF byte = Empty THEN Byte ELSE {byte} : on_read(data)
    /\ UNCHANGED <<client, value, history>>

(* Seeded fault: the application goes on when the flag is unset.           *)
on_write_Found ==
    /\ IF found THEN app' = "asleep" /\ op' = [p \in Peers |-> "down"]
                ELSE UNCHANGED app /\ Becomes("server", "idle")

(* on_write: stop() shuts the stack down, and every link with it.          *)
on_write == app' = "asleep" /\ op' = [p \in Peers |-> "down"]

WriteAnswered ==
    /\ op["server"] = "ack"
    /\ on_write
    /\ UNCHANGED <<found, posted, byte, value, shown, history>>

-----------------------------------------------------------------------------
(* The server and its other clients.                                       *)

(* The request is answered by the server's stack.                          *)
ServerReads ==
    /\ op["server"] = "read" /\ Becomes("server", "answer")
    /\ byte' = value /\ stale' = FALSE
    /\ UNCHANGED <<client, value, shown, losses, foreign, missed>>

(* onDataWritten prints a value of length one.                             *)
onDataWritten(data) == IF data = Empty THEN UNCHANGED shown ELSE Says("server", data)

ServerWrites ==
    /\ op["server"] = "write" /\ Becomes("server", "ack")
    /\ value' = byte /\ onDataWritten(byte)
    /\ UNCHANGED <<client, byte, history>>

OtherWrites(data) ==
    /\ foreign < MaxForeign /\ foreign' = foreign + 1
    /\ value' = data /\ onDataWritten(data) /\ stale' = TRUE
    /\ UNCHANGED <<client, op, byte, losses, missed>>

-----------------------------------------------------------------------------
(* The end of a link, which may end the procedure under way with an error: *)
(* its callback runs all the same, and what it then writes is refused.     *)

DiscoveryFails ==
    /\ op["server"] \in {"discovery", "found"}
    /\ discovery_termination
    /\ UNCHANGED <<app, shown>>

(* There is no byte in the response: whatever lies there is printed.       *)
ReadFails ==
    /\ op["server"] \in {"read", "answer"}
    /\ \E data \in Byte : Says("client", data)
    /\ UNCHANGED client

WriteFails ==
    /\ op["server"] \in {"write", "ack"}
    /\ app' = "asleep"
    /\ UNCHANGED <<found, posted, shown>>

(* A reset of the server also resets the value.                            *)
ServerLost ==
    /\ op["server"] # "down" /\ losses < MaxLosses /\ losses' = losses + 1
    /\ DiscoveryFails \/ ReadFails \/ WriteFails \/ UNCHANGED <<client, shown>>
    /\ op' = IF app' = "asleep" THEN [p \in Peers |-> "down"] ELSE [op EXCEPT !["server"] = "down"]
    /\ \/ UNCHANGED <<value, stale>>
       \/ value' = 0 /\ stale' = TRUE
    /\ UNCHANGED <<byte, foreign, missed>>

CallerLost(peer) ==
    /\ op[peer] # "down" /\ Becomes(peer, "down")
    /\ \/ op[peer] = "discovery" /\ discovery_termination
       \/ UNCHANGED <<found, posted>>
    /\ UNCHANGED <<app, byte, value, shown, history>>

-----------------------------------------------------------------------------
Next ==
    \/ start
    \/ on_init
    \/ \E p \in Peers : onConnectionComplete(p)
    \/ characteristic_discovery
    \/ \E p \in Peers : DiscoveryEnds(p)
    \/ read
    \/ ServerReads
    \/ ReadAnswered
    \/ ServerWrites
    \/ WriteAnswered
    \/ \E data \in Value : OtherWrites(data)
    \/ ServerLost
    \/ \E p \in Callers : CallerLost(p)

Spec == Init /\ [][Next]_vars

(* The event loops run, the radio connects the server in the end, and the  *)
(* stacks carry on with the procedures of a link.                          *)
FairSpec ==
    /\ Spec
    /\ WF_vars(start) /\ WF_vars(on_init) /\ WF_vars(read)
    /\ WF_vars(onConnectionComplete("server"))
    /\ WF_vars(characteristic_discovery)
    /\ WF_vars(DiscoveryEnds("server"))
    /\ WF_vars(ServerReads) /\ WF_vars(ReadAnswered)
    /\ WF_vars(ServerWrites) /\ WF_vars(WriteAnswered)

-----------------------------------------------------------------------------
(* The state is well formed; an empty value is never what a write carries. *)
TypeOK ==
    /\ app \in {"asleep", "starting", "up"}
    /\ op \in [Peers -> Stages]
    /\ \A p \in Callers : op[p] \in {"down", "idle", "discovery"}
    /\ byte \in Value /\ value \in Value
    /\ (op["server"] \in {"write", "ack"} => byte \in Byte)
    /\ found \in BOOLEAN /\ posted \in Nat
    /\ shown \in [{"client", "server"} -> Byte]
    /\ losses \in 0..MaxLosses /\ foreign \in 0..MaxForeign
    /\ stale \in BOOLEAN /\ missed \in BOOLEAN

(* Both applications show the changing value in sync (the client's readme):*)
(* when the server has taken a write and nobody else changed the value     *)
(* since the read, both printed the value that the server now holds.       *)
InSync ==
    op["server"] = "ack" /\ ~stale => shown.client = value /\ shown.server = value

(* The byte at the server changes as a counter modulo 256, around links    *)
(* lost at any stage, other clients and reads left over: the client writes *)
(* one more than what it read on this very link.                           *)
copy ==
    IF op["server"] = "answer" THEN byte
    ELSE IF op["server"] = "write" THEN (byte - 1) % Modulus ELSE NoCopy

Counter == INSTANCE ByteCounter

ImplementsByteCounter == Counter!Spec

(* No increment is lost but to a write of another client between the       *)
(* client's read and its write, whatever the stages in between.            *)
NoLostUpdate ==
    [][ServerWrites /\ ~stale /\ value # Empty => value' = (value + 1) % Modulus]_vars

(* A round ends, so that the client increments again and again, unless the *)
(* flag was unset when the server's discovery terminated: the discovery of *)
(* a caller's link had taken it.  Nothing in the code starts over then.    *)
RoundEnds == app = "up" ~> app = "asleep" \/ missed
=============================================================================
