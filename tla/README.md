# TLA+ models of the mbed-os BLE examples

This directory holds TLA+ specifications of the programs in this repository,
the TLC configurations that check them on small instances, and TLAPS proofs of
what matters most for every value of their constants. The code is the
reference: an action is a handler of the program, with every early return, and
`PROJECT.json` names the lines each definition stands for.

## The system

Eleven independent example programs, each one class in `<example>/source/main.cpp`
(and a header or two). They share one architecture:

* everything of a program runs on **one thread**, the dispatch loop of an
  `events::EventQueue`. A handler is therefore atomic; what interleaves is the
  *order* of the handlers;
* the BLE stack raises its events by asking for `processEvents` to be posted on
  the queue (`schedule_ble_events`), so that an event is handled later than it
  happened, behind whatever was posted first;
* the program posts calls of its own: at once (`call`), delayed (`call_in`),
  periodic (`call_every`), and can `cancel` one by its id;
* the stack may refuse any call, and most programs then print and return.

mbed-os (the BLE stack, the event queue), `mbed-os-ble-utils` (the `BLEProcess`
that connects, advertises and starts the GATT examples) and
`experimental-ble-services` are not in this repository: what the models need of
them is modelled from how the examples use it and marked external.

| component | state it keeps | operations | interacts with |
|---|---|---|---|
| GATT client survey, `BLE_GattClient_CharacteristicUpdates` | `_connection_handle`, the list headed by `_characteristics`, `_it`, `_descriptor_handle`, handlers registered in the client | `start_discovery`, `stop`, six callbacks, one posted call | the stack's single GATT procedure per link, the queue, the peer's server |
| Clock service, `BLE_GattServer_CharacteristicUpdates` | three one-byte characteristics, kept in the GATT server | `start`, the ticker `increment_second` and its carries, authorization of writes | clients' writes, the ticker, server accesses that may fail |
| GAP demo, `BLE_GAP` | phase, `_is_connecting`, `_extended_adv_handle`, `_cancel_handle` | four mode changes, six event handlers | advertising sets, scanner, links, timers |
| Periodic advertising, `BLE_PeriodicAdvertising` | `_is_scanner`, `_is_connecting_or_syncing`, `_role_established`, `_sync_handle`, `_adv_handle` | `start_role`, four modes, eight event handlers | another board that runs the same program |
| Security and privacy, `BLE_SecurityAndPrivacy` | `_handle`, `_bonded`, `_is_connecting`, the role object `main` creates and destroys, the object registered with the security manager | both roles' `start`, pairing, connection, disconnection and timeout handlers, `break_dispatch` | another board that runs the same program, the security database, the main loop |
| Write pair, `BLE_GattClient_CharacteristicWrite`, `BLE_GattServer_CharacteristicWrite` | the client's `writable_characteristic_found` and posted reads, the server's byte | discovery, read, write back, stop and start again | each other, other clients of the server, boards that connect to the client |
| Battery, `BLE_Advertising` | `_battery_level`, the payload | start, ticker | scanners |
| Heart rate, `BLE_GattServer_AddService` | `_heartrate_value`, the characteristic | start, ticker, advertising restarted on disconnection | clients |
| Experimental services, `BLE_GattServer_ExperimentalServices` | advertising (values are the external services') | start, advertising restarted on disconnection | clients |
| Supported features, `BLE_SupportedFeatures` | none | prints | controller |
| Event queue, `events::EventQueue` | posted calls | `call`, `call_in`, `call_every`, `cancel`, `break_dispatch` | every program |

### What is hard

* **A chain of callbacks that must not break.** The client and the GAP demo only
  go on because each handler launches or posts the next one. A branch that
  returns without doing so stops the program silently; one that posts twice
  makes two chains.
* **State read callbacks after it was written.** `_it`, `_descriptor_handle`,
  `_cancel_handle`, `_is_connecting` are set by one handler and used by another.
* **Timers, timeouts and connections racing.** A timer that is cancelled may
  have run; a timeout of the stack is not the program's to cancel; a queued
  report was true when it was raised.
* **Objects that end while calls to them wait.** The security demo destroys its
  role object whenever the loop breaks, but not what it posted nor what it
  registered with the stack.
* **One flag or value shared by several links or clients**: the flag of the write
  client serves every link, the byte every client of the server.
* **Failures in the middle** of a handler that makes several calls.
* **Two boards** running the same alternation, which must end in different roles.
* **Digits at their bounds**, with writes and failures in between.

### What makes each component correct

* client: nothing is skipped, done twice or out of order; a subscription has the
  value its characteristic calls for; `_it` is never dangling nor null when it is
  dereferenced; a survey comes to an end;
* clock: a legal time, and one clock whatever is written;
* GAP demo: modes alternate, the radio is used for one mode only, exactly one
  chain of calls carries it on, links are closed, sets are destroyed, it goes on;
* periodic demo: complementary roles, taken once; attempts are noticed; the
  boards do not wait for one another; the scanner synchronises;
* security demo: a board that has paired keeps its role, the delayed
  disconnection closes the link it was posted for and no other, links do not stay
  up, bonded boards meet again and again;
* write pair: the byte is a counter, no increment is lost but to another client,
  both applications show the same value, a round ends;
* sensors: values stay in their cycles, what is shown is no older than what the
  stack refused, a board left by its client becomes reachable again.

## Modules

| module | models |
|---|---|
| `GattSurvey` | what a survey of one connection promises (abstract) |
| `GattClientDemo` | the class `GattClientDemo` of `BLE_GattClient_CharacteristicUpdates` |
| `MCGattClientDemo` | the small servers TLC uses |
| `GattClientDemo_proofs` | its proofs |
| `DayClock` | one clock over the seconds of a day (abstract) |
| `ClockService`, `ClockService_proofs` | `BLE_GattServer_CharacteristicUpdates` and its proofs |
| `EventQueue`, `EventQueue_proofs` | the queue the demos post on: a sequence, `post`, `cancel`, which call may be next; what posting, serving and cancelling do to which calls wait, how many, and in which order |
| `DemoModes` | modes that alternate (abstract) |
| `GapDemo`, `GapDemo_proofs` | `BLE_GAP`, on `EventQueue`, and its proofs |
| `RoleElection` | each board takes a role, once, and a different one (abstract) |
| `PeriodicDemo` | two boards running `BLE_PeriodicAdvertising`, a queue each |
| `PeriodicDemo_proofs` | its proofs |
| `SecurityDemo`, `SecurityDemo_proofs` | two boards running `BLE_SecurityAndPrivacy`, with `main`'s loop, on `EventQueue`, and their proofs |
| `ByteCounter` | a byte that is copied, incremented and written back (abstract) |
| `WritePair`, `WritePair_proofs` | the write client and the write server, composed, and their proofs |
| `CyclicSensor` | a value that goes round a cycle, and what is shown of it (abstract) |
| `Sensors`, `Sensors_proofs` | the simulated values of `BLE_Advertising`, `BLE_PeriodicAdvertising` and `BLE_GattServer_AddService`, advertising of those and of `BLE_GattServer_ExperimentalServices`, and their proofs |

`GattClientDemo` implements `GattSurvey`, `ClockService` implements `DayClock`,
`GapDemo` implements `DemoModes`, `PeriodicDemo` implements `RoleElection`,
`WritePair` implements `ByteCounter` and `Sensors` implements `CyclicSensor`
three times; each time the abstract specification is instantiated with a
refinement mapping and checked as a PROPERTY. Operators named `..._Something` under a comment
"Seeded fault" are wrong variants of a definition: nothing uses them in a
specification, they show that a property would notice.

### State and actions against the code

**GattClientDemo.** The variables carry the member names without underscore.
The list is a sequence and `_it` a position in it, 0 for `nullptr`. `op` is the
one procedure the stack has in flight; a handler is enabled by it. `dataWritten`
counts how often `when_descriptor_written` is registered, because
`start_discovery` registers it again on each connection and `stop()` detaches
one: a write response is delivered to all of them. `queued` counts the posted
`process_next_characteristic` calls. A null dereference sets `crashed`, after
which nothing happens. `Disconnect` either leaves the procedure to be aborted
through its own callback or drops it, as both are the stack's choice. `Faults`
lets any local call be refused. `answeredReads`, `answeredWrites`, `outcome` and
`unsolicited` are history.

**ClockService.** One variable per characteristic. A tick with its carries is
one handler, hence one action; with `Faults` any get or set in it returns early
(`AccessFails`). A client's write is the authorization callback followed by the
assignment, which the stack does. `last` is history: whether the last step was a
tick whose accesses all succeeded, one in which an access failed, or a write.
`DayClock` sees it too, so that a carry can only be lost in a tick that a fault hit.

**GapDemo.** `calls` is the event queue: what the demo posted and the events of
the stack in the order they were raised. Time is the order it forces
(`EventQueue!Due`): a call runs before a later one of the same or a longer
delay. `held` marks the call `_cancel_handle` names. A set is `on`, `stopping`
until its end event is handled, `off`, or (extended) `none`. The compile-time
switch is `ExtCompiled`, the controller's `ExtSupported`. Nothing bounds what piles up in
the queue: a timer may expire and events be raised while others wait. A refused
`destroyAdvertisingSet` is only printed (main.cpp:355): the handle is dropped and
the set stays in the controller (`leaked`). A link is ended by the demo, by the
peer or by neither (`LinkLost`); only for the peer's reason does the demo cancel
its own disconnection. `failed` (the stack refused a call or a connection),
`undestroyed` (it refused to destroy the set) and `races` are history. `races`
names three situations in which two ends of a mode meet that the code has no
answer to:

| race | what happens |
|---|---|
| `timer` | the advertising timer expires while the event of a connection waits, so that the handler's `cancel` (main.cpp:409) comes too late |
| `scan` | a report is acted on when its scan is over: the timeout of that scan waits behind it and ends the mode of the connection |
| `central` | a central connects to a board that has an extended set: the end of the set leads to the next mode, and so does the disconnection |

They are recorded when they happen, not ruled out: all three are behaviours of the
model, and the properties below say what holds until the first of them. TLC was
used to see that each one, alone, really makes the modes overlap
(`ModesInSequence`) and two chains of calls run (`Drivers <= 1`), so that none of
them is an exception without need.

**PeriodicDemo.** Every variable is a function of the board except the link.
Either board runs every handler; they meet on the air, where a scanner hears an
advertiser (`Report`), a connection ends the peer's advertising (`Established`)
and a sync follows a periodic train. `failures` is history, and its bound.

**SecurityDemo.** As in `PeriodicDemo`, a queue per board; unlike there, the
object whose members are `bonded`, `handle` and `is_connecting` is replaced by
`SwitchRole` each time `break_dispatch` was called. `batch` is how many calls
that were due with the breaking one the loop still runs. `handler` is the object
that registered with the security manager in the first `on_init_complete`; it is
gone once `main` has switched, and its address is that of the running object only
if the class is the same or the build gives both objects of `main` one stack
slot (`SharedSlot`). A posted disconnection carries, as history, whether the link
it was meant for is still up (`own`) or gone (`old`). `Reset` restarts a board,
with the database kept or lost. Pairing goes through the stages at which the code
is called: requested by `setLinkSecurity`, asked of the peer's application,
accepted. The demo's three-second delays are the order that they force. `filters`
are the roles in which the stack of a board lets only known devices through, as
each `start` configures them from `_bonded` (main.cpp:323, 406); they outlive the
object, as the stack does. An address is resolved while both boards hold the keys
(`Known`). A filter of the central hides the peer's reports; a filter of the
peripheral makes the connecting board see a link and at once its end (`Rejected`).
A board starts, and restarts after a reset, in `main`, about to run its first
object; where `ble.init` is refused `run` returns and `main` makes an object of the
other class.

**WritePair.** `op` is the stage of the one procedure of each link: discovery,
`found` once the characteristic was delivered, the posted `read`, the `answer`
that carries the value, `write`, and its `ack`. Links of other boards
(`Callers`) have a discovery of their own, on the same flag. Loss of the link
either ends the procedure with an error, so that its callback runs and what it
then asks for is refused, or drops it. The callback of a read without data reads
a byte that is not there: an arbitrary one. The guard of `on_read` and
`on_write` that compares handles always holds, since only the client's own reads
and writes are answered, and is left out. `on_init` registers the callbacks
again in each round; `stop` shuts the stack down, which drops them, so that one
registration is live. `service_discovery` only prints. `stale` and `missed` are
history: that someone else changed the value since the client read it, that the
flag was unset when the server's discovery terminated.

**Sensors.** The board runs one of four programs, chosen in `Init`. A tick is one
handler: the new value, then the call that shows it, which the stack may refuse.
The periodic battery is started by `on_init_complete` here; in the program it is
started when the advertiser's role is established, which `PeriodicDemo` models.
Nothing is in a payload before the first accepted update (`Nothing`).
`misses` and `refused` are history.

## Runs

| run | instance | shows |
|---|---|---|
| `client_survey` | 46 servers of up to 3 characteristics, 1 connection, faults | `ImplementsSurvey`, `NoNullDereference`, `SolicitedOnce`, `SurveyEnds` |
| `client_reconnect` | same servers, 3 connections on 2 handles, faults | `TypeOK`, `IteratorLive`, `SubscriptionValueRight` |
| `client_unsolicited` | 2 connections | `NeverUnsolicited` is violated |
| `clock` | all 86400 times, bytes at the bounds, faults | `ValidTime`, `ImplementsDayClock` |
| `gap_sequence` | non-extended build, 2 connections of either kind, faults, events that pile up | `TypeOK`, `OneDriver`, `LinksAreClosed`, `ConnectingFlagRight`, `ImplementsModes`, `BothModesRecur` |
| `gap_extended` | extended build and controller, 2 connections of either kind, faults | `NoLeakedSet`, `ImplementsModes`, `BothModesRecur` |
| `gap_ext_connected` | extended build, one central connects, no faults | `ModesInSequence` is violated |
| `periodic_boards` | two boards, six failures of any kinds, three waiting reports | `TypeOK`, `ImplementsElection`, `SomeoneAnswers`, `AttemptNoticed`, `OneModeAtATime`, `SyncFollows` |
| `security_boards` | two boards, two failures of any of six kinds, one stack slot | `TypeOK`, `LinksAreClosed`, `GoesOn`, `OwnDisconnection`, `KeepsRole`, `MeetAgain` |
| `security_stack_slots` | two boards, no failure, two stack slots | `KeepsRole` is violated |
| `write_pair` | a byte of four values, one caller, two lost links, two foreign writes | `TypeOK`, `InSync`, `ImplementsByteCounter`, `NoLostUpdate`, `RoundEnds` |
| `sensors` | the whole cycles, three refusals in a row, two clients | `TypeOK`, `ShownAge`, `ImplementsCyclicSensor`, `ReachableAgain`, `ShowsAgain` |

**Bounds.** Servers of every single kind of characteristic, all pairs of the five
kinds that differ in control flow, and triples that put a skipped node between
two served ones: the iteration only compares a node with the next one that has
work, so longer lists repeat these cases (the proof covers any length). Three
connections let a registration, a posted call or a list survive twice. Two
connections let the GAP demo end a mode by one and begin another one while timers,
timeouts, reports and a disconnection of the first are still in its queue; the modes
themselves repeat without bound, and the proofs are for any number. Six failures of any kinds
in the periodic demo let each kind fail again during the recovery from the others;
two in the security demo combine a failure with the recovery from another one. Its
invariants and action properties were also explored with three (11 million states,
too long for a run kept with the project), which is where the exception of
`LinksAreClosed` for a connection attempt left behind by a late timeout comes
from. Two waiting reports put a report behind the one that connects. In the security
demo the roles, pairing, bonding and meeting again need no failure, so that a
single failure already falls into each of these stages. A byte of four values
wraps every fourth round and still tells a lost increment, a doubled one and
another client's write apart; the arithmetic is proved for every width. One
caller is enough to take the flag from the server's discovery or to give it a
second one, and two losses put a loss in the round that recovers from another.
The cycles of the sensors are explored whole; three refusals in a row are carried
around the end of a cycle, and the proof is for any number.

**Fairness.** `FairSpec` assumes that the queue runs its calls (`dispatch_forever`
never ends but by `break_dispatch`, after which `main` runs the next object),
that the stack answers a procedure it accepted, ends a set it was told to stop,
times a scan or a timed set out and answers `connect`. In `PeriodicDemo`, that a
scanner that goes on hears an advertiser that goes on. In `SecurityDemo` scanning
and advertising alternate with other roles, so that this opportunity comes and
goes; `SF` on `Report` and on `Established(b) \/ Rejected(b)` says that it is taken in the end, which
the code arranges for: a board that has not bonded advertises for a random time
(main.cpp:377), and one that has waits without end, so that the boards do not
stay in step. In `WritePair`, that the server's
link is connected in the end, and that its stack carries on with what was asked.
Nothing is assumed of other peers, nor of the order or the delay in which the
queue comes to a call: a central may never connect, a caller may hold
its link, a peer may leave at any time. `CHECK_DEADLOCK FALSE` appears where the
program may really stop: a client whose bound of connections is reached, a demo
whose start was refused, boards that are synchronised.

**What the violations show.**

* `client_unsolicited`: handlers are registered on every connection and only
  `stop()` detaches them. After a reconnection a write response takes the branch
  that "should never happen", which stops the survey of a healthy link.
* `gap_ext_connected`: both the end of the extended set and the disconnection
  carry the demo on; from then on two chains run. This is the race `central`.
* `security_stack_slots`: only the first object registers for pairing results. If
  the objects of `main` lie at different addresses, a board that pairs in its
  second role never learns of it, and switches roles again.

**Visible in the models, without a run of their own.** Setting the constants as
said makes TLC show each of them.

| module and constants | behaviour |
|---|---|
| `GapDemo`, `ExtCompiled = TRUE`, `ExtSupported = FALSE` | the next mode is left to the end of an extended set that was never created: `BothModesRecur` fails |
| `GattClientDemo`, `MaxConnections = 2` | a doubled write handler stops the survey with a read in flight, whose callback then dereferences a null `_it` (main.cpp:301): `crashed` (the bound in `NoNullDereference`) |
| `GapDemo`, `ExtCompiled = FALSE`, `Connectable = TRUE` | the race `timer`: `cancel` of a timer that has already run lets two ends of a mode run, and `ModesInSequence` fails |
| `GapDemo`, `Discoverable = TRUE` | the race `scan`: the scan timeout, which `cancel(_cancel_handle)` does not name, ends a mode that the disconnection ends again, and `ModesInSequence` fails |
| `GapDemo`, `ConnectStopsScan = FALSE` | the same without any race, as the scan goes on beside the connection |
| `GapDemo`, `ExtCompiled = TRUE`, `ExtSupported = TRUE`, `Faults = TRUE` | a refused destruction leaves a set without a handle behind the next one (the `undestroyed` of `NoLeakedSet`) |
| `GapDemo`, `Faults = TRUE` | a connection that fails with the scan stopped leaves nothing scheduled (the `failed` of `BothModesRecur`) |
| `PeriodicDemo`, `ConnectStopsScan = FALSE` | a scan timeout behind a failed connection: both boards end as advertisers |
| `PeriodicDemo`, `"sync"` in `Failures` | a failed synchronisation leaves `_is_connecting_or_syncing` set, and the scanner never tries again (the exception of `SyncFollows`) |
| `SecurityDemo`, `"late"` in `Failures` | a scan timeout behind the report that connects ends the object in the middle of its connection; both boards may end up advertising for ever (the exception of `MeetAgain`) |
| `SecurityDemo`, `"reset"` in `Failures` | a board that was reset and has lost its keys is a stranger to the one that bonded, whose filters reject it (main.cpp:334, 415): both go on, but do not meet again until the bonded one is reset as well (the premise of `MeetAgain`) |
| `SecurityDemo`, `"refusal"` or `"connection"` in `Failures` | the scan was stopped and nothing starts it again (the exceptions of `GoesOn` and `MeetAgain`) |
| `SecurityDemo`, `MaxFailures = 3`, `"late"`, `"connection"` and `"reset"` | the failure of an attempt left behind is handled on the next link and overwrites `_handle`: the delayed disconnection closes nothing (the last exception of `LinksAreClosed`) |
| `SecurityDemo`, `"reset"` in `Failures` | two boards reset with their keys kept encrypt, neither pairs, and neither disconnects (the exception of `LinksAreClosed`) |
| `SecurityDemo`, `"pairing"` and `"link"` | the disconnection posted after a failed pairing may close the link of the next object (the exception of `OwnDisconnection`) |
| `WritePair`, `Callers` not empty | the discovery of another link takes the flag: nothing is read, and the round hangs (the `missed` of `RoundEnds`) |

The texts of the heart rate example differ from its code as well: its readme
speaks of an update each half second and of other bounds of the value (lines 75
and 81) where the code posts one each second over 60..109, and a comment on
`onConnectionComplete` (main.cpp:137) of restarting the advertising there, which
only the disconnection does. `ReachableAgain` is about what the code does.

## Proofs

Checked by TLAPS for every value of the constants that satisfies the named
assumptions of the modules.

* `GattClientDemo_proofs`, `MembersTyped` and `IteratorStaysLive`: `TypeOK` and
  `IteratorLive` over any number of connections. They are inductive together with what the handlers need
  of each other (`TypeInv`).
* `NeverNull` and `AlwaysSolicited`: `NoNullDereference` and `SolicitedOnce`
  within a connection. Neither is
  inductive: `SurveyInv` describes the first connection by its phases. `IdleInv`
  before it, `ListInv` (the list is a prefix of the server, all on this link),
  `ChainInv` (exactly one of the procedure in flight and the posted call carries
  the survey on), `ProcedureInv` (the procedure is the one of the node at `_it`,
  and `_descriptor_handle` agrees with it) and `OrderInv` (everything before
  `_it` was served).
* `SurveyImplemented`: with one connection `Spec => ImplementsSurvey`, from the
  same invariant; `OrderInv` is what makes the abstract order and completeness
  follow.
* `ClockService_proofs`, `ClockInRange`: `ValidTime`, from the authorization and
  the wraps.
* `ClockIsDayClock`: `Spec => ImplementsDayClock`; `TickCases` lists what a tick
  does to the digits, carry by carry, with an access that fails and without,
  `Digits` relates the seconds of the day to them. A tick whose accesses succeed is
  exact, whatever was written between two ticks; code that forgot a carry would
  have to show a tick the abstract clock does not have.
* `WritePair_proofs`, `WritePairTyped`, `ShownInSync`, `NothingLost`,
  `PairIsCounter`: `TypeOK`, `InSync`, `NoLostUpdate` and `ImplementsByteCounter`
  for every width of the byte, any set of callers and any number of losses and
  foreign writes. `InSync` is about the last stage of a round only; `FreshCopy`
  carries it there: as long as nobody else wrote, the answer is the value and the
  write is the value plus one, which is what the client has shown. `NothingLost`
  and the abstract `Write` follow from the same conjunct.
* `Sensors_proofs`, `SensorsTyped`, `ShownAsOldAsRefused`, `SensorsAreCyclic`:
  the cycles, the age of what is shown, and the three refinements, for any number
  of refusals. `IInv` adds that a board not yet initialised has neither link nor
  ticker.
* `GattClientDemo_proofs`, `SubscriptionsRight`: the value written to a CCCD over
  any number of connections. `SubInv` adds to `TypeInv` that the procedure in
  flight on a descriptor is the one of the characteristic at `_it`
  (`ProcedureSub`).

* `PeriodicDemo_proofs`, `BoardsTyped`, `SecurityDemo_proofs`, `RolesTyped`, and
  `GapDemo_proofs`, `GapTyped`: their `TypeOK` for any number of failures and
  connections, on every build and controller. None is inductive, because what a
  handler does depends on the call it was given: `QueueInv` says that a
  periodic mode or the loss of a sync only waits at a board with a role (with
  `SyncInv`, that only such a board has a sync), the `Waiting` of a module which
  arguments a waiting call may have, `BatchInv` that a queue has at least the calls
  that a breaking loop still runs. In `GapTyped` the bound on the connections needs
  a count: `Fits` and `Room` say that the reports in the queue never exceed the
  connections still allowed, and `Reported` is followed through each handler.
* `EventQueue_proofs` has what all three need. Whatever holds of all calls in a
  queue is kept by `post`, `post_held`, `RemoveAt` and `cancel`. `Some`, `AtMostOne`
  and `Before` say that a call of a set waits, that one at most does, and that the
  calls of one set wait in front of those of another: what each operation does to
  them, and to the number of calls of a kind, is proved once for any queue. An
  call is not overtaken by one posted later with the same delay or a longer one
  (`NotOvertaken`; an immediate call by none, `ServedAfter`), `cancel` leaves no held call
  behind when there is one at most (`CancelsHeld`).
* `PeriodicDemo_proofs`, `AttemptsNoticed`, `OneMode`, `SomeoneDoesAnswer`,
  `RolesElected`: `AttemptNoticed`, `OneModeAtATime`, `SomeoneAnswers` and `Spec
  => ImplementsElection`, for any number of failures and waiting reports, on
  controllers that stop scanning to connect (`ConnectStopsScan`; without it both
  boards may end with one role, see the table above). `ElectionInv` describes a
  board by what is under way: at most one of its scan, its advertising, its
  attempt and the calls that will start the next mode; a report or a timeout of an
  earlier scan waits in front of the answer of the attempt that ended that scan,
  which is why the flag still makes the demo ignore it; and a board that has a
  role, or whose queue holds the event that will give it one, has a peer with the
  other role, or about to get it, from the same connection.
* `GapDemo_proofs`, `FlagWithoutCentrals`: `ConnectingFlagRight` on every build and
  controller, after every race, when nobody connects to the board. `AskInv` is
  exact: the flag is set if and only if the stack is connecting or the answer
  waits, never both, and one answer at most.
* `GapDemo_proofs`, `OneDriverOnly`, `LinksClosed`, `NoSetLeaked`, `ModesApart`,
  `FlagInSequence`, `ModesImplemented`: `OneDriver`, `LinksAreClosed`,
  `NoLeakedSet`, `races = {} => ModesInSequence`, `ConnectingFlagRight` and
  `Spec => ImplementsModes`, on every build and controller, for any number of
  connections, any failures, and any timers and events that pile up. The one
  assumption is `ConnectStopsScan`, a controller that stops scanning to connect
  (`FlagInSequence` needs it for connectable boards only). All of them hold until
  two ends of a mode race; `GapInv` is `TypeOK` with its strengthening, and
  `races = {} => BoardInv`. In `BoardInv`, `Shape` says that the board is in one of
  six situations: nothing carries it on, which needs an excuse (`Resting`); one of
  the `Steps` waits, the calls and events that enter or end a mode (`Stepping`); it
  is `Advertising`, with its timer; the extended set stops (`Ending`); it is
  `Scanning`, or connecting in place of the scan; it is `Linked`, with the answer or
  the demo's disconnection of exactly that link waiting, or the link was already
  lost before the answer was handled. Whatever else is in the queue is bounded by
  the other conjuncts: `OnceInv` (one held call, one step, one answer, one end of
  each set; the answer of a connection waits in front of its loss, which is why a
  link lost before its answer was handled is not closed twice), `PhaseInv` (the
  phase flag agrees with what waits), `SetInv` (a handle is kept exactly for the
  extended set, and a set without one was refused its destruction), `FlagInv` and
  `KnownInv` (arguments and delays). The lemmas `ToStep`, `ToRest`, `ToSame` and
  `TimerPosted` say how a handler that posts, cancels or leaves the queue alone
  leads from one situation to the next; each handler is then a case of them.
  `RacesKept` lets the invariant be carried through steps without a race only.
  `ModesImplemented` sorts the steps into those that enter a mode, jump to the next
  one, quiet the radio, or change nothing that `DemoModes` sees (`Moves`).
  `BoardInv` was explored with TLC on the three builds before it was proved.

* `SecurityDemo_proofs`, `AlwaysGoesOn`: `GoesOn` for any number of failures and
  either layout of the objects. `GoesOn` counts any waiting call as something to go
  on with, which a report or a late disconnection is not; `GoInv` counts only the
  `Carriers`, the calls that start an activity or break the loop whatever the state
  they meet, and is inductive: the handler of a carrier leaves an activity or
  another carrier, the end of a link posts one at both boards, and everything else
  leaves the carriers where they are. A connection that the peer's filter rejects
  leaves its own end waiting (`RejectedCarries`).

* `SecurityDemo_proofs`, `ClosesOwnLink`: `OwnDisconnection` for any number of
  failures and resets, at every position of the queue. `OrderInv` says, for as long
  as no scan timeout comes late, that a board does one thing at a time
  (`Orderly`): it scans, advertises, is being connected, breaks its loop, has a link
  or has one of the calls that lead to the next of these (`Steps`). What its queue
  holds besides was posted earlier (`InOrder`): reports wait in front of the step
  that ends their scan, what a link brings (`Outcomes`) in front of its end, and the
  disconnection of a link that is gone (`Old`) in front of the restart that leads to
  the next link. The last one is where the delays count: both are posted with the
  same delay (main.cpp:200, 217, 243), and `EventQueue_proofs.NotOvertaken` keeps
  calls of one delay in their order. `Orderly` also says that an object that has
  bonded has neither a timed activity nor a loop that breaks, without which it would
  hand its disconnection to the object after it. A late timeout breaks all of this,
  which is why the property excepts it.
* `SecurityDemo_proofs`, `PairedKeepRole`: `KeepsRole`, from `OrderInv` and
  `KeepInv`: as long as no board was reset, one that holds keys has an object that
  has bonded, or the result that tells it waits. Since that result waits in front of the end of
  the link (`InOrder`), the loop does not break before it is handled. The
  hypothesis `SharedSlot` is needed: without it the result reaches an object that
  is gone, and `security_stack_slots` shows the role change.
* `SecurityDemo_proofs`, `LinksClosed`: `LinksAreClosed` for any number of failures
  of every kind and either layout of the objects. `LinkInv` has four parts.
  `HasKeys`: the board of an object that has bonded, or will be told so, holds the
  keys. `FailureKnown`: a connection only reports a failure where one happened.
  `Closes`: as long as an object that has bonded has a link, its board has the
  connection report or a disconnection waiting, and a disconnection that reads
  `_handle` when it runs (main.cpp:243) finds it set. During the life of an object
  only the report of a failed connection clears it; `OrderInv` has none of them
  beside a link unless a timeout came late, so that the handle is lost only after
  both (`FailedUnlinked`, the last exception of the property). `WillPair`: a link of two boards without keys
  is being paired, or a call waits that asks for the pairing, reports its result or
  closes the link.

`OrderInv`, `KeepInv` and `LinkInv` were explored with TLC before they were proved:
with two failures of any kind on the constants of `security_boards`, with three
failures and no late timeout, and (`KeepInv` aside) with `SharedSlot = FALSE`.

Out of the prover's reach, and left to TLC: liveness under fairness
(`SurveyEnds`, `BothModesRecur`, `SyncFollows`, `MeetAgain`, `RoundEnds`,
`ReachableAgain`, `ShowsAgain`). Every invariant and every action property of a
passing run is stated by a theorem.

## Not modelled

* Output, statistics, PHY events, the layout of payloads; build files, resources
  and test configurations.
* `BLE_SupportedFeatures`, which prints and keeps no state.
* `experimental-ble-services` (link loss, current time), which is of another
  repository: `Sensors` has the program around it.
* The rotation of private addresses in the security demo: its filters are modelled
  by whom they let through. A third board that answers to the same name, and a
  smartphone in the place of a board.
* The event queue never runs out of memory except in `GattClientDemo`, where the
  post may be refused. Calls that stop an activity (`stopAdvertising`,
  `stopScan`, `disconnect`) are assumed to succeed in `GapDemo`; those that set up
  or start one, and `destroyAdvertisingSet`, may fail.
* The build of `GapDemo` with extended advertising on a controller that lacks it has
  no run of its own: it stops after its first advertising mode, as the table above
  says. The invariants of `GapDemo` are proved for it too.
* A call that outlives a bonded object of the security demo whose address no
  other object takes over (`SlotAssumption` keeps late timeouts and different
  slots apart).

## Plan

What is left is outside the safety proofs above: the liveness properties for every
value of the constants, which this prover does not reach, and a third board in the
security demo.
