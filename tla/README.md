# Verification of the rumqttc client

TLA+ models of the MQTT client in this repository, with TLC runs on small
instances and TLAPS proofs for every instance. The core is the MQTT 3.1.1
client: its outbound scheduler, its protocol state and its event loop, composed
with client handles, a session store and a broker.

## The system

| part | source | status |
|---|---|---|
| outbound scheduler | `rumqttc-core/src/scheduler.rs` | modelled, order proved |
| MQTT 3.1.1 protocol state | `rumqttc-v4/src/state.rs` | modelled, invariants proved |
| MQTT 3.1.1 event loop | `rumqttc-v4/src/eventloop.rs` | requests, reads, checkpoints, incoming publishes, reconnection, disconnect |
| client handles and notices | `rumqttc-v4/src/client.rs`, `notice.rs` | tracked publish, subscribe, unsubscribe, manual acknowledgement, disconnect |
| session checkpoints | `rumqttc-v4/src/session.rs` | contents and validation, not the bytes |
| admission gate, ordered shutdown | `rumqttc-core/src/admission.rs`, `*_disconnect.rs` | planned |
| session recovery | `rumqttc-core/src/session_recovery.rs`, `eventloop_recovery.rs` | planned |
| MQTT 5 state, loop, publish budget, redirect | `rumqttc-v5/src` | planned |
| file session store | `session-store-file` | its contract only; planned |
| wrapper core and bindings | `native-wrappers` | planned / marshalling |
| codecs, transports, TLS, proxies | `mqttbytes-*`, rest of `rumqttc-core` | not modelled: data and I/O |

A client handle puts requests into two lanes, one for publishes and one for
everything else; `disconnect_now` has a third. The event loop moves them into the scheduler, which picks the
next request that the protocol state can take. The state assigns a packet
identifier and returns a packet; the loop saves a checkpoint of the session and
then writes the packet. Answers from the broker go through the state, are
checkpointed, and resolve the notice the application waits on. When the
connection fails, `clean` collects what is unfinished into `pending`, from which
it is sent again after the next connection. A restarted process loads the
checkpoint instead. A publish of the broker goes through the state as well, which
answers it (or waits for the application to) and, unless it is a repetition
already answered, makes an event that `poll` returns after the answer has been
checkpointed and flushed.

## Modules

`OutboundScheduler` holds the selection rule of `next_ready_index` as operators
on a classified queue: the first ready request, or a ready control request
behind nothing but blocked QoS 1/2 publishes. `OutboundQueue` is the scheduler
alone as a state machine, with tickets for the admission order and readiness
that changes at any time.

`MqttState` has one variable per field of `struct MqttState` and one operator
per method. An `Option` is a set of at most one element, a notice is named after
its request, and the vectors indexed by packet identifier share one length,
`tracking_len`. A method that fails without changing anything is disabled; one
that fails after changing something is a disjunct of its own (`Refuse`,
`collision_timeout`).

`MqttStateCaller` drives `MqttState` as its callers do: submissions with chosen
or given identifiers, any packet from the broker whether solicited or not, the
loop's `clean` and the public one, a session reset, and a restart from a
checkpoint of the current state. `held` is what the caller keeps from `clean` and
restore. It is a set, so what is shown does not depend on the order of replay.
Three things are left out: dropping what is held (`drain_pending_as_failed`), a
PUBREL of the application's own making, and a restart from an older checkpoint,
which `Delivery` has.

`EventLoop` adds the lanes, `pending`, the scheduler's queue, the store, the
notices and the two wires. Handling a request or an answer takes two steps: the
transition with its checkpoint, and the write of the packet in `outgoing`.
Between the two the process may end, the connection may be lost or the save may
fail. An error sets `fault`, and the next step is `handle_network_result`, once
the events queued before it have been returned. A DISCONNECT is saved and written
in one step, with a branch for each of its failures.

`Delivery` composes the loop with the application, a process that can crash and
a broker that follows MQTT 3.1.1 and may lose its session while the client is
away. The broker is external to the repository and modelled from the packets the
loop sends and expects.

`InboundDelivery` is the other direction: the broker sends QoS 1 and QoS 2
messages, uses an identifier again when its exchange is over, and repeats what is
open after a reconnection. The application polls for the events and, in manual
mode, acknowledges each publish it was given, perhaps only on a later connection.

`MCMqttState` and `MCDelivery` only add symmetry. `MqttStateOrders`,
`MqttStateRequests`, `MqttStateAcks`, `MqttStateCleaning`, `MqttStateProofs` and
`OutboundQueueProofs` hold the proofs. Definitions marked "Mutant" are plausible
errors in the code; each property is known to reject one of them.

## Runs that pass

| run | instance | what it shows |
|---|---|---|
| `outbound_queue` | 4 requests, 4 classes | only a control request passes a QoS 1/2 publish; what can leave leaves; a control request never waits for blocked publishes |
| `state_publish` | 3 messages, 2 identifiers, window 2 | ownership, window, orders, tracking length, collision slot, notices, checkpoints |
| `state_control` | 1 message, 1 control request, 2 identifiers, 1 of the broker | publishes and controls share identifiers without confusion; an answered QoS 2 receive is remembered until its PUBREL |
| `delivery_restart` | 3 messages, window 2, 2 faults, 1 restart | exactly once, no false success, nothing forgotten, checkpoint before write |
| `delivery_session` | 2 messages, 1 control request, window 1, 1 fault, session loss, graceful and immediate disconnect | publish order, restorable checkpoints, no replay into a new session |
| `delivery_progress` | 2 messages, 1 control request, window 1, 1 fault, session loss, disconnect with a deadline | every tracked request is answered, every graceful disconnect ends |
| `inbound_auto` | 3 messages, 2 identifiers, 2 faults, 1 restart, session loss | an incoming message is acknowledged only when the application has it, a QoS 2 message is not given again once its PUBREC is written, every exchange ends |
| `inbound_manual` | 3 messages, 1 identifier, 2 faults, 1 restart | the same when the application acknowledges; no PUBREL comes for a receive that was not answered |

Bounds. Two identifiers make the allocator wrap, meet a full space and reuse
identifiers. A window of one or two makes publishes block, and with two messages
in `delivery_progress` one of them waits in the scheduler behind the window. In
`state_publish` the messages outnumber the identifiers, so one collides.
`WarmSlots` below the identifier space lets the vectors shrink. `MaxFaults`
counts lost connections, failed saves and failed clears together, and
`MaxCrashes` restarts; a fault and a restart may fall between any two steps.
`MaxCollisionPings` bounds PINGREQs during a collision. More incoming messages
than identifiers make the broker use one again while the client may still
remember its last use.

Fairness. `delivery_progress` assumes weak fairness of the loop's own steps (the
application polls, the documented progress contract), of a connection being
accepted, and of the broker answering. Faults are finite in number, and
`disconnect_with_timeout` needs no fairness of its timer: the deadline may never
pass, so the run covers a plain `disconnect` too. The inbound runs add that the
application takes its events, that the broker repeats what is open, and in manual
mode that every publish is acknowledged, which `AsyncClient::ack` asks of the
application. The scheduler's run
assumes that a request that can be popped is popped, because the loop calls
`handle_ready_requests` in every iteration. Deadlock is not checked in
`Delivery` and `InboundDelivery`: the system stops once everything is answered.

## Where the documentation and the code differ

Four runs are expected to find a violation.

- `delivery_replay_order`: publishes are documented as FIFO among themselves.
  When a second connection is lost before `pending` is empty, `clean` appends
  the state's requests behind what is left there, and a later message overtakes.
- `delivery_restore`: by the same route a new publish and a held replay together
  exceed the window in the checkpoint, and restore refuses it.
- `delivery_drain`: a disconnect that ends up in `pending` before a replay waits
  for an exchange whose packet will not be sent while the drain lasts. A lost
  connection or a deadline ends it; nothing else does.
- `delivery_reset`: `clear_pending` lives in memory. After a failed clear and a
  restart, the discarded checkpoint is replayed into the broker's new session.

With one fault and no restart, `delivery_session` and `delivery_progress` show
the same four properties hold. The first three violations need a second loss.

Two limits of receiving follow from the code and are part of what the inbound
runs state. With automatic acknowledgements the PUBREC is saved and flushed
before `poll` returns the event, so a process that ends in between loses the
message. With manual ones an acknowledgement made twice, once for each delivery
of a message on two connections, may be taken for that of the next message on
the same identifier; the comment on `discard_pending_manual_acknowledgements`
leaves this to the caller. The application has always seen that next message,
because `select` returns events before it takes requests, and this is what
`AnswersAreTrue` says.

## Proofs

The proofs use only the assumptions on the constants: at least one identifier, a
window no larger than the identifier space, and natural numbers for the bounds.

Scheduler. `OnlyControlOvertakesPublish` is about the requests sent followed by
those queued. It is not inductive: a pop takes from the middle of the queue. The
invariant adds that the queue is in admission order and that each sent request
was allowed to precede each one still queued (`SchedulerOrder`). The fact used
about `next_ready_index` is that everything it skips is a blocked QoS 1/2
publish and that it then returns a control request.

Protocol state. `IInv` (in `MqttStateRequests`) conjoins `TypeOK`,
`PkidOwnership`, `WindowAccounting`, `OrdersEnumerate`, `TrackingCovers`,
`CollisionOwned` and that a publish set aside has an identifier. The parts need
each other: an acknowledgement frees an identifier only correctly if nothing
else owns it (ownership), the window count is right only if the order lists name
each exchange once, and the vectors shrink only when no identifier is reserved,
which is safe because held replays keep theirs reserved.
The argument has one lemma per handler:

1. `MqttStateOrders`: options, finite sets of identifiers, order lists.
2. `MqttStateRequests`: publish (tracked, set aside, refused), subscribe,
   unsubscribe.
3. `MqttStateAcks`: every acknowledgement, a collision sent in its wake, PUBREL.
4. `MqttStateCleaning`: the two ways to leave a connection.
5. `MqttStateProofs`: reset, restart, and `Spec => []IInv`. The theorems
   `TypeCorrect`, `PkidOwnershipHolds`, `WindowAccountingHolds`,
   `TrackingCoversHolds`, `CollisionOwnedHolds` and `ReplayReadyHolds` follow.

Only model-checked: `NoticeOwnership`, the part of `OrdersComplete` about the
sequence `CleanRequests`, `CheckpointKeepsPkids`, `AnsweredReceivesSurvive`, all
of `Delivery` and `InboundDelivery`, and everything temporal under fairness, which the proof system
does not handle.

## Simplifications

- QoS 0, keepalive timing, request batches longer than one (the default is
  one), cancellation of `poll`, and `clean_session = true` are not in `EventLoop`
  yet. The optional features `ordered-shutdown` and `session-recovery` are off,
  as by default.
- Of the events only incoming publishes are kept. Publishing and receiving are
  explored in separate runs of the same loop.
- A restart has the options of the process before it, so the comparison of
  options in `validate_persisted_session_signature` always succeeds.
- A write error of a request or a response is `ConnectionLost` before the write.
- A read handles one packet. A longer batch is a sequence of such reads with
  one checkpoint at the end, and its responses are flushed after that save.
- Packets on the wire are gone once the loop handles the error of their
  connection.
- A CONNACK that creates a session at the broker reaches the client.
- `Save`, `clear` and `load` of the store are atomic, as its contract demands.
- Topics and payloads are names; `persisted_publish` is the duplicate flag and
  the identifier.

## Plan

1. Event loop: keepalive and the order of poll sources, QoS 0, the await points
   where `poll` can be cancelled.
2. Admission gate and ordered shutdown: concurrent senders, fence, rendezvous
   wake-ups. Session recovery: phases against the loop.
3. An abstract delivery service (submit, deliver, complete) and `Delivery` shown
   to implement it.
4. MQTT 5: state with receive maximum and rejecting PUBREC, publish budget,
   redirect bound. File store: the steps of a replacement with crashes.
5. Proofs: notices of `MqttState`, then checkpoint coverage and exactly-once for
   `EventLoop`.
