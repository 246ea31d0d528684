# TLA+ verification of watermill's CQRS request/reply protocol and event group processor

This directory holds TLA+ models of the CQRS request/reply code in `src/`. It also holds TLC configurations that check the models on small instances, and TLAPS proofs that hold for every value of the constants.

## 1. Inventory

### Components and their state

| Component | Source | State it keeps | Operations |
|---|---|---|---|
| Correlation orchestrator | `src/components/requestreply/command_bus.go` (`SendWithReply`) | a cancellable context per call; the operation id | listen for notifications, then send the command; on error run the deferred `cancel`; return the channel and `cancel` |
| Pub/Sub request/reply backend | `src/components/cqrs/event_processor_group.go` lines 261-510 (`PubSubRequestReply`) | per call: a notifications subscriber and subscription, a listening context (with `ListenForReplyTimeout` if set), one listener goroutine, and `replyChan` (capacity 1) | `ListenForReply`, the listener loop, `handleNotifyMsg`, `OnCommandProcessed`, `ModifyCommandMessageBeforePublish` |
| Handler-side completion hook | `src/unnamed/part_000` (`NewCommandHandler`, `NewCommandHandlerWithResult`) | none | run the handler, then always call `OnCommandProcessed` and return only its error |
| Event handler group processor | `event_processor_group.go` lines 1-260 (`EventGroupProcessor`) | `groupEventHandlers`: group name -> handlers | `AddHandlersGroup`, `AddHandlersToRouter`, and the group's router handler |
| Transport and command processor (external) | not in `src/` | topics, subscriptions, acks and nacks | publish, subscribe, ack, nack and redeliver |

### How they interact

1. `SendWithReply` calls the backend's listen operation. That subscribes to the reply topic from `GenerateReplyNotificationTopic` and spawns the listener goroutine.
2. `SendWithReply` then publishes the command with the operation id.
3. The command processor hands the command to the handler wrapper. The wrapper runs the handler and calls `OnCommandProcessed`, which publishes a notification stamped with the command UUID and the handler's error flag.
4. The wrapper returns `OnCommandProcessed`'s error, so the command is nacked and redelivered only when the notification could not be published. A handler's own business error is still acked.
5. The listener goroutine loops on a `select` between `ctx.Done()` and the subscription:
   - It acks every notification and keeps the ones whose UUID matches.
   - For each match it writes a reply to `replyChan` and continues.
   - When the context ends or the subscription closes, it writes a `ReplyTimeoutError`, then runs its deferred `cancel()` and `close(replyChan)`.

Communication happens through:
- shared channels: the subscription's output and `replyChan`;
- contexts: the caller's cancel, the timeout, and the goroutine's deferred cancel;
- messages on the transport: the command and the notification.

### What is hard

- **Concurrency.** One listener goroutine runs per call. Several calls may share one reply topic. Go's `select` picks any ready case.
- **Failures.** Any of the three setup steps can fail. The command send can fail, and it can fail *after* the message reached the broker. `ModifyNotificationMessage`, topic generation or publish can fail. An ack can be lost, which causes redelivery and a second handler run.
- **Timeouts and cancellation.** These race late notifications.
- **Blocking.** Replies are written with plain blocking sends outside the `select`, on a channel of capacity 1.

### Properties that make each component correct

- Orchestrator:
  - the subscription exists before the command is published;
  - a returned channel eventually yields a reply;
  - a cancelled call's channel is closed.
- Backend listener:
  - replies are correlated (only its own call's notifications);
  - the channel is closed only after a final timeout reply;
  - the goroutine ends after cancel;
  - at most one reply (this is the spec's claim, and it does not hold).
- Completion hook: the notification is sent whatever the handler returned, so a failing handler still produces a reply.
- Group processor:
  - an event is acked only after the group's first matching handler completed it;
  - only that handler runs; the others of a matching type never see the event;
  - unknown events are acked or nacked as `AckOnUnknownEvent` says;
  - every group eventually consumes its stream.

The hazards, each at the line where it bites, are listed in `PROJECT.json` under `hazards`.

## 2. Modules

| Module | What it models | Checked by | Proved in |
|---|---|---|---|
| `RequestReply` | orchestrator + backend + completion hook + transport boundary | `MC_RequestReply`, `RR*.cfg` | `RequestReplyProofs` |
| `ReplyChannel` | the abstract promise of the channel `SendWithReply` returns | through `ImplementsReplyChannel` in `rr_safety` | `RequestReplyProofs` (`Refinement`) |
| `EventGroupProcessor` | `AddHandlersGroup`, `AddHandlersToRouter`, the group's router handler and the router's ack/nack | `MC_EventGroupProcessor`, `EGP*.cfg` | `EventGroupProcessorProofs` |
| `GroupConsumer` | the abstract promise of a handler group: in-order, exactly-once consumption by the first matching handler | through `ImplementsGroupConsumer` in `egp_refinement` | `EventGroupProcessorProofs` (`GroupRefinement`) |

The two parts do not share state: the event group processor and the request/reply backend live in one file but only meet through the router and the transport, so they are separate specifications.

## 3. The `RequestReply` module

**Constants:**
- `Ops`: the calls. Each call's operation id is its command UUID.
- `Topics`, `TopicOf`: the topic generator.
- `TimeoutSet`: whether `ListenForReplyTimeout` is set.
- `CompetingConsumers`: the transport mode.
- `MaxDeliveries`: a bound on how many times one command is delivered.
- `NoMsg`: a nil `ReplyMsg`.

The assumption `RRAssumption` is in the module. TLC evaluates it on every run.

**Variables and what they correspond to in the code:**

| Variable | Code |
|---|---|
| `caller` | progress of `SendWithReply` |
| `cancelled` | its context was cancelled (by the caller, or by the deferred cancel on error) |
| `ctxDone` | the listening context is done |
| `sub`, `inbox` | the subscription and the notifications routed to it |
| `listener`, `pending` | the goroutine's position, and the reply it is about to send |
| `replyCh`, `closedCh`, `received` | `replyChan`, whether it is closed, and what the caller has read |
| `cmd`, `deliveries` | the command message, and how often it was handed to the handler |

**Actions, one per operation:**
- `ListenForReply`: subscriber, topic and subscribe, where any of these can fail, then spawn the goroutine.
- `SendCommand`: ok, or an error with the message possibly delivered anyway.
- `CallerCancel`: the cancel function made by `context.WithCancel` (line 50) is called.
- `CallerRead`: the caller receives from the returned channel. This happens in the application, outside `src/`, and is modelled as what a Go receive does.
- `Timeout`.
- `SubscriptionEnds`: the subscriber closes its output on context end.
- `SubscriberShutdown`.
- The goroutine's steps:
  - `ListenerCtxDone`: the `ctx.Done()` case;
  - `ListenerSubClosed`: the `!ok` case;
  - `ListenerNotify`: ack, then filter with `handleNotifyMsg`;
  - `ListenerSendReply`: the send followed by `continue`;
  - `ListenerSendFinal`: the send, `return`, then the deferred cancel and close.
- `HandleCommand`: the wrapper, which calls `OnCommandProcessed`.

A send on `replyChan` is enabled only while the buffer is empty, which is how Go's blocking send behaves.

**Abstractions:**
- Payloads, result values and error strings are left out. A notification is its command id plus `HasError`.
- One operation id per call. `SendWithReply` generates an operation id (line 58), passes it to `ListenForNotifications` and stamps it as `OperationIDMetadataKey` (line 69). `PubSubRequestReply` correlates on the command message's UUID instead (lines 366, 493). The model identifies the two: a call `o` is both its operation id and its command UUID.
- The `_watermill_notify_when_executed` marker. `SendWithReply` does not set it; only `ModifyCommandMessageBeforePublish` (line 353) does, when the command bus applies it. The constant `NotifyWhenExecuted` is the set of calls whose command carries it. For any other call `OnCommandProcessed` returns nil at once (lines 446-449): the command is acked and nothing is published.
- Unmarshal failures are not modelled.
- `originalCommandMsgFromCtx` always finds the message, as it does under `cqrs.CommandProcessor`.

## 4. Runs

All runs use two calls on one shared topic `t1`. This is the case where each listener sees the other call's notifications.

- **`rr_safety`** (`RRSafety.cfg`, `TimeoutSet`, fan-out, `MaxDeliveries = 2`, only `o1` marked). This is about 118K distinct states. It checks:
  - `TypeOK`;
  - `ReplyCorrelation`: no reply carries another call's notification. `o1`'s notifications reach `o2`'s listener on the shared topic;
  - `ImplementsReplyChannel`: the refinement of section 4a. It implies that a closed channel ends in a `ReplyTimeoutError` and that nothing follows one.

  With `MaxDeliveries = 2` a command can be nacked or have its ack lost once, so duplicates and retries happen.
- **`rr_liveness`** (`RRLiveness.cfg`, `DrainSpec`, no timeout, `MaxDeliveries = 1`). It checks:
  - `EventuallyReplied`: once `SendWithReply` returned, a reply arrives;
  - `ChannelClosedAfterCancel`.

  There is no timeout, so only a real notification (or the caller's cancel, or a shutdown) can end the wait. Redelivery is left out to keep the liveness check under a minute. Retries are covered by `rr_safety`.
- **`rr_at_most_one`** (violation, `AtMostOneReply`). The trace is: reply, the caller reads it, the caller cancels, and the listener writes a second, timeout reply. This is the spec's "at most one Reply" against the `continue` at line 434.
- **`rr_listener_leak`** (violation, `ListenerStopsAfterCancel`). The trace is:
  1. `SendWithReply` fails after the command did reach the broker.
  2. The handler publishes.
  3. The listener buffers the reply; nobody will read it, because the channel was never returned.
  4. The listener then blocks forever on the final send.
- **`rr_competing`** (violation, `EventuallyReplied` with `CompetingConsumers`). Another call's listener takes and drops the notification.
- **`rr_unmarked`** (violation, `EventuallyReplied`, only `o1` marked, no timeout). `o2`'s command has no notify marker. `OnCommandProcessed` returns nil, the command is acked, and `o2`'s caller waits forever. The other runs mark every call (`NotifyWhenExecuted <- MCOps`), since a command bus set up for request/reply applies the marker.

`CHECK_DEADLOCK FALSE` is used in every run. When every call has finished (replied, cancelled or failed) and every command is acked, the system really does stop.

**Fairness (`Fairness` in the module).** The following actions are weakly fair:
- `SendCommand`: `SendWithReply` is synchronous and returns;
- each listener goroutine;
- the timer;
- the subscriber closing its output on context end;
- the command processor.

The caller's own `CallerCancel` and `CallerRead` are not fair: a caller may abandon the channel. `DrainSpec` adds weak fairness on `CallerRead`, for the documented promise about a caller that keeps reading.

**Bounded failures.** Every delivery except the last one allowed may fail to publish or lose its ack (`MayFail`). This stands for the assumption that the transport eventually succeeds.

Each passing property has a mutant in `PROJECT.json` that TLC catches:
- capacity 2 instead of 1;
- the UUID check dropped;
- the wrapper skipping `OnCommandProcessed` on a handler error;
- the deferred `close` missing;
- `handleNotifyMsg` dropping the `HasError` flag (`ReplyForNoError`), which breaks the refinement.

## 4a. The abstract channel (`ReplyChannel`) and the refinement

`ReplyChannel` says what a reader of the returned channel may see, per call, without goroutines, subscriptions or buffers:
- `chan[o]`: the sequence of replies written to the channel;
- `closed[o]`: whether it is closed;
- `Deliver(o)`: while open, append a reply built from one of `o`'s own notifications, with `err = "handler"` exactly when the notification has `HasError`;
- `Finish(o)`: while open, append one `ReplyTimeoutError` (`"timeout"` or `"closed"`) and close.

`RequestReply` instantiates it as `RC` with `chan[o] <- Written(o)` (what the caller has read followed by what is buffered) and `closed <- closedCh`. `ImplementsReplyChannel == RC!Spec` is checked by TLC in `rr_safety` and proved by TLAPS (`Refinement`). Under the mapping:
- `ListenerSendReply` is `Deliver`;
- `ListenerSendFinal` (send, deferred cancel, close) is `Finish`;
- `CallerRead` moves a reply from the buffer to `received` and is a stutter;
- every other step leaves both parts of `Written` and `closedCh` alone.

The abstract spec deliberately allows several `Deliver`s: the code writes one reply per matching notification (see `rr_at_most_one`).

## 5. Proofs (`RequestReplyProofs`, checked by tlapm)

- **`TypeCorrect`**: `Spec => []TypeOK`. It rests on the lemma `TypeStep`, with one step per action, and on `PublishType`: publishing keeps every inbox a sequence of notifications, in both transport modes.
- **`Correlation`**: `Spec => []ReplyCorrelation`.
  - `ReplyCorrelation` is not inductive on its own. A matched notification first sits in `pending` before it is sent. The inductive invariant `IInv` therefore adds `Correlated(o, pending[o])` to `TypeOK` and `ReplyCorrelation`.
  - The lemma `StepOnOne` reduces `IInv'` to the facts about the single call an action touches.
  - `AppendCorrelated` and `TailCorrelated` cover the sequence operations.
  - The argument: only `ListenerNotify` creates a reply with a message, and only when `Matches`. Sends and reads move correlated replies between `pending`, `replyCh` and `received`.
- **`Refinement`**: `Spec => ImplementsReplyChannel`.
  - The invariant `RInv` (`RInvHolds`, checked first by TLC on the `rr_safety` instance) says what the listener holds: in `"sending"` a reply in `RC!OwnReplies(o)`, in `"finishing"` one in `RC!FinalReplies`; a closed channel belongs to a listener that is `"done"`; a call that has not started has no listener. Without it a send could not be matched with `Deliver` or `Finish`, whose guards and reply sets speak of exactly these facts.
  - `RStepOnOne` reduces `RInv'` to the call an action touches.
  - `RefinementStep` maps every step: `WrittenForms` (`s \o <<>> = s`, `s \o <<r>> = Append(s, r)`), `SingleBuffer` (a non-empty capacity-1 buffer is `<<Head>>`) and `ChanAppend` (a change to one call's view is an `EXCEPT` of the mapped channel).
The proofs assume only `RRAssumption`. They hold for any number of calls and topics, any topic assignment, either transport mode and any delivery bound.

**Only model-checked.** The liveness properties (`EventuallyReplied`, `ChannelClosedAfterCancel`) and their violations are out of the prover's reach (they need fairness and ENABLED).

## 6. The `EventGroupProcessor` module

**Constants:** `Groups`, `Handlers`, `EventNames`, `EventOf` (the name of each handler's `NewEvent()`), `InvalidHandlers` (those failing `validateEvent`), `HandlerLists` (what the application passes), `Stream` (the event names on the groups' topic), `Malformed` (stream positions whose payload fails `Unmarshal`), `AckOnUnknownEvent`, `SetupCanFail` (topic generation, subscriber constructor or `router.AddNoPublisherHandler` can fail), `MaxFailures`. They are constrained by `EGPAssumption`.

**Variables:** `groupEventHandlers` (the processor's map, `<<>>` for an absent name), `setup` (`"adding"` until `AddHandlersToRouter` returns, then `"ok"` or `"failed"`), `routerGroups` (groups whose router handler was added), and per group `offset`, `failures` and `handled` (the `<<index, handler>>` pairs of successful `Handle` calls).

**Actions:**
- `AddHandlersGroup(g, hs)`: both error returns (no handlers, duplicate name) leave the map unchanged.
- `AddHandlersToRouter`: no groups is an error; otherwise the groups are visited in Go's unspecified map order and each is validated and added until an iteration fails, so a prefix of the groups may stay on the router.
- `GroupHandle(g)`: one delivery of the event at `offset[g]` to `routerHandlerGroupFunc` and the router's reaction. `FirstMatch` is the handler the loop stops at (`SelectInSeq`). `Unmarshal` or `Handle` errors nack; success acks; an event no handler takes is acked only with `AckOnUnknownEvent`. A nack redelivers the same event: the subscription is an ordered stream per group, as the config's comment on `GroupSubscriberConstructor` asks.

`Handle` errors are transient and bounded by `MaxFailures` consecutive failures (`HandleMayFail`); a malformed payload fails forever.

**Fairness:** `WF_vars(GroupHandle(g))` per group. The router runs each handler on its own goroutine and keeps delivering while the subscription is open.

**Runs** (`MC_EventGroupProcessor`: three groups, four handlers with `h1`,`h3` on `eA` and `h2`,`h4` on `eB`, `h4` invalid, `MaxFailures = 2`):
- **`egp_safety`** (7049 states): `AcksMatchHandling` with stream `<<eA, eB, eA, eC>>`, the third payload malformed, `eC` unknown and nacked, and setup that can fail part-way.
- **`egp_liveness`** (6022 states): `EveryEventAcked` with `AckOnUnknownEvent`; transient errors end and unknown events do not block.
- **`egp_refinement`** (15905 states): `ImplementsGroupConsumer`, with handler lists `<<h1, h2>>`, `<<h3, h1>>`, `<<h1, h3, h2>>` (two handlers of `eA`, in both orders), the second event malformed, unknown events acked and setup that can fail. Its mutant is a loop that lets the last matching handler win (`FirstMatchLast`).

`CHECK_DEADLOCK FALSE`: after the stream is consumed, or setup failed, nothing is left to do.

**The abstract group (`GroupConsumer`).** It has the variables `lists`, `started`, `active`, `next` and `handled`. Its actions are `Register(g, hs)` (a new name gets a non-empty list), `Start(S)` (once, a subset of the registered groups starts running) and `Consume(g)` (the next event is handled by the handler at index `k` with `IsFirst`, meaning it takes the event and no earlier handler does; or, with no handler taking it, passed over only under `AckOnUnknownEvent`). `IsFirst` states "first" with quantifiers, independently of the `SelectInSeq` search the model uses for the code's loop. `EventGroupProcessor` instantiates it as `GC` with `lists <- groupEventHandlers`, `started <- (setup # "adding")`, `active <- routerGroups` and `next <- offset`. A nack maps to a stutter, so the failure counter, malformed payloads and redeliveries are hidden.

The router's handler function captures the group's handler slice in `AddHandlersToRouter` (line 171), and the model reads the processor's map instead. The two agree because `AddHandlersGroup` refuses an existing name (line 123); `Register`'s guard in `GroupConsumer` states the same.

**Proofs (`EventGroupProcessorProofs`):**
- `FirstMatchType`: when some handler matches, `FirstMatch` is a handler of that event. `SelectInSeq` is defined with a `CHOOSE` of a minimum, so the proof shows the least index exists through `WFMin` over `<` on `Nat`.
- `TypeCorrect`: `Spec => []TypeOK`.
- `AcksMatchHandlingHolds`: `Spec => []AcksMatchHandling`, through `EGPInv`. `EGPInv` adds that router groups are registered groups, that nothing is on the router before setup ends, and that a group not on the router has consumed nothing. These facts are needed because `AddHandlersToRouter` puts groups on the router at once, and their history must then be empty. The lemmas `GroupFrame`, `GroupFresh` and `ConsumedStep` cover the per-group frame, a fresh group and one ack.

- `SelectFirst`: the index `SelectInSeq` returns is in the list, its handler takes the event, and no earlier one does. It uses the same well-foundedness argument.
- `EGPInvHolds`: `Spec => []EGPInv`.
- `GroupRefinement`: `Spec => ImplementsGroupConsumer`. `GCRefinementStep` maps each step:
  - `AddHandlersGroup` is `Register`;
  - `AddHandlersToRouter` is `Start(routerGroups')`; `EGPInv` gives `routerGroups' \subseteq Added`;
  - `GroupHandle` is `Consume` when it acks (`GroupHandleStep`, with `SelectFirst` giving the `IsFirst` witness), and a stutter when it nacks (`NackStutters`).

`EveryEventAcked` is only model-checked: it is a liveness property under weak fairness, which the prover cannot handle.

## 7. Not modelled

- In `EventGroupProcessor`: `OnGroupHandle` is treated like `Handle` (same error path); `addHandlerToRouter` and the router itself are external and modelled by their ack/nack; the groups left on the router after a failed `AddHandlersToRouter` are not run (the application stops on that error).
- Configuration: `Validate`, `setDefaults`, constructors.
- Logging.
- Marshaling, which is treated as a round trip that always succeeds.
- Persistence of messages published with no subscriber: such a notification is lost, as with an in-memory pub/sub.
