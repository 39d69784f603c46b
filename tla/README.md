# Verification of Agent Cloud: the relay, the pod queue and the goal loop

TLA+ models of the core of this repository, the TLC configurations that check
them on small instances, and theorems about them proved with TLAPS.

Agent Cloud runs coding agents ("pods") on runners and lets people watch and
drive them from a browser.  The **relay** (`src/relay`) sits between the two: it
carries terminals (one *channel* per pod) and web previews (one *tunnel* per
runner).  All of it is concurrent Go: a goroutine per connection, timers that
run on goroutines of their own, mutexes that are released between a check and
its use.  The **control plane** (`src/backend`) brings pods to runners: several
goroutines, the runner's events and a queue of commands in a database meet in
the status of a pod, with nothing but single SQL statements between them.  On
top of pods it runs **goal loops**: a worker pod is sent back to work until an
external verifier says that its goal is reached.

## 1. Inventory

| Component | State | Operations | Hard because |
|---|---|---|---|
| Control lease (`relay/internal/channel/control_lease.go`) | owner, lease id, expiry, epoch, timer | acquire, renew, release, input under the lease, expiry, removal of a subscriber, stop | timers that fired race with renewals; statuses are sent outside the lock; a handler reads the time before it locks |
| Channel (`channel.go`, `channel_io.go`, `channel_lifecycle.go`, `channel_events.go`) | publisher with its epoch, outage flag, reconnect timer, subscribers, keep-alive timer, closed flag | SetPublisher, forward, disconnect, add/remove subscriber, broadcast, close | one mutex is held across a WaitGroup; connections are replaced while their goroutine reads; three kinds of timers |
| Channel manager (`channel_manager*.go`) | channels and pending connections by pod | runner connects, viewer connects, cleanup, close, callback of a closed channel | works on channels after it released its own lock; callback by pod key |
| Tunnel streams (`relay/internal/tunnel/stream.go`) | credits, closed flag, condition variable | acquire, add, close | wakeups, cancellation |
| Preview tunnel (`tunnel/tunnel.go`, `proxy/`) | stream table, bounded channel per stream, last pong | open, write, read loop, dispatch, heartbeat, close, pumps of a request | one read loop for all streams; teardown in the middle of a response |
| Preview gate (`tunnel/registry.go`, `tunnel/limits.go`, `server/handler_preview.go`, `server/handler_tunnel.go`) | tunnel by runner, slots and queue by pod | register, unregister, wait for a tunnel, acquire and release a slot | reconnect takeover; a tunnel is looked up before the request queues |
| Relay server (`server/server.go`) | listeners, accepting flag | start, heartbeat, shutdown | order of shutdown |
| Relay registration (`relay/internal/backend`, `backend/internal/service/relay`) | registered flag; relays in memory and in Redis | register, heartbeat, unregister, health check | two stores written in different orders; 404 and re-registration; replies lost |
| Pod command queue (`backend/internal/service/runner/pending_*.go`) | commands and pods in the database, pod count of a runner | enqueue, drain, dispatch, cancel, expire, sweep | claim, send and delete are separate steps of several processes; crash between them |
| Pod lifecycle (`backend/internal/service/runner/pod_*.go`) | pod status, pod count | created, terminated, error, reconcile, disconnect | events late, doubled or lost |
| Goal loop (`backend/internal/service/goalloop`, `infra/goal_loop_repo.go`) | one row: status, pod, iteration, request, retry prompt, evidence, cleanup mark | start, cancel, verify, pod and agent events, verdicts, timeout monitor | everybody reads the row, stops a pod and writes later; verdicts late or twice; crash between row and queue |
| Runner (`src/runner`) | pods, terminals, autopilot, tunnel client, updater | many | processes, reconnects |
| Agentfile language (`src/agentfile`) | none | parse, evaluate, merge | text |
| Other services, API, clients, deployment | database rows | CRUD, UI | - |

How they interact: the server's handlers call the channel manager, which
creates channels and is called back when one closes; a channel calls its own
lease.  The preview handler takes a tunnel from the registry and a slot from
the limiter and runs a proxied request on it; a request holds one stream with
two credit windows.  The relay client announces the relay to the backend, which
sends runners and viewers to it.  In the control plane the orchestrator inserts a
pod and asks the coordinator to send or queue its create command; the drainer
takes commands from the queue whenever the runner connects, a slot is freed, a
row is added or the sweeper ticks; the runner's reports and heartbeats, a
disconnect and a user's cancel change the same pods, rows and pod count.  A goal
loop makes its pod through the orchestrator, is told of the pod's and the agent's
status by events every replica handles, sends verification requests to the runner
and retry prompts through the command queue.

What makes each part correct: at most one client drives a terminal, and control
always ends (lease); one forwarding goroutine, no lost outage, nothing left
after a close, calls return (channel); nobody who waits is passed over and no
connection is lost (manager); credits are conserved and no wakeup is lost
(streams); a complete response or an error, for every request (tunnel); a command
is sent once, in order, and a pod that waits is dispatched or fails (queue); the
counts of a pod's slots are exact and the newest tunnel is found (gate); a relay
that is up is known, one that is gone is not (registration); a loop completes only
after a run that passed, ends once, and is always found again (goal loop).

## 2. Modules

| Module | Models | State and actions in the code |
|---|---|---|
| `SingleWriter` | the abstract promise of the lease | - |
| `ControlLease` | the lease | `owner`, `leaseID`, `expiresAt`, `epoch`, `timer` are the fields `control*` of `Channel`; `firing` holds timers whose goroutine has started and waits for `controlMu`; `pc`, `now`, `arg` are the reading goroutine of a subscriber and its locals; `msg`, `todo`, `failed`, `releasing` are what a goroutine still has to write or remove. One action per critical section: `Acquire`, `Renew`, `Release`, `Input`/`InputWritten` (the write happens with `controlMu` held), `Expire`, `ReleaseFor`, `StopControlLease`; `Deliver` is one write of a status. |
| `ControlLeaseProofs` | theorems about `ControlLease` | section 5 |
| `RelayChannel` | the channel without its lease | `call` and `replaceMu` follow each `SetPublisher` through its locks and `publisherWg.Wait`; `fwd` is the forwarding goroutine of each epoch; `closePc` is `Close` and each reconnect timer inside `closeInternal`; `add` is each `AddSubscriber`; `kaFired`/`kaReport` are keep-alive timers past their two checks. |
| `ChannelManager` | the manager | `channels`, `pendPub`, `pendSub` are its maps; the handlers' work on a channel after `m.mu` is released are the separate actions `JoinAsPublisher`, `JoinAsSubscriber`, `PublishPair`, `SubscribePair`; `CloseConnections` and `OnChannelClosed` are the two halves of `closeInternal` that the manager sees. |
| `CreditWindow` | `creditWindow` | `pc` follows a call of `acquire` up to, into and out of `cond.Wait`; `helper` is its goroutine; `WakeAll` is the broadcast that follows the unlock. |
| `Tunnel` | a tunnel and its HTTP requests | `table` is the stream table, `resp` the bounded channels, `hand` the frame `dispatch` is trying to deliver, `pump` the goroutine of a request, `runner` the other end as far as it can be seen. |
| `PendingDispatch` | creating, queueing, dispatching, cancelling and expiring the pods of one runner | `status` is the pods table, `queue` and `expired` the create_pod rows, `current` is `runners.current_pods`; `create`, `cancel`, `drain`, `sweep` and `disc` say where the orchestrator's request, `terminatePod`, the drainer, the sweeper and `handleRunnerDisconnect` are, one action per statement that writes. Handlers of reports are one action each. `SyncPodCount` and `FlushHeartbeats` are the two writes a heartbeat leads to: the count of its own pods at once, and seconds later, by the batcher, the number that some earlier report had. `life` is the runner's side. |
| `PreviewGate` | the registry, the pod limiter and the two handlers that use them, for one runner and one pod | `reg` is `Registry.tunnels`, `tun` follows `HandleTunnelWS` (register, close the old one, acknowledge, serve, unregister), `closed` the tunnels that are closed; `at` follows `handlePreview` through `WaitForTunnel`, `Acquire` and the proxy; `slots`, `queueLen` are the limiter's channel and counter, `waiters` the goroutines blocked in sending to the channel, in the order in which the Go runtime lets them in (`Release` hands the slot to the first). |
| `RelayRegistration` | the relay client, the backend's manager, its health check and its store, for one relay | `relay`, `registered`, `loop` are the client; `request` is every HTTP request under way, which outlives the client that gave it up; `mem` and `store` are the manager's two copies, written by separate actions; `check` is the health checker between reading, marking and deleting; ages are in intervals of the health check. |
| `GoalLoop` | one goal loop | `row` is its row in `goal_loops`, `pods`, `agent`, `prompts` the rows of its pods and commands, `request` the verifications as the runner knows them; `proc` says where each goroutine is and what it holds of the row it read: one action per statement that writes, and `Dies` between any two. `StopPod`, `Stopped`, `Unstopped` are `TerminatePod` and what its callers write after. `TimeoutMonitors` are the monitors: every replica of the control plane starts one. |
| `TunnelProofs`, `RelayChannelProofs`, `ChannelManagerProofs`, `PreviewGateProofs`, `RelayRegistrationProofs`, `PendingDispatchProofs`, `GoalLoopProofs` | theorems about these modules | section 5 |
| `MC...` | instances for TLC | symmetry sets |

A channel is modelled at two grains: `RelayChannel` has every lock, and
`ChannelManager` uses a coarser channel whose operations are atomic, because
`SetPublisher`, `AddSubscriber` and the close were checked there to end and to
leave nothing behind (`CallsReturn`, `CloseLeavesNothing`).

Abstractions: statuses, terminal output and frames carry no payload; lease ids
are the numbers of the epochs in which they were drawn (the code draws 128
random bits); one body frame costs one credit in `Tunnel`; a websocket write
either arrives or fails; TCP does not reorder.

## 3. Runs

`MCGate` and `MCRegistration` check for deadlock: requests always come in, time
always passes. The other runs say `CHECK_DEADLOCK FALSE`: clients, connections,
requests, senders and pods are used up (each id joins, connects or calls once, as
ids are fresh in the code), so the bounded system really stops when all are done.
That a goroutine is never stuck is checked by the liveness properties instead.

| Run | Question | Instance |
|---|---|---|
| `MCLease_safety` | Is the lease always timed, taken only when due, final when stopped, and a single-writer lease? | 2 clients, 2 requests, clock to 4, duration 2 |
| `MCChannel_safety` | Replacement, outage, timers, joins and close in any order (`ChannelInv`: one forwarder, timed outages) | 2 runner connections, 2 viewers |
| `MCChannel_liveness` | Do calls return, outages end, unused channels get reported? | 2 connections, 1 viewer |
| `MCManager_safety` | Is pairing right (`ManagerInv`: one role per pod, one channel per pod, the limit), is nothing leaked or lost from the map? | 2 pods, 3 runner connections, 3 viewers, limit 1, one close |
| `MCWindow` | Are credits conserved (`WindowInv`), wakeups kept, callers served? | 3 senders, window 2 |
| `MCTunnel_requests` | Is a response that ends normally complete, are credits conserved (`TunnelInv`), does the read loop go on, do requests end? | 1 request, 4 frames, channel of 2, window of 3 |
| `MCDispatch_order` | Is a command sent once (`QueueInv`) and in order, across a crash? | 2 pods, one slot, queue of 2, one crash |
| `MCDispatch_losses` | Does expiry spare sent pods, does the queue move, do expired pods end, does the count of slots come right, from above and from below? | 1 pod, cancel, expiry, one connection lost or replaced |
| `MCDispatch_cancel` | (violated) Does the claim close the race with a cancel? | 1 pod, cancel |
| `MCGoal_loop` | Does a loop complete only when verified, retry only after failed runs, keep verdicts apart, stay ended, and stay recoverable (`LoopInv`)? | 2 handlers and one monitor, 1 pod, 3 iterations, 2 requests, 1 fault |
| `MCRegistration` | Was a healthy relay heard within two intervals, with a store within those and the lifetime of its key (`RegistrationInv`), does one that is up become known again, is one that is gone forgotten? | 1 relay, 2 requests under way, 2 faults, with and without store |
| `MCGate` | Are slots and queue places counted exactly (`GateInv`), is the registry true, is every request answered? | 2 tunnels, 3 requests, 1 slot, 1 queue place |

**Why the bounds are enough.** The lease has one owner and one contender, and two
requests give every order of acquire, renew, release and input against a timer;
the clock leaves room for a lease that follows one that timed out. A channel
needs two publisher connections for a replacement and for a second outage whose
timer meets the first one's; two subscribers for "not the last". The manager
needs a second channel for the same pod while the first closes (two runner
connections) and a third connection that finds one of them; three viewers
exceed a limit of one by the pair's own. Three senders are needed for a signal
that wakes the wrong one. The tunnel needs a window larger than a stream's
channel. A queue needs two rows for an order and one slot for a row that cannot
be sent; every race between the actors of `PendingDispatch` is about one pod, so
the run with a lost connection, an expiry and a cancel has one. A gate needs a
tunnel that replaces another, and three requests: one that holds the slot, one
that queues and one that is refused. Registration needs a request that is late
beside the one that is awaited, and two faults, for a lost answer followed by a
restart; the code's ten intervals until a relay is stale are three here, still more
than the time to live in Redis (60 s, two intervals). A goal loop needs two
goroutines that hold the same row beside the monitor, a second request whose
verdict can meet the first one's, three iterations, so that there are two retries
and the first failed run might ask for both, and one fault to lose a statement, a
stop or a replica. Two pods, for a loop that is started again while an earlier start
is being cleaned up, and a second monitor are too many for a run of a few minutes:
two pods were explored with one handler, up to twelve million states, and both are
covered by the proofs.
Bounds are named
where they are used: `MaxTime`, `MaxRequests`, `MaxCloses`, `MaxFlush`,
`MaxBody`, `MaxQuiet` (the last is the code's three missed pongs, cut to two),
`Cancellable`, `MaxLosses`, `MaxCrashes`, `MaxPods`, `MaxIterations`, `MaxFaults`.

**Symmetry** is used only in runs without liveness properties, over subscribers,
connections, pods and handlers, which are never ordered. Runner connections of
the manager are numbers, as one property orders them.

**Fairness.** A goroutine that can take a step takes it, a mutex that is free is
granted, a timer that is due fires, reading a closed connection fails: that is
what the Go runtime gives. Nothing is assumed of clients, runners or callers of
`Close`. In `MCWindow` the receiver flushes what it gets and the proxy closes the
stream of a request whose context is done (`defer tun.CloseStream`,
`proxy/http.go:62`). In `Tunnel` pings are sent and the context of a request ends
(`StreamTimeout`); a browser need not read. In `PendingDispatch` the goroutines of
the control plane go on, the sweeper ticks (`time.Ticker`) and the heartbeats of a
connected runner are handled; no runner has to connect or report anything else,
nobody has to ask for a pod or cancel one, and no row has to expire. A send may
fail at any time (`ErrSendBufferFull`). In `PreviewGate` the goroutine of a request
goes on and a proxied request ends (`RequestsEnd` of `Tunnel`); the queue's timeout
is not assumed to fire, as a deployment may have none, nor does a runner have to
connect. In `RelayRegistration` a request is handled and answered or times out,
the heartbeat loop, the health check's ticker and time go on; no relay has to start
or stop. No run checks liveness of `GoalLoop`: its `FairSpec`, under which
only the monitors go on, is there for `LoopEnds`, which holds with one handler, one
monitor, one pod, two iterations, one request and one fault; with the bounds of
`MCGoal_loop` that would take longer than a run may.

## 4. What the runs found

One disagreement between the code and what it says is a run that TLC refutes:

- `CancelClosesDispatch`: a cancel that reads the pod after the drainer claimed it
  succeeds, and the create command is sent all the same
  (`pending_drain.go:143`), while the comment above it says that exactly one of
  the two wins.

The modules state further properties that documentation suggests and that do
not hold. They are not runs of their own; adding one to the
component's passing configuration shows its counterexample, unless more is said:

- `ChannelManager!OpenChannelIsRegistered`: the callback of a channel that
  `CloseChannel` already took out of the map deletes the pod's next channel
  (`channel_manager.go:81`). Without such a call the map is right
  (`OpenChannelIsFound`).
- `CreditWindow!CancelWakes`: the helper of `acquire` broadcasts without the mutex,
  so its wakeup can be lost (`stream.go:40`). The caller returns when its stream is
  closed.
- `PendingDispatch!UnsentRowStays`: the drainer deletes the row of a pod that is not
  `queued` yet and that the orchestrator then sets to `queued`
  (`pending_drain.go:136`, `pod_orchestrator_dispatch.go:51`): a pod that waits for
  nothing, until the runner disconnects or its heartbeats orphan it. This is why
  `ExpiredPodEnds` speaks of pods inserted as `queued`.
- `GoalLoop!EndedLoopHasNoPod`: `Cancel` reads the row before `Start` stores the
  pod's key and writes after it (`goal_loop_execution.go:26`, `goal_loop_start.go:65`):
  the cancelled loop has a live pod and no cleanup mark. The test
  `TestStartTerminatesCreatedPodWhenCancelWins` covers the other order.
- `RelayRegistration!MemoryIsStored`: memory and Redis are written in opposite
  orders outside one lock (`manager_unregister.go:19`), so a registration between the
  two halves of a removal stays in memory alone. `UpIsKnown` holds, by the next
  heartbeat.
- `ControlLease!NoGhostController`: a client whose connection was removed can still
  acquire the lease, and holds it until it times out (`control_lease.go:49`); that
  it does end is `ControlLease!LeaseOfGoneClientEnds`, a liveness property under
  `FairSpec` that holds with one client and three requests.
- `Tunnel!RunnerIsHeard`: one browser that does not read makes the heartbeat close
  the runner's tunnel with every other request on it (`tunnel.go:152`), which
  `proxy/http.go:52` rules out. It needs
  `Streams = {s1, s2}`, `Cap = 1`, `Window = 2` and `MaxBody = 3`.
- `ControlLease!ControllerKeepsControl`: a Released or Expired that is written
  late makes a client drop the newer lease it holds (`control_lease.go:81`).
- `RelayChannel!GraceIsWhole`: a reconnect timer that fired in one outage decides
  in the next one (`channel_events.go:32`); the weaker
  `TimeoutSparesPublisher` holds.
- `RelayChannel!KeepAliveIsWhole`: a keep-alive timer that fired before a viewer
  came reports the channel when that viewer leaves (`channel_lifecycle.go:102`).
- `RelayChannel!NoFalseOutage`: a new viewer may be told of an outage after it was
  told that it is over (`channel_lifecycle.go:52`).
- `ChannelManager!LimitRespected`: the viewer a channel is created for is added
  without a limit (`channel_manager_connect.go:125`); `LimitPlusFirst` holds.
- `ChannelManager!NewestPublisherStays`: an older runner connection may replace a
  newer one (`channel_manager_connect.go:124`).
- `Tunnel!ClosedRequestsAreTold`: `Close` drops RESP_ERROR when a channel is full
  (`tunnel.go:200`); `RequestsEnd` holds, by the request's timeout.
- `CreditWindow!CallsAreServed` needs pieces no larger than the window, which
  `proxy/websocket.go:138` does not ensure.

Reading and modelling `GoalLoop` also shows, without a property of its own: a
completion decided for one start of a loop can complete the next start, as the
guard is on the status only (`goal_loop_verification_completion.go:71`); a late
`beginVerification` erases the mark of a pod that still runs
(`goal_loop_verification_dispatch.go:26`); a crash between making a pod and storing
its key leaves a pod that no loop knows (`goal_loop_start.go:53`).

## 5. Proofs

`ControlLeaseProofs` proves for any set of clients, any duration and any bounds:

- `TypeCorrect`: `Spec => []TypeOK`;
- `LeaseInvariant`: `Spec => []LeaseInv`, the inductive invariant;
- `LeaseIsTimed`, `StopIsFinal`: the two safety invariants in it;
- `TakenOnlyWhenDue`: the action property `LeaseTakenOnlyWhenDue`;
- `LeaseIdsArePrivate`: `Spec => []LeaseIdPrivate`;
- `LeaseImplementsSingleWriter`: the refinement of `SingleWriter`.

The assumptions are those of the module: `Nobody` is no client, the duration is
positive, the bounds are natural numbers.

`LeaseHasTimer` is not inductive by itself. It says that the timer of the
current epoch is armed or has fired; to keep it when a timer fires or a handler
waits, one must know that timers never belong to a later epoch, and to prove that
a lease is taken only when due, that the timer of a lease comes no earlier than
its expiry. That holds because a handler reads the time *before* it locks and
arms the timer after (`TimesAgree`), for which the times held by handlers must
lie in the past. `ReleasedAreGone` and `WriterHoldsLease` say what the steps
outside `controlMu` and the write inside it rely on: the second is what makes
the refinement go through, as control passes on only when no write is under way.
The proof of the step has one case per action; lemmas say once what setting and
clearing the lease, replying and announcing do.

The refinement maps the abstract holder to the owner while the lease runs, and
beyond its expiry while a write accepted from it is under way.

A lease id is in three places: in the lease, in an answer that a goroutine still has
to write, and with the client. `IdsArePrivate` says of all three together that one id
belongs to one client, and `OnlyByLease`, about a step, that an id comes into the
second place only out of the first and into the third only out of the second. A new
id is new in all of them because it is drawn from the epoch, which grows.

`RelayChannelProofs`, for any runner connections, viewers and limit: `ChannelInvariant`
(`ChannelInv`), `CloseLeavesNothingOpen` (`CloseLeavesNothing`), `OutageIsKnown`
(`SubscribersKnowOutage`) and the action property `TimeoutSparesTheRunner`
(`TimeoutSparesPublisher`). The invariant rests on `publisherReplaceMu` being held
over the whole of a replacement and of a close (`MutexHeld`): the old forwarding
goroutine is over before the new one starts (`ForwardingIsOrdered`), no connection but
the newest stays open (`PublisherIsLast`), and whoever sets `closed` is still at work
as long as a subscriber or a goroutine is left (`ClosingIsOnce`). A reconnect timer
closes without another look at the flag, which is right because it looked with the
mutex held (`TimerSawOutage`); and an outage does not get lost between a
subscriber's two messages because "reconnected" is only written by a `SetPublisher`
that holds it (`AnnouncedUnderMutex`). `ConstantsAssumption` says that connections,
timers, forwarding goroutines and the caller of `Close` are different things.

`ChannelManagerProofs`, for any pods, connections, limit and calls from outside:
`ManagerInvariant` (`ManagerInv`), `ConnectionsAreKept` (`NoConnectionLeaks`) and
`OpenChannelsAreFound` (`OpenChannelIsFound`). The last one is the reason why
`onChannelClosed` may delete by pod key: a channel leaves the map only when it reports,
or when it is closed from outside (`ChannelsAreFound`), so the pod cannot have another
one before. That nothing leaks between the release of `m.mu` and the calls on the
channel needs what a handler knows of the pair it works for (`HandlersKnow`,
`WaitersAreUnpaired`) and that nobody takes the place of the runner connection a
channel was made for, unless it closes it, until the viewer is in as well
(`FounderIsKept`). That the ids of channels suffice is counted by the runner
connections they were created for (`MadeIsCounted`).

`TunnelProofs`, for any streams, windows and capacities of channels:
`TunnelInvariant` (`Spec => []TunnelInv`) and `OkMeansComplete` (`OkIsComplete`).
That a response which ends normally is complete rests on the order start, body, end
in three places, the connection, the hand of the read loop and the channel
(`EndIsLast`, `StartIsFirst`), and on what was written, is under way and was sent adding
up (`Whole`) until something is lost: a channel that is full loses the frame the read
loop has in its hand and closes the tunnel, so no RESP_END can overtake it any more,
and one that is in the channel already had nothing behind it. A request before its
REQ_START has nothing under way but the RESP_ERROR of a close (`Untouched`), and its
entry stays in the table as long as it runs (`InTable`). `Credits` is the part of
credits that is inductive. Assumed: the bounds are natural numbers, and no frame
is the mark of an empty hand (`ConstantsAssumption`).

The same module holds the proofs about `CreditWindow`, which belongs to the same Go
package and has variables of its own: `WindowInvariant` (`WindowSpec => []WindowInv`;
the sum of available and flying credits is inductive as it stands) and
`NoWakeupIsLost` (`NobodyForgotten`), for any senders, sizes and window. The second
needs `CheckIsFresh`: a call that has looked and not yet waits holds the mutex, so
what it saw is still so. Assumed: the constants are natural numbers
(`WindowAssumption`).

`PreviewGateProofs`, for any tunnels, any finite set of requests and any limits:
`RegistryInvariant` (`RegistryIsTrue`, inductive with the types of the registry)
and `GateInvariant` (`GateInv`). The counts of a pod cannot be proved exact without
the queue of blocked senders: a slot is free only if nobody is blocked
(`WaitersAreBlocked`), for which each of them has to be in it once. The lemmas
`CountGrows` and `CountShrinks` carry the counting, `WithoutIsSeq` and `TailIsSeq`
the queue.

`GoalLoopProofs`, for any handlers, monitors, iterations, pods, requests and faults:
`LoopInvariant` (`LoopInv`), `CompletionIsVerified` (`CompletedIsVerified`),
`BudgetIsKept` (`VerifierWithinBudget`), `PromptsAreBacked` (`PromptsFollowFailures`),
and the action properties `EndIsFinal` (`TerminalIsFinal`) and `VerdictsCount`
(`VerdictsAreNotLost`). None is inductive. `IInv` says what a goroutine may hold between
its statements (`FrameHolds`): whoever is about to complete a loop has seen a run
that passed, whoever writes a row unguarded by its status does so to one that
ended, whoever consumes a verdict has an iteration for it; and of the row, that
evidence of success is there only after such a run (`RowIsTrue`) and that one who
works or waits has iterations left (`IterationsLeft`). That a fresh request does not
overwrite one that passed needs `RequestsSound`: ids are given in order. The lemma
for each action shows `Kept`, from which `KeptIsInvariant` concludes for the
goroutines the step leaves alone; its part `Final` is the first action property.

`PromptsFollowFailures` counts: `FailuresCounted` says that the iterations of a row
never outrun the runs that failed, without the one the row is waiting for, and that a
verdict, an answer or a prompt that a goroutine holds has its failed run. A step is
seen through what it may do to the row's counters (`RowSteps`), to what
goroutines hold (`FrameSteps`) and to the prompts (`PromptSteps`). The property counts
the failed runs of the loop and not those of one pod, because the latter is false as
soon as there are two: `Cancel` reads a loop with pod 1, whose stop fails; the loop is
started again with pod 2, and a run of it fails; `persistPendingPodCleanup`, whose
update is not guarded (`goal_loop_cleanup.go:45`), puts pod 1 back into the row; and the
recovery of retries sends the next prompt to pod 1, which never failed a run.

`RelayRegistrationProofs`, for any number of requests, times and bounds:
`RegistrationInvariant` (`RegistrationInv`). A relay that counts as healthy is not
silent for longer than its age and what the store may hide of it (`AgeCountsSilence`:
a restart takes a relay back as fresh, but only while its key in Redis lives; `Restored`
is that lifetime, and zero for a manager without a store, such as the program's), and its
age is bounded since the health check looks at every entry between two ticks, whatever
it had read before (`CheckedInTime`). No step gives a manager a store or takes it away
(`Steady`), so the bound of a manager without one is two intervals, whatever the constants.

`PendingDispatchProofs`, for any finite set of pods, any limits and any number of
losses and crashes: `QueueInvariant` (`QueueInv`), and the action properties
`QueueIsDrainedInOrder` (`SendsInOrder`) and `ExpirySparesTheSent` (`ExpirySparesSent`).
That a command is sent once is about more than rows: the drainer and the sweeper
work through lists that were read earlier, so the invariant speaks of every pod
somebody still knows a row of (`Known`), in the queue or in a list. Such a pod's
request has written its row (`RowsAreWritten`), so it will not send itself, and once
the pod was sent it is not "queued" (`SentIsNotQueued`), so no compare-and-set claims
it again. Three statements may make a pod "queued": its insert, before it has a row;
the last statement of a request that meant to send at once and found no room, on a pod
that nobody can have claimed, as it was not "queued" until then (`AligningIsSafe`); and the revert of a claim,
whose holder is the only one to put the pod back and has not sent it (`ClaimHolds`).
The order needs that what precedes a listed row in the queue precedes it in the
list (`BatchIsFirst`): new rows come at the end, and a row leaves the list only when it is
out of the queue (`MarkedIsGone` for one that is expired). The lemma for each action
shows `Effects`, what a step may do to every part of the state; `EffectsKeep` concludes
that the invariant stays. That the status of a pod whose row expired is set in a second
statement does no harm since it is a compare-and-set from "queued".

Model-checked only: liveness (`CallsReturn`, `OutageEnds`, `UnusedIsReported`,
`CallsAreServed`, `ReadLoopGoesOn`, `RequestsEnd`, `BacklogMoves`, `ExpiredPodEnds`,
`SlotsReturn`, `UpIsKnown`, `GoneIsForgotten`, `RequestsAreAnswered`), which is out
of the prover's reach. Every other property of a passing run has a theorem above.

## 6. Not modelled

Parsing and encoding of frames and tokens, TLS, HTTP plumbing and metrics. In
`Tunnel`: request bodies, proxied WebSockets and their reauthorization, and
writes that block for ever (`WriteFrame` has no deadline). In `PendingDispatch`:
send_prompt rows, deferred dispatch, the statuses paused and disconnected with the
jobs that set them, the counting of missed heartbeats and what a stale one
overwrites, failures of the database and between the insert of a pod and its
dispatch, and the effect of a terminate command, which is left to the runner; what a batch of
heartbeats writes is the number of any pods the runner was sent, whenever it was told. In
`PreviewGate`: authentication and paths, and `Registry.waiters`, which nothing ever
fills. In `RelayRegistration`: the limit of 1000 relays, the choice of a relay for a
pod, certificates and DNS; one relay and one replica of the control plane. The
program builds its manager without a store (`backend/cmd/server/main.go:134`), so
that half is reached by tests only; the model has both. In `GoalLoop`:
`HandleAutopilotStatus`, which nothing reaches as no loop ever has an autopilot key;
the fingerprints of results, for which repeated errors and missing progress are a
choice; the clock: an agent began after a retry's prompt was made if it did so after the
write of the retry, while the code takes `RetryPromptCreatedAt` just before that write; how a queued prompt reaches the worker. The components of the
inventory without a module, see the plan. The Agentfile language, the UI, the
CRUD services and the deployment files have no protocol that TLC would help
with.

## 7. Plan

1. `PodLifecycle`: heartbeats, creation, termination and disconnect as messages
   that come late or doubled, with the runner's own message loop and its queue of
   terminations; miss counts and cooldowns. A pod that ended stays ended; a queued
   pod of a full runner is not orphaned; the runner's pods and the pod count
   agree when nothing is under way. 2 pods.
2. An abstract specification of the queue - a pod is sent, cancelled or expired, and
   sent only once - with `PendingDispatch` shown to implement it but for the cancel
   of section 4, and proved; send_prompt rows.
3. The same for `PreviewGate` (a semaphore with a bounded queue) and for `Tunnel`
   (a lossy channel that says so).
4. The request direction of `Tunnel` and proxied WebSockets.
5. Workflows and the coordinator, after the pattern of `GoalLoop`.
