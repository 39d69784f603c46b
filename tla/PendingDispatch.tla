--------------------------- MODULE PendingDispatch ---------------------------
(***************************************************************************)
(* How the control plane brings pods to one runner: the orchestrator that  *)
(* creates a pod and sends or queues its create command, the drainer of    *)
(* the queue, the sweeper of expired rows, a user's cancel, and the        *)
(* handlers of the runner's connection and events                          *)
(* (backend/internal/service/runner and service/agentpod).                 *)
(*                                                                         *)
(* The actors run concurrently and share little but the database, so every *)
(* statement of theirs that writes it is an action.  One action each are a *)
(* compare-and-set with the decrement it decides, the handler of a report  *)
(* of the runner, MarkDispatchFailed, and a check with the read before it. *)
(* A pod is one row of pods (status; paused and disconnected are left out) *)
(* and at most one create_pod row of pending_runner_commands (queue, by    *)
(* id); send_prompt rows are left out.  The runner is seen from outside:   *)
(* what became of a pod's create command (life), which a terminate command *)
(* may end, and what it may report.                                        *)
(***************************************************************************)
EXTENDS Integers, Sequences, FiniteSets, SequencesExt

CONSTANTS
  Pods,           \* pods asked for, all on one runner
  MaxConcurrent,  \* runners.max_concurrent_pods
  MaxPerRunner,   \* rows the queue takes for one runner
  Cancellable,    \* pods a user may cancel (bound)
  MaxLosses,      \* connections that break or are replaced (bound)
  MaxCrashes      \* crashes of the control plane (bound)

ASSUME DispatchAssumption ==
  /\ IsFiniteSet(Pods) /\ Cancellable \subseteq Pods
  /\ {MaxConcurrent, MaxPerRunner} \subseteq Nat \ {0}
  /\ {MaxLosses, MaxCrashes} \subseteq Nat

VARIABLES
  status,     \* pods.status; "none" before the row is inserted
  queue,      \* pods with a create_pod row, by id
  expired,    \* pods whose row is past expires_at
  current,    \* runners.current_pods
  online,     \* the runner's connection is in the connection manager
  life,       \* the runner's pod: not asked for, asked for, alive or gone
  create,     \* where the orchestrator is with a pod
  initial,    \* the status it inserts the pod with
  cancel,     \* where a user's terminatePod is
  drain,      \* the drainer: its place and the rest of its batch
  sweep,      \* the expiry sweeper, likewise
  disc,       \* handleRunnerDisconnect, likewise
  losses, crashes,
  sent,       \* history: how often a pod's create command was sent
  cancelled   \* history: pods whose cancel returned success

rows   == <<queue, expired>>
bounds == <<losses, crashes>>
vars == <<status, rows, current, online, life, create, initial, cancel, drain,
          sweep, disc, bounds, sent, cancelled>>

Active   == {"queued", "initializing", "running"}
Statuses == Active \cup {"none", "orphaned", "completed", "error"}
At(pc)          == [pc |-> pc, batch |-> <<>>]
Went(proc, pc)  == [proc EXCEPT !.pc = pc]
Next1(proc, pc) == [pc |-> pc, batch |-> Tail(proc.batch)]

\* every variable keeps its type; a pod has one row at most
TypeOK ==
  /\ status \in [Pods -> Statuses]
  /\ queue \in Seq(Pods) /\ Len(queue) <= MaxPerRunner /\ IsInjective(queue)
  /\ expired \subseteq Pods /\ cancelled \subseteq Pods
  /\ current \in 0..(MaxConcurrent + Cardinality(Pods)) /\ online \in BOOLEAN
  /\ life \in [Pods -> {"none", "asked", "alive", "gone"}]
  /\ initial \in [Pods -> {"queued", "initializing"}]
  /\ \A proc \in {drain, sweep, disc} : proc.batch \in Seq(Pods)
  /\ sent \in [Pods -> Nat]

Init ==
  /\ status = [p \in Pods |-> "none"] /\ queue = <<>> /\ expired = {}
  /\ current = 0 /\ online \in BOOLEAN /\ life = [p \in Pods |-> "none"]
  /\ create = [p \in Pods |-> "idle"] /\ initial = [p \in Pods |-> "queued"]
  /\ cancel = [p \in Pods |-> "idle"]
  /\ drain = At("idle") /\ sweep = At("idle") /\ disc = At("idle")
  /\ losses = 0 /\ crashes = 0
  /\ sent = [p \in Pods |-> 0] /\ cancelled = {}

-----------------------------------------------------------------------------
(* Statements on the database, and what the actors call of one another.    *)

SetStatus(p, s) == status' = [status EXCEPT ![p] = s]
\* UpdateByKeyAndStatusCounted
Cas(p, from, to) ==
  status' = IF status[p] = from THEN [status EXCEPT ![p] = to] ELSE status
IncrementPods == current < MaxConcurrent /\ current' = current + 1
DecrementPods == current' = IF current > 0 THEN current - 1 ELSE 0
\* the compare-and-set of a pod that did not start, and its DecrementPods
FailStarting(p) ==
  /\ Cas(p, "initializing", "error")
  /\ IF status[p] = "initializing" THEN DecrementPods ELSE UNCHANGED current
\* by id or by pod key
DeleteRow(p) ==
  /\ UNCHANGED expired
  /\ \/ p \notin ToSet(queue) /\ UNCHANGED queue
     \/ \E i \in DOMAIN queue : queue[i] = p /\ queue' = RemoveAt(queue, i)
MarkAny(p)     == SetStatus(p, "error")
MarkNobody(p)  == UNCHANGED status
MarkExpired(p) == Cas(p, "queued", "error")
ShouldDispatchNow == online /\ current < MaxConcurrent
Send(p) == /\ online /\ sent' = [sent EXCEPT ![p] = @ + 1]
           /\ life' = [life EXCEPT ![p] = "asked"]
NotSent == UNCHANGED <<sent, life>>
\* dropped while a drain of the runner is under way
DrainRunner == drain' = IF drain.pc = "idle" THEN At("list") ELSE drain

-----------------------------------------------------------------------------
(* PodOrchestrator: a request that may be queued creates pod p.            *)

Creating(p, from, to) ==
  /\ create[p] = from /\ create' = [create EXCEPT ![p] = to]
  /\ UNCHANGED <<expired, online, cancel, sweep, disc, bounds, cancelled>>

InitialPodStatus(p) ==
  /\ Creating(p, "idle", "insert")
  /\ initial' = [initial EXCEPT
       ![p] = IF ShouldDispatchNow THEN "initializing" ELSE "queued"]
  /\ NotSent /\ UNCHANGED <<status, queue, current, drain>>

InsertPod(p) ==
  /\ Creating(p, "insert", "choose") /\ SetStatus(p, initial[p])
  /\ NotSent /\ UNCHANGED <<queue, current, initial, drain>>

CreatePodOrQueue(p) ==
  /\ Creating(p, "choose", IF ShouldDispatchNow THEN "reserve" ELSE "enqueue")
  /\ NotSent /\ UNCHANGED <<status, queue, current, initial, drain>>

\* CreatePod: IncrementPods, SendCreatePod, and DecrementPods if that fails
ReserveDirect(p) ==
  /\ \/ Creating(p, "reserve", "send") /\ IncrementPods
     \/ Creating(p, "reserve", "failed") /\ current >= MaxConcurrent
        /\ UNCHANGED current
  /\ NotSent /\ UNCHANGED <<status, queue, initial, drain>>

\* the send fails without a connection or with its buffer full
SendDirect(p) ==
  /\ \/ Creating(p, "send", "align") /\ Send(p)
     \/ Creating(p, "send", "undo") /\ NotSent
  /\ UNCHANGED <<status, queue, current, initial, drain>>

UndoDirect(p) ==
  /\ Creating(p, "undo", "failed") /\ DecrementPods
  /\ NotSent /\ UNCHANGED <<status, queue, initial, drain>>

\* EnqueueWithinCapacity and maybeDrain
EnqueueCreatePod(p) ==
  /\ \/ /\ Len(queue) < MaxPerRunner /\ Creating(p, "enqueue", "alignQueued")
        /\ queue' = Append(queue, p)
        /\ IF online THEN DrainRunner ELSE UNCHANGED drain
     \/ /\ Len(queue) >= MaxPerRunner /\ Creating(p, "enqueue", "failed")
        /\ UNCHANGED <<queue, drain>>
  /\ NotSent /\ UNCHANGED <<status, current, initial>>

\* UpdatePodStatus, whatever became of the pod meanwhile
AlignStatus(p) ==
  /\ \E to \in {"initializing", "queued"} :
       /\ Creating(p, IF to = "queued" THEN "alignQueued" ELSE "align", "done")
       /\ IF initial[p] # to THEN SetStatus(p, to) ELSE UNCHANGED status
  /\ NotSent /\ UNCHANGED <<queue, current, initial, drain>>

MarkDispatchFailed(p) ==
  /\ Creating(p, "failed", "done")
  /\ IF status[p] \in {"initializing", "queued"}
     THEN SetStatus(p, "error") ELSE UNCHANGED status
  /\ NotSent /\ UNCHANGED <<queue, current, initial, drain>>

-----------------------------------------------------------------------------
(* terminatePod: a user cancels pod p.                                     *)

Cancelling(p, from, to) ==
  /\ cancel[p] = from /\ cancel' = [cancel EXCEPT ![p] = to]
  /\ UNCHANGED <<expired, online, life, create, initial, sweep, disc, bounds,
                 sent>>

ReadPod(p) ==
  /\ p \in Cancellable /\ status[p] # "none"
  /\ Cancelling(p, "idle", CASE status[p] = "queued"         -> "queuedRows"
                             [] status[p] \in Active \ {"queued"} -> "rows"
                             [] OTHER                        -> "done")
  /\ UNCHANGED <<status, queue, current, drain, cancelled>>

\* cancelPendingForPod; SendTerminatePod, which may fail, comes after it
CancelPending(p) ==
  /\ Cancelling(p, "queuedRows", "queued") \/ Cancelling(p, "rows", "complete")
  /\ DeleteRow(p) /\ UNCHANGED <<status, current, drain, cancelled>>

Cancelled(p) ==
  SetStatus(p, "completed") /\ cancelled' = cancelled \cup {p} /\ DrainRunner

\* terminateQueuedPod: the compare-and-set and emitPodReleased
CancelQueued(p) ==
  /\ Cancelling(p, "queued", "done") /\ UNCHANGED <<queue, current>>
  /\ \/ status[p] = "queued" /\ Cancelled(p)
     \/ status[p] # "queued" /\ UNCHANGED <<status, cancelled, drain>>

\* UpdateByKeyAndActiveStatus and emitPodReleased, before the slot is free
CompletePod(p) ==
  /\ UNCHANGED <<queue, current>>
  /\ \/ status[p] \in Active /\ Cancelling(p, "complete", "free") /\ Cancelled(p)
     \/ /\ status[p] \notin Active /\ Cancelling(p, "complete", "done")
        /\ UNCHANGED <<status, cancelled, drain>>

FreeSlot(p) ==
  /\ Cancelling(p, "free", "done") /\ DecrementPods
  /\ UNCHANGED <<status, queue, drain, cancelled>>
-----------------------------------------------------------------------------
(* PendingCommandDrainer: one drain at a time for the runner.              *)

ClaimsActive(p) == status[p] \in Active
Claims(p)       == status[p] = "queued"
DrainGoesOn     == Next1(drain, "row")
DrainStops      == At("leave")

Draining(from, to) ==
  /\ drain.pc = from /\ drain' = to
  /\ UNCHANGED <<expired, online, create, initial, cancel, sweep, disc, bounds,
                 cancelled>>

\* at most ten rows in the code, more than there are here
ListQueue ==
  /\ Draining("list", IF online /\ queue # <<>>
                      THEN [pc |-> "row", batch |-> queue] ELSE At("leave"))
  /\ NotSent /\ UNCHANGED <<status, queue, current>>

\* inflight.Delete: a trigger between the last look and this is lost
DrainEnds ==
  /\ Draining("leave", At("idle"))
  /\ NotSent /\ UNCHANGED <<status, queue, current>>

\* row.ExpiresAt, IsConnected, and CurrentPods >= MaxConcurrentPods
TakeRow ==
  /\ Draining("row", IF drain.batch = <<>> THEN At("list")
                     ELSE IF Head(drain.batch) \in expired THEN Went(drain, "expire")
                     ELSE IF ShouldDispatchNow THEN Went(drain, "claim")
                     ELSE At("leave"))
  /\ NotSent /\ UNCHANGED <<status, queue, current>>

\* the compare-and-set that decides between a drain and a cancel
ClaimRow ==
  LET p == Head(drain.batch) IN
    /\ drain.pc = "claim" /\ NotSent /\ UNCHANGED <<queue, current>>
    /\ \/ /\ Claims(p) /\ SetStatus(p, "initializing")
          /\ Draining("claim", Went(drain, "reserve"))
       \/ /\ ~Claims(p) /\ UNCHANGED status
          /\ Draining("claim", Went(drain, "delete"))

ReserveClaimed ==
  /\ \/ IncrementPods /\ Draining("reserve", Went(drain, "send"))
     \/ /\ current >= MaxConcurrent /\ UNCHANGED current
        /\ Draining("reserve", Went(drain, "revert"))
  /\ NotSent /\ UNCHANGED <<status, queue>>

SendClaimed ==
  /\ drain.pc = "send"
  /\ \/ Send(Head(drain.batch)) /\ Draining("send", Went(drain, "delete"))
     \/ NotSent /\ Draining("send", Went(drain, "undo"))
  /\ UNCHANGED <<status, queue, current>>

UndoClaimed ==
  /\ Draining("undo", Went(drain, "revert")) /\ DecrementPods
  /\ NotSent /\ UNCHANGED <<status, queue>>

RevertClaim ==
  /\ drain.pc = "revert" /\ Cas(Head(drain.batch), "initializing", "queued")
  /\ Draining("revert", DrainStops)
  /\ NotSent /\ UNCHANGED <<queue, current>>

\* a row that was sent or lost its claim goes, and one that is expired
DeleteDrained ==
  /\ \/ Draining("delete", Next1(drain, "row"))
     \/ Draining("expire", Went(drain, "mark"))
  /\ DeleteRow(Head(drain.batch)) /\ NotSent /\ UNCHANGED <<status, current>>

MarkDrained ==
  /\ drain.pc = "mark" /\ MarkExpired(Head(drain.batch))
  /\ Draining("mark", Next1(drain, "row"))
  /\ NotSent /\ UNCHANGED <<queue, current>>

-----------------------------------------------------------------------------
(* The sweeper of expired rows, every sweepInterval.                       *)

NoBacklog == FALSE
Backlog   == online /\ queue # <<>>

Sweeping(from, to) ==
  /\ sweep.pc = from /\ sweep' = to
  /\ UNCHANGED <<expired, current, online, life, create, initial, cancel, disc,
                 bounds, sent, cancelled>>

\* the expired rows by id
ListExpired ==
  /\ \E batch \in SetToSeqs(ToSet(queue) \cap expired) :
       /\ \A i, j \in DOMAIN queue, k, l \in DOMAIN batch :
            queue[i] = batch[k] /\ queue[j] = batch[l] /\ k < l => i < j
       /\ Sweeping("idle", [pc |-> "row", batch |-> batch])
  /\ UNCHANGED <<status, queue, drain>>

\* handleExpired: first the row, then the pod
DeleteExpired ==
  /\ sweep.batch # <<>> /\ Sweeping("row", Went(sweep, "mark"))
  /\ DeleteRow(Head(sweep.batch)) /\ UNCHANGED <<status, drain>>

MarkQueueExpired ==
  /\ sweep.pc = "mark" /\ MarkExpired(Head(sweep.batch))
  /\ Sweeping("mark", Next1(sweep, "row")) /\ UNCHANGED <<queue, drain>>

\* drainOnlineRunnersWithBacklog
DrainBacklog ==
  /\ sweep.batch = <<>> /\ Sweeping("row", At("idle"))
  /\ IF Backlog THEN DrainRunner ELSE UNCHANGED drain
  /\ UNCHANGED <<status, queue>>

-----------------------------------------------------------------------------
(* The runner's connection, and what follows from it.                      *)

Linking == UNCHANGED <<expired, create, initial, cancel, sweep, sent, cancelled>>

\* AddConnection, and the drain once the runner is initialized
Connect ==
  /\ ~online /\ online' = TRUE /\ DrainRunner /\ Linking
  /\ UNCHANGED <<status, queue, current, life, disc, bounds>>

\* commands under way to the runner and reports from it may be lost
LosesMessages ==
  \E lost \in SUBSET {p \in Pods : life[p] \in {"asked", "alive"}} :
    life' = [p \in Pods |-> IF p \in lost THEN "gone" ELSE life[p]]
Breaks == /\ online /\ losses < MaxLosses /\ losses' = losses + 1
          /\ LosesMessages /\ UNCHANGED crashes

\* the old connection's RemoveConnection finds another generation
ReplaceConnection ==
  /\ Breaks /\ DrainRunner /\ Linking
  /\ UNCHANGED <<status, queue, current, online, disc>>

Listed(pc, which) ==
  [pc |-> pc, batch |-> SetToSeq({p \in Pods : status[p] = which})]

\* RemoveConnection; one handleRunnerDisconnect at a time (bound)
LoseConnection ==
  /\ Breaks /\ online' = FALSE /\ Linking
  /\ disc.pc = "idle" /\ disc' = At("begin")
  /\ UNCHANGED <<status, queue, current, drain>>

ListInitializing ==
  /\ disc.pc = "begin" /\ disc' = Listed("starting", "initializing")
  /\ Linking
  /\ UNCHANGED <<status, queue, current, online, life, drain, bounds>>

\* failInitializingPodsForRunner, then the list of queued pods
FailInitializing ==
  /\ disc.pc = "starting" /\ Linking
  /\ \/ disc.batch = <<>> /\ disc' = Listed("queued", "queued")
        /\ UNCHANGED <<status, current>>
     \/ /\ disc.batch # <<>> /\ disc' = Next1(disc, "starting")
        /\ FailStarting(Head(disc.batch))
  /\ UNCHANGED <<queue, online, life, drain, bounds>>

\* failQueuedPodsForRunner: cancelPendingForPod, then the compare-and-set
DropQueued ==
  /\ disc.pc = "queued" /\ Linking
  /\ \/ disc.batch = <<>> /\ disc' = At("idle") /\ UNCHANGED queue
     \/ /\ disc.batch # <<>> /\ disc' = Went(disc, "fail")
        /\ DeleteRow(Head(disc.batch))
  /\ UNCHANGED <<status, current, online, life, drain, bounds>>

FailQueued ==
  LET p == Head(disc.batch) IN
    /\ disc.pc = "fail" /\ disc' = Next1(disc, "queued") /\ Linking
    /\ Cas(p, "queued", "error")
    /\ IF status[p] = "queued" THEN DrainRunner ELSE UNCHANGED drain
    /\ UNCHANGED <<queue, current, online, life, bounds>>

-----------------------------------------------------------------------------
(* What the runner reports while it is connected.                          *)

Reporting == Linking /\ UNCHANGED <<online, disc, bounds>>
Became(p, from, to) == life[p] = from /\ life' = [life EXCEPT ![p] = to]

\* UpdateByKey, whatever the status
HandlePodCreated(p) ==
  /\ online /\ Became(p, "asked", "alive") /\ SetStatus(p, "running")
  /\ Reporting /\ UNCHANGED <<queue, current, drain>>

HandlePodError(p) ==
  /\ online /\ Became(p, "asked", "gone") /\ FailStarting(p)
  /\ Reporting /\ UNCHANGED <<queue, drain>>

\* without a connection that is all that happens
Unheard(p) ==
  /\ ~online /\ \E to \in {"alive", "gone"} : Became(p, "asked", to)
  /\ Reporting /\ UNCHANGED <<status, queue, current, drain>>

\* the runner keeps this report until it is connected
HandlePodTerminated(p) ==
  /\ online /\ Became(p, "alive", "gone") /\ DeleteRow(p) /\ Reporting
  /\ IF status[p] \in Active
     THEN /\ \E s \in {"completed", "error"} : SetStatus(p, s)
          /\ DecrementPods /\ DrainRunner
     ELSE UNCHANGED <<status, current, drain>>

\* heartbeats: a pod that is reported recovers, one that is missing often
\* enough is orphaned (any number of misses here, and one step)
Reconcile(p) ==
  /\ online /\ Reporting /\ UNCHANGED <<queue, current, drain, life>>
  /\ \/ life[p] = "alive" /\ status[p] \in {"orphaned", "initializing"}
        /\ SetStatus(p, "running")
     \/ life[p] # "alive" /\ status[p] \in Active /\ SetStatus(p, "orphaned")

\* CountActiveByKeys of the pods that are reported
CountActive(told) ==
  Cardinality({p \in Pods : status[p] \in {"initializing", "running"}})
CountActiveByKeys(told) ==
  Cardinality({p \in told : status[p] \in {"initializing", "running"}})
SyncPodCount ==
  /\ online /\ Reporting /\ UNCHANGED <<status, queue, drain, life>>
  /\ \E told \in SUBSET {p \in Pods : life[p] \in {"asked", "alive"}} :
       /\ \A p \in Pods : life[p] = "alive" => p \in told
       /\ current' = CountActiveByKeys(told)

\* the batch of heartbeats, written seconds later by HeartbeatBatcher: what
\* some report told, whatever has happened since, of pods the runner was sent
FlushHeartbeats ==
  /\ \E told \in SUBSET {p \in Pods : sent[p] > 0} : current' = Cardinality(told)
  /\ UNCHANGED <<status, rows, online, life, create, initial, cancel, drain,
                 sweep, disc, bounds, sent, cancelled>>

-----------------------------------------------------------------------------
Expire(p) ==
  /\ p \in ToSet(queue) \ expired /\ expired' = expired \cup {p}
  /\ UNCHANGED <<status, queue, current, online, life, create, initial, cancel,
                 drain, sweep, disc, bounds, sent, cancelled>>

\* the database stays; requests and handlers are gone
Crash ==
  /\ crashes < MaxCrashes /\ crashes' = crashes + 1 /\ online' = FALSE
  /\ create' = [p \in Pods |-> IF create[p] = "idle" THEN "idle" ELSE "done"]
  /\ cancel' = [p \in Pods |-> IF cancel[p] = "idle" THEN "idle" ELSE "done"]
  /\ drain' = At("idle") /\ sweep' = At("idle") /\ disc' = At("idle")
  /\ LosesMessages
  /\ UNCHANGED <<status, rows, current, losses, initial, sent, cancelled>>

Request(p) ==
  \/ InsertPod(p) \/ CreatePodOrQueue(p) \/ ReserveDirect(p) \/ SendDirect(p)
  \/ UndoDirect(p) \/ EnqueueCreatePod(p) \/ AlignStatus(p)
  \/ MarkDispatchFailed(p)
Cancel(p) ==
  CancelPending(p) \/ CancelQueued(p) \/ CompletePod(p) \/ FreeSlot(p)
Drain ==
  \/ ListQueue \/ DrainEnds \/ TakeRow \/ ClaimRow \/ ReserveClaimed
  \/ SendClaimed \/ UndoClaimed \/ RevertClaim \/ DeleteDrained \/ MarkDrained
Sweep == ListExpired \/ DeleteExpired \/ MarkQueueExpired \/ DrainBacklog
Disconnect == ListInitializing \/ FailInitializing \/ DropQueued \/ FailQueued
Report(p) ==
  \/ HandlePodCreated(p) \/ HandlePodError(p) \/ Unheard(p)
  \/ HandlePodTerminated(p) \/ Reconcile(p)

Next ==
  \/ Drain \/ Sweep \/ Disconnect \/ SyncPodCount \/ FlushHeartbeats
  \/ Connect \/ ReplaceConnection \/ LoseConnection \/ Crash
  \/ \E p \in Pods :
       \/ InitialPodStatus(p) \/ Request(p) \/ ReadPod(p) \/ Cancel(p)
       \/ Report(p) \/ Expire(p)

Spec == Init /\ [][Next]_vars

\* goroutines go on, the sweeper ticks, a connected runner sends heartbeats;
\* nobody has to ask for a pod, to cancel one or to connect, and no row has
\* to expire
FairSpec ==
  /\ Spec /\ WF_vars(Drain) /\ WF_vars(Sweep) /\ WF_vars(Disconnect)
  /\ WF_vars(SyncPodCount)
  /\ \A p \in Pods : WF_vars(Request(p)) /\ WF_vars(Cancel(p))

-----------------------------------------------------------------------------
(* Properties *)

\* a command is sent once at most, though rows are claimed, put back, listed
\* again after a crash, and sent directly: SendDirect, SendClaimed
SentOnce == \A p \in Pods : sent[p] <= 1

QueueInv == TypeOK /\ SentOnce

\* the drainer sends the row with the lowest id, unless a cancel took its row
\* meanwhile: ListByRunnerFIFO, and the drain that ends when a row cannot be sent
SendsInOrder == [][\A p \in Pods :
    /\ drain.pc = "send" /\ drain' # drain
    /\ sent'[p] # sent[p] /\ p \in ToSet(queue)
    => Head(queue) = p]_vars

\* whoever handles an expired row, never fails a pod the runner was sent
ExpirySparesSent == [][\A p \in Pods :
    /\ status[p] # "error" /\ status'[p] = "error"
    /\ \/ drain.pc = "mark" /\ drain' # drain
       \/ sweep.pc = "mark" /\ sweep' # sweep
    => sent[p] = 0]_vars

\* while the runner is connected and has room, its queue gets empty: triggers
\* that a drain under way swallows are made up for by drainOnlineRunnersWithBacklog
BacklogMoves ==
  <>[](online /\ current < MaxConcurrent) => []<>(queue = <<>>)

\* a pod inserted as queued whose row is expired does not stay queued, if the
\* control plane does not crash again: handleExpired
ExpiredPodEnds == \A p \in Pods :
  /\ status[p] = "queued" /\ p \in ToSet(queue) \cap expired
  /\ initial[p] = "queued" /\ crashes = MaxCrashes
  ~> status[p] # "queued"

\* slots that were reserved and never freed, freed twice, or overwritten by the
\* batch of an old heartbeat come right with the next heartbeats
Running  == {p \in Pods : life[p] = "alive" /\ status[p] \in {"initializing", "running"}}
Sent     == {p \in Pods : life[p] \in {"asked", "alive"}}
SlotsReturn == <>[]online =>
  []<>(current \in Cardinality(Running) .. Cardinality(Sent))

\* pending_drain.go says that the claim closes the race with a cancel
CancelClosesDispatch ==
  [][\A p \in cancelled : drain.pc = "send" /\ drain' # drain
                            => sent'[p] = sent[p]]_vars

\* RFC-006: a row is deleted once it is drained (here: by the drainer, when
\* its pod was sent or is over)
UnsentRowStays == [][\A p \in Pods :
    drain.pc = "delete" /\ drain' # drain /\ p \in ToSet(queue) \ ToSet(queue')
      => sent[p] > 0 \/ status[p] \notin {"queued", "initializing"}]_vars
=============================================================================
