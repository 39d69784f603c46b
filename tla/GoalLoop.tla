------------------------------ MODULE GoalLoop ------------------------------
(***************************************************************************)
(* One goal loop of the control plane: a worker pod, an external verifier  *)
(* that decides whether the goal is reached, prompts that send the worker  *)
(* back to work, and the timeout monitor (backend/internal/service/        *)
(* goalloop, infra/goal_loop_repo.go).                                     *)
(*                                                                         *)
(* The user's calls, the pod's events (handled by every replica, late or   *)
(* twice), the runner's verdicts and the monitor meet in one row.  Each    *)
(* reads the row, perhaps stops the pod, and later writes the row with a   *)
(* guard on its status.  Every statement of theirs is an action; a call    *)
(* whose statement fails, or whose replica crashes, ends there (Dies).     *)
(* The worker and its runner are seen from outside; how a queued prompt    *)
(* reaches the worker is left out.                                         *)
(***************************************************************************)
EXTENDS Naturals, FiniteSets

CONSTANTS
  Handlers,       \* goroutines that handle a call, an event or a verdict
  TimeoutMonitors,\* goroutines of TimeoutMonitor, one for each replica
  MaxIterations,  \* loop.MaxIterations
  MaxPods,        \* bound on the pods made for the loop
  MaxRequests,    \* bound on verification requests
  MaxFaults       \* bound on stops that fail, statements that fail and crashes

ASSUME GoalAssumption ==
  /\ Handlers \cap TimeoutMonitors = {}
  /\ MaxIterations \in Nat \ {0}
  /\ MaxPods \in Nat /\ MaxRequests \in Nat
  /\ MaxFaults \in Nat

VARIABLES
  row,      \* the row of goal_loops
  pods,     \* status of each pod made for the loop
  agent,    \* agent_status of each pod; idle is taken for executing
  ran,      \* pods whose agent began to execute after the last retry prompt was made
  prompts,  \* the send_prompt rows of pending_runner_commands
  request,  \* the verification requests: pod, sent to the runner, verdict kept by it
  proc,     \* where each goroutine is, and what it holds
  faults    \* how often a fault occurred
vars == <<row, pods, agent, ran, prompts, request, proc, faults>>
podVars == <<pods, agent, ran, prompts>>

Procs == Handlers \cup TimeoutMonitors
Pods == 1 .. MaxPods
Requests == 1 .. MaxRequests
Prompts == 2 .. MaxIterations      \* a retry prompt is named after its iteration
Terminal == {"completed", "failed", "cancelled"}
Open == {"draft", "active", "paused", "verifying"}
Targets == {"paused", "completed", "failed", "cancelled"}
\* where escalation_policy sends a loop; each escalation may take either
Policies == {"paused", "failed"}
-----------------------------------------------------------------------------
(* The row *)

\* status, pod_key, current_iteration, retry_prompt_command_id,
\* verification_request_id, verification_exit_code, verification_error and
\* whether started_at + timeout_minutes has passed.  An error that starts with
\* PendingPodCleanupErrorPrefix is the target status it holds.
Rows == [status : Open \cup Terminal, pod : 0 .. MaxPods,
         iter : 0 .. MaxIterations, retry : {0} \cup Prompts, req : 0 .. MaxRequests,
         exit : {"none", "zero", "nonzero"}, err : {"none", "text"} \cup Targets,
         late : BOOLEAN]

Started(r) == [r EXCEPT !.status = "active", !.pod = 0, !.iter = 0, !.retry = 0, !.req = 0,
                        !.exit = "none", !.err = "none", !.late = FALSE]

\* TransitionStatus: an update guarded by the status.  (Mutant: without guard.)
TransitionAnyway(from, new) == row' = new
Transition(from, new) == row' = IF row.status \in from THEN new ELSE row

PendingCleanup(r) == r.pod # 0 /\ r.err \in Targets
\* Mutant: the exit code alone.
ExitedZero(r) == r.exit = "zero"
Succeeded(r) == r.exit = "zero" /\ r.err = "none"   \* persistedVerificationSucceeded

\* What the repository's three queries select.
TimedOut(r) == (r.status \in {"active", "verifying"} /\ r.late) \/ PendingCleanup(r)
VerificationPending(r) == r.status = "verifying" /\ r.req # 0 /\ r.exit = "none" /\ r.retry = 0
RetryPending(r) == r.status = "verifying" /\ r.retry # 0
-----------------------------------------------------------------------------
(* Goroutines *)

Goals == {"none", "complete", "escalate", "cancel", "clean", "abort", "fail"}
Places == {"idle", "create", "persist", "claim", "activate", "consume",
           "reread", "queue", "stop", "stopped", "unstopped", "mark", "failed"}
Idle == [pc |-> "idle", pod |-> 0, arg |-> 0, iter |-> 0, goal |-> "none", target |-> "none",
         was |-> "open"]
Frames == [pc : Places, pod : 0 .. MaxPods, arg : Nat, iter : Nat, goal : Goals,
           target : Targets \cup {"none"}, was : {"open", "failed", "ended"}]

Goto(p, f) == proc' = [proc EXCEPT ![p] = f]
At(p, where) == proc[p].pc = where
Fault == faults < MaxFaults /\ faults' = faults + 1
Done(p) == Goto(p, Idle)

Stop(pod, goal, target, was) ==
  [Idle EXCEPT !.pc = "stop", !.pod = pod, !.goal = goal, !.target = target, !.was = was]
Complete(r) == Stop(r.pod, "complete", "completed", "open")
Escalate(r) == Stop(r.pod, "escalate", "none", "open")
\* retryPendingPodCleanup works on the row as it was read.
Clean(r) == Stop(r.pod, "clean", r.err,
                 IF r.status = "failed" THEN "failed" ELSE IF r.status \in Terminal THEN "ended" ELSE "open")
Begin(r) == [Idle EXCEPT !.pc = "claim", !.pod = r.pod]
Queue(r) == [Idle EXCEPT !.pc = "queue", !.pod = r.pod, !.arg = r.retry]
-----------------------------------------------------------------------------
(* Start *)

\* Start claims the row; a call that finds it in another status returns an error.
Start(p) ==
  /\ At(p, "idle") /\ row.status \in {"draft", "paused"}
  /\ row' = Started(row)
  /\ Goto(p, [Idle EXCEPT !.pc = "create"])
  /\ UNCHANGED <<podVars, request, faults>>

\* CreatePod of the orchestrator may refuse (a quota, no runner).
CreatePod(p) ==
  /\ At(p, "create")
  /\ \/ \E n \in Pods :
          /\ pods[n] = "none" /\ \A m \in 1 .. (n - 1) : pods[m] # "none"
          /\ pods' = [pods EXCEPT ![n] = "live"]
          /\ Goto(p, [Idle EXCEPT !.pc = "persist", !.pod = n])
     \/ Goto(p, [Idle EXCEPT !.pc = "failed"]) /\ UNCHANGED pods
  /\ UNCHANGED <<row, agent, ran, prompts, request, faults>>

\* persistStartKey; if the row is not active any more the new pod is terminated.
PersistKey(p) ==
  /\ At(p, "persist")
  /\ \/ /\ Transition({"active"}, [row EXCEPT !.pod = proc[p].pod])
        /\ IF row.status = "active" THEN Done(p)
                                    ELSE Goto(p, Stop(proc[p].pod, "abort", "cancelled", "open"))
        /\ UNCHANGED faults
     \/ /\ Fault
        /\ Goto(p, Stop(proc[p].pod, "fail", "failed", "open"))
        /\ UNCHANGED row
  /\ UNCHANGED <<podVars, request>>

FailStart(p) ==
  /\ At(p, "failed")
  /\ Transition({"active"}, [row EXCEPT !.status = "failed", !.err = "text"])
  /\ Done(p)
  /\ UNCHANGED <<podVars, request, faults>>
-----------------------------------------------------------------------------
(* Stopping the pod, and what follows *)

\* TerminatePod completes a live pod, deletes its rows of the queue and
\* publishes its end; the others are refused.  stopPod asks first.
Asks(goal) == goal \notin {"abort", "fail"}
Live(n) == n \in Pods /\ pods[n] = "live"

StopPod(p) ==
  LET n == proc[p].pod IN
  /\ At(p, "stop")
  /\ \/ /\ Live(n)
        /\ pods' = [pods EXCEPT ![n] = "completed"]
        /\ prompts' = {q \in prompts : q.pod # n}
        /\ Goto(p, [proc[p] EXCEPT !.pc = "stopped"])
        /\ UNCHANGED faults
     \/ /\ ~Live(n) /\ Asks(proc[p].goal)
        /\ Goto(p, [proc[p] EXCEPT !.pc = "stopped"])
        /\ UNCHANGED <<pods, prompts, faults>>
     \/ /\ n # 0
        /\ \/ Fault
           \/ ~Live(n) /\ ~Asks(proc[p].goal) /\ UNCHANGED faults
        /\ Goto(p, [proc[p] EXCEPT !.pc = "unstopped"])
        /\ UNCHANGED <<pods, prompts>>
  /\ UNCHANGED <<row, agent, ran, request>>

\* The error a loop keeps once its cleanup is done.
Reason(target) == IF target \in {"completed", "cancelled"} THEN "none" ELSE "text"

Stopped(p) ==
  LET target == proc[p].target IN
  /\ At(p, "stopped")
  /\ CASE proc[p].goal = "complete" ->
            Transition({"verifying"}, [row EXCEPT !.status = "completed", !.err = "none"])
       [] proc[p].goal = "escalate" ->
            \E policy \in Policies :
              Transition({"active", "verifying"}, [row EXCEPT !.status = policy, !.err = "text"])
       [] proc[p].goal = "cancel" ->
            Transition(Open, [row EXCEPT !.status = "cancelled", !.req = 0, !.retry = 0])
       [] proc[p].goal = "clean" /\ proc[p].was = "open" ->
            Transition(Open, [row EXCEPT !.status = target, !.err = Reason(target)])
       [] proc[p].goal = "clean" /\ proc[p].was # "open" ->
            row' = [row EXCEPT !.err = IF proc[p].was = "failed" /\ target = "failed" THEN "text" ELSE "none"]
       [] OTHER -> UNCHANGED row
  /\ IF proc[p].goal = "fail" THEN Goto(p, [Idle EXCEPT !.pc = "failed"]) ELSE Done(p)
  /\ UNCHANGED <<podVars, request, faults>>

\* The loop remembers, in verification_error, that its pod still runs.
Unstopped(p) ==
  LET f == proc[p]
      MarkedPod == [row EXCEPT !.err = f.target, !.pod = f.pod] IN
  /\ At(p, "unstopped")
  /\ CASE f.goal = "complete" -> row' = [row EXCEPT !.err = f.target] /\ Done(p)
       [] f.goal = "escalate" -> \E policy \in Policies : row' = [row EXCEPT !.err = policy] /\ Done(p)
       [] f.goal \in {"cancel", "clean", "abort"} -> row' = MarkedPod /\ Done(p)
       [] f.goal = "fail" ->
            /\ Transition({"active"}, [MarkedPod EXCEPT !.status = "failed"])
            /\ IF row.status = "active" THEN Done(p) ELSE Goto(p, [f EXCEPT !.pc = "mark"])
  /\ UNCHANGED <<podVars, request, faults>>

\* persistPendingPodCleanup of failStartWithPendingCleanup.
Mark(p) ==
  /\ At(p, "mark")
  /\ row' = [row EXCEPT !.err = proc[p].target, !.pod = proc[p].pod]
  /\ Done(p)
  /\ UNCHANGED <<podVars, request, faults>>
-----------------------------------------------------------------------------
(* Calls, events and verdicts: each reads the row and decides *)

\* dispatchVerification: SendRunVerification fails while the runner is not
\* connected.  It ends its call and no more than a verdict depends on it, so it
\* is one action with the statement before it.
Dispatch(r) == request' \in {request, [request EXCEPT ![r].sent = TRUE]}

Receives(p, f) ==
  /\ At(p, "idle") /\ p \in Handlers /\ Goto(p, f)
  /\ UNCHANGED <<row, podVars, request, faults>>

Cancel(p) ==
  \/ row.status \in Terminal /\ PendingCleanup(row) /\ Receives(p, Clean(row))
  \/ row.status \notin Terminal /\ Receives(p, Stop(row.pod, "cancel", "cancelled", "open"))

Verify(p) ==
  /\ row.status \in {"active", "verifying"}
  /\ IF PendingCleanup(row) THEN Receives(p, Clean(row)) ELSE
     \/ row.retry # 0 /\ Receives(p, Queue(row))
     \/ row.retry = 0 /\ row.status = "active" /\ Receives(p, Begin(row))
     \/ /\ row.retry = 0 /\ row.status = "verifying" /\ row.exit # "none"
        /\ Receives(p, IF Succeeded(row) THEN Complete(row) ELSE Escalate(row))
     \/ /\ row.retry = 0 /\ row.status = "verifying" /\ row.exit = "none"
        /\ At(p, "idle") /\ Dispatch(row.req)
        /\ UNCHANGED <<row, podVars, proc, faults>>

Attends(n) == row.pod = n /\ row.status \in {"active", "verifying"}

\* The end of a pod is known to every replica once it is in the pods table.
HandlePodStatus(p, n) ==
  /\ Attends(n)
  /\ \/ pods[n] = "completed" /\ row.status = "active" /\ Receives(p, Begin(row))
     \/ pods[n] = "error" /\ Receives(p, Escalate(row))

\* A report of the agent: isCurrentPodAgentStatus compares it with the pods
\* table, and one that is older than the retry prompt does not activate it.
HandlePodAgentStatus(p, n) ==
  /\ Attends(n)
  /\ \/ /\ agent[n] = "executing" /\ n \in ran /\ row.retry # 0
        /\ Receives(p, [Idle EXCEPT !.pc = "activate", !.arg = row.retry])
     \/ agent[n] # "executing" /\ row.retry # 0 /\ Receives(p, Queue(row))
     \/ agent[n] = "waiting" /\ row.retry = 0 /\ row.status = "active" /\ Receives(p, Begin(row))

\* activateRetryWorker: TransitionRetryPrompt is guarded by the command id.
Activate(p) ==
  /\ At(p, "activate")
  /\ row' = IF row.status = "verifying" /\ row.retry = proc[p].arg
            THEN [row EXCEPT !.status = "active", !.retry = 0] ELSE row
  /\ Done(p)
  /\ UNCHANGED <<podVars, request, faults>>
-----------------------------------------------------------------------------
(* Verification *)

\* Mutant: the last exit code is kept.
ClaimedAnew(r, id) == [r EXCEPT !.status = "verifying", !.req = id, !.err = "none"]
Claimed(r, id) == [r EXCEPT !.status = "verifying", !.req = id, !.exit = "none", !.err = "none"]

\* beginVerification: a fresh request, if the loop is still active.
BeginVerification(p) ==
  LET new == Cardinality({r \in Requests : request[r].pod # 0}) + 1 IN
  /\ At(p, "claim")
  /\ IF proc[p].pod = 0 \/ row.status # "active" THEN UNCHANGED <<row, request>> ELSE
     /\ new \in Requests
     /\ row' = Claimed(row, new)
     /\ \E sent \in BOOLEAN :
          request' = [request EXCEPT ![new] = [pod |-> proc[p].pod, sent |-> sent, verdict |-> "none"]]
  /\ Done(p)
  /\ UNCHANGED <<podVars, faults>>

\* OnRunVerification: the first run of a request decides, later commands are
\* answered by its receipt.
RunVerification(r) ==
  /\ request[r].sent /\ request[r].verdict = "none"
  /\ \E v \in {"pass", "fail", "error"} : request' = [request EXCEPT ![r].verdict = v]
  /\ UNCHANGED <<row, podVars, proc, faults>>

\* What a verdict leads to; a failed run may also repeat an error or show no
\* progress too often.  Mutants: one iteration more, and a retry after an error.
ExhaustedNext(iter) == iter > MaxIterations
Exhausted(iter) == iter >= MaxIterations
OutcomesRetried(verdict, iter) ==
  IF verdict = "pass" THEN {"complete"}
  ELSE IF Exhausted(iter) THEN {"escalate"} ELSE {"escalate", "queue"}
Outcomes(verdict, iter) ==
  CASE verdict = "pass" -> {"complete"}
    [] verdict = "error" \/ (verdict = "fail" /\ Exhausted(iter)) -> {"escalate"}
    [] verdict = "fail" /\ ~Exhausted(iter) -> {"escalate", "queue"}

HandleVerificationResult(p, r) ==
  /\ request[r].verdict # "none"
  /\ row.req = r /\ row.status = "verifying" /\ row.pod = request[r].pod
  /\ \E o \in Outcomes(request[r].verdict, row.iter + 1) :
       Receives(p, [Idle EXCEPT !.pc = "consume", !.pod = row.pod, !.arg = r, !.iter = row.iter + 1,
                                !.goal = IF o = "queue" THEN "none" ELSE o])

\* ConsumeVerificationResult: guarded by the request, so that a verdict counts once.
\* Mutant: by the status alone.
WaitsForAny(r, id) == r.status = "verifying"
Waits(r, id) == r.status = "verifying" /\ r.req = id

Consume(p) ==
  LET f == proc[p]
      evidence == [row EXCEPT !.iter = f.iter, !.req = 0, !.retry = 0]
      error == [evidence EXCEPT !.exit = "nonzero", !.err = "text"] IN
  /\ At(p, "consume")
  /\ IF ~Waits(row, f.arg) THEN Done(p) /\ UNCHANGED <<row, ran>> ELSE
     \/ /\ f.goal = "complete"
        /\ row' = [evidence EXCEPT !.exit = "zero", !.err = "none"]
        /\ Goto(p, Stop(f.pod, "complete", "completed", "open"))
        /\ UNCHANGED ran
     \/ /\ f.goal = "escalate"
        /\ row' \in {error} \cup (IF request[f.arg].verdict = "error" THEN {[error EXCEPT !.exit = "zero"]} ELSE {})
        /\ Goto(p, Stop(f.pod, "escalate", "none", "open"))
        /\ UNCHANGED ran
     \/ /\ f.goal = "none"
        /\ row' = [error EXCEPT !.retry = f.iter + 1]
        /\ ran' = {}
        /\ Goto(p, [Idle EXCEPT !.pc = "reread", !.pod = f.pod])
  /\ UNCHANGED <<pods, agent, prompts, request, faults>>

\* The row is read again before its prompt is queued.
Reread(p) ==
  /\ At(p, "reread")
  /\ IF row.pod = proc[p].pod THEN Goto(p, Queue(row)) ELSE Done(p)
  /\ UNCHANGED <<row, podVars, request, faults>>
-----------------------------------------------------------------------------
(* Retry prompts *)

\* EnqueueSendPrompt: a command's id names the loop and the iteration and is
\* unique among the rows; the queue may refuse it.
QueueRetryPrompt(p) ==
  /\ At(p, "queue")
  /\ \/ /\ proc[p].arg # 0 /\ proc[p].pod # 0
        /\ \A q \in prompts : q.id # proc[p].arg
        /\ prompts' = prompts \cup {[pod |-> proc[p].pod, id |-> proc[p].arg]}
     \/ UNCHANGED prompts
  /\ Done(p)
  /\ UNCHANGED <<row, pods, agent, ran, request, faults>>

\* The queue sends the prompt or lets it expire.
PromptLeaves(q) ==
  /\ prompts' = prompts \ {q}
  /\ UNCHANGED <<row, pods, agent, ran, request, proc, faults>>
-----------------------------------------------------------------------------
(* The timeout monitors: ExpireTimedOut *)

\* Its three parts read the row on their own, in this order, at every tick.
Ticks(m, f) == At(m, "idle") /\ Goto(m, f) /\ UNCHANGED <<row, podVars, request, faults>>

ExpireTimedOut(m) ==
  \/ PendingCleanup(row) /\ Ticks(m, Clean(row))
  \/ /\ TimedOut(row) /\ ~PendingCleanup(row)
     /\ Ticks(m, IF row.status = "verifying" /\ Succeeded(row) THEN Complete(row) ELSE Escalate(row))

RecoverPendingVerifications(m) ==
  /\ VerificationPending(row) /\ At(m, "idle") /\ Dispatch(row.req)
  /\ UNCHANGED <<row, podVars, proc, faults>>

RecoverPendingRetryPrompts(m) == RetryPending(row) /\ Ticks(m, Queue(row))
-----------------------------------------------------------------------------
(* Pods, time and crashes *)

AgentReports(n, status) ==
  /\ Live(n) /\ agent[n] # status
  /\ agent' = [agent EXCEPT ![n] = status]
  /\ ran' = IF status = "executing" THEN ran \cup {n} ELSE ran \ {n}
  /\ UNCHANGED <<row, pods, prompts, request, proc, faults>>

\* handlePodTerminated
PodEnds(n, status) ==
  /\ Live(n)
  /\ pods' = [pods EXCEPT ![n] = status]
  /\ UNCHANGED <<row, agent, ran, prompts, request, proc, faults>>

TimePasses ==
  /\ row.status \in {"active", "verifying"} /\ ~row.late
  /\ row' = [row EXCEPT !.late = TRUE]
  /\ UNCHANGED <<podVars, request, proc, faults>>

Dies(p) ==
  /\ ~At(p, "idle")
  /\ Fault
  /\ Done(p)
  /\ UNCHANGED <<row, podVars, request>>
-----------------------------------------------------------------------------
Init ==
  /\ row = [status |-> "draft", pod |-> 0, iter |-> 0, retry |-> 0, req |-> 0,
            exit |-> "none", err |-> "none", late |-> FALSE]
  /\ pods = [n \in Pods |-> "none"] /\ agent = [n \in Pods |-> "executing"]
  /\ ran = {} /\ prompts = {}
  /\ request = [r \in Requests |-> [pod |-> 0, sent |-> FALSE, verdict |-> "none"]]
  /\ proc = [p \in Procs |-> Idle]
  /\ faults = 0

\* What a monitor and a handler share.
Step(p) ==
  StopPod(p) \/ Stopped(p) \/ Unstopped(p) \/ QueueRetryPrompt(p)

Handle(p) ==
  \/ Start(p) \/ CreatePod(p) \/ PersistKey(p) \/ FailStart(p) \/ Mark(p)
  \/ Cancel(p) \/ Verify(p)
  \/ \E n \in Pods : HandlePodStatus(p, n) \/ HandlePodAgentStatus(p, n)
  \/ \E r \in Requests : HandleVerificationResult(p, r)
  \/ Activate(p) \/ BeginVerification(p) \/ Consume(p) \/ Reread(p)

Monitors == \E m \in TimeoutMonitors :
  ExpireTimedOut(m) \/ RecoverPendingVerifications(m) \/ RecoverPendingRetryPrompts(m)

Runner ==
  \/ \E n \in Pods : (\E s \in {"executing", "waiting"} : AgentReports(n, s))
                     \/ (\E s \in {"completed", "error"} : PodEnds(n, s))
  \/ \E r \in Requests : RunVerification(r)
  \/ \E q \in prompts : PromptLeaves(q)

Next ==
  \/ \E p \in Procs : Step(p) \/ Dies(p)
  \/ \E p \in Handlers : Handle(p)
  \/ Monitors
  \/ Runner
  \/ TimePasses

Spec == Init /\ [][Next]_vars

\* Time passes, a monitor's statements return, and each of its ticks begins
\* with ExpireTimedOut, which is therefore not passed over for ever.
FairSpec ==
  /\ Spec /\ WF_vars(TimePasses)
  /\ \A m \in TimeoutMonitors : WF_vars(Step(m)) /\ SF_vars(ExpireTimedOut(m))
-----------------------------------------------------------------------------
(* Properties *)

TypeOK ==
  /\ row \in Rows
  /\ pods \in [Pods -> {"none", "live", "completed", "error"}]
  /\ agent \in [Pods -> {"executing", "waiting"}]
  /\ ran \subseteq Pods
  /\ prompts \subseteq [pod : Pods, id : Prompts]
  /\ request \in [Requests -> [pod : 0 .. MaxPods, sent : BOOLEAN, verdict : {"none", "pass", "fail", "error"}]]
  /\ proc \in [Procs -> Frames]
  /\ faults \in 0 .. MaxFaults

\* A loop that is verifying is found again by whoever crashed or was lost: it
\* waits for a verdict or for its worker to take up a prompt, which the
\* monitor's queries select, or it holds a verdict, on which Verify acts.
VerifyingIsRecoverable ==
  row.status = "verifying" =>
    VerificationPending(row) \/ RetryPending(row) \/ (row.req = 0 /\ row.exit # "none")

LoopInv == TypeOK /\ VerifyingIsRecoverable

\* A loop is completed only if a run of its verification command passed, as the
\* worker is told: "an external verification command will decide the result".
CompletedIsVerified == row.status = "completed" => \E r \in Requests : request[r].verdict = "pass"

\* The verifier is asked again only while iterations are left, whatever is
\* repeated, recovered or late.
VerifierWithinBudget == row.req # 0 => row.iter < MaxIterations

\* A worker is sent back to work only after as many runs of the loop failed:
\* not because a run could not be made, and not twice for one.
PromptsFollowFailures ==
  \A q \in prompts : Cardinality({r \in Requests : request[r].verdict = "fail"}) >= q.id - 1

\* While the loop goes on, a request is given up for its own verdict only: a
\* verdict that comes late or twice does not take the place of another.
VerdictsAreNotLost ==
  [][row.req # 0 /\ row'.req = 0 /\ row'.status = "verifying" => request[row.req].verdict # "none"]_vars

\* Cancelled, failed and completed are final: no goroutine that read the row
\* before may move it on.
TerminalIsFinal == [][row.status \in Terminal => row'.status = row.status]_vars

\* A loop that runs ends: it is completed, cancelled, failed or paused, at the
\* latest when its time is up.
LoopEnds == (row.status \in {"active", "verifying"}) ~> (row.status \notin {"active", "verifying"})

\* A loop that ended has no live pod once every call returned, unless it
\* remembers that its pod is to be stopped (TestStartTerminatesCreatedPodWhenCancelWins).
EndedLoopHasNoPod ==
  /\ row.status \in Terminal /\ row.pod # 0 /\ ~PendingCleanup(row)
  /\ \A p \in Procs : At(p, "idle")
  => ~Live(row.pod)
=============================================================================
