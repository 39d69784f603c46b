--------------------------- MODULE GoalLoopProofs ---------------------------
(***************************************************************************)
(* Proofs about the goal loop, for any handlers, iterations, pods,         *)
(* requests and faults.                                                    *)
(***************************************************************************)
EXTENDS GoalLoop, FiniteSetTheorems, TLAPS

(***************************************************************************)
(* The inductive invariant.                                                *)
(***************************************************************************)
Passed == \E r \in Requests : request[r].verdict = "pass"

\* What a goroutine holds, between its statements, of a row it has read.
FrameHolds(p) ==
  /\ proc[p].pc = "consume" =>
       /\ proc[p].iter \in 1 .. MaxIterations /\ proc[p].arg \in Requests
       /\ proc[p].goal \in {"complete", "escalate", "none"}
       /\ request[proc[p].arg].verdict # "none"
       /\ proc[p].goal = "none" => proc[p].iter < MaxIterations /\ request[proc[p].arg].verdict = "fail"
  /\ proc[p].pc = "queue" => proc[p].arg \in {0} \cup Prompts
  /\ proc[p].pc = "activate" => proc[p].arg # 0
  /\ proc[p].pc = "mark" => proc[p].goal = "fail"
  /\ proc[p].pc \in {"stop", "unstopped"} => proc[p].goal # "none"
  /\ proc[p].goal \in {"cancel", "clean", "abort", "fail"} => proc[p].target \in Targets
  /\ proc[p].goal = "clean" /\ proc[p].was # "open" => row.status \in Terminal
  /\ proc[p].goal = "complete" \/ proc[p].target = "completed" => Passed

\* Iterations are left to a loop that works, verifies or is to be sent back.
IterationsLeft ==
  /\ row.status = "active" \/ row.req # 0 \/ row.retry # 0 => row.iter < MaxIterations
  /\ row.status = "active" => row.retry = 0

\* What the row says of its request and of a verification that passed.
RowIsTrue ==
  /\ row.status = "completed" \/ row.err = "completed" => Passed
  /\ row.status = "verifying" /\ Succeeded(row) => Passed
  /\ row.req # 0 => request[row.req].pod # 0

RowSound == row \in Rows /\ VerifyingIsRecoverable /\ IterationsLeft /\ RowIsTrue

PodsTyped ==
  /\ pods \in [Pods -> {"none", "live", "completed", "error"}]
  /\ agent \in [Pods -> {"executing", "waiting"}]
  /\ ran \subseteq Pods
  /\ prompts \subseteq [pod : Pods, id : Prompts]

\* Requests are made one after the other, and run after they were made.
RequestsSound ==
  /\ request \in [Requests -> [pod : 0 .. MaxPods, sent : BOOLEAN, verdict : {"none", "pass", "fail", "error"}]]
  /\ \E k \in 0 .. MaxRequests : {r \in Requests : request[r].pod # 0} = 1 .. k
  /\ \A r \in Requests : request[r].pod = 0 => request[r].verdict = "none" /\ ~request[r].sent

IInv ==
  /\ RowSound /\ PodsTyped /\ RequestsSound
  /\ proc \in [Procs -> Frames] /\ \A p \in Procs : FrameHolds(p)
  /\ faults \in 0 .. MaxFaults

\* What a step does to it, part by part.
Final == row.status \in Terminal => row'.status = row.status

Progress ==
  /\ Passed => Passed'
  /\ \A r \in Requests : request[r].pod # 0 => request'[r].pod # 0
  /\ \A r \in Requests : request[r].verdict # "none" => request'[r].verdict = request[r].verdict

Kept ==
  /\ RowSound' /\ Final /\ PodsTyped' /\ RequestsSound' /\ Progress
  /\ proc' \in [Procs -> Frames] /\ \A q \in Procs : proc'[q] = proc[q] \/ FrameHolds(q)'
  /\ faults' \in 0 .. MaxFaults

\* The goroutines that a step leaves alone hold what they held.
LEMMA KeptIsInvariant == ASSUME IInv, Kept PROVE IInv'
<1>1. ASSUME NEW q \in Procs PROVE FrameHolds(q)'
  <2>1. CASE proc'[q] = proc[q]
    <3>1. FrameHolds(q)
      BY DEF IInv
    <3>2. row.status \in Terminal => row'.status \in Terminal
      BY DEF Kept, Final
    <3>3. /\ Passed => Passed'
          /\ \A r \in Requests : request[r].verdict # "none" => request'[r].verdict = request[r].verdict
      BY DEF Kept, Progress
    <3> QED
      BY <2>1, <3>1, <3>2, <3>3 DEF FrameHolds
  <2> QED
    BY <2>1 DEF Kept
<1> QED
  BY <1>1 DEF IInv, Kept

\* What a step leaves alone is kept.
LEMMA Untouched ==
  ASSUME IInv
  PROVE  /\ UNCHANGED podVars => PodsTyped'
         /\ UNCHANGED request => RequestsSound' /\ Progress
         /\ UNCHANGED row /\ Progress => RowSound' /\ Final
         /\ UNCHANGED faults \/ Fault => faults' \in 0 .. MaxFaults
<1>1. UNCHANGED podVars => PodsTyped'
  BY DEF IInv, PodsTyped, podVars
<1>2. UNCHANGED request => RequestsSound' /\ Progress
  BY DEF IInv, RequestsSound, Passed, Progress
<1>3. UNCHANGED row /\ Progress => RowSound' /\ Final
  BY DEF IInv, RowSound, Rows, Requests, Progress, Final, VerifyingIsRecoverable, VerificationPending, RetryPending,
         IterationsLeft, RowIsTrue, Succeeded
<1>4. UNCHANGED faults \/ Fault => faults' \in 0 .. MaxFaults
  BY GoalAssumption DEF IInv, Fault
<1> QED
  BY <1>1, <1>2, <1>3, <1>4

\* What a goroutine holds between statements is a frame, whatever of it is set.
LEMMA FramesAreTyped ==
  /\ Idle \in Frames
  /\ \A c \in Places : [Idle EXCEPT !.pc = c] \in Frames
  /\ \A c \in Places, n \in 0 .. MaxPods : [Idle EXCEPT !.pc = c, !.pod = n] \in Frames
  /\ \A c \in Places, n \in 0 .. MaxPods, a \in Nat :
       /\ [Idle EXCEPT !.pc = c, !.arg = a] \in Frames
       /\ [Idle EXCEPT !.pc = c, !.pod = n, !.arg = a] \in Frames
<1>1. Idle \in Frames
  BY GoalAssumption DEF Idle, Frames, Places, Goals
<1>2. /\ \A f \in Frames, c \in Places : [f EXCEPT !.pc = c] \in Frames
      /\ \A f \in Frames, n \in 0 .. MaxPods : [f EXCEPT !.pod = n] \in Frames
      /\ \A f \in Frames, a \in Nat : [f EXCEPT !.arg = a] \in Frames
  BY DEF Frames
<1> QED
  BY <1>1, <1>2

\* A call of StopPod holds the pod, the goal, the target and the ending it was given.
LEMMA StopIsTyped ==
  ASSUME NEW n, NEW g, NEW t, NEW w
  PROVE  /\ Stop(n, g, t, w).pc = "stop" /\ Stop(n, g, t, w).pod = n /\ Stop(n, g, t, w).goal = g
         /\ Stop(n, g, t, w).target = t /\ Stop(n, g, t, w).was = w
         /\ n \in 0 .. MaxPods /\ g \in Goals /\ t \in Targets \cup {"none"} /\ w \in {"open", "failed", "ended"}
              => Stop(n, g, t, w) \in Frames
<1>1. /\ Stop(n, g, t, w).pc = "stop" /\ Stop(n, g, t, w).pod = n /\ Stop(n, g, t, w).goal = g
      /\ Stop(n, g, t, w).target = t /\ Stop(n, g, t, w).was = w
  BY DEF Stop, Idle
<1>2. ASSUME n \in 0 .. MaxPods, g \in Goals, t \in Targets \cup {"none"}, w \in {"open", "failed", "ended"}
      PROVE  Stop(n, g, t, w) \in Frames
  <2>1. Idle \in Frames /\ "stop" \in Places
    BY FramesAreTyped DEF Places
  <2> QED
    BY <1>2, <2>1 DEF Stop, Frames
<1> QED
  BY <1>1, <1>2

\* A goroutine goes on to its next statement.
LEMMA OneMoves ==
  ASSUME IInv, NEW p \in Procs, NEW f \in Frames, Goto(p, f), proc'[p] = f => FrameHolds(p)'
  PROVE  /\ proc' \in [Procs -> Frames] /\ proc'[p] = f
         /\ \A q \in Procs : proc'[q] = proc[q] \/ FrameHolds(q)'
<1>1. proc \in [Procs -> Frames]
  BY DEF IInv
<1>2. proc' \in [Procs -> Frames] /\ proc'[p] = f /\ \A q \in Procs \ {p} : proc'[q] = proc[q]
  BY <1>1 DEF Goto
<1> QED
  BY <1>2

\* A goroutine that has nothing left to do.
LEMMA IdleHolds == ASSUME NEW p \in Procs, proc'[p] = Idle PROVE FrameHolds(p)'
  BY DEF FrameHolds, Idle, Terminal

(***************************************************************************)
(* The steps.                                                              *)
(***************************************************************************)
\* The call, or the replica, ends where it is; or it has done its work.
LEMMA EndsKept ==
  ASSUME IInv, NEW p \in Procs, Done(p)
  PROVE  proc' \in [Procs -> Frames] /\ \A q \in Procs : proc'[q] = proc[q] \/ FrameHolds(q)'
  BY FramesAreTyped, OneMoves, IdleHolds DEF Done

\* Whoever reads a row and decides what to do.
LEMMA ReadsKept ==
  ASSUME IInv, NEW p \in Procs, NEW f \in Frames, Goto(p, f), UNCHANGED <<row, podVars, request, faults>>,
         proc'[p] = f => FrameHolds(p)'
  PROVE  Kept
  BY Untouched, OneMoves DEF Kept

\* What they decide.
LEMMA DecisionsHold ==
  ASSUME IInv, NEW p \in Procs, UNCHANGED <<row, request>>
  PROVE  /\ row.status = "verifying" /\ Succeeded(row) => Complete(row) \in Frames /\ (proc'[p] = Complete(row) => FrameHolds(p)')
         /\ Escalate(row) \in Frames /\ (proc'[p] = Escalate(row) => FrameHolds(p)')
         /\ PendingCleanup(row) => Clean(row) \in Frames /\ (proc'[p] = Clean(row) => FrameHolds(p)')
         /\ Begin(row) \in Frames /\ (proc'[p] = Begin(row) => FrameHolds(p)')
         /\ Queue(row) \in Frames /\ (proc'[p] = Queue(row) => FrameHolds(p)')
<1> USE DEF FrameHolds
<1>1. row \in Rows /\ row.pod \in 0 .. MaxPods /\ row.retry \in {0} \cup Prompts /\ (row.err = "completed" => Passed)
  BY DEF IInv, RowSound, Rows, RowIsTrue
<1>2. Passed' <=> Passed
  BY DEF Passed
<1>3. row.status = "verifying" /\ Succeeded(row) => Complete(row) \in Frames /\ (proc'[p] = Complete(row) => FrameHolds(p)')
  <2>1. row.status = "verifying" /\ Succeeded(row) => Passed
    BY DEF IInv, RowSound, RowIsTrue
  <2>2. Complete(row) = Stop(row.pod, "complete", "completed", "open")
    BY DEF Complete
  <2> QED
    BY <1>1, <1>2, <2>1, <2>2, StopIsTyped DEF Targets, Goals
<1>4. Escalate(row) \in Frames /\ (proc'[p] = Escalate(row) => FrameHolds(p)')
  <2>1. Escalate(row) = Stop(row.pod, "escalate", "none", "open")
    BY DEF Escalate
  <2> QED
    BY <1>1, <2>1, StopIsTyped DEF Targets, Goals
<1>5. ASSUME PendingCleanup(row) PROVE Clean(row) \in Frames /\ (proc'[p] = Clean(row) => FrameHolds(p)')
  <2>1. PICK w \in {"open", "failed", "ended"} : /\ Clean(row) = Stop(row.pod, "clean", row.err, w)
                                                 /\ w # "open" => row.status \in Terminal
    BY DEF Clean, Terminal
  <2>2. row.err \in Targets
    BY <1>5 DEF PendingCleanup
  <2>3. Clean(row) \in Frames
    BY <1>1, <2>1, <2>2, StopIsTyped DEF Goals
  <2>4. proc'[p] = Clean(row) => FrameHolds(p)'
    BY <1>1, <1>2, <2>1, <2>2, StopIsTyped
  <2> QED
    BY <2>3, <2>4
<1>6. Begin(row) \in Frames /\ (proc'[p] = Begin(row) => FrameHolds(p)')
  <2>1. Begin(row) \in Frames
    BY <1>1, FramesAreTyped DEF Begin, Places
  <2> QED
    BY <2>1 DEF Begin, Idle
<1>7. Queue(row) \in Frames /\ (proc'[p] = Queue(row) => FrameHolds(p)')
  <2>1. row.retry \in Nat
    BY <1>1 DEF Prompts
  <2>2. Queue(row) \in Frames
    BY <1>1, <2>1, FramesAreTyped DEF Queue, Places
  <2> QED
    BY <1>1, <2>2 DEF Queue, Idle
<1> QED
  BY <1>3, <1>4, <1>5, <1>6, <1>7

\* The runner has the request or not; nothing else of it changes.
LEMMA DispatchKept ==
  ASSUME IInv, Dispatch(row.req)
  PROVE  RequestsSound' /\ Progress
<1>0. row.req \in Requests => request[row.req].pod # 0
  BY DEF IInv, RowSound, RowIsTrue, Requests
<1>1. /\ request' \in [Requests -> [pod : 0 .. MaxPods, sent : BOOLEAN, verdict : {"none", "pass", "fail", "error"}]]
      /\ \A q \in Requests : request'[q].pod = request[q].pod /\ request'[q].verdict = request[q].verdict
      /\ \A q \in Requests : request[q].pod = 0 => request'[q].sent = request[q].sent
  <2>1. request \in [Requests -> [pod : 0 .. MaxPods, sent : BOOLEAN, verdict : {"none", "pass", "fail", "error"}]]
    BY DEF IInv, RequestsSound
  <2>2. CASE request' = request
    BY <2>1, <2>2
  <2>3. CASE request' = [request EXCEPT ![row.req].sent = TRUE] /\ row.req \in Requests
    BY <1>0, <2>1, <2>3
  <2>4. CASE request' = [request EXCEPT ![row.req].sent = TRUE] /\ row.req \notin Requests
    BY <2>1, <2>4
  <2> QED
    BY <2>2, <2>3, <2>4 DEF Dispatch
<1>2. {q \in Requests : request'[q].pod # 0} = {q \in Requests : request[q].pod # 0}
  BY <1>1
<1> QED
  BY <1>1, <1>2 DEF IInv, RequestsSound, Passed, Progress

\* Start, and the pod it makes.
LEMMA StartKept ==
  ASSUME IInv, NEW p \in Procs, Start(p) \/ CreatePod(p) \/ PersistKey(p) \/ FailStart(p)
  PROVE  Kept
<1>0. row \in Rows /\ proc[p] \in Frames /\ FrameHolds(p)
  BY DEF IInv, RowSound
<1>1. CASE Start(p)
  <2>1. [Idle EXCEPT !.pc = "create"] \in Frames
    BY FramesAreTyped DEF Places
  <2>2. row' \in Rows
    <3>1. /\ "active" \in Open \cup Terminal /\ 0 \in 0 .. MaxPods /\ 0 \in 0 .. MaxIterations
          /\ 0 \in {0} \cup Prompts /\ 0 \in 0 .. MaxRequests
      BY GoalAssumption DEF Open
    <3> QED
      BY <1>0, <1>1, <3>1 DEF Start, Started, Rows
  <2>3. row.status \notin Terminal /\ row'.status = "active" /\ row'.iter = 0 /\ row'.retry = 0 /\ row'.req = 0 /\ row'.err = "none"
    BY <1>0, <1>1 DEF Start, Started, Rows, Terminal
  <2>4. RowSound' /\ Final
    BY <2>2, <2>3, GoalAssumption DEF RowSound, Final, VerifyingIsRecoverable, IterationsLeft, RowIsTrue
  <2>5. proc'[p] = [Idle EXCEPT !.pc = "create"] => FrameHolds(p)'
    BY DEF FrameHolds, Idle
  <2> QED
    BY <1>1, <2>1, <2>4, <2>5, Untouched, OneMoves DEF Start, Kept
<1>2. CASE CreatePod(p)
  <2>1. PICK f \in Frames : /\ Goto(p, f) /\ UNCHANGED <<row, agent, ran, prompts, request, faults>>
                            /\ f.pc \in {"persist", "failed"} /\ f.goal = "none" /\ f.target = "none"
    <3>1. CASE Goto(p, [Idle EXCEPT !.pc = "failed"])
      <4>1. [Idle EXCEPT !.pc = "failed"] \in Frames
        BY FramesAreTyped DEF Places
      <4> QED
        BY <1>2, <3>1, <4>1 DEF CreatePod, Idle
    <3>2. ASSUME NEW n \in Pods, Goto(p, [Idle EXCEPT !.pc = "persist", !.pod = n])
          PROVE  \E f \in Frames : /\ Goto(p, f) /\ UNCHANGED <<row, agent, ran, prompts, request, faults>>
                                   /\ f.pc \in {"persist", "failed"} /\ f.goal = "none" /\ f.target = "none"
      <4>1. n \in 0 .. MaxPods
        BY GoalAssumption DEF Pods
      <4>2. [Idle EXCEPT !.pc = "persist", !.pod = n] \in Frames
        BY <4>1, FramesAreTyped DEF Places
      <4> QED
        BY <1>2, <3>2, <4>2 DEF CreatePod, Idle
    <3> QED
      BY <1>2, <3>1, <3>2 DEF CreatePod
  <2>2. PodsTyped'
    BY <1>2 DEF CreatePod, IInv, PodsTyped
  <2>3. proc'[p] = f => FrameHolds(p)'
    BY <2>1 DEF FrameHolds
  <2> QED
    BY <2>1, <2>2, <2>3, Untouched, OneMoves DEF Kept
<1>3. CASE PersistKey(p)
  <2>1. UNCHANGED <<podVars, request>> /\ (UNCHANGED faults \/ Fault)
    BY <1>3 DEF PersistKey
  <2>2. RowSound' /\ Final
    <3>1. CASE row' = row
      BY <2>1, <3>1, Untouched
    <3>2. CASE row.status = "active" /\ row' = [row EXCEPT !.pod = proc[p].pod]
      BY <1>0, <2>1, <3>2 DEF IInv, Rows, Frames, RowSound, Final, Terminal,
         VerifyingIsRecoverable, IterationsLeft, RowIsTrue, Passed
    <3> QED
      BY <1>3, <3>1, <3>2 DEF PersistKey, Transition
  <2>3. PICK f \in Frames : /\ Goto(p, f) /\ f.pc \in {"idle", "stop"}
                            /\ f.goal \in {"none", "abort", "fail"} /\ f.target \in {"none", "cancelled", "failed"}
                            /\ f.goal # "none" => f.target # "none"
                            /\ f.pc = "stop" => f.goal # "none"
    <3>1. Stop(proc[p].pod, "abort", "cancelled", "open") \in Frames /\ Stop(proc[p].pod, "fail", "failed", "open") \in Frames
      BY <1>0, StopIsTyped DEF Frames, Goals, Targets
    <3>2. Idle \in Frames /\ Idle.pc = "idle" /\ Idle.goal = "none" /\ Idle.target = "none"
      BY FramesAreTyped DEF Idle
    <3>3. CASE Goto(p, Idle)
      BY <3>2, <3>3
    <3>4. CASE Goto(p, Stop(proc[p].pod, "abort", "cancelled", "open"))
      BY <3>1, <3>4, StopIsTyped
    <3>5. CASE Goto(p, Stop(proc[p].pod, "fail", "failed", "open"))
      BY <3>1, <3>5, StopIsTyped
    <3> QED
      BY <1>3, <3>3, <3>4, <3>5 DEF PersistKey, Done
  <2>4. proc'[p] = f => FrameHolds(p)'
    BY <2>3 DEF FrameHolds, Targets
  <2> QED
    BY <2>1, <2>2, <2>3, <2>4, Untouched, OneMoves DEF Kept
<1>4. CASE FailStart(p)
  <2>1. UNCHANGED <<podVars, request, faults>> /\ Done(p)
    BY <1>4 DEF FailStart
  <2>2. RowSound' /\ Final
    <3>1. CASE row' = row
      BY <2>1, <3>1, Untouched
    <3>2. CASE row.status = "active" /\ row' = [row EXCEPT !.status = "failed", !.err = "text"]
      BY <1>0, <2>1, <3>2 DEF IInv, Rows, RowSound, Final, Terminal, VerifyingIsRecoverable, IterationsLeft, RowIsTrue
    <3> QED
      BY <1>4, <3>1, <3>2 DEF FailStart, Transition
  <2> QED
    BY <2>1, <2>2, Untouched, EndsKept DEF Kept
<1> QED
  BY <1>1, <1>2, <1>3, <1>4

\* Stopping the pod, with what is written after.
LEMMA StopKept ==
  ASSUME IInv, NEW p \in Procs, StopPod(p)
  PROVE  Kept
<1>0. proc[p] \in Frames /\ FrameHolds(p) /\ proc[p].pc = "stop"
  BY DEF IInv, StopPod, At
<1>1. PodsTyped'
  BY DEF StopPod, IInv, PodsTyped
<1>2. PICK c \in {"stopped", "unstopped"} : Goto(p, [proc[p] EXCEPT !.pc = c])
  BY DEF StopPod
<1>3. [proc[p] EXCEPT !.pc = c] \in Frames
  BY <1>0 DEF Frames, Places
<1>4. UNCHANGED <<row, request>> /\ (UNCHANGED faults \/ Fault)
  BY DEF StopPod
<1>5. Passed' <=> Passed
  BY <1>4 DEF Passed
<1>6. proc'[p] = [proc[p] EXCEPT !.pc = c] => FrameHolds(p)'
  BY <1>0, <1>2, <1>4, <1>5 DEF FrameHolds, Frames
<1> QED
  BY <1>1, <1>2, <1>3, <1>4, <1>6, Untouched, OneMoves DEF Kept

\* A row that ends, or that remembers a pod which still runs.
LEMMA RowsThatEnd ==
  ASSUME IInv, UNCHANGED request, NEW s \in Targets, NEW e \in {"none", "text"} \cup Targets,
         s = "completed" \/ e = "completed" => Passed, row.status \in Open
  PROVE  /\ row' = [row EXCEPT !.status = s, !.err = e] => RowSound' /\ Final
         /\ row' = [row EXCEPT !.status = s, !.req = 0, !.retry = 0] => RowSound' /\ Final
<1>0. row \in Rows /\ row.status \notin Terminal
  BY DEF IInv, RowSound, Open, Terminal
<1>1. s \in Open \cup Terminal /\ s \notin {"active", "verifying"}
  BY DEF Targets, Open, Terminal
<1>2. Passed' <=> Passed
  BY DEF Passed
<1>3. row.err = "completed" => Passed
  BY DEF IInv, RowSound, RowIsTrue
<1>4. IterationsLeft /\ RowIsTrue
  BY DEF IInv, RowSound
<1>5. ASSUME row' = [row EXCEPT !.status = s, !.err = e] PROVE RowSound' /\ Final
  <2>1. row' \in Rows
    BY <1>0, <1>1, <1>5 DEF Rows
  <2>2. row'.status = s /\ row'.err = e /\ row'.req = row.req /\ row'.retry = row.retry /\ row'.iter = row.iter
    BY <1>0, <1>5 DEF Rows
  <2> QED
    BY <1>0, <1>1, <1>2, <1>4, <2>1, <2>2 DEF RowSound, Final, VerifyingIsRecoverable, IterationsLeft, RowIsTrue
<1>6. ASSUME row' = [row EXCEPT !.status = s, !.req = 0, !.retry = 0] PROVE RowSound' /\ Final
  <2>1. row' \in Rows
    <3>1. 0 \in {0} \cup Prompts /\ 0 \in 0 .. MaxRequests
      BY GoalAssumption
    <3> QED
      BY <1>0, <1>1, <1>6, <3>1 DEF Rows
  <2>2. row'.status = s /\ row'.err = row.err /\ row'.req = 0 /\ row'.retry = 0
    BY <1>0, <1>6 DEF Rows
  <2> QED
    BY <1>0, <1>1, <1>2, <1>3, <2>1, <2>2 DEF RowSound, Final, VerifyingIsRecoverable, IterationsLeft, RowIsTrue
<1> QED
  BY <1>5, <1>6

\* An error noted on a loop that ended changes nothing else (persistCleanupFailure).
LEMMA RowsThatRemember ==
  ASSUME IInv, UNCHANGED request, NEW n \in 0 .. MaxPods, NEW e \in Targets, e = "completed" => Passed
  PROVE  /\ row' = [row EXCEPT !.err = e] => RowSound' /\ Final
         /\ row' = [row EXCEPT !.err = e, !.pod = n] => RowSound' /\ Final
<1>0. row \in Rows /\ VerifyingIsRecoverable /\ IterationsLeft /\ RowIsTrue
  BY DEF IInv, RowSound
<1>1. Passed' <=> Passed
  BY DEF Passed
<1>2. e # "none"
  BY DEF Targets
<1>3. ASSUME row' = [row EXCEPT !.err = e] \/ row' = [row EXCEPT !.err = e, !.pod = n]
      PROVE  RowSound' /\ Final
  <2>1. row' \in Rows
    BY <1>0, <1>3 DEF Rows
  <2>2. /\ row'.status = row.status /\ row'.err = e /\ row'.req = row.req /\ row'.retry = row.retry
        /\ row'.iter = row.iter /\ row'.exit = row.exit
    BY <1>0, <1>3 DEF Rows
  <2> QED
    BY <1>0, <1>1, <1>2, <2>1, <2>2 DEF RowSound, Final, VerifyingIsRecoverable, VerificationPending, RetryPending,
       IterationsLeft, RowIsTrue, Succeeded
<1> QED
  BY <1>3

\* What the callers of TerminatePod write once the pod is stopped.
LEMMA StoppedKept ==
  ASSUME IInv, NEW p \in Procs, Stopped(p)
  PROVE  Kept
<1>0. /\ FrameHolds(p) /\ UNCHANGED <<podVars, request, faults>> /\ proc[p].pc = "stopped"
      /\ proc[p].goal \in Goals /\ row \in Rows
  BY DEF Stopped, At, IInv, Frames, RowSound
<1>1. RowSound' /\ Final
  <2>1. CASE row' = row
    BY <1>0, <2>1, Untouched
  <2>2. CASE proc[p].goal = "complete" /\ row.status = "verifying" /\ row' = [row EXCEPT !.status = "completed", !.err = "none"]
    <3>1. Passed /\ row.status \in Open /\ "completed" \in Targets
      BY <1>0, <2>2 DEF FrameHolds, Open, Targets
    <3> QED
      BY <1>0, <2>2, <3>1, RowsThatEnd
  <2>3. CASE \E policy \in Policies : row.status \in Open /\ row' = [row EXCEPT !.status = policy, !.err = "text"]
    <3>1. \A policy \in Policies : policy \in Targets /\ policy # "completed"
      BY DEF Policies, Targets
    <3> QED
      BY <1>0, <2>3, <3>1, RowsThatEnd
  <2>4. CASE row.status \in Open /\ row' = [row EXCEPT !.status = "cancelled", !.req = 0, !.retry = 0]
    <3>1. "cancelled" \in Targets /\ "cancelled" # "completed" /\ "none" # "completed"
      BY DEF Targets
    <3> QED
      BY <1>0, <2>4, <3>1, RowsThatEnd
  <2>5. CASE /\ proc[p].goal = "clean" /\ row.status \in Open
             /\ row' = [row EXCEPT !.status = proc[p].target, !.err = Reason(proc[p].target)]
    <3>1. proc[p].target \in Targets /\ (proc[p].target = "completed" => Passed)
      BY <1>0, <2>5 DEF FrameHolds
    <3>2. Reason(proc[p].target) \in {"none", "text"}
      BY DEF Reason
    <3> QED
      BY <1>0, <2>5, <3>1, <3>2, RowsThatEnd
  <2>6. CASE /\ proc[p].goal = "clean" /\ proc[p].was # "open"
             /\ \E e \in {"none", "text"} : row' = [row EXCEPT !.err = e]
    <3>1. row.status \in Terminal
      BY <1>0, <2>6 DEF FrameHolds
    <3>2. row' \in Rows
      BY <1>0, <2>6 DEF Rows
    <3>3. row'.status = row.status /\ row'.err # "completed" /\ row'.req = row.req /\ row'.retry = row.retry /\ row'.iter = row.iter
      BY <1>0, <2>6 DEF Rows
    <3> QED
      BY <1>0, <3>1, <3>2, <3>3 DEF IInv, RowSound, Final, Terminal, VerifyingIsRecoverable, IterationsLeft, RowIsTrue, Passed
  <2>7. {"verifying"} \subseteq Open /\ {"active", "verifying"} \subseteq Open
    BY DEF Open
  <2>8. CASE proc[p].goal = "complete"
    BY <2>1, <2>2, <2>8 DEF Stopped, Transition
  <2>9. CASE proc[p].goal = "escalate"
    BY <2>1, <2>3, <2>7, <2>9 DEF Stopped, Transition
  <2>10. CASE proc[p].goal = "cancel"
    BY <2>1, <2>4, <2>10 DEF Stopped, Transition
  <2>11. CASE proc[p].goal = "clean" /\ proc[p].was = "open"
    BY <2>1, <2>5, <2>11 DEF Stopped, Transition
  <2>12. CASE proc[p].goal = "clean" /\ proc[p].was # "open"
    BY <2>6, <2>12 DEF Stopped
  <2>13. CASE proc[p].goal \in {"none", "abort", "fail"}
    BY <2>1, <2>13 DEF Stopped
  <2> QED
    BY <1>0, <2>8, <2>9, <2>10, <2>11, <2>12, <2>13 DEF Goals
<1>2. proc' \in [Procs -> Frames] /\ \A q \in Procs : proc'[q] = proc[q] \/ FrameHolds(q)'
  <2>1. CASE Done(p)
    BY <2>1, EndsKept
  <2>2. CASE Goto(p, [Idle EXCEPT !.pc = "failed"])
    <3>1. [Idle EXCEPT !.pc = "failed"] \in Frames
      BY FramesAreTyped DEF Places
    <3>2. proc'[p] = [Idle EXCEPT !.pc = "failed"] => FrameHolds(p)'
      BY DEF FrameHolds, Idle
    <3> QED
      BY <2>2, <3>1, <3>2, OneMoves
  <2> QED
    BY <2>1, <2>2 DEF Stopped
<1> QED
  BY <1>0, <1>1, <1>2, Untouched DEF Kept

\* The mark of a pod that could not be stopped.
LEMMA MarkKept ==
  ASSUME IInv, NEW p \in Procs, Unstopped(p) \/ Mark(p)
  PROVE  Kept
<1>0. /\ FrameHolds(p) /\ proc[p] \in Frames /\ proc[p].pod \in 0 .. MaxPods /\ row \in Rows
      /\ UNCHANGED <<podVars, request, faults>>
  BY DEF Unstopped, Mark, IInv, Frames, RowSound
<1>1. Passed' <=> Passed
  BY <1>0 DEF Passed
<1>2. CASE Mark(p)
  <2>1. proc[p].target \in Targets /\ (proc[p].target = "completed" => Passed)
    BY <1>0, <1>2 DEF Mark, At, FrameHolds
  <2>2. row' = [row EXCEPT !.err = proc[p].target, !.pod = proc[p].pod] /\ Done(p)
    BY <1>2 DEF Mark
  <2>3. RowSound' /\ Final
    BY <1>0, <2>1, <2>2, RowsThatRemember
  <2> QED
    BY <1>0, <2>2, <2>3, EndsKept, Untouched DEF Kept
<1>3. CASE Unstopped(p)
  <2>1. CASE proc[p].goal \in {"complete", "escalate"}
    <3>1. PICK e \in {"none"} \cup Targets : row' = [row EXCEPT !.err = e] /\ Done(p) /\ (e = "completed" => Passed)
                                          /\ (proc[p].goal = "complete" => Passed) /\ (proc[p].goal = "escalate" => e # "none")
      BY <1>0, <1>3, <2>1 DEF Unstopped, Policies, Targets, FrameHolds, Frames
    <3>2. RowSound' /\ Final
      <4>1. CASE e \in Targets
        BY <1>0, <3>1, <4>1, RowsThatRemember
      <4>2. CASE e = "none"
        <5>1. Passed /\ row' \in Rows
          BY <1>0, <2>1, <3>1, <4>2 DEF Rows
        <5>2. /\ row'.status = row.status /\ row'.req = row.req /\ row'.retry = row.retry
              /\ row'.iter = row.iter /\ row'.exit = row.exit
          BY <1>0, <3>1 DEF Rows
        <5> QED
          BY <1>0, <1>1, <5>1, <5>2 DEF IInv, RowSound, Final, VerifyingIsRecoverable, VerificationPending, RetryPending,
             IterationsLeft, RowIsTrue
      <4> QED
        BY <4>1, <4>2
    <3> QED
      BY <1>0, <3>1, <3>2, EndsKept, Untouched DEF Kept
  <2>2. CASE proc[p].goal \in {"cancel", "clean", "abort"}
    <3>1. row' = [row EXCEPT !.err = proc[p].target, !.pod = proc[p].pod] /\ Done(p)
      BY <1>3, <2>2 DEF Unstopped
    <3>2. proc[p].target \in Targets /\ (proc[p].target = "completed" => Passed)
      BY <1>0, <2>2 DEF FrameHolds
    <3>3. RowSound' /\ Final
      BY <1>0, <3>1, <3>2, RowsThatRemember
    <3> QED
      BY <1>0, <3>1, <3>3, EndsKept, Untouched DEF Kept
  <2>3. CASE proc[p].goal = "fail"
    <3>1. proc[p].target \in Targets /\ (proc[p].target = "completed" => Passed)
      BY <1>0, <2>3 DEF FrameHolds
    <3>2. CASE row.status = "active"
      <4>1. row' = [row EXCEPT !.err = proc[p].target, !.pod = proc[p].pod, !.status = "failed"] /\ Done(p)
        BY <1>3, <2>3, <3>2 DEF Unstopped, Transition
      <4>2. row' \in Rows
        <5>1. "failed" \in Open \cup Terminal
          BY DEF Terminal
        <5> QED
          BY <1>0, <3>1, <4>1, <5>1 DEF Rows
      <4>3. /\ row'.status = "failed" /\ row'.err = proc[p].target /\ row'.req = row.req /\ row'.retry = row.retry
            /\ row'.iter = row.iter
        BY <1>0, <4>1 DEF Rows
      <4>4. RowSound' /\ Final
        BY <1>0, <1>1, <3>1, <3>2, <4>2, <4>3 DEF IInv, RowSound, Final, Terminal, VerifyingIsRecoverable, IterationsLeft, RowIsTrue
      <4> QED
        BY <1>0, <4>1, <4>4, EndsKept, Untouched DEF Kept
    <3>3. CASE row.status # "active"
      <4>1. row' = row /\ Goto(p, [proc[p] EXCEPT !.pc = "mark"])
        BY <1>3, <2>3, <3>3 DEF Unstopped, Transition
      <4>2. [proc[p] EXCEPT !.pc = "mark"] \in Frames
        BY <1>0 DEF Frames, Places
      <4>3. proc'[p] = [proc[p] EXCEPT !.pc = "mark"] => FrameHolds(p)'
        BY <1>0, <1>1, <2>3, <4>1 DEF FrameHolds, Frames
      <4> QED
        BY <1>0, <4>1, <4>2, <4>3, Untouched, OneMoves DEF Kept
    <3> QED
      BY <3>2, <3>3
  <2>4. proc[p].goal # "none"
    BY <1>0, <1>3 DEF Unstopped, At, FrameHolds
  <2> QED
    BY <1>0, <2>1, <2>2, <2>3, <2>4 DEF Frames, Goals
<1> QED
  BY <1>2, <1>3

\* The user's calls and the pod's events.
LEMMA EventsKept ==
  ASSUME IInv, NEW p \in Procs,
         Cancel(p) \/ Verify(p) \/ (\E n \in Pods : HandlePodStatus(p, n) \/ HandlePodAgentStatus(p, n))
  PROVE  Kept
<1>0. row \in Rows /\ row.pod \in 0 .. MaxPods /\ row.retry \in Nat /\ row.retry \in {0} \cup Prompts
  BY DEF IInv, RowSound, Rows, Prompts
<1>1. ASSUME NEW f, Receives(p, f), UNCHANGED <<row, request>> => f \in Frames /\ (proc'[p] = f => FrameHolds(p)')
      PROVE  Kept
  BY <1>1, ReadsKept DEF Receives
<1>2. CASE Cancel(p)
  <2>1. Stop(row.pod, "cancel", "cancelled", "open") \in Frames
    BY <1>0, StopIsTyped DEF Goals, Targets
  <2>2. proc'[p] = Stop(row.pod, "cancel", "cancelled", "open") => FrameHolds(p)'
    BY StopIsTyped DEF FrameHolds, Targets
  <2> QED
    BY <1>1, <1>2, <2>1, <2>2, DecisionsHold DEF Cancel
<1>3. CASE Verify(p)
  <2>1. CASE Dispatch(row.req) /\ UNCHANGED <<row, podVars, proc, faults>>
    <3>1. RequestsSound' /\ Progress
      BY <2>1, DispatchKept
    <3> QED
      BY <2>1, <3>1, Untouched DEF Kept, IInv
  <2>2. CASE Receives(p, Clean(row)) /\ PendingCleanup(row)
    BY <1>1, <2>2, DecisionsHold
  <2>3. CASE Receives(p, Queue(row)) \/ Receives(p, Begin(row)) \/ Receives(p, Escalate(row))
    BY <1>1, <2>3, DecisionsHold
  <2>4. CASE Receives(p, Complete(row)) /\ row.status = "verifying" /\ Succeeded(row)
    BY <1>1, <2>4, DecisionsHold
  <2> QED
    BY <1>3, <2>1, <2>2, <2>3, <2>4 DEF Verify
<1>4. ASSUME NEW n \in Pods, HandlePodStatus(p, n) PROVE Kept
  BY <1>1, <1>4, DecisionsHold DEF HandlePodStatus
<1>5. ASSUME NEW n \in Pods, HandlePodAgentStatus(p, n) PROVE Kept
  <2>1. [Idle EXCEPT !.pc = "activate", !.arg = row.retry] \in Frames
    <3>1. 0 \in 0 .. MaxPods /\ "activate" \in Places
      BY GoalAssumption DEF Places
    <3> QED
      BY <1>0, <3>1, FramesAreTyped
  <2>2. row.retry # 0 /\ proc'[p] = [Idle EXCEPT !.pc = "activate", !.arg = row.retry] => FrameHolds(p)'
    BY DEF FrameHolds, Idle
  <2> QED
    BY <1>1, <1>5, <2>1, <2>2, DecisionsHold DEF HandlePodAgentStatus
<1> QED
  BY <1>2, <1>3, <1>4, <1>5

\* The worker takes its prompt up.
LEMMA ActivateKept ==
  ASSUME IInv, NEW p \in Procs, Activate(p)
  PROVE  Kept
<1>0. row \in Rows /\ UNCHANGED <<podVars, request, faults>> /\ Done(p)
  BY DEF Activate, IInv, RowSound
<1>1. RowSound' /\ Final
  <2>1. CASE row' = row
    BY <1>0, <2>1, Untouched
  <2>0. proc[p].arg # 0
    BY DEF Activate, At, IInv, FrameHolds
  <2>2. CASE row.status = "verifying" /\ row.retry = proc[p].arg /\ row' = [row EXCEPT !.status = "active", !.retry = 0]
    <3>1. "active" \in Open \cup Terminal /\ 0 \in {0} \cup Prompts
      BY DEF Open
    <3>2. row' \in Rows
      BY <1>0, <2>2, <3>1 DEF Rows
    <3>3. row'.status = "active" /\ row'.retry = 0 /\ row'.iter = row.iter /\ row'.err = row.err /\ row'.req = row.req
      BY <1>0, <2>2 DEF Rows
    <3> QED
      BY <1>0, <2>0, <2>2, <3>2, <3>3 DEF IInv, RowSound, Final, Terminal, VerifyingIsRecoverable, IterationsLeft, RowIsTrue, Passed
  <2> QED
    BY <2>1, <2>2 DEF Activate
<1> QED
  BY <1>0, <1>1, EndsKept, Untouched DEF Kept

\* Ids are given in turn: the next one was never used.
LEMMA FreshRequest ==
  ASSUME IInv, Cardinality({r \in Requests : request[r].pod # 0}) + 1 \in Requests
  PROVE  \E k \in 0 .. MaxRequests :
           /\ {r \in Requests : request[r].pod # 0} = 1 .. k
           /\ Cardinality({r \in Requests : request[r].pod # 0}) = k
           /\ k + 1 \in Requests /\ request[k + 1].pod = 0 /\ request[k + 1].verdict = "none"
<1> DEFINE used == {r \in Requests : request[r].pod # 0}
<1>1. PICK k \in 0 .. MaxRequests : used = 1 .. k
  BY DEF IInv, RequestsSound
<1>2. Cardinality(used) = k
  <2>1. k \in Int /\ 0 <= k
    BY GoalAssumption
  <2>2. Cardinality(1 .. k) = IF 1 > k THEN 0 ELSE k - 1 + 1
    BY <2>1, FS_Interval
  <2>3. Cardinality(1 .. k) = k
    BY <2>1, <2>2
  <2> QED
    BY <1>1, <2>3
<1>3. k + 1 \in Requests /\ request[k + 1].pod = 0 /\ request[k + 1].verdict = "none"
  <2>1. k + 1 \notin used
    BY <1>1
  <2> QED
    BY <1>2, <2>1 DEF IInv, RequestsSound
<1> QED
  BY <1>1, <1>2, <1>3

\* A verification is claimed under a fresh id.
LEMMA BeginKept ==
  ASSUME IInv, NEW p \in Procs, BeginVerification(p)
  PROVE  Kept
<1>0. row \in Rows /\ UNCHANGED <<podVars, faults>> /\ Done(p) /\ proc[p].pod \in 0 .. MaxPods
  BY DEF BeginVerification, IInv, RowSound, Frames
<1>1. CASE UNCHANGED <<row, request>>
  BY <1>0, <1>1, EndsKept, Untouched DEF Kept
<1>2. CASE ~UNCHANGED <<row, request>>
  <2> DEFINE used == {r \in Requests : request[r].pod # 0}
             new == Cardinality(used) + 1
  <2>1. /\ proc[p].pod # 0 /\ row.status = "active" /\ new \in Requests /\ row' = Claimed(row, new)
        /\ \E sent \in BOOLEAN : request' = [request EXCEPT ![new] = [pod |-> proc[p].pod, sent |-> sent, verdict |-> "none"]]
    BY <1>2 DEF BeginVerification
  <2>2. PICK k \in 0 .. MaxRequests : /\ used = 1 .. k /\ Cardinality(used) = k
                                      /\ k + 1 \in Requests /\ request[k + 1].pod = 0 /\ request[k + 1].verdict = "none"
    BY <2>1, FreshRequest
  <2>3. new = k + 1
    BY <2>2
  <2> HIDE DEF new
  <2>4. k + 1 \in Requests /\ request[k + 1].pod = 0 /\ request[k + 1].verdict = "none"
    BY <2>2
  <2>5. PICK sent \in BOOLEAN : request' = [request EXCEPT ![k + 1] = [pod |-> proc[p].pod, sent |-> sent, verdict |-> "none"]]
    BY <2>1, <2>3
  <2>6. /\ request' \in [Requests -> [pod : 0 .. MaxPods, sent : BOOLEAN, verdict : {"none", "pass", "fail", "error"}]]
        /\ request'[k + 1].pod # 0 /\ request'[k + 1].verdict = "none"
        /\ \A r \in Requests : r # k + 1 => request'[r] = request[r]
    BY <1>0, <2>1, <2>4, <2>5 DEF IInv, RequestsSound
  <2>7. {r \in Requests : request'[r].pod # 0} = 1 .. (k + 1)
    <3>1. {r \in Requests : request'[r].pod # 0} = used \cup {k + 1}
      BY <2>4, <2>6
    <3> QED
      BY <2>2, <3>1
  <2>8. RequestsSound'
    <3>1. k + 1 \in 0 .. MaxRequests
      BY <2>4 DEF Requests
    <3>2. \A r \in Requests : request'[r].pod = 0 => request'[r].verdict = "none" /\ ~request'[r].sent
      BY <2>6 DEF IInv, RequestsSound
    <3> QED
      BY <2>6, <2>7, <3>1, <3>2 DEF RequestsSound
  <2>9. Progress
    BY <2>4, <2>6 DEF Passed, Progress
  <2>10. RowSound' /\ Final
    <3>1. "verifying" \in Open \cup Terminal /\ new \in 0 .. MaxRequests /\ new # 0
      BY <2>1, GoalAssumption DEF Open, Requests
    <3>2. row' \in Rows
      BY <1>0, <2>1, <3>1 DEF Claimed, Rows
    <3>3. /\ row'.status = "verifying" /\ row'.retry = row.retry /\ row'.iter = row.iter /\ row'.err = "none"
          /\ row'.req = new /\ row'.exit = "none"
      BY <1>0, <2>1 DEF Claimed, Rows
    <3> QED
      BY <2>1, <2>3, <2>6, <3>1, <3>2, <3>3 DEF IInv, RowSound, Final, Terminal, VerifyingIsRecoverable, VerificationPending,
         IterationsLeft, RowIsTrue, Succeeded
  <2> QED
    BY <1>0, <2>8, <2>9, <2>10, EndsKept, Untouched DEF Kept
<1> QED
  BY <1>1, <1>2

\* A verdict is weighed, and counts if the loop still waits for it.
LEMMA VerdictKept ==
  ASSUME IInv, NEW p \in Procs, NEW r \in Requests, HandleVerificationResult(p, r)
  PROVE  Kept
<1>0. row \in Rows /\ row.pod \in 0 .. MaxPods /\ row.iter \in 0 .. MaxIterations /\ request[r].verdict \in {"pass", "fail", "error"}
  BY DEF HandleVerificationResult, IInv, RowSound, RequestsSound, Rows
<1>1. row.req # 0 /\ row.iter < MaxIterations
  BY DEF HandleVerificationResult, Requests, IInv, RowSound, IterationsLeft
<1>2. row.iter + 1 \in 1 .. MaxIterations /\ row.iter + 1 \in Nat /\ r \in Nat
  BY <1>0, <1>1, GoalAssumption DEF Requests
<1>3. PICK o \in Outcomes(request[r].verdict, row.iter + 1) :
        Receives(p, [Idle EXCEPT !.pc = "consume", !.pod = row.pod, !.arg = r, !.iter = row.iter + 1,
                                 !.goal = IF o = "queue" THEN "none" ELSE o])
  BY DEF HandleVerificationResult
<1>4. /\ o \in {"complete", "escalate", "queue"}
      /\ o = "complete" => request[r].verdict = "pass"
      /\ o = "queue" => row.iter + 1 < MaxIterations /\ request[r].verdict = "fail"
  BY <1>0, <1>2, <1>3, GoalAssumption DEF Outcomes, Exhausted
<1>5. PICK goal \in {"none", "complete", "escalate"} :
        /\ goal = IF o = "queue" THEN "none" ELSE o
        /\ goal = "complete" => Passed
        /\ goal = "none" => row.iter + 1 < MaxIterations /\ request[r].verdict = "fail"
  BY <1>4 DEF Passed
<1>6. PICK f : f = [Idle EXCEPT !.pc = "consume", !.pod = row.pod, !.arg = r, !.iter = row.iter + 1, !.goal = goal]
  OBVIOUS
<1>7. f.pc = "consume" /\ f.arg = r /\ f.iter = row.iter + 1 /\ f.goal = goal /\ f.target = "none"
  BY <1>6 DEF Idle
<1>8. f \in Frames
  <2>1. "consume" \in Places /\ goal \in Goals /\ Idle \in Frames
    BY FramesAreTyped DEF Places, Goals
  <2> QED
    BY <1>0, <1>2, <1>6, <2>1 DEF Frames
<1>9. proc'[p] = f /\ UNCHANGED <<row, request>> => FrameHolds(p)'
  BY <1>0, <1>2, <1>5, <1>7 DEF FrameHolds, Passed
<1>10. Goto(p, f) /\ UNCHANGED <<row, podVars, request, faults>>
  BY <1>3, <1>5, <1>6 DEF Receives
<1> QED
  BY <1>8, <1>9, <1>10, ReadsKept

\* A verdict is consumed: the evidence is stored, and the loop ends or goes on.
LEMMA ConsumeKept ==
  ASSUME IInv, NEW p \in Procs, Consume(p)
  PROVE  Kept
<1> DEFINE f == proc[p]
           evidence == [row EXCEPT !.iter = f.iter, !.req = 0, !.retry = 0]
           error == [evidence EXCEPT !.exit = "nonzero", !.err = "text"]
<1>0. /\ row \in Rows /\ f \in Frames /\ UNCHANGED <<pods, agent, prompts, request, faults>> /\ f.pc = "consume"
      /\ FrameHolds(p) /\ ran' \in {ran, {}}
  BY DEF Consume, At, IInv, RowSound
<1>1. /\ f.iter \in 1 .. MaxIterations /\ f.arg \in Requests /\ f.goal \in {"complete", "escalate", "none"}
      /\ f.goal = "none" => f.iter < MaxIterations
      /\ f.goal = "complete" => Passed
  BY <1>0 DEF FrameHolds
<1>2. PodsTyped'
  BY <1>0 DEF IInv, PodsTyped
<1>3. evidence \in Rows
  <2>1. 0 \in {0} \cup Prompts /\ 0 \in 0 .. MaxRequests /\ f.iter \in 0 .. MaxIterations
    BY <1>1, GoalAssumption
  <2> QED
    BY <1>0, <2>1 DEF Rows
<1>4. error \in Rows /\ [error EXCEPT !.exit = "zero"] \in Rows /\ [evidence EXCEPT !.exit = "zero", !.err = "none"] \in Rows
  BY <1>3 DEF Rows
<1>5. Passed' <=> Passed
  BY <1>0 DEF Passed
<1>6. CASE ~Waits(row, f.arg)
  <2>1. Done(p) /\ UNCHANGED <<row, ran>>
    BY <1>6 DEF Consume
  <2> QED
    BY <1>0, <1>2, <2>1, EndsKept, Untouched DEF Kept
<1>7. CASE Waits(row, f.arg)
  <2>0. row.status = "verifying"
    BY <1>7 DEF Waits
  <2>1. CASE f.goal = "complete"
    <3>1. row' = [evidence EXCEPT !.exit = "zero", !.err = "none"] /\ Goto(p, Stop(f.pod, "complete", "completed", "open"))
      BY <1>7, <2>1 DEF Consume
    <3>2. row'.status = "verifying" /\ row'.req = 0 /\ row'.retry = 0 /\ row'.exit = "zero"
      BY <1>0, <2>0, <3>1 DEF Rows
    <3>3. RowSound' /\ Final
      BY <1>1, <1>4, <1>5, <2>0, <2>1, <3>1, <3>2 DEF RowSound, Final, Terminal, VerifyingIsRecoverable, IterationsLeft, RowIsTrue
    <3>4. f.pod \in 0 .. MaxPods /\ "complete" \in Goals /\ "completed" \in Targets
      BY <1>0 DEF Frames, Goals, Targets
    <3>5. Stop(f.pod, "complete", "completed", "open") \in Frames
      BY <3>4, StopIsTyped
    <3>6. proc'[p] = Stop(f.pod, "complete", "completed", "open") => FrameHolds(p)'
      BY <1>1, <1>5, <2>1, StopIsTyped DEF FrameHolds
    <3> QED
      BY <1>0, <1>2, <3>1, <3>3, <3>5, <3>6, Untouched, OneMoves DEF Kept
  <2>2. CASE f.goal = "escalate"
    <3>1. row' \in {error, [error EXCEPT !.exit = "zero"]} /\ Goto(p, Stop(f.pod, "escalate", "none", "open"))
      BY <1>7, <2>2 DEF Consume
    <3>2. row'.status = "verifying" /\ row'.req = 0 /\ row'.retry = 0 /\ row'.exit \in {"zero", "nonzero"} /\ row'.err = "text"
      BY <1>0, <2>0, <3>1 DEF Rows
    <3>3. RowSound' /\ Final
      BY <1>4, <1>5, <2>0, <3>1, <3>2 DEF RowSound, Final, Terminal, VerifyingIsRecoverable, IterationsLeft, RowIsTrue, Succeeded
    <3>4. f.pod \in 0 .. MaxPods /\ "escalate" \in Goals
      BY <1>0 DEF Frames, Goals
    <3>5. Stop(f.pod, "escalate", "none", "open") \in Frames
      BY <3>4, StopIsTyped
    <3>6. proc'[p] = Stop(f.pod, "escalate", "none", "open") => FrameHolds(p)'
      BY StopIsTyped DEF FrameHolds
    <3> QED
      BY <1>0, <1>2, <3>1, <3>3, <3>5, <3>6, Untouched, OneMoves DEF Kept
  <2>3. CASE f.goal = "none"
    <3>1. row' = [error EXCEPT !.retry = f.iter + 1] /\ Goto(p, [Idle EXCEPT !.pc = "reread", !.pod = f.pod])
      BY <1>7, <2>3 DEF Consume
    <3>2. f.iter + 1 \in Prompts /\ f.iter + 1 # 0 /\ f.iter < MaxIterations
      BY <1>1, <2>3, GoalAssumption DEF Prompts
    <3>3. row' \in Rows
      BY <1>4, <3>1, <3>2 DEF Rows
    <3>4. /\ row'.status = "verifying" /\ row'.req = 0 /\ row'.retry = f.iter + 1 /\ row'.iter = f.iter
          /\ row'.exit = "nonzero" /\ row'.err = "text"
      BY <1>0, <2>0, <3>1 DEF Rows
    <3>5. RowSound' /\ Final
      BY <1>5, <2>0, <3>2, <3>3, <3>4 DEF RowSound, Final, Terminal, VerifyingIsRecoverable, RetryPending, IterationsLeft, RowIsTrue, Succeeded
    <3>6. f.pod \in 0 .. MaxPods /\ "reread" \in Places
      BY <1>0 DEF Frames, Places
    <3>7. [Idle EXCEPT !.pc = "reread", !.pod = f.pod] \in Frames
      BY <3>6, FramesAreTyped
    <3>8. proc'[p] = [Idle EXCEPT !.pc = "reread", !.pod = f.pod] => FrameHolds(p)'
      BY DEF FrameHolds, Idle
    <3> QED
      BY <1>0, <1>2, <3>1, <3>5, <3>7, <3>8, Untouched, OneMoves DEF Kept
  <2> QED
    BY <1>1, <2>1, <2>2, <2>3
<1> QED
  BY <1>6, <1>7

\* A prompt is queued for the row as it was read.
LEMMA PromptKept ==
  ASSUME IInv, NEW p \in Procs, Reread(p) \/ QueueRetryPrompt(p)
  PROVE  Kept
<1>1. CASE Reread(p)
  <2>1. UNCHANGED <<row, podVars, request, faults>> /\ (Goto(p, Queue(row)) \/ Goto(p, Idle))
    BY <1>1 DEF Reread, Done
  <2>2. Idle \in Frames /\ (proc'[p] = Idle => FrameHolds(p)')
    BY FramesAreTyped, IdleHolds
  <2>3. Queue(row) \in Frames /\ (proc'[p] = Queue(row) => FrameHolds(p)')
    BY <2>1, DecisionsHold
  <2> QED
    BY <2>1, <2>2, <2>3, ReadsKept
<1>2. CASE QueueRetryPrompt(p)
  <2>1. UNCHANGED <<row, pods, agent, ran, request, faults>> /\ Done(p)
    BY <1>2 DEF QueueRetryPrompt
  <2>2. prompts' \subseteq [pod : Pods, id : Prompts]
    <3>1. CASE /\ proc[p].arg # 0 /\ proc[p].pod # 0
               /\ prompts' = prompts \cup {[pod |-> proc[p].pod, id |-> proc[p].arg]}
      <4>1. proc[p].arg \in Prompts
        BY <1>2, <3>1 DEF QueueRetryPrompt, At, IInv, FrameHolds
      <4>2. proc[p].pod \in Pods
        BY <3>1, GoalAssumption DEF IInv, Frames, Pods
      <4> QED
        BY <3>1, <4>1, <4>2 DEF IInv, PodsTyped
    <3>2. CASE prompts' = prompts
      BY <3>2 DEF IInv, PodsTyped
    <3> QED
      BY <1>2, <3>1, <3>2 DEF QueueRetryPrompt
  <2>3. PodsTyped'
    BY <2>1, <2>2 DEF IInv, PodsTyped
  <2> QED
    BY <2>1, <2>3, EndsKept, Untouched DEF Kept
<1> QED
  BY <1>1, <1>2

\* The monitor acts on the row its query selects.
LEMMA MonitorKept == ASSUME IInv, Monitors PROVE Kept
<1>0. PICK m \in TimeoutMonitors :
        ExpireTimedOut(m) \/ RecoverPendingVerifications(m) \/ RecoverPendingRetryPrompts(m)
  BY DEF Monitors
<1> m \in Procs
  BY DEF Procs
<1>1. CASE RecoverPendingVerifications(m)
  <2>1. RequestsSound' /\ Progress
    BY <1>1, DispatchKept DEF RecoverPendingVerifications
  <2> QED
    BY <1>1, <2>1, Untouched DEF RecoverPendingVerifications, Kept, IInv
<1>2. CASE RecoverPendingRetryPrompts(m)
  BY <1>2, DecisionsHold, ReadsKept DEF RecoverPendingRetryPrompts, Ticks
<1>3. CASE ExpireTimedOut(m)
  <2>1. CASE PendingCleanup(row) /\ Ticks(m, Clean(row))
    BY <2>1, DecisionsHold, ReadsKept DEF Ticks
  <2>2. CASE row.status = "verifying" /\ Succeeded(row) /\ Ticks(m, Complete(row))
    BY <2>2, DecisionsHold, ReadsKept DEF Ticks
  <2>3. CASE Ticks(m, Escalate(row))
    BY <2>3, DecisionsHold, ReadsKept DEF Ticks
  <2> QED
    BY <1>3, <2>1, <2>2, <2>3 DEF ExpireTimedOut
<1> QED
  BY <1>0, <1>1, <1>2, <1>3

\* The worker, its runner, time and crashes.
LEMMA OutsideKept ==
  ASSUME IInv, Runner \/ TimePasses \/ (\E p \in Procs : Dies(p)) \/ UNCHANGED vars
  PROVE  Kept
<1>0. UNCHANGED proc => proc' \in [Procs -> Frames] /\ \A q \in Procs : proc'[q] = proc[q] \/ FrameHolds(q)'
  BY DEF IInv
<1>1. ASSUME NEW n \in Pods, NEW s \in {"executing", "waiting"}, AgentReports(n, s) PROVE Kept
  <2>1. PodsTyped'
    BY <1>1 DEF AgentReports, IInv, PodsTyped
  <2> QED
    BY <1>0, <1>1, <2>1, Untouched DEF AgentReports, Kept
<1>2. ASSUME NEW n \in Pods, NEW s \in {"completed", "error"}, PodEnds(n, s) PROVE Kept
  <2>1. PodsTyped'
    BY <1>2 DEF PodEnds, IInv, PodsTyped
  <2> QED
    BY <1>0, <1>2, <2>1, Untouched DEF PodEnds, Kept
<1>3. ASSUME NEW q \in prompts, PromptLeaves(q) PROVE Kept
  <2>1. PodsTyped'
    BY <1>3 DEF PromptLeaves, IInv, PodsTyped
  <2> QED
    BY <1>0, <1>3, <2>1, Untouched DEF PromptLeaves, Kept
<1>4. ASSUME NEW r \in Requests, RunVerification(r) PROVE Kept
  <2>1. PICK v \in {"pass", "fail", "error"} : request' = [request EXCEPT ![r].verdict = v]
    BY <1>4 DEF RunVerification
  <2>2. request[r].sent /\ request[r].verdict = "none"
    BY <1>4 DEF RunVerification
  <2>3. /\ request' \in [Requests -> [pod : 0 .. MaxPods, sent : BOOLEAN, verdict : {"none", "pass", "fail", "error"}]]
        /\ \A q \in Requests : request'[q].pod = request[q].pod /\ (q # r => request'[q] = request[q])
    BY <2>1 DEF IInv, RequestsSound
  <2>4. {q \in Requests : request'[q].pod # 0} = {q \in Requests : request[q].pod # 0}
    BY <2>3
  <2>5. request[r].pod # 0
    BY <2>2 DEF IInv, RequestsSound
  <2>6. RequestsSound' /\ Progress
    BY <2>2, <2>3, <2>4, <2>5 DEF IInv, RequestsSound, Passed, Progress
  <2> QED
    BY <1>0, <1>4, <2>6, Untouched DEF RunVerification, Kept
<1>5. CASE TimePasses
  <2>1. row \in Rows /\ row' = [row EXCEPT !.late = TRUE] /\ UNCHANGED <<podVars, request, proc, faults>>
    BY <1>5 DEF TimePasses, IInv, RowSound
  <2>2. row' \in Rows
    BY <2>1 DEF Rows
  <2>3. /\ row'.status = row.status /\ row'.err = row.err /\ row'.req = row.req /\ row'.retry = row.retry
        /\ row'.iter = row.iter /\ row'.exit = row.exit
    BY <2>1 DEF Rows
  <2>4. RowSound' /\ Final
    BY <2>1, <2>2, <2>3 DEF IInv, RowSound, Final, VerifyingIsRecoverable, VerificationPending, RetryPending,
       IterationsLeft, RowIsTrue, Succeeded, Passed
  <2> QED
    BY <1>0, <2>1, <2>4, Untouched DEF Kept
<1>6. ASSUME NEW p \in Procs, Dies(p) PROVE Kept
  BY <1>6, EndsKept, Untouched DEF Dies, Kept
<1>7. CASE UNCHANGED vars
  BY <1>0, <1>7, Untouched DEF vars, podVars, Kept
<1> QED
  BY <1>1, <1>2, <1>3, <1>4, <1>5, <1>6, <1>7 DEF Runner

\* Every step of the loop keeps what is to be kept: one lemma per action.
LEMMA StepKept == ASSUME IInv, [Next]_vars PROVE Kept
<1>1. ASSUME NEW p \in Procs, Step(p) PROVE Kept
  BY <1>1, StopKept, StoppedKept, MarkKept, PromptKept DEF Step
<1>2. ASSUME NEW p \in Handlers, Handle(p) PROVE Kept
  <2>1. p \in Procs
    BY DEF Procs
  <2> QED
    BY <1>2, <2>1, StartKept, MarkKept, EventsKept, VerdictKept, ActivateKept, BeginKept, ConsumeKept, PromptKept DEF Handle
<1> QED
  BY <1>1, <1>2, MonitorKept, OutsideKept DEF Next

\* A new loop is sound: no pod, no request, nobody at work.
LEMMA InitSound == Init => IInv
<1> SUFFICES ASSUME Init PROVE IInv
  OBVIOUS
<1>1. /\ "draft" \in Open \cup Terminal /\ 0 \in 0 .. MaxPods /\ 0 \in 0 .. MaxIterations
      /\ 0 \in {0} \cup Prompts /\ 0 \in 0 .. MaxRequests /\ 0 \in 0 .. MaxFaults
  BY GoalAssumption DEF Open
<1>2. RowSound
  BY <1>1 DEF Init, RowSound, Rows, VerifyingIsRecoverable, IterationsLeft, RowIsTrue
<1>3. PodsTyped
  BY DEF Init, PodsTyped
<1>4. RequestsSound
  <2>1. {r \in Requests : request[r].pod # 0} = 1 .. 0
    BY DEF Init
  <2> QED
    BY <1>1, <2>1 DEF Init, RequestsSound
<1>5. proc \in [Procs -> Frames] /\ \A p \in Procs : FrameHolds(p)
  BY FramesAreTyped DEF Init, FrameHolds, Idle
<1> QED
  BY <1>1, <1>2, <1>3, <1>4, <1>5 DEF Init, IInv

\* The inductive invariant of the goal loop.
LEMMA Invariance == Spec => []IInv
<1>1. IInv /\ [Next]_vars => IInv'
  BY StepKept, KeptIsInvariant
<1> QED
  BY <1>1, InitSound, PTL DEF Spec

(***************************************************************************)
(* Failed runs are counted: what a step does to the row's counters, to the *)
(* verdicts and prompts that goroutines hold, and to the prompts.          *)
(***************************************************************************)
Failed == {r \in Requests : request[r].verdict = "fail"}

\* The counters stay, or a cancelled row is cleared.
Keeps ==
  /\ row'.iter = row.iter
  /\ \/ row'.req = row.req /\ row'.retry = row.retry /\ (row'.status = "active" => row.status = "active")
     \/ row'.req = 0 /\ row'.retry = 0 /\ row'.status = "cancelled"
Restarts == row'.status = "active" /\ row'.iter = 0 /\ row'.req = 0 /\ row'.retry = 0
Claims ==
  /\ row.status = "active" /\ row'.iter = row.iter /\ row'.retry = row.retry
  /\ row'.req \in Requests /\ request[row'.req].verdict = "none" /\ request'[row'.req].verdict = "none"
Resumes == row.retry # 0 /\ row'.iter = row.iter /\ row'.req = row.req /\ row'.retry = 0
Consumes(p) ==
  /\ proc[p].pc = "consume" /\ row.req = proc[p].arg
  /\ row'.status = "verifying" /\ row'.iter = proc[p].iter /\ row'.req = 0
  /\ row'.retry = IF proc[p].goal = "none" THEN proc[p].iter + 1 ELSE 0

RowSteps == Keeps \/ Restarts \/ Claims \/ Resumes \/ \E p \in Procs : Consumes(p)

\* A goroutine comes to hold what it read in the row.
FrameSteps ==
  \A p \in Procs :
    \/ proc'[p] = proc[p]
    \/ proc'[p].pc \notin {"consume", "queue"}
    \/ proc'[p].pc = "queue" /\ row' = row /\ proc'[p].arg = row.retry
    \/ proc'[p].pc = "consume" /\ row' = row /\ proc'[p].arg = row.req /\ proc'[p].iter = row.iter + 1

PromptSteps ==
  \A q \in prompts' : q \in prompts \/ \E p \in Procs : proc[p].pc = "queue" /\ q.id = proc[p].arg

\* What each statement does to the counters.
LEMMA RowStep == ASSUME IInv, [Next]_vars PROVE RowSteps
<1> USE DEF RowSteps, Keeps
<1>0. row \in Rows /\ proc \in [Procs -> Frames] /\ \A p \in Procs : FrameHolds(p)
  BY DEF IInv, RowSound
<1>1. ASSUME NEW p \in Procs, Start(p) PROVE RowSteps
  BY <1>0, <1>1 DEF Start, Started, Rows, Restarts
<1>2. ASSUME NEW p \in Procs, CreatePod(p) \/ PersistKey(p) \/ FailStart(p) PROVE RowSteps
  BY <1>0, <1>2 DEF CreatePod, PersistKey, FailStart, Transition, Rows
<1>3. ASSUME NEW p \in Procs, StopPod(p) \/ QueueRetryPrompt(p) \/ Dies(p) \/ Cancel(p) \/ Verify(p) \/ Reread(p) PROVE RowSteps
  BY <1>3 DEF StopPod, QueueRetryPrompt, Dies, Cancel, Verify, Reread, Receives
<1>4. ASSUME NEW p \in Procs, Stopped(p) PROVE RowSteps
  <2>1. CASE row' = row
    BY <2>1
  <2>2. CASE \E s \in Targets, e \in {"none", "text"} : row' = [row EXCEPT !.status = s, !.err = e]
    BY <1>0, <2>2 DEF Rows, Targets
  <2>3. CASE row' = [row EXCEPT !.status = "cancelled", !.req = 0, !.retry = 0]
    BY <1>0, <2>3 DEF Rows
  <2>4. CASE \E e \in {"none", "text"} : row' = [row EXCEPT !.err = e]
    BY <1>0, <2>4 DEF Rows
  <2>5. \A t : Reason(t) \in {"none", "text"}
    BY DEF Reason
  <2>6. Policies \subseteq Targets /\ "completed" \in Targets
    BY DEF Policies, Targets
  <2>7. CASE proc[p].goal = "clean"
    <3>1. proc[p].target \in Targets
      BY <1>0, <2>7 DEF FrameHolds
    <3> QED
      BY <1>4, <2>1, <2>2, <2>4, <2>5, <2>7, <3>1 DEF Stopped, Transition
  <2>8. CASE proc[p].goal \in {"complete", "escalate", "cancel"}
    BY <1>4, <2>1, <2>2, <2>3, <2>6, <2>8 DEF Stopped, Transition
  <2>9. CASE proc[p].goal \in {"none", "abort", "fail"}
    BY <1>4, <2>1, <2>9 DEF Stopped
  <2> QED
    BY <1>0, <2>7, <2>8, <2>9 DEF Frames, Goals
<1>5. ASSUME NEW p \in Procs, Unstopped(p) \/ Mark(p) PROVE RowSteps
  <2>1. CASE row' = row
    BY <2>1
  <2>2. CASE \E e : row' = [row EXCEPT !.err = e]
    BY <1>0, <2>2 DEF Rows
  <2>3. CASE \E e, n : row' = [row EXCEPT !.err = e, !.pod = n]
    BY <1>0, <2>3 DEF Rows
  <2>4. CASE \E e, n : row' = [row EXCEPT !.err = e, !.pod = n, !.status = "failed"]
    BY <1>0, <2>4 DEF Rows
  <2>5. CASE Mark(p)
    BY <2>3, <2>5 DEF Mark
  <2>6. CASE Unstopped(p)
    <3>1. proc[p].goal \in {"complete", "escalate", "cancel", "clean", "abort", "fail"}
      BY <1>0, <2>6 DEF Unstopped, At, FrameHolds, Frames, Goals
    <3>2. CASE proc[p].goal \in {"complete", "escalate"}
      BY <2>2, <2>6, <3>2 DEF Unstopped
    <3>3. CASE proc[p].goal \in {"cancel", "clean", "abort"}
      BY <2>3, <2>6, <3>3 DEF Unstopped
    <3>4. CASE proc[p].goal = "fail"
      BY <2>1, <2>4, <2>6, <3>4 DEF Unstopped, Transition
    <3> QED
      BY <3>1, <3>2, <3>3, <3>4
  <2> QED
    BY <1>5, <2>5, <2>6
<1>6. ASSUME NEW p \in Procs, Activate(p) PROVE RowSteps
  <2>1. CASE row' = row
    BY <2>1
  <2>2. CASE row.retry = proc[p].arg /\ row' = [row EXCEPT !.status = "active", !.retry = 0]
    <3>1. proc[p].arg # 0
      BY <1>0, <1>6 DEF Activate, At, FrameHolds
    <3> QED
      BY <1>0, <2>2, <3>1 DEF Rows, Resumes
  <2> QED
    BY <1>6, <2>1, <2>2 DEF Activate
<1>7. ASSUME NEW p \in Procs, BeginVerification(p) PROVE RowSteps
  <2>1. CASE row' = row
    BY <2>1
  <2>2. CASE row' # row
    <3> DEFINE new == Cardinality({r \in Requests : request[r].pod # 0}) + 1
    <3>1. row.status = "active" /\ new \in Requests /\ row' = Claimed(row, new)
      BY <1>7, <2>2 DEF BeginVerification
    <3>2. request[new].verdict = "none" /\ request'[new].verdict = "none"
      <4>1. PICK k \in 0 .. MaxRequests : new = k + 1 /\ request[k + 1].verdict = "none"
        BY <3>1, FreshRequest
      <4>2. request[new].verdict = "none"
        BY <4>1
      <4>3. PICK sent \in BOOLEAN : request' = [request EXCEPT ![new] = [pod |-> proc[p].pod, sent |-> sent, verdict |-> "none"]]
        BY <1>7, <2>2 DEF BeginVerification
      <4> HIDE DEF new
      <4> QED
        BY <3>1, <4>2, <4>3 DEF IInv, RequestsSound
    <3> HIDE DEF new
    <3> QED
      BY <1>0, <3>1, <3>2 DEF Claimed, Rows, Claims
  <2> QED
    BY <2>1, <2>2
<1>8. ASSUME NEW p \in Procs, Consume(p) PROVE RowSteps
  <2>1. CASE row' = row
    BY <2>1
  <2>2. CASE row' # row
    BY <1>0, <1>8, <2>2 DEF Consume, At, Waits, Rows, Consumes
  <2> QED
    BY <2>1, <2>2
<1>9. ASSUME NEW p \in Procs, \E n \in Pods : HandlePodStatus(p, n) \/ HandlePodAgentStatus(p, n) PROVE RowSteps
  BY <1>9 DEF HandlePodStatus, HandlePodAgentStatus, Receives
<1>10. ASSUME NEW p \in Procs, \E r \in Requests : HandleVerificationResult(p, r) PROVE RowSteps
  BY <1>10 DEF HandleVerificationResult, Receives
<1>11. CASE Monitors \/ Runner \/ UNCHANGED vars
  BY <1>11 DEF Monitors, ExpireTimedOut, RecoverPendingVerifications, RecoverPendingRetryPrompts, Ticks,
     Runner, AgentReports, PodEnds, RunVerification, PromptLeaves, vars
<1>12. CASE TimePasses
  BY <1>0, <1>12 DEF TimePasses, Rows
<1> QED
  BY <1>1, <1>2, <1>3, <1>4, <1>5, <1>6, <1>7, <1>8, <1>9, <1>10, <1>11, <1>12 DEF Next, Step, Handle, Procs

\* A goroutine goes on, and unless it weighs a verdict it holds no count but the row's.
LEMMA OneGoesOn ==
  ASSUME IInv, NEW p \in Procs, NEW f, Goto(p, f),
         f.pc \notin {"consume", "queue"} \/ (f = Queue(row) /\ row' = row)
  PROVE  FrameSteps
BY DEF IInv, Goto, FrameSteps, Queue, Idle

\* Whoever comes to hold a verdict, or is about to queue a prompt, got it from the row and the requests.
LEMMA FrameStep == ASSUME IInv, [Next]_vars PROVE FrameSteps
<1>0. Idle.pc = "idle" /\ Complete(row).pc = "stop" /\ Escalate(row).pc = "stop" /\ Clean(row).pc = "stop" /\ Begin(row).pc = "claim"
  BY StopIsTyped DEF Idle, Complete, Escalate, Clean, Begin
<1>1. ASSUME NEW p \in Procs, Done(p) PROVE FrameSteps
  BY <1>0, <1>1, OneGoesOn DEF Done
<1>2. ASSUME NEW p \in Procs, NEW c \in Places \ {"consume", "queue"}, Goto(p, [Idle EXCEPT !.pc = c]) PROVE FrameSteps
  BY <1>2, OneGoesOn DEF Idle
<1>3. ASSUME NEW p \in Procs, NEW n, NEW g, NEW t, NEW w, Goto(p, Stop(n, g, t, w)) PROVE FrameSteps
  BY <1>3, StopIsTyped, OneGoesOn
<1>4. ASSUME NEW p \in Procs, NEW c \in Places \ {"consume", "queue"}, Goto(p, [proc[p] EXCEPT !.pc = c]) PROVE FrameSteps
  <2>1. [proc[p] EXCEPT !.pc = c].pc = c
    BY DEF IInv, Frames
  <2> QED
    BY <1>4, <2>1, OneGoesOn
<1>5. ASSUME NEW p \in Procs, NEW f \in {Complete(row), Escalate(row), Clean(row), Begin(row), Queue(row)}, Receives(p, f) PROVE FrameSteps
  BY <1>0, <1>5, OneGoesOn DEF Receives
<1>6. ASSUME UNCHANGED proc PROVE FrameSteps
  BY <1>6 DEF FrameSteps
<1>7. {"create", "failed", "stopped", "unstopped", "mark"} \subseteq Places \ {"consume", "queue"}
  BY DEF Places
<1>8. ASSUME NEW p \in Procs, Start(p) \/ FailStart(p) \/ PersistKey(p) PROVE FrameSteps
  BY <1>1, <1>2, <1>3, <1>7, <1>8 DEF Start, FailStart, PersistKey
<1>9. ASSUME NEW p \in Procs, CreatePod(p) PROVE FrameSteps
  <2>1. ASSUME NEW n, Goto(p, [Idle EXCEPT !.pc = "persist", !.pod = n]) PROVE FrameSteps
    BY <2>1, OneGoesOn DEF Idle
  <2> QED
    BY <1>2, <1>7, <1>9, <2>1 DEF CreatePod
<1>10. ASSUME NEW p \in Procs, StopPod(p) PROVE FrameSteps
  BY <1>4, <1>7, <1>10 DEF StopPod
<1>11. ASSUME NEW p \in Procs, Stopped(p) PROVE FrameSteps
  BY <1>1, <1>2, <1>7, <1>11 DEF Stopped
<1>12. ASSUME NEW p \in Procs, Unstopped(p) \/ Mark(p) PROVE FrameSteps
  <2>1. Done(p) \/ Goto(p, [proc[p] EXCEPT !.pc = "mark"])
    <3>1. CASE Unstopped(p)
      <4>1. proc[p].goal \in {"complete", "escalate", "cancel", "clean", "abort", "fail"}
        BY <3>1 DEF IInv, Unstopped, At, FrameHolds, Frames, Goals
      <4> QED
        BY <3>1, <4>1 DEF Unstopped
    <3> QED
      BY <1>12, <3>1 DEF Mark
  <2> QED
    BY <1>1, <1>4, <1>7, <2>1
<1>13. ASSUME NEW p \in Procs, Cancel(p) \/ Verify(p) PROVE FrameSteps
  <2>1. ASSUME Cancel(p) PROVE FrameSteps
    BY <1>3, <1>5, <2>1 DEF Cancel, Receives
  <2>2. ASSUME Verify(p) PROVE FrameSteps
    BY <1>5, <1>6, <2>2 DEF Verify
  <2> QED
    BY <1>13, <2>1, <2>2
<1>14. ASSUME NEW p \in Procs, \E n \in Pods : HandlePodStatus(p, n) \/ HandlePodAgentStatus(p, n) PROVE FrameSteps
  <2>1. ASSUME NEW a, Receives(p, [Idle EXCEPT !.pc = "activate", !.arg = a]) PROVE FrameSteps
    BY <2>1, OneGoesOn DEF Receives, Idle
  <2> QED
    BY <1>5, <1>14, <2>1 DEF HandlePodStatus, HandlePodAgentStatus
<1>15. ASSUME NEW p \in Procs, \E r \in Requests : HandleVerificationResult(p, r) PROVE FrameSteps
  BY <1>15 DEF IInv, HandleVerificationResult, Receives, Goto, Idle, FrameSteps
<1>16. ASSUME NEW p \in Procs, Activate(p) \/ BeginVerification(p) \/ QueueRetryPrompt(p) \/ Dies(p) PROVE FrameSteps
  BY <1>1, <1>16 DEF Activate, BeginVerification, QueueRetryPrompt, Dies
<1>17. ASSUME NEW p \in Procs, Consume(p) PROVE FrameSteps
  <2>1. ASSUME NEW n, Goto(p, [Idle EXCEPT !.pc = "reread", !.pod = n]) PROVE FrameSteps
    BY <2>1, OneGoesOn DEF Idle
  <2> QED
    BY <1>1, <1>3, <1>17, <2>1 DEF Consume
<1>18. ASSUME NEW p \in Procs, Reread(p) PROVE FrameSteps
  BY <1>1, <1>18, OneGoesOn DEF Reread
<1>19. CASE Monitors
  <2>1. TimeoutMonitors \subseteq Procs
    BY DEF Procs
  <2> QED
    BY <1>0, <1>6, <1>19, <2>1, OneGoesOn DEF Monitors, ExpireTimedOut, RecoverPendingVerifications, RecoverPendingRetryPrompts, Ticks
<1>20. CASE Runner \/ TimePasses \/ UNCHANGED vars
  BY <1>6, <1>20 DEF Runner, AgentReports, PodEnds, RunVerification, PromptLeaves, TimePasses, vars
<1> QED
  BY <1>8, <1>9, <1>10, <1>11, <1>12, <1>13, <1>14, <1>15, <1>16, <1>17, <1>18, <1>19, <1>20 DEF Next, Step, Handle, Procs

\* Prompts are queued by who holds their command's id.
LEMMA PromptStep == ASSUME IInv, [Next]_vars PROVE PromptSteps
<1> USE DEF PromptSteps
<1>1. ASSUME NEW p \in Procs, QueueRetryPrompt(p) PROVE PromptSteps
  BY <1>1 DEF QueueRetryPrompt, At
<1>2. ASSUME NEW p \in Procs, StopPod(p) PROVE PromptSteps
  BY <1>2 DEF StopPod
<1>3. ASSUME NEW p \in Procs, Stopped(p) \/ Unstopped(p) \/ Dies(p) \/ (Handle(p) /\ p \in Handlers) PROVE PromptSteps
  BY <1>3 DEF Stopped, Unstopped, Dies, Handle, Start, CreatePod, PersistKey, FailStart, Mark, Cancel, Verify, HandlePodStatus,
     HandlePodAgentStatus, HandleVerificationResult, Activate, BeginVerification, Consume, Reread, Receives, podVars
<1>4. CASE Monitors \/ Runner \/ TimePasses \/ UNCHANGED vars
  BY <1>4 DEF Monitors, ExpireTimedOut, RecoverPendingVerifications, RecoverPendingRetryPrompts, Ticks, Runner, AgentReports,
     PodEnds, RunVerification, PromptLeaves, TimePasses, vars, podVars
<1> QED
  BY <1>1, <1>2, <1>3, <1>4 DEF Next, Step, Procs

\* Each iteration of a loop that goes on stands for a failed run, besides the
\* one that is asked for; so does each prompt, made or about to be.
Weighed(p) ==
  proc[p].pc = "consume" /\ proc[p].goal = "none" /\ row.req = proc[p].arg => proc[p].iter = row.iter + 1
Backed(p) == proc[p].pc = "queue" => proc[p].arg <= Cardinality(Failed) + 1

FailuresCounted ==
  /\ row.status = "active" \/ row.req # 0 \/ row.retry # 0 => row.iter <= Cardinality(Failed \ {row.req})
  /\ row.retry # 0 => row.retry = row.iter + 1 /\ row.req = 0
  /\ \A p \in Procs : Weighed(p) /\ Backed(p)
  /\ \A q \in prompts : q.id <= Cardinality(Failed) + 1

\* A verdict stays, so that failed runs only become more.
LEMMA FailuresGrow ==
  ASSUME IInv, [Next]_vars
  PROVE  /\ Failed \subseteq Failed' /\ Cardinality(Failed) \in Nat /\ Cardinality(Failed') \in Nat
         /\ Cardinality(Failed) <= Cardinality(Failed')
         /\ \A x : /\ Cardinality(Failed \ {x}) \in Nat /\ Cardinality(Failed \ {x}) <= Cardinality(Failed)
                   /\ \A y : x = y \/ y \notin Failed' \/ y = 0 => Cardinality(Failed \ {x}) <= Cardinality(Failed' \ {y})
                   /\ x \in Failed => Cardinality(Failed) = Cardinality(Failed \ {x}) + 1
<1>1. IsFiniteSet(Requests)
  BY GoalAssumption, FS_Interval DEF Requests
<1>2. Failed \subseteq Failed' /\ Failed' \subseteq Requests
  <2>1. Progress
    BY StepKept DEF Kept
  <2> QED
    BY <2>1 DEF Progress, Failed
<1>3. IsFiniteSet(Failed') /\ IsFiniteSet(Failed)
  BY <1>1, <1>2, FS_Subset
<1>4. \A S, T : T \subseteq Failed' /\ S \subseteq T => Cardinality(S) \in Nat /\ Cardinality(T) \in Nat /\ Cardinality(S) <= Cardinality(T)
  BY <1>3, FS_Subset, FS_CardinalityType
<1>5. 0 \notin Failed'
  BY <1>2 DEF Requests
<1>6. ASSUME NEW x, NEW y, x = y \/ y \notin Failed' \/ y = 0
      PROVE  Cardinality(Failed \ {x}) <= Cardinality(Failed' \ {y})
  <2>1. Failed \ {x} \subseteq Failed' \ {y} /\ Failed' \ {y} \subseteq Failed'
    BY <1>2, <1>5, <1>6
  <2> QED
    BY <1>4, <2>1
<1>7. ASSUME NEW x \in Failed PROVE Cardinality(Failed) = Cardinality(Failed \ {x}) + 1
  <2>1. Cardinality(Failed \ {x}) = Cardinality(Failed) - 1
    BY <1>3, FS_RemoveElement
  <2>2. Cardinality(Failed) \in Nat
    BY <1>2, <1>4
  <2> QED
    BY <2>1, <2>2
<1>8. \A x : Cardinality(Failed \ {x}) \in Nat /\ Cardinality(Failed \ {x}) <= Cardinality(Failed)
  BY <1>2, <1>4
<1> QED
  BY <1>2, <1>4, <1>6, <1>7, <1>8

\* Every step keeps the failed runs counted: iterations never outrun them.
LEMMA FailuresStep ==
  ASSUME IInv, FailuresCounted, [Next]_vars
  PROVE  FailuresCounted'
<1>0. row \in Rows /\ row.iter \in Nat /\ row.retry \in Nat /\ \A p \in Procs : FrameHolds(p)
  BY GoalAssumption DEF IInv, RowSound, Rows, Prompts
<1> DEFINE N == Cardinality(Failed)
<1>1. N \in Nat /\ N' \in Nat /\ N <= N'
  BY FailuresGrow
<1>2. /\ row'.status = "active" \/ row'.req # 0 \/ row'.retry # 0 => row'.iter <= Cardinality(Failed' \ {row'.req})
      /\ row'.retry # 0 => row'.retry = row'.iter + 1 /\ row'.req = 0
  <2>1. /\ Cardinality(Failed \ {row.req}) \in Nat /\ Cardinality(Failed' \ {row'.req}) \in Nat
        /\ Cardinality(Failed \ {row.req}) <= N
    <3>1. IsFiniteSet(Requests)
      BY GoalAssumption, FS_Interval DEF Requests
    <3>2. IsFiniteSet(Failed' \ {row'.req})
      BY <3>1, FS_Subset DEF Failed
    <3> QED
      BY <3>2, FailuresGrow, FS_CardinalityType
  <2>2. CASE Keeps
    <3>1. row'.req = row.req \/ row'.req = 0
      BY <2>2 DEF Keeps
    <3>2. Cardinality(Failed \ {row.req}) <= Cardinality(Failed' \ {row'.req})
      BY <3>1, FailuresGrow
    <3> QED
      BY <1>0, <2>1, <2>2, <3>2 DEF Keeps, FailuresCounted
  <2>3. CASE Restarts
    BY <2>1, <2>3 DEF Restarts
  <2>4. CASE Claims
    <3>1. row'.req \notin Failed'
      BY <2>4 DEF Claims, Failed
    <3>2. Cardinality(Failed \ {row.req}) <= Cardinality(Failed' \ {row'.req})
      BY <3>1, FailuresGrow
    <3>3. row.retry = 0
      BY <2>4 DEF Claims, IInv, RowSound, IterationsLeft
    <3> QED
      BY <1>0, <2>1, <2>4, <3>2, <3>3 DEF Claims, FailuresCounted
  <2>5. CASE Resumes
    <3>1. Cardinality(Failed \ {row.req}) <= Cardinality(Failed' \ {row'.req})
      BY <2>5, FailuresGrow DEF Resumes
    <3> QED
      BY <1>0, <2>1, <2>5, <3>1 DEF Resumes, FailuresCounted
  <2>6. ASSUME NEW p \in Procs, Consumes(p)
        PROVE  /\ row'.status = "active" \/ row'.req # 0 \/ row'.retry # 0 => row'.iter <= Cardinality(Failed' \ {row'.req})
               /\ row'.retry # 0 => row'.retry = row'.iter + 1 /\ row'.req = 0
    <3>1. proc[p].arg \in Requests /\ proc[p].iter \in Nat /\ row.req = proc[p].arg /\ row'.req = 0
      BY <1>0, <2>6, GoalAssumption DEF Consumes, FrameHolds
    <3>2. CASE proc[p].goal = "none"
      <4>1. row.req # 0 /\ row.req \in Failed /\ row'.iter = row.iter + 1
        BY <1>0, <2>6, <3>1, <3>2 DEF Consumes, FrameHolds, Failed, Requests, FailuresCounted, Weighed
      <4>2. row.iter <= Cardinality(Failed \ {row.req})
        BY <4>1 DEF FailuresCounted
      <4>3. N = Cardinality(Failed \ {row.req}) + 1
        BY <4>1, FailuresGrow
      <4>4. Failed' \ {row'.req} = Failed'
        BY <3>1 DEF Failed, Requests
      <4>5. row'.iter <= N'
        BY <1>0, <1>1, <2>1, <4>1, <4>2, <4>3
      <4>6. row'.retry = row'.iter + 1 /\ row'.req = 0
        BY <2>6, <3>2 DEF Consumes
      <4> QED
        BY <4>4, <4>5, <4>6
    <3>3. CASE proc[p].goal # "none"
      BY <2>6, <3>3 DEF Consumes
    <3> QED
      BY <3>2, <3>3
  <2> QED
    BY <2>2, <2>3, <2>4, <2>5, <2>6, RowStep DEF RowSteps
<1>3. ASSUME NEW p \in Procs PROVE Weighed(p)' /\ Backed(p)'
  <2>1. \/ proc'[p] = proc[p]
        \/ proc'[p].pc \notin {"consume", "queue"}
        \/ proc'[p].pc = "queue" /\ row' = row /\ proc'[p].arg = row.retry
        \/ proc'[p].pc = "consume" /\ row' = row /\ proc'[p].arg = row.req /\ proc'[p].iter = row.iter + 1
    BY FrameStep DEF FrameSteps
  <2>2. CASE proc'[p] = proc[p]
    <3>1. Backed(p)'
      <4>1. Backed(p)
        BY DEF FailuresCounted
      <4>2. proc[p].pc = "queue" => proc[p].arg \in Nat
        BY <1>0 DEF FrameHolds, Prompts
      <4> QED
        BY <1>1, <2>2, <4>1, <4>2 DEF Backed
    <3>2. Weighed(p)'
      <4>1. Weighed(p) /\ (proc[p].pc = "consume" => proc[p].arg \in Requests /\ request[proc[p].arg].verdict # "none")
        BY <1>0 DEF FailuresCounted, FrameHolds
      <4>2. SUFFICES ASSUME proc[p].pc = "consume", proc[p].goal = "none", row'.req = proc[p].arg
                     PROVE  row.req = row'.req /\ row'.iter = row.iter
        BY <2>2, <4>1, <4>2 DEF Weighed
      <4>3. row'.req # 0
        BY <4>1, <4>2 DEF Requests
      <4> QED
        BY <4>1, <4>2, <4>3, RowStep DEF RowSteps, Keeps, Restarts, Claims, Resumes, Consumes
    <3> QED
      BY <3>1, <3>2
  <2>3. CASE proc'[p].pc \notin {"consume", "queue"}
    BY <2>3 DEF Weighed, Backed
  <2>4. CASE proc'[p].pc = "queue" /\ row' = row /\ proc'[p].arg = row.retry
    <3>1. row.retry # 0 => row.retry = row.iter + 1 /\ row.iter <= Cardinality(Failed \ {row.req})
      BY DEF FailuresCounted
    <3>2. Cardinality(Failed \ {row.req}) \in Nat /\ Cardinality(Failed \ {row.req}) <= N
      BY FailuresGrow
    <3> QED
      BY <1>0, <1>1, <2>4, <3>1, <3>2 DEF Weighed, Backed
  <2>5. CASE proc'[p].pc = "consume" /\ row' = row /\ proc'[p].arg = row.req /\ proc'[p].iter = row.iter + 1
    BY <2>5 DEF Weighed, Backed
  <2> QED
    BY <2>1, <2>2, <2>3, <2>4, <2>5
<1>4. ASSUME NEW q \in prompts' PROVE q.id <= N' + 1
  <2>1. q.id <= N + 1 /\ q.id \in Nat
    <3>1. CASE q \in prompts
      BY <3>1 DEF FailuresCounted, IInv, PodsTyped, Prompts
    <3>2. ASSUME NEW p \in Procs, proc[p].pc = "queue", q.id = proc[p].arg PROVE q.id <= N + 1 /\ q.id \in Nat
      BY <1>0, <3>2 DEF FailuresCounted, Backed, FrameHolds, Prompts
    <3> QED
      BY <3>1, <3>2, PromptStep DEF PromptSteps
  <2> QED
    BY <1>1, <2>1
<1> QED
  BY <1>2, <1>3, <1>4 DEF FailuresCounted

\* Failed runs are counted in every reachable state.
LEMMA FailuresAreCounted == Spec => []FailuresCounted
<1>1. Init => FailuresCounted
  <2>1. SUFFICES ASSUME Init PROVE FailuresCounted
    OBVIOUS
  <2> QED
    BY <2>1 DEF Init, FailuresCounted, Weighed, Backed, Idle
<1>2. FailuresCounted /\ IInv /\ [Next]_vars => FailuresCounted'
  BY FailuresStep
<1> QED
  BY <1>1, <1>2, Invariance, PTL DEF Spec

(***************************************************************************)
(* What follows for users of the loop.                                     *)
(***************************************************************************)
\* A loop that is verifying is always found again by the monitor or by Verify.
THEOREM LoopInvariant == Spec => []LoopInv
<1>1. IInv => LoopInv
  BY DEF IInv, LoopInv, TypeOK, RowSound, PodsTyped, RequestsSound
<1> QED
  BY <1>1, Invariance, PTL

\* No loop is completed without a run of its verification command that passed.
THEOREM CompletionIsVerified == Spec => []CompletedIsVerified
<1>1. IInv => CompletedIsVerified
  BY DEF IInv, RowSound, RowIsTrue, CompletedIsVerified, Passed
<1> QED
  BY <1>1, Invariance, PTL

\* The verifier is never asked with no iteration left.
THEOREM BudgetIsKept == Spec => []VerifierWithinBudget
<1>1. IInv => VerifierWithinBudget
  BY DEF IInv, RowSound, IterationsLeft, VerifierWithinBudget
<1> QED
  BY <1>1, Invariance, PTL

\* A worker is sent back no more often than runs failed, over all of the loop's pods.
THEOREM PromptsAreBacked == Spec => []PromptsFollowFailures
<1>1. IInv /\ FailuresCounted => PromptsFollowFailures
  <2>1. SUFFICES ASSUME IInv, FailuresCounted, NEW q \in prompts PROVE Cardinality(Failed) >= q.id - 1
    BY DEF PromptsFollowFailures, Failed
  <2>2. IsFiniteSet(Failed)
    <3>1. IsFiniteSet(Requests)
      BY GoalAssumption, FS_Interval DEF Requests
    <3> QED
      BY <3>1, FS_Subset DEF Failed
  <2>3. Cardinality(Failed) \in Nat
    BY <2>2, FS_CardinalityType
  <2>4. q.id \in Nat /\ q.id <= Cardinality(Failed) + 1
    BY <2>1 DEF IInv, PodsTyped, Prompts, FailuresCounted
  <2> QED
    BY <2>3, <2>4
<1> QED
  BY <1>1, Invariance, FailuresAreCounted, PTL

\* A request of a loop that goes on is given up for its own verdict only.
THEOREM VerdictsCount == Spec => VerdictsAreNotLost
<1>1. IInv /\ [Next]_vars =>
        [row.req # 0 /\ row'.req = 0 /\ row'.status = "verifying" => request[row.req].verdict # "none"]_vars
  <2>1. SUFFICES ASSUME IInv, [Next]_vars, row.req # 0, row'.req = 0, row'.status = "verifying"
                 PROVE  request[row.req].verdict # "none"
    OBVIOUS
  <2>2. PICK p \in Procs : Consumes(p)
    BY <2>1, RowStep DEF RowSteps, Keeps, Restarts, Claims, Resumes, Requests
  <2> QED
    BY <2>1, <2>2 DEF Consumes, IInv, FrameHolds
<1> QED
  BY <1>1, Invariance, PTL DEF Spec, VerdictsAreNotLost

\* A loop that ended stays so, whichever goroutine read it before.
THEOREM EndIsFinal == Spec => TerminalIsFinal
<1>1. IInv /\ [Next]_vars => [row.status \in Terminal => row'.status = row.status]_vars
  BY StepKept DEF Kept, Final
<1> QED
  BY <1>1, Invariance, PTL DEF Spec, TerminalIsFinal
=============================================================================
