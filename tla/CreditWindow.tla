---------------------------- MODULE CreditWindow ----------------------------
(***************************************************************************)
(* The credit window of one direction of a tunnel stream: a mutex, a       *)
(* condition variable and a counter.  A sender acquires credits and waits  *)
(* on the condition while there are too few; the receiver adds credits for *)
(* what it has flushed; teardown closes the window; and a waiting sender's *)
(* context may be cancelled, which a helper goroutine turns into a         *)
(* Broadcast.  The helper does not hold the mutex when it broadcasts.      *)
(* Names are told apart from those of Tunnel, of the same Go package.      *)
(***************************************************************************)
EXTENDS Integers

CONSTANTS Senders,      \* calls of acquire, one each
          Sizes,        \* how many credits a call may want
          Initial,      \* the initial credits
          MaxFlush      \* bound: how many credits one add returns at most

ASSUME WindowAssumption ==
    /\ Initial \in Nat /\ MaxFlush \in Nat \ {0} /\ Sizes \subseteq Nat \ {0}

VARIABLES
    avail,      \* w.avail
    closed,     \* w.closed
    want,       \* the n of each call
    pc,         \* where each call is
    helper,     \* its helper goroutine: "none", "armed" or "exited"
    cancelled,  \* the calls whose context is done
    flight,     \* credits taken and not yet given back
    wakeups     \* add or close has changed the window; its Broadcast is due

windowVars == <<avail, closed, want, pc, helper, cancelled, flight, wakeups>>

WindowTypes ==
    /\ avail \in Nat /\ flight \in Nat
    /\ closed \in BOOLEAN /\ wakeups \in BOOLEAN
    /\ want \in [Senders -> Sizes]
    /\ pc \in [Senders -> {"idle", "lock", "prepare", "wait", "woken", "ok", "error"}]
    /\ helper \in [Senders -> {"none", "armed", "exited"}]
    /\ cancelled \subseteq Senders

NewWindow ==
    /\ avail = Initial /\ flight = 0 /\ closed = FALSE /\ wakeups = FALSE
    /\ want \in [Senders -> Sizes]
    /\ pc = [s \in Senders |-> "idle"]
    /\ helper = [s \in Senders |-> "none"]
    /\ cancelled = {}

\* A call between its checks and cond.Wait holds the mutex.
Unlocked == \A s \in Senders : pc[s] # "prepare"

\* Mutant: cond.Signal.
Signal ==
    IF \E s \in Senders : pc[s] = "wait"
    THEN \E s \in Senders : pc[s] = "wait" /\ pc' = [pc EXCEPT ![s] = "woken"]
    ELSE UNCHANGED pc

\* cond.Broadcast: those that wait now are woken, nobody later.
Broadcast == pc' = [s \in Senders |-> IF pc[s] = "wait" THEN "woken" ELSE pc[s]]

-----------------------------------------------------------------------------
Call(s) ==
    /\ pc[s] = "idle" /\ pc' = [pc EXCEPT ![s] = "lock"]
    /\ UNCHANGED <<avail, closed, want, helper, cancelled, flight, wakeups>>

\* One turn of the loop in acquire, up to cond.Wait.
Return(s, how) == pc' = [pc EXCEPT ![s] = how] /\ UNCHANGED helper

Enough(s) == avail >= want[s]

Turn(s) ==
    \/ closed /\ Return(s, "error") /\ UNCHANGED <<avail, flight>>
    \/ /\ ~closed /\ Enough(s) /\ Return(s, "ok")
       /\ avail' = avail - want[s] /\ flight' = flight + want[s]
    \/ /\ ~closed /\ ~Enough(s) /\ s \in cancelled /\ Return(s, "error")
       /\ UNCHANGED <<avail, flight>>
    \/ /\ ~closed /\ ~Enough(s) /\ s \notin cancelled
       /\ pc' = [pc EXCEPT ![s] = "prepare"]
       /\ helper' = [helper EXCEPT ![s] = "armed"]
       /\ UNCHANGED <<avail, flight>>

Enter(s) ==
    /\ pc[s] = "lock" /\ Unlocked
    /\ Turn(s)
    /\ UNCHANGED <<closed, want, cancelled, wakeups>>

\* cond.Wait enqueues the caller and unlocks.
Wait(s) ==
    /\ pc[s] = "prepare" /\ pc' = [pc EXCEPT ![s] = "wait"]
    /\ UNCHANGED <<avail, closed, want, helper, cancelled, flight, wakeups>>

\* cond.Wait returns with the mutex: the helper is dismissed, the context
\* looked at, and the loop goes round.
Wake(s) ==
    /\ pc[s] = "woken" /\ Unlocked
    /\ IF s \in cancelled
       THEN /\ pc' = [pc EXCEPT ![s] = "error"]
            /\ helper' = [helper EXCEPT ![s] = "exited"]
            /\ UNCHANGED <<avail, flight>>
       ELSE Turn(s)
    /\ UNCHANGED <<closed, want, cancelled, wakeups>>

\* The helper: ctx.Done, then Broadcast, without the mutex.
HelperFires(s) ==
    /\ helper[s] = "armed" /\ s \in cancelled
    /\ helper' = [helper EXCEPT ![s] = "exited"]
    /\ Broadcast
    /\ UNCHANGED <<avail, closed, want, cancelled, flight, wakeups>>

-----------------------------------------------------------------------------
Cancel(s) ==
    /\ s \notin cancelled /\ cancelled' = cancelled \cup {s}
    /\ UNCHANGED <<avail, closed, want, pc, helper, flight, wakeups>>

\* Mutants: the credits are replaced by those that come back, and nobody is
\* woken.
CreditIs(n) == avail' = n
WakeNobody  == UNCHANGED wakeups

Credit(n) == avail' = avail + n
WakeDue   == wakeups' = TRUE

\* The receiver has flushed n credits' worth: add, up to its Unlock.
Add == \E n \in 1..MaxFlush :
    /\ n =< flight /\ Unlocked /\ ~wakeups
    /\ flight' = flight - n /\ Credit(n)
    /\ WakeDue
    /\ UNCHANGED <<closed, want, pc, helper, cancelled>>

Close ==
    /\ ~closed /\ Unlocked /\ ~wakeups
    /\ closed' = TRUE /\ WakeDue
    /\ UNCHANGED <<avail, want, pc, helper, cancelled, flight>>

\* The Broadcast at the end of add and close.
WakeAll ==
    /\ wakeups /\ wakeups' = FALSE
    /\ Broadcast
    /\ UNCHANGED <<avail, closed, want, helper, cancelled, flight>>

Acquire(s) == Enter(s) \/ Wait(s) \/ Wake(s)

WindowNext ==
    \/ \E s \in Senders : Call(s) \/ Acquire(s) \/ HelperFires(s) \/ Cancel(s)
    \/ Add \/ Close \/ WakeAll

WindowSpec == NewWindow /\ [][WindowNext]_windowVars

\* Goroutines run.  Nobody need call, cancel, flush or close.
WindowFairness ==
    /\ \A s \in Senders : WF_windowVars(Acquire(s)) /\ WF_windowVars(HelperFires(s))
    /\ WF_windowVars(WakeAll)
FairWindow == WindowSpec /\ WindowFairness

\* The receiver flushes what it is sent, as long as it is there; and the
\* proxy, when a request's context is done, closes its stream.
StreamSpec == FairWindow /\ WF_windowVars(Add) /\ WF_windowVars(cancelled # {} /\ Close)

-----------------------------------------------------------------------------
(* What makes the window correct.                                          *)

\* Never more in flight than the window: what was taken and not given back,
\* together with what may still be taken, is the initial credit.
WindowBounds == avail + flight = Initial

WindowInv == WindowTypes /\ WindowBounds

\* No wakeup is lost between credits and waiters: whoever waits although it
\* could have its credits, or although the window is closed, is about to be
\* woken.
NobodyForgotten ==
    \A s \in Senders :
      pc[s] = "wait" /\ (closed \/ avail >= want[s]) => wakeups

\* With a receiver that flushes, a call that keeps wanting gets its credits,
\* or an error because it was cancelled or the window closed.
CallsAreServed ==
    \A s \in Senders : pc[s] = "lock" /\ s \notin cancelled
                         ~> pc[s] \in {"ok", "error"} \/ s \in cancelled

\* Documented: acquire blocks until n credits are available or ctx is
\* cancelled or the window closed.  (A waiter whose context is done wakes up.)
CancelWakes ==
    \A s \in Senders : pc[s] = "wait" /\ s \in cancelled ~> pc[s] # "wait"
=============================================================================
