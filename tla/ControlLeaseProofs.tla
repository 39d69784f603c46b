------------------------- MODULE ControlLeaseProofs -------------------------
(***************************************************************************)
(* Proofs about the control lease, for any subscribers, lease duration and *)
(* bounds.                                                                 *)
(***************************************************************************)
EXTENDS ControlLease, TLAPS

USE DEF leaseVars, goVars

(***************************************************************************)
(* Type correctness.                                                       *)
(***************************************************************************)
\* The parts of TypeOK about the lease and about the statuses under way.
LeaseTyped ==
    /\ owner \in Subs \cup {Nobody}
    /\ leaseID \in Nat /\ epoch \in Nat /\ expiresAt \in Nat
    /\ timer \in [epoch : Nat, at : Nat]

SendTyped ==
    /\ msg \in [Procs -> [status : Statuses, id : Nat]]
    /\ todo \in [Procs -> SUBSET Subs]
    /\ failed \in [Procs -> SUBSET Subs]
    /\ releasing \in [Procs -> Subs \cup {Nobody}]

\* setControlLeaseLocked leaves the lease's variables in their types.
LEMMA SetLeaseTyped ==
    ASSUME TypeOK, NEW s \in Subs, NEW id \in Nat, NEW t \in Nat, SetLease(s, id, t)
    PROVE  LeaseTyped'
  BY ConstantsAssumption DEF TypeOK, LeaseTyped, SetLease, ArmTimer, Until

\* So does clearControlLeaseLocked.
LEMMA ClearLeaseTyped == ASSUME TypeOK, ClearLease PROVE LeaseTyped'
  BY DEF TypeOK, LeaseTyped, ClearLease, NoTimer

\* sendControlStatus, called for a subscriber, keeps the sending goroutine's
\* variables in their types.
LEMMA ReplyTyped ==
    ASSUME TypeOK, NEW p, NEW s \in Subs, NEW st \in Statuses, NEW id \in Nat,
           Reply(p, s, st, id)
    PROVE  SendTyped'
  BY DEF TypeOK, SendTyped, Reply, Status

\* So does Broadcast of a status.
LEMMA AnnounceTyped ==
    ASSUME TypeOK, NEW p, NEW st \in Statuses, Announce(p, st), UNCHANGED releasing
    PROVE  SendTyped'
  BY DEF TypeOK, SendTyped, Announce, Status

\* A new channel (NewChannelWithConfig) has the right types.
LEMMA TypeOKInit == Init => TypeOK
  BY ConstantsAssumption DEF Init, TypeOK, Quiet, NoTimer, Statuses

\* Every step keeps the types: one case per handler, timer and write.
LEMMA TypeOKStep == TypeOK /\ [Next]_vars => TypeOK'
<1> SUFFICES ASSUME TypeOK, [Next]_vars PROVE TypeOK'
  OBVIOUS
<1> USE ConstantsAssumption
<1>1. ASSUME NEW s \in Subs, Join(s) PROVE TypeOK'
  BY <1>1 DEF Join, TypeOK, Goto
<1>2. ASSUME NEW s \in Subs, Read(s) PROVE TypeOK'
  <2>1. PICK l \in {"acquire", "renew", "release", "input", "refuse"}, id \in Nat :
            Goto(s, l) /\ arg' = [arg EXCEPT ![s] = id]
    BY <1>2 DEF Read, TypeOK
  <2>2. PICK t \in Nat : now' = [now EXCEPT ![s] = t]
    <3>1. CASE pc'[s] \in {"acquire", "renew"}
      <4>1. clock \in Nat /\ now' = [now EXCEPT ![s] = clock]
        BY <1>2, <3>1 DEF Read, TypeOK
      <4> QED
        BY <4>1
    <3>2. CASE pc'[s] \notin {"acquire", "renew"}
      <4>1. now' = [now EXCEPT ![s] = 0]
        BY <1>2, <3>2 DEF Read
      <4> QED
        BY <4>1
    <3> QED
      BY <3>1, <3>2
  <2>3. requests' \in 0..MaxRequests
    BY <1>2 DEF Read, TypeOK
  <2>4. pc' \in [Subs -> {"new", "read", "acquire", "renew", "release", "input",
                        "refuse", "done"}]
    BY <2>1 DEF Goto, TypeOK
  <2>5. now' \in [Subs -> Nat] /\ arg' \in [Subs -> Nat]
    BY <2>1, <2>2 DEF TypeOK
  <2> QED
    BY <1>2, <2>3, <2>4, <2>5 DEF Read, TypeOK
<1>3. ASSUME NEW s \in Subs, ReadFails(s) PROVE TypeOK'
  BY <1>3 DEF ReadFails, TypeOK, Goto
<1>4. ASSUME NEW s \in Subs, Acquire(s) PROVE TypeOK'
  <2>1. now[s] \in Nat /\ epoch + 1 \in Nat /\ leaseID \in Nat
    BY DEF TypeOK
  <2>2. LeaseTyped'
    <3>1. CASE SetLease(s, epoch + 1, now[s])
      BY <2>1, <3>1, SetLeaseTyped
    <3>2. CASE UNCHANGED leaseVars
      BY <3>2 DEF TypeOK, LeaseTyped
    <3> QED
      BY <1>4, <3>1, <3>2 DEF Acquire
  <2>3. SendTyped'
    <3>1. ASSUME NEW st \in {"granted", "busy"}, NEW id \in Nat, Reply(s, s, st, id)
          PROVE  SendTyped'
      BY <3>1, ReplyTyped DEF Statuses
    <3>2. CASE UNCHANGED goVars
      BY <3>2 DEF TypeOK, SendTyped
    <3> QED
      BY <1>4, <2>1, <3>1, <3>2 DEF Acquire, AnswerHeld
  <2> QED
    BY <1>4, <2>2, <2>3 DEF Acquire, TypeOK, LeaseTyped, SendTyped, Return, Goto
<1>5. ASSUME NEW s \in Subs, Renew(s) PROVE TypeOK'
  <2>1. now[s] \in Nat /\ leaseID \in Nat
    BY DEF TypeOK
  <2>2. LeaseTyped'
    <3>1. CASE SetLease(s, leaseID, now[s])
      BY <2>1, <3>1, SetLeaseTyped
    <3>2. CASE UNCHANGED leaseVars
      BY <3>2 DEF TypeOK, LeaseTyped
    <3> QED
      BY <1>5, <3>1, <3>2 DEF Renew
  <2>3. SendTyped'
    BY <1>5, <2>1, ReplyTyped DEF Renew, Statuses
  <2> QED
    BY <1>5, <2>2, <2>3 DEF Renew, TypeOK, LeaseTyped, SendTyped, Return, Goto
<1>6. ASSUME NEW s \in Subs, Release(s) PROVE TypeOK'
  <2>1. CASE ClearLease /\ Announce(s, "released") /\ UNCHANGED releasing
    <3>1. LeaseTyped' /\ SendTyped'
      BY <2>1, ClearLeaseTyped, AnnounceTyped DEF Statuses
    <3> QED
      BY <1>6, <3>1 DEF Release, TypeOK, LeaseTyped, SendTyped, Return, Goto
  <2>2. CASE Reply(s, s, "required", 0) /\ UNCHANGED leaseVars
    <3>1. SendTyped'
      BY <2>2, ReplyTyped DEF Statuses
    <3> QED
      BY <1>6, <2>2, <3>1 DEF Release, TypeOK, SendTyped, Return, Goto
  <2> QED
    BY <1>6, <2>1, <2>2 DEF Release
<1>7. ASSUME NEW s \in Subs, Input(s) PROVE TypeOK'
  <2>1. LeaseTyped'
    <3>1. CASE ClearLease
      BY <3>1, ClearLeaseTyped
    <3>2. CASE UNCHANGED leaseVars
      BY <3>2 DEF TypeOK, LeaseTyped
    <3> QED
      BY <1>7, <3>1, <3>2 DEF Input
  <2>2. SendTyped'
    <3>1. CASE Announce(s, "expired") /\ UNCHANGED releasing
      BY <3>1, AnnounceTyped DEF Statuses
    <3>2. CASE UNCHANGED goVars
      BY <3>2 DEF TypeOK, SendTyped
    <3> QED
      BY <1>7, <3>1, <3>2 DEF Input
  <2> QED
    BY <1>7, <2>1, <2>2 DEF Input, TypeOK, LeaseTyped, SendTyped, Goto
<1>8. ASSUME NEW s \in Subs, InputWritten(s) PROVE TypeOK'
  BY <1>8 DEF InputWritten, TypeOK, Goto
<1>9. ASSUME NEW s \in Subs, Refuse(s) PROVE TypeOK'
  <2>1. SendTyped'
    BY <1>9, ReplyTyped DEF Refuse, Statuses
  <2> QED
    BY <1>9, <2>1 DEF Refuse, TypeOK, SendTyped, Goto
<1>10. ASSUME NEW p \in Procs, Deliver(p) PROVE TypeOK'
  <2>1. PICK s \in todo[p] : Deliver(p)!(s)
    BY <1>10 DEF Deliver
  <2>2. s \in Subs
    BY DEF TypeOK
  <2>3. view' \in [Subs -> Nat]
    <3>1. CASE Believe(s, msg[p])
      BY <2>2, <3>1 DEF Believe, TypeOK
    <3>2. CASE UNCHANGED view
      BY <3>2 DEF TypeOK
    <3> QED
      BY <2>1, <3>1, <3>2
  <2>4. failed' \in [Procs -> SUBSET Subs]
    BY <2>1, <2>2 DEF TypeOK
  <2>5. msg' \in [Procs -> [status : Statuses, id : Nat]]
    BY <2>1 DEF TypeOK, Quiet, Statuses
  <2>6. todo' \in [Procs -> SUBSET Subs]
    BY <2>1 DEF TypeOK
  <2> QED
    BY <2>1, <2>3, <2>4, <2>5, <2>6 DEF TypeOK
<1>11. ASSUME NEW p \in Procs, Remove(p) PROVE TypeOK'
  BY <1>11 DEF Remove, TypeOK
<1>12. ASSUME NEW p \in Procs, ReleaseFor(p) PROVE TypeOK'
  <2>1. releasing' \in [Procs -> Subs \cup {Nobody}]
    BY <1>12 DEF ReleaseFor, TypeOK
  <2>2. LeaseTyped'
    BY <1>12, ClearLeaseTyped DEF ReleaseFor, TypeOK, LeaseTyped
  <2>3. msg' \in [Procs -> [status : Statuses, id : Nat]]
    <3>1. CASE Announce(p, "released")
      BY <3>1 DEF Announce, Status, Statuses, TypeOK
    <3>2. CASE UNCHANGED msg
      BY <3>2 DEF TypeOK
    <3> QED
      BY <1>12, <3>1, <3>2 DEF ReleaseFor
  <2>4. todo' \in [Procs -> SUBSET Subs] /\ failed' \in [Procs -> SUBSET Subs]
    BY <1>12 DEF ReleaseFor, Announce, TypeOK
  <2> QED
    <3>1. UNCHANGED <<clock, requests, subscribers, gone, closing, firing, writing,
                      writer, pc, now, arg, view>>
      BY <1>12 DEF ReleaseFor
    <3> QED
      BY <2>1, <2>2, <2>3, <2>4, <3>1 DEF TypeOK, LeaseTyped
<1>13. ASSUME NEW e \in Epochs, Expire(e) PROVE TypeOK'
  <2>1. LeaseTyped'
    BY <1>13, ClearLeaseTyped DEF Expire, TypeOK, LeaseTyped
  <2>2. SendTyped'
    <3>1. CASE Announce(e, "expired") /\ UNCHANGED releasing
      BY <3>1, AnnounceTyped DEF Statuses
    <3>2. CASE UNCHANGED goVars
      BY <3>2 DEF TypeOK, SendTyped
    <3> QED
      BY <1>13, <3>1, <3>2 DEF Expire
  <2> QED
    BY <1>13, <2>1, <2>2 DEF Expire, TypeOK, LeaseTyped, SendTyped
<1>14. CASE Output
  <2>1. failed' \in [Procs -> SUBSET Subs]
    <3>1. PICK F \in SUBSET subscribers : failed' = [failed EXCEPT ![Forwarder] = F]
      BY <1>14 DEF Output
    <3>2. F \in SUBSET Subs /\ failed \in [Procs -> SUBSET Subs]
      BY DEF TypeOK
    <3> QED
      BY <3>1, <3>2
  <2> QED
    BY <1>14, <2>1 DEF Output, TypeOK
<1>15. CASE Tick
  BY <1>15 DEF Tick, TypeOK
<1>16. CASE TimerFires
  BY <1>16 DEF TimerFires, TypeOK, NoTimer
<1>17. CASE CloseMark
  BY <1>17 DEF CloseMark, TypeOK
<1>18. CASE StopControlLease
  <2>1. LeaseTyped'
    BY <1>18, ClearLeaseTyped DEF StopControlLease
  <2> QED
    BY <1>18, <2>1 DEF StopControlLease, TypeOK, LeaseTyped
<1>19. CASE CloseSubscribers
  BY <1>19 DEF CloseSubscribers, TypeOK
<1>20. CASE UNCHANGED vars
  BY <1>20 DEF vars, TypeOK
<1> QED
  BY <1>1, <1>2, <1>3, <1>4, <1>5, <1>6, <1>7, <1>8, <1>9, <1>10, <1>11, <1>12,
     <1>13, <1>14, <1>15, <1>16, <1>17, <1>18, <1>19, <1>20
  DEF Next, Serve, Follow, Close

\* Every variable keeps its type, for any number of subscribers, any lease
\* duration and any bounds (the state of Channel in channel.go).
THEOREM TypeCorrect == Spec => []TypeOK
<1>1. Init => TypeOK
  BY TypeOKInit
<1>2. TypeOK /\ [Next]_vars => TypeOK'
  BY TypeOKStep
<1> QED
  BY <1>1, <1>2, PTL DEF Spec

(***************************************************************************)
(* The inductive invariant.                                                *)
(***************************************************************************)

\* What is known after a lease was set at time t, or cleared.
LEMMA SetLeaseKeeps ==
    ASSUME LeaseInv, NEW s \in Subs, NEW id, NEW t \in Nat, t =< clock, ~Closed,
           SetLease(s, id, t), UNCHANGED <<clock, closing, firing>>,
           now' \in [Subs -> Nat], \A u \in Subs : now'[u] =< clock
    PROVE  LeaseHasTimer' /\ NoLeaseAfterStop' /\ TimesAgree'
<1> USE ConstantsAssumption DEF LeaseInv, TypeOK, SetLease, ArmTimer, Until
<1>1. LeaseHasTimer'
  BY DEF LeaseHasTimer
<1>2. NoLeaseAfterStop'
  BY DEF NoLeaseAfterStop, Closed
<1>3. TimesAgree'
  BY DEF TimesAgree
<1> QED
  BY <1>1, <1>2, <1>3

\* What is known after clearControlLeaseLocked: there is no owner.
LEMMA ClearLeaseKeeps ==
    ASSUME LeaseInv, ClearLease, clock' = clock, firing' \subseteq firing,
           \A u \in Subs : now'[u] =< clock
    PROVE  LeaseHasTimer' /\ NoLeaseAfterStop' /\ TimesAgree'
  BY DEF LeaseInv, TypeOK, ClearLease, LeaseHasTimer, NoLeaseAfterStop, TimesAgree,
         NoTimer

\* Steps that leave the lease alone.
LEMMA OtherStepsKeep ==
    ASSUME LeaseInv, UNCHANGED <<clock, leaseVars, firing>>,
           closing' = closing \/ (closing = "open" /\ closing' = "marked")
                              \/ (closing = "released" /\ closing' = "done"),
           \A u \in Subs : now'[u] =< clock
    PROVE  LeaseHasTimer' /\ NoLeaseAfterStop' /\ TimesAgree'
  BY DEF LeaseInv, TypeOK, LeaseHasTimer, NoLeaseAfterStop, TimesAgree

\* The times the handlers read lie in the past.
LEMMA NoTimesChange == LeaseInv => \A u \in Subs : now[u] =< clock
  BY DEF LeaseInv, TimesAgree

\* The handlers forget the time they read.
LEMMA ReturnKeepsTimes ==
    ASSUME LeaseInv, NEW s \in Subs, Return(s)
    PROVE  now' \in [Subs -> Nat] /\ \A u \in Subs : now'[u] =< clock
  BY DEF LeaseInv, TypeOK, TimesAgree, Return

\* The invariant holds of a new channel.
LEMMA LeaseInvInit == Init => LeaseInv
<1> SUFFICES ASSUME Init PROVE LeaseInv
  OBVIOUS
<1>1. TypeOK
  BY TypeOKInit
<1>2. LeaseHasTimer /\ NoLeaseAfterStop /\ WriterHoldsLease
  BY DEF Init, LeaseHasTimer, NoLeaseAfterStop, WriterHoldsLease
<1>3. TimesAgree /\ ReleasedAreGone
  BY DEF Init, TimesAgree, ReleasedAreGone, NoTimer
<1> QED
  BY <1>1, <1>2, <1>3 DEF LeaseInv

\* Every step of a handler, a timer, a broadcast or closeInternal keeps the
\* invariant of the lease.
LEMMA LeaseInvStep == LeaseInv /\ [Next]_vars => LeaseInv'
<1> SUFFICES ASSUME LeaseInv, [Next]_vars PROVE LeaseInv'
  OBVIOUS
<1> DEFINE Lease == LeaseHasTimer /\ NoLeaseAfterStop /\ TimesAgree
           Goal  == Lease' /\ ReleasedAreGone' /\ WriterHoldsLease'
<1>0. TypeOK' /\ TypeOK
  BY TypeOKStep DEF LeaseInv
<1>a. /\ \A u \in Subs : now[u] =< clock
      /\ ReleasedAreGone /\ WriterHoldsLease
  BY NoTimesChange DEF LeaseInv
<1>1. ASSUME NEW s \in Subs, Join(s) PROVE Goal
  BY <1>1, <1>a, OtherStepsKeep DEF Join, ReleasedAreGone, WriterHoldsLease
<1>2. ASSUME NEW s \in Subs, Read(s) PROVE Goal
  <2>1. \A u \in Subs : now'[u] =< clock
    BY <1>0, <1>2, <1>a, ConstantsAssumption DEF Read, TypeOK
  <2> QED
    BY <1>2, <1>a, <2>1, OtherStepsKeep DEF Read, ReleasedAreGone, WriterHoldsLease
<1>3. ASSUME NEW s \in Subs, ReadFails(s) PROVE Goal
  BY <1>3, <1>a, OtherStepsKeep DEF ReadFails, ReleasedAreGone, WriterHoldsLease
<1>4. ASSUME NEW s \in Subs, Acquire(s) PROVE Goal
  <2>1. now[s] \in Nat /\ now[s] =< clock
    BY <1>0, <1>a DEF TypeOK
  <2>2. now' \in [Subs -> Nat] /\ \A u \in Subs : now'[u] =< clock
    BY <1>4, ReturnKeepsTimes DEF Acquire
  <2>3. Lease'
    <3>1. CASE FreeFor(s) /\ SetLease(s, epoch + 1, now[s])
      BY <1>4, <2>1, <2>2, <3>1, SetLeaseKeeps DEF Acquire, FreeFor
    <3>2. CASE UNCHANGED leaseVars
      BY <1>4, <2>2, <3>2, OtherStepsKeep DEF Acquire
    <3> QED
      BY <1>4, <3>1, <3>2 DEF Acquire
  <2>4. ReleasedAreGone' /\ WriterHoldsLease'
    BY <1>4, <1>a DEF Acquire, AnswerHeld, Reply, Unlocked, ReleasedAreGone,
                      WriterHoldsLease
  <2> QED
    BY <2>3, <2>4
<1>5. ASSUME NEW s \in Subs, Renew(s) PROVE Goal
  <2>1. now[s] \in Nat /\ now[s] =< clock
    BY <1>0, <1>a DEF TypeOK
  <2>2. now' \in [Subs -> Nat] /\ \A u \in Subs : now'[u] =< clock
    BY <1>5, ReturnKeepsTimes DEF Renew
  <2>3. Lease'
    <3>1. CASE ~Closed /\ SetLease(s, leaseID, now[s])
      BY <1>5, <2>1, <2>2, <3>1, SetLeaseKeeps DEF Renew
    <3>2. CASE UNCHANGED leaseVars
      BY <1>5, <2>2, <3>2, OtherStepsKeep DEF Renew
    <3> QED
      BY <1>5, <3>1, <3>2 DEF Renew
  <2>4. ReleasedAreGone' /\ WriterHoldsLease'
    BY <1>5, <1>a DEF Renew, Reply, Unlocked, ReleasedAreGone, WriterHoldsLease
  <2> QED
    BY <2>3, <2>4
<1>6. ASSUME NEW s \in Subs, Release(s) PROVE Goal
  <2>1. \A u \in Subs : now'[u] =< clock
    BY <1>6, ReturnKeepsTimes DEF Release
  <2>2. Lease'
    BY <1>6, <2>1, ClearLeaseKeeps, OtherStepsKeep DEF Release
  <2>3. ReleasedAreGone' /\ WriterHoldsLease'
    BY <1>6, <1>a DEF Release, Reply, Unlocked, ReleasedAreGone, WriterHoldsLease
  <2> QED
    BY <2>2, <2>3
<1>7. ASSUME NEW s \in Subs, Input(s) PROVE Goal
  <2>1. Lease'
    BY <1>7, <1>a, ClearLeaseKeeps, OtherStepsKeep DEF Input
  <2>2. ReleasedAreGone'
    BY <1>7, <1>a DEF Input, ReleasedAreGone
  <2>3. WriterHoldsLease'
    BY <1>7, <1>a DEF Input, WriterHoldsLease, Unlocked
  <2> QED
    BY <2>1, <2>2, <2>3
<1>8. ASSUME NEW s \in Subs, InputWritten(s) PROVE Goal
  BY <1>8, <1>a, OtherStepsKeep DEF InputWritten, ReleasedAreGone, WriterHoldsLease
<1>9. ASSUME NEW s \in Subs, Refuse(s) PROVE Goal
  BY <1>9, <1>a, OtherStepsKeep DEF Refuse, Reply, ReleasedAreGone, WriterHoldsLease
<1>10. ASSUME NEW p \in Procs, Deliver(p) PROVE Goal
  BY <1>10, <1>a, OtherStepsKeep DEF Deliver, ReleasedAreGone, WriterHoldsLease
<1>11. ASSUME NEW p \in Procs, Remove(p) PROVE Goal
  <2>1. PICK s \in failed[p] : Remove(p)!2!(s)
    BY <1>11 DEF Remove
  <2>2. ReleasedAreGone'
    BY <1>0, <1>11, <1>a, <2>1 DEF Remove, ReleasedAreGone, TypeOK
  <2> QED
    BY <1>11, <1>a, <2>2, OtherStepsKeep DEF Remove, WriterHoldsLease
<1>12. ASSUME NEW p \in Procs, ReleaseFor(p) PROVE Goal
  <2>1. Lease'
    BY <1>12, <1>a, ClearLeaseKeeps, OtherStepsKeep DEF ReleaseFor
  <2>2. ReleasedAreGone' /\ WriterHoldsLease'
    BY <1>0, <1>12, <1>a DEF ReleaseFor, ReleasedAreGone, WriterHoldsLease, Unlocked,
                             TypeOK
  <2> QED
    BY <2>1, <2>2
<1>13. ASSUME NEW e \in Epochs, Expire(e) PROVE Goal
  <2>1. Lease'
    <3>1. CASE Ends(e)
      BY <1>13, <1>a, <3>1, ClearLeaseKeeps DEF Expire
    <3>2. CASE ~Ends(e)
      BY <1>13, <3>2 DEF Expire, Ends, LeaseInv, LeaseHasTimer, NoLeaseAfterStop,
                         TimesAgree
    <3> QED
      BY <3>1, <3>2
  <2>2. ReleasedAreGone' /\ WriterHoldsLease'
    BY <1>13, <1>a DEF Expire, ReleasedAreGone, WriterHoldsLease, Unlocked
  <2> QED
    BY <2>1, <2>2
<1>14. ASSUME Output PROVE Goal
  BY <1>14, <1>a, OtherStepsKeep DEF Output, ReleasedAreGone, WriterHoldsLease
<1>15. ASSUME Tick PROVE Goal
  <2>1. LeaseHasTimer' /\ NoLeaseAfterStop'
    BY <1>15 DEF Tick, LeaseInv, LeaseHasTimer, NoLeaseAfterStop
  <2>2. TimesAgree'
    BY <1>0, <1>15, ConstantsAssumption DEF Tick, LeaseInv, TimesAgree, TypeOK
  <2> QED
    BY <1>15, <1>a, <2>1, <2>2 DEF Tick, ReleasedAreGone, WriterHoldsLease
<1>16. ASSUME TimerFires PROVE Goal
  <2>1. LeaseHasTimer' /\ NoLeaseAfterStop'
    BY <1>16 DEF TimerFires, LeaseInv, LeaseHasTimer, NoLeaseAfterStop
  <2>2. TimesAgree'
    BY <1>0, <1>16, ConstantsAssumption
    DEF TimerFires, LeaseInv, TimesAgree, TypeOK, NoTimer
  <2> QED
    BY <1>16, <1>a, <2>1, <2>2 DEF TimerFires, ReleasedAreGone, WriterHoldsLease
<1>17. ASSUME CloseMark PROVE Goal
  BY <1>17, <1>a, OtherStepsKeep DEF CloseMark, ReleasedAreGone, WriterHoldsLease
<1>18. ASSUME StopControlLease PROVE Goal
  BY <1>18, <1>a, ClearLeaseKeeps DEF StopControlLease, ReleasedAreGone,
                                      WriterHoldsLease, Unlocked
<1>19. ASSUME CloseSubscribers PROVE Goal
  BY <1>19, <1>a, OtherStepsKeep DEF CloseSubscribers, ReleasedAreGone, WriterHoldsLease
<1>20. ASSUME UNCHANGED vars PROVE Goal
  BY <1>20, <1>a, OtherStepsKeep DEF vars, ReleasedAreGone, WriterHoldsLease
<1>21. Goal
  BY <1>1, <1>2, <1>3, <1>4, <1>5, <1>6, <1>7, <1>8, <1>9, <1>10, <1>11, <1>12,
     <1>13, <1>14, <1>15, <1>16, <1>17, <1>18, <1>19, <1>20
  DEF Next, Serve, Follow, Close
<1> QED
  BY <1>0, <1>21 DEF LeaseInv

\* In every reachable state the invariant holds that every critical section of
\* controlMu relies on (control_lease.go).
THEOREM LeaseInvariant == Spec => []LeaseInv
<1>1. Init => LeaseInv
  BY LeaseInvInit
<1>2. LeaseInv /\ [Next]_vars => LeaseInv'
  BY LeaseInvStep
<1> QED
  BY <1>1, <1>2, PTL DEF Spec

\* A lease that is held always has its own timer, armed or already running,
\* though setControlLeaseLocked and clearControlLeaseLocked stop timers that may
\* have fired.
THEOREM LeaseIsTimed == Spec => []LeaseHasTimer
<1>1. LeaseInv => LeaseHasTimer
  BY DEF LeaseInv
<1> QED
  BY <1>1, LeaseInvariant, PTL

\* After stopControlLease in closeInternal nobody becomes the controller again,
\* whatever acquire or renew was waiting for controlMu.
THEOREM StopIsFinal == Spec => []NoLeaseAfterStop
<1>1. LeaseInv => NoLeaseAfterStop
  BY DEF LeaseInv
<1> QED
  BY <1>1, LeaseInvariant, PTL

(***************************************************************************)
(* A lease is taken only when it is due.                                   *)
(***************************************************************************)

\* The owner changes by no other step of control_lease.go than those named.
LEMMA TakenOnlyWhenDueStep ==
    ASSUME LeaseInv, Next, NEW o \in Subs, owner = o, owner' # o
    PROVE  clock >= expiresAt \/ pc[o] = "release" \/ o \in gone \/ Closed
<1>0. /\ TypeOK /\ TimesAgree /\ ReleasedAreGone
      /\ o # Nobody
  BY ConstantsAssumption DEF LeaseInv
<1>1. ASSUME NEW s \in Subs, Acquire(s) PROVE clock >= expiresAt
  <2>1. owner # Nobody /\ ~HeldAt(now[s])
    BY <1>0, <1>1 DEF Acquire, FreeFor
  <2>2. now[s] >= expiresAt /\ now[s] =< clock /\ now[s] \in Nat
    BY <1>0, <2>1 DEF HeldAt, TypeOK, TimesAgree
  <2> QED
    BY <1>0, <2>2 DEF TypeOK
<1>2. ASSUME NEW s \in Subs, Renew(s) PROVE FALSE
  BY <1>2 DEF Renew, SetLease
<1>3. ASSUME NEW s \in Subs, Release(s) PROVE pc[o] = "release"
  BY <1>3 DEF Release
<1>4. ASSUME NEW s \in Subs, Input(s) PROVE clock >= expiresAt
  BY <1>4 DEF Input
<1>5. ASSUME NEW e \in Epochs, Expire(e) PROVE clock >= expiresAt
  BY <1>0, <1>5 DEF Expire, Ends, TimesAgree
<1>6. ASSUME NEW p \in Procs, ReleaseFor(p) PROVE o \in gone
  BY <1>0, <1>6 DEF ReleaseFor, ReleasedAreGone
<1>7. ASSUME StopControlLease PROVE Closed
  BY <1>7 DEF StopControlLease, Closed
<1>8. ASSUME NEW s \in Subs, Join(s) \/ Read(s) \/ ReadFails(s) \/ InputWritten(s) \/ Refuse(s)
      PROVE  FALSE
  BY <1>8 DEF Join, Read, ReadFails, InputWritten, Refuse
<1>9. ASSUME NEW p \in Procs, Deliver(p) \/ Remove(p) PROVE FALSE
  BY <1>9 DEF Deliver, Remove
<1>10. ASSUME Output \/ Tick \/ TimerFires \/ CloseMark \/ CloseSubscribers PROVE FALSE
  BY <1>10 DEF Output, Tick, TimerFires, CloseMark, CloseSubscribers
<1> QED
  BY <1>1, <1>2, <1>3, <1>4, <1>5, <1>6, <1>7, <1>8, <1>9, <1>10
  DEF Next, Serve, Follow, Close

\* The lease leaves its owner only by time, by the owner's own release, because
\* the owner's connection was closed, or with the channel: in particular the
\* epoch test in expireControlLease holds off every timer of an older lease.
THEOREM TakenOnlyWhenDue == Spec => LeaseTakenOnlyWhenDue
<1> DEFINE Due == \A s \in Subs : owner = s /\ owner' # s =>
                    clock >= expiresAt \/ pc[s] = "release" \/ s \in gone \/ Closed
<1>1. LeaseInv /\ [Next]_vars => [Due]_vars
  BY TakenOnlyWhenDueStep
<1>2. Spec => []LeaseInv
  BY LeaseInvariant
<1> QED
  BY <1>1, <1>2, PTL DEF Spec, LeaseTakenOnlyWhenDue

(***************************************************************************)
(* The lease implements SingleWriter.                                      *)
(***************************************************************************)

\* A new channel has no controller.
LEMMA RefinesInit == Init => Abstract!Init
  BY DEF Init, Abstract!Init, Holder

\* A step that changes neither the writer nor anything the holder depends on.
LEMMA SameHolder ==
    ASSUME UNCHANGED <<owner, expiresAt, clock, writing, writer>>
    PROVE  UNCHANGED <<Holder, writer>>
  BY DEF Holder

\* Clearing the lease is losing control, or nothing.
LEMMA ClearIsLose ==
    ASSUME ClearLease, UNCHANGED writer
    PROVE  Abstract!Lose \/ UNCHANGED <<Holder, writer>>
  BY DEF ClearLease, Holder, Abstract!Lose

\* Every step of the lease takes, loses or uses control, or changes nothing
\* that SingleWriter sees.
LEMMA RefinesStep ==
    LeaseInv /\ [Next]_vars => [Abstract!Next]_<<Holder, writer>>
<1> SUFFICES ASSUME LeaseInv, [Next]_vars
             PROVE  Abstract!Next \/ UNCHANGED <<Holder, writer>>
  OBVIOUS
<1> DEFINE Goal == Abstract!Next \/ UNCHANGED <<Holder, writer>>
<1>0. /\ TypeOK /\ TimesAgree /\ WriterHoldsLease
      /\ Nobody \notin Subs /\ Duration \in Nat
  BY ConstantsAssumption DEF LeaseInv
<1>1. ASSUME NEW s \in Subs, Acquire(s) PROVE Goal
  <2>1. CASE FreeFor(s) /\ SetLease(s, epoch + 1, now[s])
    <3>1. Holder = Nobody
      <4>1. owner # Nobody => clock >= expiresAt
        BY <1>0, <2>1 DEF FreeFor, HeldAt, TypeOK, TimesAgree
      <4> QED
        BY <1>0, <1>1, <4>1 DEF Acquire, Unlocked, Holder, TypeOK
    <3>2. Holder' \in {s, Nobody} /\ writer' = writer
      BY <1>1, <2>1 DEF Acquire, SetLease, Holder
    <3> QED
      BY <3>1, <3>2 DEF Abstract!Next, Abstract!Take
  <2>2. CASE UNCHANGED leaseVars
    BY <1>1, <2>2, SameHolder DEF Acquire
  <2> QED
    BY <1>1, <2>1, <2>2 DEF Acquire
<1>2. ASSUME NEW s \in Subs, Renew(s) PROVE Goal
  <2>1. CASE owner = s /\ SetLease(s, leaseID, now[s])
    <3>1. Holder \in {s, Nobody} /\ Holder' \in {s, Nobody} /\ writer' = writer
      BY <1>2, <2>1 DEF Renew, SetLease, Holder
    <3> QED
      BY <3>1 DEF Abstract!Next, Abstract!Take, Abstract!Lose
  <2>2. CASE UNCHANGED leaseVars
    BY <1>2, <2>2, SameHolder DEF Renew
  <2> QED
    BY <1>2, <2>1, <2>2 DEF Renew
<1>3. ASSUME NEW s \in Subs, Release(s) PROVE Goal
  BY <1>3, SameHolder, ClearIsLose DEF Release, Abstract!Next
<1>4. ASSUME NEW s \in Subs, Input(s) PROVE Goal
  <2>1. CASE owner = s /\ clock < expiresAt /\ writing' = s /\ UNCHANGED leaseVars
    BY <1>4, <2>1 DEF Input, Holder
  <2>2. CASE ClearLease
    BY <1>4, <2>2, ClearIsLose DEF Input, Abstract!Next
  <2>3. CASE UNCHANGED <<writing, leaseVars>>
    BY <1>4, <2>3, SameHolder DEF Input
  <2> QED
    BY <1>4, <2>1, <2>2, <2>3 DEF Input
<1>5. ASSUME NEW s \in Subs, InputWritten(s) PROVE Goal
  <2>1. Holder = s /\ s # Nobody
    BY <1>0, <1>5 DEF InputWritten, WriterHoldsLease, Holder
  <2>2. Holder' \in {s, Nobody} /\ writer' \in {s, writer}
    BY <1>0, <1>5, <2>1 DEF InputWritten, WriterHoldsLease, Holder
  <2> QED
    BY <2>1, <2>2 DEF Abstract!Next, Abstract!Write, Abstract!Lose
<1>6. ASSUME NEW e \in Epochs, Expire(e) PROVE Goal
  BY <1>6, SameHolder, ClearIsLose DEF Expire, Abstract!Next
<1>7. ASSUME NEW p \in Procs, ReleaseFor(p) PROVE Goal
  BY <1>7, SameHolder, ClearIsLose DEF ReleaseFor, Abstract!Next
<1>8. ASSUME StopControlLease PROVE Goal
  BY <1>8, ClearIsLose DEF StopControlLease, Abstract!Next
<1>9. ASSUME Tick PROVE Goal
  <2>1. Holder' \in {Holder, Nobody} /\ writer' = writer
    BY <1>0, <1>9 DEF Tick, Holder, TypeOK
  <2> QED
    BY <2>1 DEF Abstract!Next, Abstract!Lose
<1>10. ASSUME NEW s \in Subs, Join(s) \/ Read(s) \/ ReadFails(s) \/ Refuse(s) PROVE Goal
  BY <1>10, SameHolder DEF Join, Read, ReadFails, Refuse
<1>11. ASSUME NEW p \in Procs, Deliver(p) \/ Remove(p) PROVE Goal
  BY <1>11, SameHolder DEF Deliver, Remove
<1>12. ASSUME Output \/ TimerFires \/ CloseMark \/ CloseSubscribers PROVE Goal
  BY <1>12, SameHolder DEF Output, TimerFires, CloseMark, CloseSubscribers
<1>13. ASSUME UNCHANGED vars PROVE Goal
  BY <1>13, SameHolder DEF vars
<1> QED
  BY <1>1, <1>2, <1>3, <1>4, <1>5, <1>6, <1>7, <1>8, <1>9, <1>10, <1>11, <1>12, <1>13
  DEF Next, Serve, Follow, Close

\* writeToPublisherWithControlLease writes with controlMu held, so that control
\* passes from one client to another only between two writes and through a
\* moment in which nobody has it: the lease implements SingleWriter.
THEOREM LeaseImplementsSingleWriter == Spec => ImplementsSingleWriter
<1>1. Init => Abstract!Init
  BY RefinesInit
<1>2. LeaseInv /\ [Next]_vars => [Abstract!Next]_<<Holder, writer>>
  BY RefinesStep
<1>3. Spec => []LeaseInv
  BY LeaseInvariant
<1> QED
  BY <1>1, <1>2, <1>3, PTL DEF Spec, ImplementsSingleWriter, Abstract!Spec

(***************************************************************************)
(* Lease ids.  One is drawn with each lease and goes to its owner only: it *)
(* is in the lease, in an answer under way, or with the client.            *)
(***************************************************************************)
Granted(s, x) ==
    \/ view[s] = x
    \/ owner = s /\ leaseID = x
    \/ \E p \in Procs : s \in todo[p] /\ msg[p] = Status("granted", x)

IdsArePrivate ==
    \A s \in Subs, x \in Nat \ {0} :
        Granted(s, x) => x =< epoch /\ \A t \in Subs : Granted(t, x) => t = s

\* A subscriber comes to have an id only with a new lease of its own.
OnlyByLease ==
    \A s \in Subs, x \in Nat \ {0} :
        Granted(s, x)' => \/ Granted(s, x)
                          \/ x = epoch + 1 /\ epoch' = epoch + 1 /\ owner' = s

\* A step that grants nothing and sends nothing.
LEMMA SameGrants ==
    ASSUME owner' = Nobody \/ UNCHANGED <<owner, leaseID>>, UNCHANGED <<msg, todo, view>>
    PROVE  OnlyByLease
  BY ConstantsAssumption DEF OnlyByLease, Granted

\* A goroutine that sends to one subscriber what that one may know.
LEMMA ReplyGrants ==
    ASSUME TypeOK, NEW p \in Procs, NEW s \in Subs, NEW st \in Statuses, NEW id \in Nat,
           Reply(p, s, st, id), UNCHANGED view,
           UNCHANGED <<owner, leaseID>> \/ (owner' = s /\ leaseID' = id),
           st = "granted" => (owner = s /\ leaseID = id) \/ (id = epoch + 1 /\ epoch' = epoch + 1 /\ owner' = s),
           st # "granted" => UNCHANGED <<owner, leaseID>>
    PROVE  OnlyByLease
  BY DEF TypeOK, OnlyByLease, Granted, Reply, Status

\* A broadcast tells no id.
LEMMA AnnounceGrants ==
    ASSUME TypeOK, NEW p \in Procs, NEW st \in Statuses \ {"granted"}, Announce(p, st), UNCHANGED view,
           ClearLease
    PROVE  OnlyByLease
  BY ConstantsAssumption DEF TypeOK, OnlyByLease, Granted, Announce, Status, ClearLease

\* Every step keeps lease ids with the client they were drawn for: one case per action.
LEMMA GrantsStep == ASSUME LeaseInv, [Next]_vars PROVE OnlyByLease
<1>0. TypeOK
  BY DEF LeaseInv
<1>1. Subs \subseteq Procs /\ Epochs \subseteq Procs
  BY DEF Procs
<1>2. leaseID \in Nat /\ epoch + 1 \in Nat /\ 0 \in Nat
  BY <1>0 DEF TypeOK
<1>3. /\ "granted" \in Statuses /\ {"busy", "required", "released", "expired"} \subseteq Statuses \ {"granted"}
  BY DEF Statuses
<1>4. ASSUME NEW s \in Subs, Acquire(s) PROVE OnlyByLease
  <2>1. UNCHANGED view
    BY <1>4 DEF Acquire
  <2>2. CASE UNCHANGED <<leaseVars, goVars>>
    BY <2>1, <2>2, SameGrants
  <2>3. CASE AnswerHeld(s) /\ UNCHANGED leaseVars
    <3>1. CASE owner = s /\ Reply(s, s, "granted", leaseID)
      BY <1>0, <1>1, <1>2, <1>3, <2>1, <2>3, <3>1, ReplyGrants
    <3>2. CASE Reply(s, s, "busy", 0)
      BY <1>0, <1>1, <1>2, <1>3, <2>1, <2>3, <3>2, ReplyGrants
    <3> QED
      BY <2>3, <3>1, <3>2 DEF AnswerHeld
  <2>4. CASE SetLease(s, epoch + 1, now[s]) /\ Reply(s, s, "granted", epoch + 1)
    <3>1. owner' = s /\ leaseID' = epoch + 1 /\ epoch' = epoch + 1
      BY <2>4 DEF SetLease
    <3> QED
      BY <1>0, <1>1, <1>2, <1>3, <2>1, <2>4, <3>1, ReplyGrants
  <2> QED
    BY <1>4, <2>2, <2>3, <2>4 DEF Acquire
<1>5. ASSUME NEW s \in Subs, Renew(s) PROVE OnlyByLease
  <2>1. CASE owner = s /\ SetLease(s, leaseID, now[s]) /\ Reply(s, s, "granted", leaseID)
    <3>1. UNCHANGED <<owner, leaseID, view>>
      BY <1>5, <2>1 DEF Renew, SetLease
    <3> QED
      BY <1>0, <1>1, <1>2, <1>3, <2>1, <3>1, ReplyGrants
  <2>2. CASE Reply(s, s, "required", 0) /\ UNCHANGED leaseVars
    BY <1>0, <1>1, <1>2, <1>3, <1>5, <2>2, ReplyGrants DEF Renew
  <2> QED
    BY <1>5, <2>1, <2>2 DEF Renew
<1>6. ASSUME NEW s \in Subs, Release(s) PROVE OnlyByLease
  <2>1. CASE ClearLease /\ Announce(s, "released")
    BY <1>0, <1>1, <1>3, <1>6, <2>1, AnnounceGrants DEF Release
  <2>2. CASE Reply(s, s, "required", 0) /\ UNCHANGED leaseVars
    BY <1>0, <1>1, <1>2, <1>3, <1>6, <2>2, ReplyGrants DEF Release
  <2> QED
    BY <1>6, <2>1, <2>2 DEF Release
<1>7. ASSUME NEW s \in Subs, Input(s) PROVE OnlyByLease
  <2>1. CASE ClearLease /\ Announce(s, "expired")
    BY <1>0, <1>1, <1>3, <1>7, <2>1, AnnounceGrants DEF Input
  <2>2. CASE UNCHANGED <<leaseVars, goVars>>
    BY <1>7, <2>2, SameGrants DEF Input
  <2> QED
    BY <1>7, <2>1, <2>2 DEF Input
<1>8. ASSUME NEW s \in Subs, Refuse(s) PROVE OnlyByLease
  BY <1>0, <1>1, <1>2, <1>3, <1>8, ReplyGrants DEF Refuse
<1>9. ASSUME NEW e \in Epochs, Expire(e) PROVE OnlyByLease
  <2>1. CASE ClearLease /\ Announce(e, "expired")
    BY <1>0, <1>1, <1>3, <1>9, <2>1, AnnounceGrants DEF Expire
  <2>2. CASE (ClearLease \/ UNCHANGED leaseVars) /\ UNCHANGED goVars
    BY <1>9, <2>2, SameGrants DEF Expire, ClearLease
  <2> QED
    BY <1>9, <2>1, <2>2 DEF Expire
<1>10. ASSUME NEW p \in Procs, ReleaseFor(p) PROVE OnlyByLease
  <2>1. CASE ClearLease /\ Announce(p, "released")
    BY <1>0, <1>1, <1>3, <1>10, <2>1, AnnounceGrants DEF ReleaseFor
  <2>2. CASE UNCHANGED <<leaseVars, msg, todo, failed>>
    BY <1>10, <2>2, SameGrants DEF ReleaseFor
  <2> QED
    BY <1>10, <2>1, <2>2 DEF ReleaseFor
<1>11. ASSUME NEW p \in Procs, Deliver(p) PROVE OnlyByLease
  <2>1. PICK s \in todo[p] :
          /\ todo' = [todo EXCEPT ![p] = @ \ {s}]
          /\ msg' = IF todo[p] = {s} THEN [msg EXCEPT ![p] = Quiet] ELSE msg
          /\ Believe(s, msg[p]) \/ UNCHANGED view
    BY <1>11 DEF Deliver
  <2>2. UNCHANGED leaseVars
    BY <1>11 DEF Deliver
  <2>3. ASSUME NEW t \in Subs, NEW q \in Procs, NEW x \in Nat, t \in todo'[q], msg'[q] = Status("granted", x)
        PROVE  t \in todo[q] /\ msg[q] = Status("granted", x)
    BY <1>0, <2>1, <2>3 DEF TypeOK, Quiet, Status
  <2>4. ASSUME NEW t \in Subs, NEW x \in Nat \ {0}, view'[t] = x
        PROVE  view[t] = x \/ (t \in todo[p] /\ msg[p] = Status("granted", x))
    BY <1>0, <2>1, <2>4 DEF TypeOK, Believe, Status
  <2> QED
    BY <2>2, <2>3, <2>4 DEF OnlyByLease, Granted
<1>12. ASSUME NEW s \in Subs, Join(s) \/ Read(s) \/ ReadFails(s) \/ InputWritten(s) PROVE OnlyByLease
  BY <1>12, SameGrants DEF Join, Read, ReadFails, InputWritten
<1>13. ASSUME NEW p \in Procs, Remove(p) PROVE OnlyByLease
  BY <1>13, SameGrants DEF Remove
<1>14. ASSUME Output \/ Tick \/ TimerFires \/ Close \/ UNCHANGED vars PROVE OnlyByLease
  BY <1>14, SameGrants DEF Output, Tick, TimerFires, Close, CloseMark, StopControlLease, CloseSubscribers, ClearLease, vars
<1> QED
  BY <1>4, <1>5, <1>6, <1>7, <1>8, <1>9, <1>10, <1>11, <1>12, <1>13, <1>14 DEF Next, Serve, Follow

\* Epochs only grow, so that the id of a new lease was never given before.
LEMMA EpochGrows == ASSUME TypeOK, [Next]_vars PROVE epoch' \in Nat /\ epoch =< epoch'
<1>1. epoch' \in {epoch, epoch + 1}
  <2>1. ASSUME NEW s \in Subs, Join(s) \/ Read(s) \/ ReadFails(s) \/ Serve(s) PROVE epoch' \in {epoch, epoch + 1}
    BY <2>1 DEF Join, Read, ReadFails, Serve, Acquire, Renew, Release, Input, InputWritten, Refuse, SetLease, ClearLease
  <2>2. ASSUME NEW p \in Procs, Follow(p) PROVE epoch' \in {epoch, epoch + 1}
    BY <2>2 DEF Follow, Deliver, Remove, ReleaseFor, ClearLease
  <2>3. ASSUME NEW e \in Epochs, Expire(e) PROVE epoch' \in {epoch, epoch + 1}
    BY <2>3 DEF Expire, ClearLease
  <2>4. CASE Output \/ Tick \/ TimerFires \/ Close \/ UNCHANGED vars
    BY <2>4 DEF Output, Tick, TimerFires, Close, CloseMark, StopControlLease, CloseSubscribers, ClearLease, vars
  <2> QED
    BY <2>1, <2>2, <2>3, <2>4 DEF Next
<1> QED
  BY <1>1 DEF TypeOK

\* No two clients believe that they hold a lease of the same id: a release or
\* a renewal that is late names a lease of its sender's, or none.
THEOREM LeaseIdsArePrivate == Spec => []LeaseIdPrivate
<1>1. Init => IdsArePrivate
  BY ConstantsAssumption DEF Init, IdsArePrivate, Granted
<1>2. LeaseInv /\ IdsArePrivate /\ [Next]_vars => IdsArePrivate'
  <2>1. SUFFICES ASSUME LeaseInv, IdsArePrivate, [Next]_vars,
                        NEW s \in Subs, NEW x \in Nat \ {0}, Granted(s, x)'
                 PROVE  x =< epoch' /\ \A t \in Subs : Granted(t, x)' => t = s
    BY DEF IdsArePrivate
  <2>2. TypeOK /\ epoch \in Nat
    BY <2>1 DEF LeaseInv, TypeOK
  <2>3. \A t \in Subs : Granted(t, x)' => Granted(t, x) \/ (x = epoch + 1 /\ epoch' = epoch + 1 /\ owner' = t)
    BY <2>1, GrantsStep DEF OnlyByLease
  <2>4. \A t \in Subs : Granted(t, x) => x =< epoch /\ \A u \in Subs : Granted(u, x) => u = t
    BY <2>1 DEF IdsArePrivate
  <2>5. epoch' \in Nat /\ epoch =< epoch'
    BY <2>1, <2>2, EpochGrows
  <2> HIDE DEF Granted
  <2> QED
    BY <2>1, <2>2, <2>3, <2>4, <2>5
<1>3. LeaseInv /\ IdsArePrivate => LeaseIdPrivate
  BY DEF LeaseInv, TypeOK, IdsArePrivate, Granted, LeaseIdPrivate
<1> QED
  BY <1>1, <1>2, <1>3, LeaseInvariant, PTL DEF Spec
=============================================================================
