---------------------------- MODULE ControlLease ----------------------------
(***************************************************************************)
(* The control lease of one relay channel.                                 *)
(*                                                                         *)
(* A terminal may be watched by several subscribers; the lease says which  *)
(* one may send input, resizes and ACP commands to the runner.  Every      *)
(* subscriber has a goroutine that reads its requests; a lease has an      *)
(* AfterFunc timer that runs on a goroutine of its own; the goroutine that *)
(* forwards the runner's output removes a subscriber it cannot write to;   *)
(* and the channel may be closed at any time.  Each critical section of    *)
(* controlMu or subscribersMu is one atomic step, and the steps of         *)
(* different goroutines interleave.                                        *)
(*                                                                         *)
(* Time is a clock.  A handler reads time.Now() before it takes controlMu, *)
(* so the time it compares with may be older than the moment it runs.      *)
(***************************************************************************)
EXTENDS Integers

CONSTANTS Subs,         \* subscriber ids (fresh uuids: an id joins once)
          Nobody,       \* "" as controlOwner
          Forwarder,    \* the goroutine that broadcasts the runner's output
          Duration,     \* ControlLeaseDuration, in clock ticks
          MaxTime,      \* bound: the clock stops here
          MaxRequests   \* bound: requests the clients send in total

ASSUME ConstantsAssumption ==
    /\ Nobody \notin Subs
    /\ Duration \in Nat \ {0}
    /\ MaxTime \in Nat
    /\ MaxRequests \in Nat

VARIABLES
    clock,          \* the time
    requests,       \* how many requests the clients have sent
    subscribers,    \* c.subscribers: the ids in the map
    gone,           \* ids whose connection was closed by the relay
    closing,        \* how far closeInternal has come
    owner,          \* c.controlOwner
    leaseID,        \* c.controlLeaseID, 0 for ""
    expiresAt,      \* c.controlExpiresAt, 0 for the zero time
    epoch,          \* c.controlEpoch
    timer,          \* c.controlTimer while armed: [epoch, at], NoTimer if not
    firing,         \* epochs of timers that fired and wait for controlMu
    writing,        \* who writes to the runner with controlMu held, or Nobody
    writer,         \* whose input the runner received last
    pc,             \* what each subscriber's reading goroutine does
    now,            \* the time.Now() a reading goroutine took before locking
    arg,            \* the lease id in the request it handles
    msg,            \* the status a goroutine is sending
    todo,           \* the subscribers it has yet to write it to
    failed,         \* the subscribers it could not write to (failedIDs)
    releasing,      \* a subscriber it deleted whose lease it must release
    view            \* the lease id each client believes it holds, 0 for none

leaseVars == <<owner, leaseID, expiresAt, epoch, timer>>
goVars    == <<msg, todo, failed, releasing>>
vars == <<clock, requests, subscribers, gone, closing, leaseVars, firing,
          writing, writer, pc, now, arg, goVars, view>>

-----------------------------------------------------------------------------
MaxEpoch == 2 * MaxRequests + 1      \* every request sets or clears at most once
Epochs   == 1..MaxEpoch
Procs    == Subs \cup {Forwarder} \cup Epochs   \* a timer runs as its epoch
NoTimer  == [epoch |-> 0, at |-> 0]
Closed   == closing # "open"
\* Mutant of Unlocked: nothing waits for a write that is under way.
NeverLocked == TRUE
Unlocked == writing = Nobody          \* controlMu is free

Statuses == {"granted", "busy", "required", "released", "expired"}
Quiet    == [status |-> "required", id |-> 0]
Status(st, id) == [status |-> st, id |-> id]

\* The goroutine p has nothing left to send or to clean up.
Settled(p) == todo[p] = {} /\ failed[p] = {} /\ releasing[p] = Nobody

TypeOK ==
    /\ clock \in 0..MaxTime
    /\ requests \in 0..MaxRequests
    /\ subscribers \subseteq Subs /\ gone \subseteq Subs
    /\ closing \in {"open", "marked", "released", "done"}
    /\ owner \in Subs \cup {Nobody}
    /\ leaseID \in Nat /\ epoch \in Nat /\ expiresAt \in Nat
    /\ timer \in [epoch : Nat, at : Nat]
    /\ firing \subseteq Nat
    /\ writing \in Subs \cup {Nobody} /\ writer \in Subs \cup {Nobody}
    /\ pc \in [Subs -> {"new", "read", "acquire", "renew", "release",
                        "input", "refuse", "done"}]
    /\ now \in [Subs -> Nat] /\ arg \in [Subs -> Nat]
    /\ msg \in [Procs -> [status : Statuses, id : Nat]]
    /\ todo \in [Procs -> SUBSET Subs]
    /\ failed \in [Procs -> SUBSET Subs]
    /\ releasing \in [Procs -> Subs \cup {Nobody}]
    /\ view \in [Subs -> Nat]

Init ==
    /\ clock = 0 /\ requests = 0
    /\ subscribers = {} /\ gone = {} /\ closing = "open"
    /\ owner = Nobody /\ leaseID = 0 /\ expiresAt = 0 /\ epoch = 0
    /\ timer = NoTimer /\ firing = {}
    /\ writing = Nobody /\ writer = Nobody
    /\ pc = [s \in Subs |-> "new"]
    /\ now = [s \in Subs |-> 0] /\ arg = [s \in Subs |-> 0]
    /\ msg = [p \in Procs |-> Quiet]
    /\ todo = [p \in Procs |-> {}] /\ failed = [p \in Procs |-> {}]
    /\ releasing = [p \in Procs |-> Nobody]
    /\ view = [s \in Subs |-> 0]

-----------------------------------------------------------------------------
(* The lease operations.  Every one of them runs with controlMu held.      *)

\* The lease is held, by whom and until when, as seen at time t.
HeldAt(t) == owner # Nobody /\ t < expiresAt

\* Mutants of ArmTimer: a timer that comes at once, and one that is kept when it
\* is armed.
ArmAtOnce == timer' = [epoch |-> epoch + 1, at |-> clock]
KeepTimer == timer' = IF timer # NoTimer THEN timer
                      ELSE [epoch |-> epoch + 1, at |-> clock + Duration]

Until(t)  == t + Duration
ArmTimer  == timer' = [epoch |-> epoch + 1, at |-> clock + Duration]

SetLease(s, id, t) ==
    /\ owner' = s /\ leaseID' = id /\ expiresAt' = Until(t)
    /\ epoch' = epoch + 1
    /\ ArmTimer

ClearLease ==
    /\ owner' = Nobody /\ leaseID' = 0 /\ expiresAt' = 0
    /\ epoch' = epoch + 1
    /\ timer' = NoTimer

\* sendControlStatus: p writes one status to s.
Reply(p, s, st, id) ==
    /\ msg' = [msg EXCEPT ![p] = Status(st, id)]
    /\ todo' = [todo EXCEPT ![p] = {s}]
    /\ UNCHANGED <<failed, releasing>>

\* Broadcast: p will write a status to every subscriber there is now.  (The
\* copy is taken a moment later, controlMu released; a subscriber that joins
\* in that moment is left out here, one that leaves cannot be written to.)
Announce(p, st) ==
    /\ msg' = [msg EXCEPT ![p] = Status(st, 0)]
    /\ todo' = [todo EXCEPT ![p] = subscribers]
    /\ UNCHANGED failed

Goto(s, l) == pc' = [pc EXCEPT ![s] = l]

\* The handler returns; its locals go with it.
Return(s) == /\ Goto(s, "read")
             /\ now' = [now EXCEPT ![s] = 0]
             /\ arg' = [arg EXCEPT ![s] = 0]

-----------------------------------------------------------------------------
(* A subscriber: it joins, and its goroutine reads and serves requests.    *)

Join(s) ==
    /\ pc[s] = "new"
    /\ IF Closed THEN /\ gone' = gone \cup {s}
                      /\ Goto(s, "done")
                      /\ UNCHANGED subscribers
                 ELSE /\ subscribers' = subscribers \cup {s}
                      /\ Goto(s, "read")
                      /\ UNCHANGED gone
    /\ UNCHANGED <<clock, requests, closing, leaseVars, firing, writing,
                   writer, now, arg, goVars, view>>

\* A request arrives.  The clients may name any lease id handed out so far.
\* Bounds: MaxRequests, and no request so late that its lease would outlast
\* the clock.
Read(s) ==
    /\ pc[s] = "read" /\ Settled(s) /\ s \notin gone
    /\ requests < MaxRequests /\ clock + Duration =< MaxTime
    /\ requests' = requests + 1
    /\ \/ \E l \in {"acquire", "input", "refuse"} :
            Goto(s, l) /\ arg' = [arg EXCEPT ![s] = 0]
       \/ \E l \in {"renew", "release"}, id \in 1..epoch :
            Goto(s, l) /\ arg' = [arg EXCEPT ![s] = id]
    /\ now' = [now EXCEPT ![s] = IF pc'[s] \in {"acquire", "renew"} THEN clock ELSE 0]
    /\ UNCHANGED <<clock, subscribers, gone, closing, leaseVars, firing,
                   writing, writer, goVars, view>>

\* The connection ends: the goroutine removes its subscriber and returns.
ReadFails(s) ==
    /\ pc[s] = "read" /\ Settled(s)
    /\ Goto(s, "done")
    /\ failed' = [failed EXCEPT ![s] = {s}]
    /\ UNCHANGED <<clock, requests, subscribers, gone, closing, leaseVars,
                   firing, writing, writer, now, arg, msg, todo, releasing, view>>

\* Mutants: the lease is set though the channel is closed, and whoever asks
\* is told the lease that runs.
FreeForUnchecked(s) == ~HeldAt(now[s])
AnswerAnyone(s)     == Reply(s, s, "granted", leaseID)

\* May s take the lease, at the time it read?
FreeFor(s) == ~Closed /\ ~HeldAt(now[s])

\* The answer to s while the lease is held.
AnswerHeld(s) == IF owner = s THEN Reply(s, s, "granted", leaseID)
                              ELSE Reply(s, s, "busy", 0)

Acquire(s) ==
    /\ pc[s] = "acquire" /\ Unlocked
    /\ Return(s)
    /\ \/ Closed /\ UNCHANGED <<leaseVars, goVars>>
       \/ /\ ~Closed /\ HeldAt(now[s])
          /\ AnswerHeld(s)
          /\ UNCHANGED leaseVars
       \/ /\ FreeFor(s)
          /\ SetLease(s, epoch + 1, now[s])
          /\ Reply(s, s, "granted", epoch + 1)
    /\ UNCHANGED <<clock, requests, subscribers, gone, closing, firing, writing,
                   writer, view>>

Renew(s) ==
    /\ pc[s] = "renew" /\ Unlocked
    /\ Return(s)
    /\ IF ~Closed /\ owner = s /\ leaseID = arg[s] /\ now[s] < expiresAt
       THEN SetLease(s, leaseID, now[s]) /\ Reply(s, s, "granted", leaseID)
       ELSE Reply(s, s, "required", 0) /\ UNCHANGED leaseVars
    /\ UNCHANGED <<clock, requests, subscribers, gone, closing, firing, writing,
                   writer, view>>

Release(s) ==
    /\ pc[s] = "release" /\ Unlocked
    /\ Return(s)
    /\ IF owner = s /\ leaseID = arg[s]
       THEN ClearLease /\ Announce(s, "released") /\ UNCHANGED releasing
       ELSE Reply(s, s, "required", 0) /\ UNCHANGED leaseVars
    /\ UNCHANGED <<clock, requests, subscribers, gone, closing, firing, writing,
                   writer, view>>

\* Input, resize or ACP command: accepted from the owner of an unexpired
\* lease, and then written to the runner before controlMu is released.
Input(s) ==
    /\ pc[s] = "input" /\ Unlocked
    /\ \/ /\ owner = s /\ clock < expiresAt
          /\ writing' = s
          /\ UNCHANGED <<pc, leaseVars, goVars>>
       \/ /\ owner # Nobody /\ clock >= expiresAt
          /\ ClearLease /\ Announce(s, "expired")
          /\ Goto(s, "refuse")
          /\ UNCHANGED <<writing, releasing>>
       \/ /\ owner # s /\ (owner # Nobody => clock < expiresAt)
          /\ Goto(s, "refuse")
          /\ UNCHANGED <<writing, leaseVars, goVars>>
    /\ UNCHANGED <<clock, requests, subscribers, gone, closing, firing, writer,
                   now, arg, view>>

\* The write ends: the runner has the input, or had no connection.
InputWritten(s) ==
    /\ pc[s] = "input" /\ writing = s
    /\ writing' = Nobody
    /\ writer' \in {s, writer}
    /\ Goto(s, "read")
    /\ UNCHANGED <<clock, requests, subscribers, gone, closing, leaseVars,
                   firing, now, arg, goVars, view>>

\* The answer to input without a lease, and to a request that is malformed,
\* unknown, or an acquire for which no lease id could be drawn.
Refuse(s) ==
    /\ pc[s] = "refuse" /\ Settled(s)
    /\ Goto(s, "read")
    /\ Reply(s, s, "required", 0)
    /\ UNCHANGED <<clock, requests, subscribers, gone, closing, leaseVars,
                   firing, writing, writer, now, arg, view>>

-----------------------------------------------------------------------------
(* Time and timers.                                                        *)

\* Bound: MaxTime, with room for a lease that is about to be set.
Tick ==
    /\ clock < MaxTime
    /\ clock + Duration >= MaxTime =>
          \A s \in Subs : pc[s] \notin {"acquire", "renew"}
    /\ clock' = clock + 1
    /\ UNCHANGED <<requests, subscribers, gone, closing, leaseVars, firing,
                   writing, writer, pc, now, arg, goVars, view>>

\* The timer fires: its goroutine is past any later Stop.
TimerFires ==
    /\ timer # NoTimer /\ clock >= timer.at
    /\ firing' = firing \cup {timer.epoch}
    /\ timer' = NoTimer
    /\ UNCHANGED <<clock, requests, subscribers, gone, closing, owner, leaseID,
                   expiresAt, epoch, writing, writer, pc, now, arg, goVars, view>>

\* Mutant: a timer ends whatever lease there is.
EndsAny(e) == owner # Nobody

\* The lease is still the one the timer of epoch e was armed for.
Ends(e) == owner # Nobody /\ epoch = e

Expire(e) ==
    /\ e \in firing /\ Unlocked
    /\ firing' = firing \ {e}
    /\ IF Ends(e)
       THEN /\ ClearLease
            /\ IF Closed THEN UNCHANGED goVars
                         ELSE Announce(e, "expired") /\ UNCHANGED releasing
       ELSE UNCHANGED <<leaseVars, goVars>>
    /\ UNCHANGED <<clock, requests, subscribers, gone, closing, writing, writer,
                   pc, now, arg, view>>

-----------------------------------------------------------------------------
(* What any goroutine does with the statuses it sends.                     *)

\* What a client makes of a status it receives.
Believe(s, m) ==
    view' = CASE m.status = "granted" -> [view EXCEPT ![s] = m.id]
              [] m.status = "busy"    -> view
              [] OTHER                -> [view EXCEPT ![s] = 0]

\* One write.  It fails when the connection was closed, and may fail when
\* the subscriber is slow or gone.
Deliver(p) == \E s \in todo[p] :
    /\ todo' = [todo EXCEPT ![p] = @ \ {s}]
    /\ msg' = IF todo[p] = {s} THEN [msg EXCEPT ![p] = Quiet] ELSE msg
    /\ \/ s \in subscribers /\ Believe(s, msg[p]) /\ UNCHANGED failed
       \/ failed' = [failed EXCEPT ![p] = @ \cup {s}] /\ UNCHANGED view
    /\ UNCHANGED <<clock, requests, subscribers, gone, closing, leaseVars,
                   firing, writing, writer, pc, now, arg, releasing>>

\* The runner's output goes to every subscriber; some writes may fail.
Output ==
    /\ Settled(Forwarder)
    /\ \E F \in SUBSET subscribers \ {{}} :
          failed' = [failed EXCEPT ![Forwarder] = F]
    /\ UNCHANGED <<clock, requests, subscribers, gone, closing, leaseVars,
                   firing, writing, writer, pc, now, arg, msg, todo, releasing,
                   view>>

\* RemoveSubscriber, the part under subscribersMu.
Remove(p) ==
    /\ todo[p] = {} /\ releasing[p] = Nobody
    /\ \E s \in failed[p] :
          /\ failed' = [failed EXCEPT ![p] = @ \ {s}]
          /\ subscribers' = subscribers \ {s}
          /\ IF s \in subscribers
             THEN /\ gone' = gone \cup {s}
                  /\ releasing' = [releasing EXCEPT ![p] = s]
             ELSE UNCHANGED <<gone, releasing>>
    /\ UNCHANGED <<clock, requests, closing, leaseVars, firing, writing, writer,
                   pc, now, arg, msg, todo, view>>

\* releaseControlLeaseForSubscriber, the part of RemoveSubscriber after it.
ReleaseFor(p) ==
    /\ releasing[p] # Nobody /\ Unlocked
    /\ releasing' = [releasing EXCEPT ![p] = Nobody]
    /\ IF owner = releasing[p]
       THEN ClearLease /\ Announce(p, "released")
       ELSE UNCHANGED <<leaseVars, msg, todo, failed>>
    /\ UNCHANGED <<clock, requests, subscribers, gone, closing, firing, writing,
                   writer, pc, now, arg, view>>

-----------------------------------------------------------------------------
(* closeInternal, as far as the lease and the subscribers are concerned.   *)

CloseMark ==
    /\ closing = "open" /\ closing' = "marked"
    /\ UNCHANGED <<clock, requests, subscribers, gone, leaseVars, firing,
                   writing, writer, pc, now, arg, goVars, view>>

StopControlLease ==
    /\ closing = "marked" /\ Unlocked /\ closing' = "released"
    /\ ClearLease
    /\ UNCHANGED <<clock, requests, subscribers, gone, firing, writing, writer,
                   pc, now, arg, goVars, view>>

CloseSubscribers ==
    /\ closing = "released" /\ closing' = "done"
    /\ gone' = gone \cup subscribers /\ subscribers' = {}
    /\ UNCHANGED <<clock, requests, leaseVars, firing, writing, writer, pc, now,
                   arg, goVars, view>>

-----------------------------------------------------------------------------
Serve(s)  == Acquire(s) \/ Renew(s) \/ Release(s) \/ Input(s)
                \/ InputWritten(s) \/ Refuse(s)
Follow(p) == Deliver(p) \/ Remove(p) \/ ReleaseFor(p)
Close     == CloseMark \/ StopControlLease \/ CloseSubscribers

Next ==
    \/ \E s \in Subs : Join(s) \/ Read(s) \/ ReadFails(s) \/ Serve(s)
    \/ \E p \in Procs : Follow(p)
    \/ \E e \in Epochs : Expire(e)
    \/ Output \/ Tick \/ TimerFires \/ Close

Spec == Init /\ [][Next]_vars

\* Goroutines that can run do run, time passes and timers fire.  Nothing
\* obliges a client to join, send or leave, or anyone to close the channel.
Fairness ==
    /\ \A s \in Subs : WF_vars(Serve(s))
    /\ \A p \in Procs : WF_vars(Follow(p))
    /\ \A e \in Epochs : WF_vars(Expire(e))
    /\ WF_vars(Tick) /\ WF_vars(TimerFires)
    /\ WF_vars(StopControlLease) /\ WF_vars(CloseSubscribers)

FairSpec == Spec /\ Fairness

-----------------------------------------------------------------------------
(* What makes the lease correct.                                           *)

\* A lease that is held can always end by itself: the timer of its epoch is
\* armed, or has fired and waits for controlMu.  setControlLeaseLocked and
\* clearControlLeaseLocked stop timers while others are already running.
LeaseHasTimer == owner # Nobody => timer.epoch = epoch \/ epoch \in firing

\* Once closeInternal has stopped the lease, no acquire or renew that was
\* under way can set it again.
NoLeaseAfterStop == closing \in {"released", "done"} => owner = Nobody

\* What is known of the times: no handler's time lies in the future, timers
\* belong to this epoch or an earlier one, and the timer of a lease comes when
\* the lease is over, however late its acquire or renew took controlMu.
TimesAgree ==
    /\ \A s \in Subs : now[s] =< clock
    /\ timer.epoch =< epoch /\ \A e \in firing : e =< epoch
    /\ owner # Nobody =>
          /\ epoch > 0
          /\ timer.epoch = epoch => timer.at >= expiresAt
          /\ epoch \in firing => clock >= expiresAt

\* RemoveSubscriber releases the lease of those only whose connection it closed.
ReleasedAreGone == \A p \in Procs : releasing[p] \in gone \cup {Nobody}

\* Whoever writes to the runner holds the lease until the write is over.
WriterHoldsLease == writing # Nobody => writing = owner

\* The inductive invariant: what every critical section of controlMu finds and
\* leaves behind.
LeaseInv == /\ TypeOK /\ LeaseHasTimer /\ NoLeaseAfterStop
            /\ TimesAgree /\ ReleasedAreGone /\ WriterHoldsLease

\* Two clients never hold the same lease id, so that a release or a renewal
\* names the lease of the one that sends it.
LeaseIdPrivate == \A s, t \in Subs : view[s] # 0 /\ view[s] = view[t] => s = t

\* A lease is taken from its owner only when its time is over, its owner
\* gives it back or is gone, or the channel closes: a timer that fired before
\* the lease was renewed, or set anew, leaves it alone.
LeaseTakenOnlyWhenDue ==
    [][\A s \in Subs : owner = s /\ owner' # s =>
          clock >= expiresAt \/ pc[s] = "release" \/ s \in gone \/ Closed]_vars

\* The lease implements SingleWriter.  Its holder is the owner while the
\* lease runs, and beyond that while a write accepted from it is under way,
\* because controlMu is held and nobody else can take the lease.
Holder == IF owner # Nobody /\ (clock < expiresAt \/ writing = owner)
          THEN owner ELSE Nobody
Abstract == INSTANCE SingleWriter WITH holder <- Holder, writer <- writer
ImplementsSingleWriter == Abstract!Spec

\* The lease of a client that is gone ends, for good: RemoveSubscriber
\* releases it, and if the client's goroutine acquired it after that, its
\* timer does.
LeaseOfGoneClientEnds == \A s \in Subs : s \in gone ~> [](owner # s)

\* Documented: a client stops being the controller when its connection is
\* lost.  (After RemoveSubscriber is through with it, it holds no lease.)
NoGhostController ==
    \A s \in gone : owner = s => \E p \in Procs : releasing[p] = s

\* Documented: a controller becomes an observer by release, timeout or loss
\* of the connection: a status that another goroutine sends it does not take
\* control from it while the lease it was granted runs.
ControllerKeepsControl ==
    [][\A s \in Subs : /\ owner = s /\ view[s] = leaseID /\ clock < expiresAt
                       /\ view'[s] # view[s]
                       => todo'[s] # todo[s]]_vars
=============================================================================
