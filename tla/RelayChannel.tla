---------------------------- MODULE RelayChannel ----------------------------
(***************************************************************************)
(* One relay channel: the runner's connection (the publisher) and the      *)
(* subscribers that watch it.                                              *)
(*                                                                         *)
(* The publisher may be replaced at any time (SetPublisher, one call per   *)
(* connection), may drop (its forwarding goroutine sees a read error), and *)
(* has a grace period to come back before a timer closes the channel.      *)
(* Subscribers come and go; when the last one is gone a keep-alive timer   *)
(* reports the channel as unused.  Close may come from outside as well.    *)
(* Each critical section is one step; publisherReplaceMu, which is held    *)
(* across many of them, is a variable.  The control lease has its own      *)
(* module, ControlLease; here RemoveSubscriber leaves it out.              *)
(***************************************************************************)
EXTENDS Integers, FiniteSets

CONSTANTS Conns,      \* publisher connections, each given to SetPublisher once
          Subs,       \* subscriber ids (fresh uuids: an id joins once)
          Closer,     \* the caller of Close
          NoConn,     \* nil
          Free,       \* nobody holds publisherReplaceMu
          MaxSubs     \* the limit AddSubscriberWithLimit is given, 0 for none

ASSUME ConstantsAssumption ==
    /\ IsFiniteSet(Conns) /\ IsFiniteSet(Subs) /\ Conns \cap Subs = {}
    /\ NoConn \notin Conns /\ MaxSubs \in Nat
    \* those who hold publisherReplaceMu, and those who broadcast, differ
    /\ Conns \cap Nat = {} /\ Closer \notin Conns \cup Nat
    /\ Free \notin Conns \cup Nat \cup {Closer}
    /\ \A e \in 1..Cardinality(Conns) : <<"fwd", e>> \notin Conns

Epochs    == 1..Cardinality(Conns)     \* one epoch per SetPublisher
Visits    == 1..Cardinality(Subs)
Closers   == {Closer} \cup Epochs      \* a reconnect timer runs as its epoch
Bcasters  == Conns \cup {<<"fwd", e>> : e \in Epochs}
Fwd(e)    == <<"fwd", e>>

VARIABLES
    publisher,      \* c.publisher
    epoch,          \* c.publisherEpoch
    disconnected,   \* c.publisherDisconnected
    timer,          \* epoch of the armed publisherReconnectTimer, 0 if none
    replaceMu,      \* who holds publisherReplaceMu
    open,           \* connections (of the runner and of subscribers) not closed
    call,           \* where each SetPublisher call is
    was,            \* its local wasDisconnected
    fwd,            \* where the forwarding goroutine of each epoch is
    source,         \* the connection it reads
    closePc,        \* where each closing goroutine is
    closed,         \* c.closed
    subscribers,    \* c.subscribers
    add,            \* where each AddSubscriber call is
    told,           \* the last runner status each subscriber received
    todo,           \* subscribers a broadcasting goroutine has yet to write to
    failed,         \* subscribers it could not write to
    lastGone,       \* goroutines about to run handleLastSubscriberGone
    keepAlive,      \* the armed keep-alive timer, 0 if none
    kaFired,        \* keep-alive timers that fired and have not yet looked
    kaReport,       \* those that found the channel open and look for subscribers
    reports         \* the keep-alive timers that called onAllSubscribersGone

pubVars  == <<publisher, epoch, disconnected, timer>>
callVars == <<call, was>>
fwdVars  == <<fwd, source>>
subVars  == <<subscribers, add>>
sendVars == <<todo, failed>>
kaVars   == <<keepAlive, kaFired, kaReport, reports>>
vars == <<pubVars, replaceMu, open, callVars, fwdVars, closePc, closed, subVars,
          told, sendVars, lastGone, kaVars>>

-----------------------------------------------------------------------------
TypeOK ==
    /\ publisher \in Conns \cup {NoConn}
    /\ epoch \in 0..Cardinality(Conns)
    /\ disconnected \in BOOLEAN /\ closed \in BOOLEAN
    /\ timer \in {0} \cup Epochs
    /\ replaceMu \in Conns \cup Closers \cup {Free}
    /\ open \subseteq Conns \cup Subs
    /\ call \in [Conns -> {"new", "locked", "wait", "announce", "done"}]
    /\ was \in [Conns -> BOOLEAN]
    /\ fwd \in [Epochs -> {"none", "start", "read", "error", "copy", "announce",
                      "done"}]
    /\ source \in [Epochs -> Conns \cup {NoConn}]
    /\ closePc \in [Closers -> {"idle", "fired", "locked", "mark", "timer",
                                "publisher", "wait", "done"}]
    /\ subscribers \subseteq Subs
    /\ add \in [Subs -> {"new", "check", "tell", "in", "gone", "rejected"}]
    /\ told \in [Subs -> {"nothing", "disconnected", "reconnected", "unreachable"}]
    /\ todo \in [Bcasters -> SUBSET Subs]
    /\ failed \in [Bcasters -> SUBSET Subs]
    /\ lastGone \in Nat
    /\ keepAlive \in {0} \cup Visits
    /\ kaFired \subseteq Visits /\ kaReport \subseteq Visits
    /\ reports \subseteq Visits

Init ==
    /\ publisher = NoConn /\ epoch = 0 /\ disconnected = FALSE /\ timer = 0
    /\ replaceMu = Free /\ open = Conns
    /\ call = [c \in Conns |-> "new"] /\ was = [c \in Conns |-> FALSE]
    /\ fwd = [e \in Epochs |-> "none"] /\ source = [e \in Epochs |-> NoConn]
    /\ closePc = [p \in Closers |-> "idle"] /\ closed = FALSE
    /\ subscribers = {} /\ add = [s \in Subs |-> "new"]
    /\ told = [s \in Subs |-> "nothing"]
    /\ todo = [p \in Bcasters |-> {}] /\ failed = [p \in Bcasters |-> {}]
    /\ lastGone = 0 /\ keepAlive = 0
    /\ kaFired = {} /\ kaReport = {} /\ reports = {}

\* The goroutines publisherWg counts.
Running == {e \in Epochs : fwd[e] \notin {"none", "done"}}

\* How many subscribers have been there.  A keep-alive timer is known by the
\* number when it was armed.
Joined == Cardinality({s \in Subs : add[s] \notin {"new", "rejected"}})

\* The goroutine p has sent what it had to send and removed who failed.
Settled(p) == todo[p] = {} /\ failed[p] = {}

-----------------------------------------------------------------------------
(* SetPublisher, one call per connection.                                  *)

\* Mutants: the old connection stays open, and nobody waits for the old
\* forwarding goroutine.
OldConnectionKept == NoConn
NotAwaited        == TRUE

OldConnection == publisher
NextEpoch     == epoch + 1
Awaited       == Running = {}     \* publisherWg.Wait returns

Lock(c) ==
    /\ call[c] = "new" /\ replaceMu = Free
    /\ replaceMu' = c
    /\ call' = [call EXCEPT ![c] = "locked"]
    /\ UNCHANGED <<pubVars, open, was, fwdVars, closePc, closed, subVars, told,
                   sendVars, lastGone, kaVars>>

\* Under publisherMu: the connection becomes the publisher, the reconnect
\* timer is stopped and the old connection closed; or the channel is closed
\* and so is the connection.
Swap(c) ==
    /\ call[c] = "locked"
    /\ \/ /\ closed
          /\ open' = open \ {c}
          /\ call' = [call EXCEPT ![c] = "done"]
          /\ replaceMu' = Free
          /\ UNCHANGED <<pubVars, was>>
       \/ /\ ~closed
          /\ open' = open \ {OldConnection}
          /\ was' = [was EXCEPT ![c] = disconnected]
          /\ publisher' = c /\ disconnected' = FALSE
          /\ epoch' = NextEpoch /\ timer' = 0
          /\ call' = [call EXCEPT ![c] = "wait"]
          /\ UNCHANGED replaceMu
    /\ UNCHANGED <<fwdVars, closePc, closed, subVars, told, sendVars, lastGone,
                   kaVars>>

\* The wait is over; a publisher that was away is announced.
Waited(c) ==
    /\ call[c] = "wait" /\ Awaited
    /\ call' = [call EXCEPT ![c] = "announce"]
    /\ todo' = [todo EXCEPT ![c] = IF was[c] THEN subscribers ELSE {}]
    /\ UNCHANGED <<pubVars, replaceMu, open, was, fwdVars, closePc, closed,
                   subVars, told, failed, lastGone, kaVars>>

Spawn(c) ==
    /\ call[c] = "announce" /\ Settled(c)
    /\ fwd' = [fwd EXCEPT ![epoch] = "start"]
    /\ call' = [call EXCEPT ![c] = "done"]
    /\ replaceMu' = Free
    /\ UNCHANGED <<pubVars, open, was, source, closePc, closed, subVars, told,
                   sendVars, lastGone, kaVars>>

-----------------------------------------------------------------------------
(* The forwarding goroutine of an epoch.                                   *)

FwdStart(e) ==
    /\ fwd[e] = "start"
    /\ IF publisher = NoConn \/ epoch # e
       THEN fwd' = [fwd EXCEPT ![e] = "done"] /\ UNCHANGED source
       ELSE /\ fwd' = [fwd EXCEPT ![e] = "read"]
            /\ source' = [source EXCEPT ![e] = publisher]
    /\ UNCHANGED <<pubVars, replaceMu, open, callVars, closePc, closed, subVars,
                   told, sendVars, lastGone, kaVars>>

\* The runner's output goes to every subscriber; some writes fail.
Output(e) ==
    /\ fwd[e] = "read" /\ Settled(Fwd(e)) /\ source[e] \in open
    /\ \E F \in SUBSET subscribers \ {{}} :
          failed' = [failed EXCEPT ![Fwd(e)] = F]
    /\ UNCHANGED <<pubVars, replaceMu, open, callVars, fwdVars, closePc, closed,
                   subVars, told, todo, lastGone, kaVars>>

\* The connection was closed, or the runner is gone.
ReadFails(e) ==
    /\ fwd[e] = "read" /\ Settled(Fwd(e))
    /\ fwd' = [fwd EXCEPT ![e] = "error"]
    /\ UNCHANGED <<pubVars, replaceMu, open, callVars, source, closePc, closed,
                   subVars, told, sendVars, lastGone, kaVars>>

\* Mutants: the goroutine does not look whether its connection was replaced,
\* or arms no timer.
NeverReplaced(e) == FALSE
ArmsNothing(e)   == UNCHANGED timer

Replaced(e)     == publisher # source[e] \/ epoch # e
ArmReconnect(e) == timer' = e

\* handlePublisherDisconnect: unless this connection was replaced meanwhile,
\* arm the reconnect timer and tell the subscribers.
Disconnect(e) ==
    /\ fwd[e] = "error"
    /\ IF Replaced(e)
       THEN /\ fwd' = [fwd EXCEPT ![e] = "done"]
            /\ UNCHANGED <<pubVars, open>>
       ELSE /\ fwd' = [fwd EXCEPT ![e] = "copy"]
            /\ publisher' = NoConn /\ disconnected' = TRUE
            /\ ArmReconnect(e) /\ UNCHANGED epoch
            /\ open' = open \ {source[e]}
    /\ UNCHANGED <<replaceMu, callVars, source, closePc, closed, subVars, told,
                   sendVars, lastGone, kaVars>>

\* Broadcast copies the subscribers it will write to.
CopySubscribers(e) ==
    /\ fwd[e] = "copy"
    /\ fwd' = [fwd EXCEPT ![e] = "announce"]
    /\ todo' = [todo EXCEPT ![Fwd(e)] = subscribers]
    /\ UNCHANGED <<pubVars, replaceMu, open, callVars, source, closePc, closed,
                   subVars, told, failed, lastGone, kaVars>>

FwdEnds(e) ==
    /\ fwd[e] = "announce" /\ Settled(Fwd(e))
    /\ fwd' = [fwd EXCEPT ![e] = "done"]
    /\ UNCHANGED <<pubVars, replaceMu, open, callVars, source, closePc, closed,
                   subVars, told, sendVars, lastGone, kaVars>>

-----------------------------------------------------------------------------
(* The reconnect timer and closing.                                        *)

TimerFires ==
    /\ timer # 0 /\ timer' = 0
    /\ closePc' = [closePc EXCEPT ![timer] = "fired"]
    /\ UNCHANGED <<publisher, epoch, disconnected, replaceMu, open, callVars,
                   fwdVars, closed, subVars, told, sendVars, lastGone, kaVars>>

TimerLocks(e) ==
    /\ closePc[e] = "fired" /\ replaceMu = Free
    /\ replaceMu' = e
    /\ closePc' = [closePc EXCEPT ![e] = "locked"]
    /\ UNCHANGED <<pubVars, open, callVars, fwdVars, closed, subVars, told,
                   sendVars, lastGone, kaVars>>

\* Mutant: the timer closes the channel whatever it finds.
AlwaysAway == TRUE

StillAway == disconnected

TimerLooks(e) ==
    /\ closePc[e] = "locked"
    /\ IF StillAway
       THEN closePc' = [closePc EXCEPT ![e] = "mark"] /\ UNCHANGED replaceMu
       ELSE closePc' = [closePc EXCEPT ![e] = "done"] /\ replaceMu' = Free
    /\ UNCHANGED <<pubVars, open, callVars, fwdVars, closed, subVars, told,
                   sendVars, lastGone, kaVars>>

\* Close is called from outside.
CloseLocks ==
    /\ closePc[Closer] = "idle" /\ replaceMu = Free
    /\ replaceMu' = Closer
    /\ closePc' = [closePc EXCEPT ![Closer] = "mark"]
    /\ UNCHANGED <<pubVars, open, callVars, fwdVars, closed, subVars, told,
                   sendVars, lastGone, kaVars>>

\* closeInternal: only the first caller goes on.
Mark(p) ==
    /\ closePc[p] = "mark" /\ closed' = TRUE
    /\ IF closed
       THEN closePc' = [closePc EXCEPT ![p] = "done"] /\ replaceMu' = Free
       ELSE closePc' = [closePc EXCEPT ![p] = "timer"] /\ UNCHANGED replaceMu
    /\ UNCHANGED <<pubVars, open, callVars, fwdVars, subVars, told, sendVars,
                   lastGone, kaVars>>

StopKeepAlive(p) ==
    /\ closePc[p] = "timer"
    /\ closePc' = [closePc EXCEPT ![p] = "publisher"]
    /\ keepAlive' = 0
    /\ UNCHANGED <<pubVars, replaceMu, open, callVars, fwdVars, closed, subVars,
                   told, sendVars, lastGone, kaFired, kaReport, reports>>

\* It stops the reconnect timer and closes the publisher.
ClosePublisher(p) ==
    /\ closePc[p] = "publisher"
    /\ closePc' = [closePc EXCEPT ![p] = "wait"]
    /\ timer' = 0
    /\ publisher' = NoConn /\ open' = open \ {publisher}
    /\ UNCHANGED <<epoch, disconnected, replaceMu, callVars, fwdVars, closed,
                   subVars, told, sendVars, lastGone, kaVars>>

\* Once the forwarding goroutine is done it closes the subscribers.
CloseSubscribers(p) ==
    /\ closePc[p] = "wait" /\ Awaited
    /\ closePc' = [closePc EXCEPT ![p] = "done"]
    /\ open' = open \ subscribers /\ subscribers' = {}
    /\ replaceMu' = Free
    /\ UNCHANGED <<pubVars, callVars, fwdVars, closed, add, told, sendVars,
                   lastGone, kaVars>>

-----------------------------------------------------------------------------
(* Subscribers.                                                            *)

\* Mutants: a closed channel takes subscribers; a new subscriber is not told
\* of an outage; the last one is looked for after it was deleted.
RefusesAtLimit == MaxSubs > 0 /\ Cardinality(subscribers) >= MaxSubs
TellsNobody    == FALSE
LastOneMissed(s) == subscribers = {}

Refuses    == closed \/ (MaxSubs > 0 /\ Cardinality(subscribers) >= MaxSubs)
MustTell   == disconnected
LastOne(s) == subscribers = {s}

\* addSubscriberInternal, under subscribersMu.
AddSubscriber(s) ==
    /\ add[s] = "new"
    /\ IF Refuses
       THEN /\ add' = [add EXCEPT ![s] = "rejected"]
            /\ UNCHANGED <<subscribers, open, keepAlive>>
       ELSE /\ add' = [add EXCEPT ![s] = "check"]
            /\ subscribers' = subscribers \cup {s}
            /\ open' = open \cup {s}
            /\ keepAlive' = 0
    /\ UNCHANGED <<pubVars, replaceMu, callVars, fwdVars, closePc, closed, told,
                   sendVars, lastGone, kaFired, kaReport, reports>>

\* Is the runner away?  Then the new subscriber is told; the error of a
\* write that fails is only logged.
AddCheck(s) ==
    /\ add[s] = "check"
    /\ add' = [add EXCEPT ![s] = IF MustTell THEN "tell" ELSE "in"]
    /\ UNCHANGED <<pubVars, replaceMu, open, callVars, fwdVars, closePc, closed,
                   subscribers, told, sendVars, lastGone, kaVars>>

AddTell(s) ==
    /\ add[s] = "tell"
    /\ add' = [add EXCEPT ![s] = "in"]
    /\ \/ s \in open /\ told' = [told EXCEPT ![s] = "disconnected"]
       \/ told' = [told EXCEPT ![s] = "unreachable"]
    /\ UNCHANGED <<pubVars, replaceMu, open, callVars, fwdVars, closePc, closed,
                   subscribers, sendVars, lastGone, kaVars>>

\* RemoveSubscriber, under subscribersMu.
RemoveSubscriber(s) ==
    /\ subscribers' = subscribers \ {s}
    /\ open' = open \ {s}
    /\ lastGone' = IF LastOne(s) THEN lastGone + 1 ELSE lastGone

\* The subscriber's connection ends.
Leave(s) ==
    /\ add[s] = "in"
    /\ add' = [add EXCEPT ![s] = "gone"]
    /\ RemoveSubscriber(s)
    /\ UNCHANGED <<pubVars, replaceMu, callVars, fwdVars, closePc, closed, told,
                   sendVars, kaVars>>

\* A broadcasting goroutine writes the runner's status to one subscriber...
Deliver(p) == \E s \in todo[p] :
    /\ todo' = [todo EXCEPT ![p] = @ \ {s}]
    /\ \/ /\ s \in open
          /\ told' = [told EXCEPT ![s] = IF p \in Conns THEN "reconnected"
                                                       ELSE "disconnected"]
          /\ UNCHANGED failed
       \/ failed' = [failed EXCEPT ![p] = @ \cup {s}] /\ UNCHANGED told
    /\ UNCHANGED <<pubVars, replaceMu, open, callVars, fwdVars, closePc, closed,
                   subVars, lastGone, kaVars>>

\* ...and removes those it could not write to.
RemoveFailed(p) ==
    /\ todo[p] = {}
    /\ \E s \in failed[p] :
          /\ failed' = [failed EXCEPT ![p] = @ \ {s}]
          /\ RemoveSubscriber(s)
    /\ UNCHANGED <<pubVars, replaceMu, callVars, fwdVars, closePc, closed, add,
                   told, todo, kaVars>>

\* handleLastSubscriberGone, on the goroutine that removed the last one.
LastSubscriberGone ==
    /\ lastGone > 0 /\ lastGone' = lastGone - 1
    /\ IF subscribers = {}
       THEN keepAlive' = Joined
       ELSE UNCHANGED keepAlive
    /\ UNCHANGED <<pubVars, replaceMu, open, callVars, fwdVars, closePc, closed,
                   subVars, told, sendVars, kaFired, kaReport, reports>>

KeepAliveFires ==
    /\ keepAlive # 0 /\ keepAlive' = 0
    /\ kaFired' = kaFired \cup {keepAlive}
    /\ UNCHANGED <<pubVars, replaceMu, open, callVars, fwdVars, closePc, closed,
                   subVars, told, sendVars, lastGone, kaReport, reports>>

KeepAliveClosed(k) ==
    /\ k \in kaFired /\ kaFired' = kaFired \ {k}
    /\ kaReport' = IF closed THEN kaReport ELSE kaReport \cup {k}
    /\ UNCHANGED <<pubVars, replaceMu, open, callVars, fwdVars, closePc, closed,
                   subVars, told, sendVars, lastGone, keepAlive, reports>>

KeepAliveReports(k) ==
    /\ k \in kaReport /\ kaReport' = kaReport \ {k}
    /\ reports' = IF subscribers = {} THEN reports \cup {k} ELSE reports
    /\ UNCHANGED <<pubVars, replaceMu, open, callVars, fwdVars, closePc, closed,
                   subVars, told, sendVars, lastGone, keepAlive, kaFired>>

-----------------------------------------------------------------------------
SetPublisher(c) == Lock(c) \/ Swap(c) \/ Waited(c) \/ Spawn(c)
Forward(e)      == FwdStart(e) \/ Disconnect(e) \/ CopySubscribers(e)
                      \/ FwdEnds(e)
Closing(p)      == Mark(p) \/ StopKeepAlive(p) \/ ClosePublisher(p)
                      \/ CloseSubscribers(p)
Reconnect(e)    == TimerLocks(e) \/ TimerLooks(e)
Broadcast(p)    == Deliver(p) \/ RemoveFailed(p)
Added(s)        == AddCheck(s) \/ AddTell(s)
KeepAlive(k)    == KeepAliveClosed(k) \/ KeepAliveReports(k)

Next ==
    \/ \E c \in Conns : SetPublisher(c)
    \/ \E e \in Epochs : Forward(e) \/ Output(e) \/ ReadFails(e) \/ Reconnect(e)
    \/ \E p \in Closers : Closing(p)
    \/ \E p \in Bcasters : Broadcast(p)
    \/ \E s \in Subs : AddSubscriber(s) \/ Added(s) \/ Leave(s)
    \/ \E k \in Visits : KeepAlive(k)
    \/ TimerFires \/ CloseLocks \/ LastSubscriberGone \/ KeepAliveFires

Spec == Init /\ [][Next]_vars

\* A goroutine that can run runs, a mutex that is free is granted, timers
\* fire, and reading a closed connection fails.  No runner need connect or
\* drop, no subscriber join or leave, and nobody need call Close.
Fairness ==
    /\ \A c \in Conns : WF_vars(call[c] # "new" /\ SetPublisher(c))
    /\ \A e \in Epochs : /\ WF_vars(Forward(e)) /\ WF_vars(Reconnect(e))
                         /\ WF_vars(source[e] \notin open /\ ReadFails(e))
    /\ \A p \in Closers : WF_vars(Closing(p))
    /\ \A p \in Bcasters : WF_vars(Broadcast(p))
    /\ \A s \in Subs : WF_vars(Added(s))
    /\ \A k \in Visits : WF_vars(KeepAlive(k))
    /\ WF_vars(TimerFires) /\ WF_vars(LastSubscriberGone)
    /\ WF_vars(KeepAliveFires)

FairSpec == Spec /\ Fairness

-----------------------------------------------------------------------------
(* What makes the channel correct.                                         *)

\* At most one goroutine forwards the runner's output: SetPublisher awaits
\* the old one before it starts the next.
OneForwarder == Cardinality(Running) =< 1

\* A channel that lost its runner does not stay around for ever: the flag
\* says so, and the timer of this very outage is armed or already runs.
OutageIsTimed ==
    ~closed =>
      /\ disconnected <=> publisher = NoConn /\ epoch > 0
      /\ disconnected => \/ timer = epoch
                         \/ closePc[epoch] \in {"fired", "locked", "mark"}

ChannelInv == TypeOK /\ OneForwarder /\ OutageIsTimed

CloseDone == closed /\ \A p \in Closers : closePc[p] \notin {"timer", "publisher", "wait"}

\* After the close nothing is left behind: no subscriber that slipped in, no
\* connection that was given to SetPublisher late, no forwarding goroutine.
CloseLeavesNothing ==
    CloseDone => /\ subscribers = {} /\ open \cap Subs = {}
                 /\ \A c \in open : call[c] # "done"
                 /\ Running = {}

\* During an outage every subscriber knows of it, whenever it joined, once
\* the broadcast has reached it.
SubscribersKnowOutage ==
    disconnected /\ ~closed /\ fwd[epoch] # "copy" =>
      \A s \in subscribers :
         \/ add[s] # "in"
         \/ \E p \in Bcasters : s \in todo[p] \cup failed[p]
         \/ told[s] \in {"disconnected", "unreachable"}

\* The reconnect timeout never closes a channel whose runner is back.
TimeoutSparesPublisher ==
    [][~closed /\ closed' /\ replaceMu \in Epochs => publisher = NoConn]_vars

\* SetPublisher and Close, which wait for each other and for the forwarding
\* goroutine, all return.
CallsReturn ==
    /\ \A c \in Conns : call[c] = "locked" ~> call[c] = "done"
    /\ \A p \in Closers : closePc[p] = "mark" ~> closePc[p] = "done"

\* An outage ends: the runner is back or the channel is closed.
OutageEnds == publisher = NoConn /\ epoch > 0 ~> publisher # NoConn \/ CloseDone

\* A channel that all subscribers left is reported as unused, by a timer
\* armed since the last of them joined.
UnusedIsReported ==
    <>[](~closed /\ subscribers = {} /\ Joined > 0) => <>[](Joined \in reports)

\* Documented: the runner has the whole timeout to reconnect.  (The timer
\* that closes the channel was armed by the outage that is on.)
GraceIsWhole ==
    [][~closed /\ closed' /\ replaceMu \in Epochs => epoch = replaceMu]_vars

\* Documented: the channel is kept for the keep-alive time after all
\* subscribers disconnect.  (When a timer reports it unused, nobody has joined
\* since that timer was armed.)
KeepAliveIsWhole == [][\A k \in reports' \ reports : k = Joined]_vars

\* Documented: subscribers are told that the runner is disconnected, and
\* that it is back.  (With the runner there and no status on its way, none
\* believes it is away.)
NoFalseOutage ==
    publisher # NoConn /\ (\A c \in Conns : call[c] # "wait") =>
      \A s \in subscribers :
         \/ told[s] # "disconnected" \/ add[s] # "in"
         \/ \E p \in Bcasters : s \in todo[p] \cup failed[p]
=============================================================================
