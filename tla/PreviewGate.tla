----------------------------- MODULE PreviewGate -----------------------------
(***************************************************************************)
(* The way of a preview request to the tunnel of its runner: the registry  *)
(* of tunnels, the limiter of a pod and the handler that passes through    *)
(* both (relay/internal/tunnel/registry.go, tunnel/limits.go,              *)
(* server/handler_preview.go, server/handler_tunnel.go).                   *)
(*                                                                         *)
(* One runner, one pod.  The runner may connect again while the relay      *)
(* still holds its earlier tunnels.  What happens on the tunnel itself is  *)
(* module Tunnel; here a request that is proxied ends at some time.        *)
(***************************************************************************)
EXTENDS Integers, Sequences, FiniteSets

CONSTANTS
  Tunnels,        \* connections the runner makes, one after the other or at once
  Requests,       \* goroutines of handlePreview
  None,
  MaxConcurrent,  \* PodLimiter.maxConcurrent
  MaxQueue        \* PodLimiter.maxQueue

ASSUME GateAssumption ==
  /\ None \notin Tunnels
  /\ IsFiniteSet(Requests)
  /\ MaxConcurrent \in Nat \ {0} /\ MaxQueue \in Nat

VARIABLES
  reg,       \* Registry.tunnels of the runner
  tun,       \* where the handler of each tunnel is
  old,       \* the tunnel it replaced and has to close
  closed,    \* tunnels that are closed
  at,        \* where each request is
  got,       \* the tunnel it was given
  slots,     \* len of podSlot.ch
  waiters,   \* goroutines blocked in sending to it, in order
  queueLen   \* podSlot.queueLen
vars == <<reg, tun, old, closed, at, got, slots, waiters, queueLen>>
tunVars == <<reg, tun, old, closed>>
slotVars == <<slots, waiters, queueLen>>
-----------------------------------------------------------------------------
(* Tunnels: HandleTunnelWS and the registry *)

\* The runner connects, and its token and HELLO are accepted.
Connect(t) ==
  /\ tun[t] = "none"
  /\ tun' = [tun EXCEPT ![t] = "hello"]
  /\ UNCHANGED <<reg, old, closed, at, got, slotVars>>

\* Registry.Register replaces the runner's tunnel under the lock and closes it after.
Register(t) ==
  /\ tun[t] = "hello"
  /\ reg' = t /\ old' = [old EXCEPT ![t] = reg]
  /\ tun' = [tun EXCEPT ![t] = "closing"]
  /\ UNCHANGED <<closed, at, got, slotVars>>

CloseOld(t) ==
  /\ tun[t] = "closing"
  /\ closed' = closed \cup ({old[t]} \ {None}) /\ old' = [old EXCEPT ![t] = None]
  /\ tun' = [tun EXCEPT ![t] = "acking"]
  /\ UNCHANGED <<reg, at, got, slotVars>>

\* The HELLO_ACK: its write may fail before anybody knows that the tunnel is closed.
Acknowledge(t) ==
  /\ tun[t] = "acking"
  /\ \/ t \notin closed /\ tun' = [tun EXCEPT ![t] = "serving"]
     \/ tun' = [tun EXCEPT ![t] = "refused"]
  /\ UNCHANGED <<reg, old, closed, at, got, slotVars>>

\* The read loop or the heartbeat ends, because the runner is gone or the tunnel was replaced.
Breaks(t) ==
  /\ tun[t] = "serving" /\ t \notin closed
  /\ closed' = closed \cup {t}
  /\ UNCHANGED <<reg, tun, old, at, got, slotVars>>

Ends(t) ==
  /\ tun[t] = "serving" /\ t \in closed
  /\ tun' = [tun EXCEPT ![t] = "ended"]
  /\ UNCHANGED <<reg, old, closed, at, got, slotVars>>

\* Registry.Unregister.  Mutant: whatever tunnel is registered.
RemovedAny(t) == None
Removed(t) == IF reg = t THEN None ELSE reg

Unregister(t) ==
  /\ tun[t] \in {"ended", "refused"}
  /\ reg' = Removed(t)
  /\ tun' = [tun EXCEPT ![t] = IF tun[t] = "ended" THEN "gone" ELSE "unregistered"]
  /\ UNCHANGED <<old, closed, at, got, slotVars>>

\* A tunnel that could not be acknowledged is closed last.
CloseRefused(t) ==
  /\ tun[t] = "unregistered"
  /\ closed' = closed \cup {t}
  /\ tun' = [tun EXCEPT ![t] = "gone"]
  /\ UNCHANGED <<reg, old, at, got, slotVars>>
-----------------------------------------------------------------------------
(* Requests: handlePreview, WaitForTunnel and Acquire *)

Goto(r, place) == at' = [at EXCEPT ![r] = place]
Forget(r) == got' = [got EXCEPT ![r] = None]

\* An authorised request comes in.
Arrive(r) ==
  /\ at[r] = "idle" /\ Goto(r, "looking")
  /\ UNCHANGED <<tunVars, got, slotVars>>

\* WaitForTunnel: at once, at a tick, or when the grace is over.
Look(r) ==
  /\ at[r] = "looking" /\ reg # None
  /\ Goto(r, "found") /\ got' = [got EXCEPT ![r] = reg]
  /\ UNCHANGED <<tunVars, slotVars>>

GiveUpLooking(r) ==
  /\ at[r] = "looking" /\ reg = None
  /\ Goto(r, "idle")
  /\ UNCHANGED <<tunVars, got, slotVars>>

\* Acquire: a slot without blocking, or a place in the queue if there is one.
Acquire(r) ==
  /\ at[r] = "found"
  /\ IF slots < MaxConcurrent THEN Goto(r, "holding") /\ slots' = slots + 1
                              ELSE Goto(r, "full") /\ UNCHANGED slots
  /\ UNCHANGED <<tunVars, got, waiters, queueLen>>

Join(r) ==
  /\ at[r] = "full"
  /\ IF queueLen < MaxQueue
     THEN Goto(r, "joining") /\ queueLen' = queueLen + 1 /\ UNCHANGED got
     ELSE Goto(r, "idle") /\ Forget(r) /\ UNCHANGED queueLen
  /\ UNCHANGED <<tunVars, slots, waiters>>

\* The select: a slot that became free meanwhile, or it blocks behind the others.
Select(r) ==
  /\ at[r] = "joining"
  /\ IF slots < MaxConcurrent
     THEN Goto(r, "granted") /\ slots' = slots + 1 /\ UNCHANGED waiters
     ELSE Goto(r, "queued") /\ waiters' = Append(waiters, r) /\ UNCHANGED slots
  /\ UNCHANGED <<tunVars, got, queueLen>>

\* queueTimeout is over, or the browser is gone.
Without(i) == [j \in 1 .. (Len(waiters) - 1) |-> IF j < i THEN waiters[j] ELSE waiters[j + 1]]

Abandon(r) ==
  /\ at[r] = "queued"
  /\ \E i \in 1 .. Len(waiters) : waiters[i] = r /\ waiters' = Without(i)
  /\ Goto(r, "leaving") /\ Forget(r)
  /\ UNCHANGED <<tunVars, slots, queueLen>>

\* The deferred decrement, on each way out of Acquire.  Mutant: without it.
KeepPlace == UNCHANGED queueLen
GivePlace == queueLen' = queueLen - 1

LeaveAfterGrant(r) ==
  /\ at[r] = "granted" /\ Goto(r, "holding")
  /\ GivePlace
  /\ UNCHANGED <<tunVars, got, slots, waiters>>

Leave(r) ==
  /\ at[r] = "leaving" /\ Goto(r, "idle")
  /\ GivePlace
  /\ UNCHANGED <<tunVars, got, slots, waiters>>

\* ProxyHTTP or ProxyWebSocket: the first frame cannot be written to a closed
\* tunnel; the slot is released all the same.  Mutant: it is kept.
AfterSendLeaks(r) == IF got[r] \in closed THEN "idle" ELSE "proxying"
AfterSend(r) == IF got[r] \in closed THEN "over" ELSE "proxying"

Proxy(r) ==
  /\ at[r] = "holding"
  /\ Goto(r, AfterSend(r)) /\ Forget(r)
  /\ UNCHANGED <<tunVars, slotVars>>

ProxyEnds(r) ==
  /\ at[r] = "proxying" /\ Goto(r, "over")
  /\ UNCHANGED <<tunVars, got, slotVars>>

\* releaseFunc receives from the channel: with senders blocked, the runtime lets
\* the first one's value in at once.
Release(r) ==
  /\ at[r] = "over"
  /\ IF waiters = <<>>
     THEN Goto(r, "idle") /\ slots' = slots - 1 /\ UNCHANGED waiters
     ELSE /\ at' = [at EXCEPT ![r] = "idle", ![Head(waiters)] = "granted"]
          /\ waiters' = Tail(waiters)
          /\ UNCHANGED slots
  /\ UNCHANGED <<tunVars, got, queueLen>>
-----------------------------------------------------------------------------
Init ==
  /\ reg = None
  /\ tun = [t \in Tunnels |-> "none"] /\ old = [t \in Tunnels |-> None] /\ closed = {}
  /\ at = [r \in Requests |-> "idle"] /\ got = [r \in Requests |-> None]
  /\ slots = 0 /\ waiters = <<>> /\ queueLen = 0

HandleTunnel(t) ==
  \/ Register(t) \/ CloseOld(t) \/ Acknowledge(t) \/ Ends(t) \/ Unregister(t) \/ CloseRefused(t)

\* What a request does on its own; Abandon is left out, as queueTimeout may be none.
Continue(r) ==
  \/ Look(r) \/ GiveUpLooking(r) \/ Acquire(r) \/ Join(r) \/ Select(r)
  \/ LeaveAfterGrant(r) \/ Leave(r) \/ Proxy(r) \/ ProxyEnds(r) \/ Release(r)

Next ==
  \/ \E t \in Tunnels : Connect(t) \/ Breaks(t) \/ HandleTunnel(t)
  \/ \E r \in Requests : Arrive(r) \/ Abandon(r) \/ Continue(r)

Spec == Init /\ [][Next]_vars

\* Goroutines run on; the grace ends; a request that is proxied ends (Tunnel!RequestsEnd).
FairSpec == Spec /\ \A r \in Requests : WF_vars(Continue(r))
-----------------------------------------------------------------------------
(* Properties *)

TunnelPlaces == {"none", "hello", "closing", "acking", "serving", "ended", "refused", "unregistered", "gone"}
Places == {"idle", "looking", "found", "full", "joining", "queued", "leaving",
           "granted", "holding", "proxying", "over"}

TypeOK ==
  /\ reg \in Tunnels \cup {None}
  /\ tun \in [Tunnels -> TunnelPlaces] /\ old \in [Tunnels -> Tunnels \cup {None}]
  /\ closed \subseteq Tunnels
  /\ at \in [Requests -> Places] /\ got \in [Requests -> Tunnels \cup {None}]
  /\ slots \in 0 .. MaxConcurrent /\ queueLen \in 0 .. MaxQueue
  /\ waiters \in Seq(Requests)

Holders == {r \in Requests : at[r] \in {"granted", "holding", "proxying", "over"}}
Queueing == {r \in Requests : at[r] \in {"joining", "queued", "leaving", "granted"}}

\* The two counts of a pod are those of the requests that hold a slot and of
\* those in Acquire's queue, on every way out: none is kept, none freed twice.
SlotsAreCounted == slots = Cardinality(Holders) /\ queueLen = Cardinality(Queueing)

\* Those who wait are blocked once each, and no slot is free beside them.
WaitersAreBlocked ==
  /\ \A r \in Requests : at[r] = "queued" => \E i \in 1 .. Len(waiters) : waiters[i] = r
  /\ \A i \in 1 .. Len(waiters) : at[waiters[i]] = "queued"
  /\ \A i, j \in 1 .. Len(waiters) : waiters[i] = waiters[j] => i = j
  /\ waiters # <<>> => slots = MaxConcurrent

GateInv == TypeOK /\ SlotsAreCounted /\ WaitersAreBlocked

\* Unregister "avoids removing a newer reconnect": an open tunnel that was
\* registered is found, unless a newer one has taken over and is about to close
\* it; and no tunnel is found whose handler has unregistered it.
RegistryIsTrue ==
  /\ reg # None => tun[reg] \notin {"none", "hello", "unregistered", "gone"}
  /\ \A t \in Tunnels : tun[t] \in {"closing", "acking", "serving"} /\ t \notin closed
       => reg = t \/ \E u \in Tunnels : tun[u] = "closing" /\ old[u] = t

\* Every request is answered: it gets through, is refused, or gives up.
RequestsAreAnswered == \A r \in Requests : (at[r] # "idle") ~> (at[r] = "idle")
=============================================================================
