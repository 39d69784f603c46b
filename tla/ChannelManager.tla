--------------------------- MODULE ChannelManager ---------------------------
(***************************************************************************)
(* The relay's channel manager: it pairs the connection of a pod's runner  *)
(* (publisher) with those of its viewers (subscribers).  Whoever comes     *)
(* first waits as pending; the second creates the channel; later ones join *)
(* it.  A handler looks the pod up and changes the maps under m.mu, but    *)
(* calls SetPublisher and AddSubscriber after it has released m.mu, and a  *)
(* channel that closes reports itself by its pod key.                      *)
(*                                                                         *)
(* A channel is seen here from outside: its operations are atomic, except  *)
(* that closing it and the callback onChannelClosed are separate steps.    *)
(* RelayChannel has its inside.                                            *)
(***************************************************************************)
EXTENDS Integers, FiniteSets

CONSTANTS Pods,
          Pubs,         \* publisher connections, numbered as they arrive
          Subs,         \* subscriber connections
          MaxSubs,      \* MaxSubscribersPerPod, 0 for no limit
          MaxCloses,    \* bound: calls of CloseChannel and Close
          None

ASSUME ConstantsAssumption ==
    /\ IsFiniteSet(Pubs) /\ IsFiniteSet(Subs) /\ Pubs \subseteq Nat
    /\ Pubs \cap Subs = {} /\ None \notin Pubs \cup Subs \cup Nat
    /\ MaxSubs \in Nat /\ MaxCloses \in Nat

Conns == Pubs \cup Subs
Chans == 1..Cardinality(Pubs)      \* a channel is made of a fresh pair

VARIABLES
    channels,   \* m.channels
    pendPub,    \* m.pendingPublishers
    pendSub,    \* m.pendingSubscribers
    made,       \* number of channels created so far
    state,      \* "fresh" (no publisher yet), "open", "closing",
                \* "reporting" (the callback is due) or "closed"
    podOf,      \* the pod of a channel
    pub,        \* its publisher
    subs,       \* its subscribers
    open,       \* connections accepted and not closed by the relay
    pc,         \* where the handler of each connection is
    at,         \* the channel it found or created
    mate,       \* the pending connection it took
    doomed,     \* channels out of the map that Close will be called on
    closes      \* calls of CloseChannel and Close so far

maps == <<channels, pendPub, pendSub>>
chan == <<made, state, podOf, pub, subs>>
hand == <<pc, at, mate>>
vars == <<maps, chan, open, hand, doomed, closes>>

TypeOK ==
    /\ channels \in [Pods -> Chans \cup {None}]
    /\ pendPub \in [Pods -> Pubs \cup {None}]
    /\ pendSub \in [Pods -> Subs \cup {None}]
    /\ made \in {0} \cup Chans
    /\ state \in [Chans -> {"fresh", "open", "closing", "reporting", "closed"}]
    /\ podOf \in [Chans -> Pods \cup {None}]
    /\ pub \in [Chans -> Pubs \cup {None}]
    /\ subs \in [Chans -> SUBSET Subs]
    /\ open \subseteq Conns
    /\ pc \in [Conns -> {"new", "join", "publish", "subscribe", "done"}]
    /\ at \in [Conns -> Chans \cup {None}]
    /\ mate \in [Conns -> Conns \cup {None}]
    /\ doomed \subseteq Chans
    /\ closes \in 0..MaxCloses

Init ==
    /\ channels = [p \in Pods |-> None]
    /\ pendPub = [p \in Pods |-> None] /\ pendSub = [p \in Pods |-> None]
    /\ made = 0 /\ state = [k \in Chans |-> "fresh"]
    /\ podOf = [k \in Chans |-> None]
    /\ pub = [k \in Chans |-> None] /\ subs = [k \in Chans |-> {}]
    /\ open = {} /\ pc = [c \in Conns |-> "new"]
    /\ at = [c \in Conns |-> None] /\ mate = [c \in Conns |-> None]
    /\ doomed = {} /\ closes = 0

InUse(k) == state[k] \in {"fresh", "open"}       \* not closed

-----------------------------------------------------------------------------
(* The connect handlers, under m.mu.                                       *)

\* Mutants: a channel that is closing counts as none, a pending connection
\* stays pending when it is paired, and one that is replaced stays open.
HasOpenChannel(p)     == channels[p] # None /\ InUse(channels[p])
LeavePending(pend, p) == pend
ClosesNothing(c)      == {}

HasChannel(p)        == channels[p] # None
TakePending(pend, p) == [pend EXCEPT ![p] = None]
Replaced(c)          == {c}      \* the relay closes what c took the place of

\* The channel exists: the handler will join it.
FindChannel(p, c) ==
    /\ HasChannel(p)
    /\ pc' = [pc EXCEPT ![c] = "join"]
    /\ at' = [at EXCEPT ![c] = channels[p]]
    /\ open' = open \cup {c}
    /\ UNCHANGED <<maps, chan, mate>>

\* The counterpart is pending: create the channel and enter it in the map.
CreateChannel(p, c, counterpart) ==
    /\ ~HasChannel(p)
    /\ made' = made + 1
    /\ podOf' = [podOf EXCEPT ![made + 1] = p]
    /\ channels' = [channels EXCEPT ![p] = made + 1]
    /\ pc' = [pc EXCEPT ![c] = "publish"]
    /\ at' = [at EXCEPT ![c] = made + 1]
    /\ mate' = [mate EXCEPT ![c] = counterpart]
    /\ open' = open \cup {c}
    /\ UNCHANGED <<state, pub, subs>>

\* Nobody is there: wait, in the place of one that waited before.
BecomePending(p, c, old) ==
    /\ ~HasChannel(p)
    /\ pc' = [pc EXCEPT ![c] = "done"]
    /\ open' = (open \cup {c}) \ Replaced(old)
    /\ UNCHANGED <<channels, chan, at, mate>>

HandlePublisherConnect(p, c) ==
    /\ pc[c] = "new" /\ \A d \in Pubs : d < c => pc[d] # "new"
    /\ \/ FindChannel(p, c)
       \/ /\ pendSub[p] # None
          /\ CreateChannel(p, c, pendSub[p])
          /\ pendSub' = TakePending(pendSub, p) /\ UNCHANGED pendPub
       \/ /\ pendSub[p] = None
          /\ BecomePending(p, c, pendPub[p])
          /\ pendPub' = [pendPub EXCEPT ![p] = c] /\ UNCHANGED pendSub
    /\ UNCHANGED <<doomed, closes>>

HandleSubscriberConnect(p, c) ==
    /\ pc[c] = "new"
    /\ \/ FindChannel(p, c)
       \/ /\ pendPub[p] # None
          /\ CreateChannel(p, c, pendPub[p])
          /\ pendPub' = TakePending(pendPub, p) /\ UNCHANGED pendSub
       \/ /\ pendPub[p] = None
          /\ BecomePending(p, c, pendSub[p])
          /\ pendSub' = [pendSub EXCEPT ![p] = c] /\ UNCHANGED pendPub
    /\ UNCHANGED <<doomed, closes>>

-----------------------------------------------------------------------------
(* What they do to the channel, after m.mu is released.                    *)

Below(k, limit) == limit > 0 => Cardinality(subs[k]) < limit

\* A channel that is closed closes the connection it is given.
SetPublisher(k, c) ==
    IF InUse(k)
    THEN /\ pub' = [pub EXCEPT ![k] = c] /\ open' = open \ Replaced(pub[k])
         /\ state' = [state EXCEPT ![k] = "open"]
    ELSE open' = open \ {c} /\ UNCHANGED <<pub, state>>

AddSubscriber(k, c, limit) ==
    IF InUse(k) /\ Below(k, limit)
    THEN subs' = [subs EXCEPT ![k] = @ \cup {c}] /\ UNCHANGED open
    ELSE open' = open \ {c} /\ UNCHANGED subs

\* Joining a channel that was found.
JoinAsPublisher(c) ==
    /\ c \in Pubs /\ pc[c] = "join"
    /\ SetPublisher(at[c], c)
    /\ pc' = [pc EXCEPT ![c] = "done"]
    /\ UNCHANGED <<maps, made, podOf, subs, at, mate, doomed, closes>>

JoinAsSubscriber(c) ==
    /\ c \in Subs /\ pc[c] = "join"
    /\ AddSubscriber(at[c], c, MaxSubs)
    /\ pc' = [pc EXCEPT ![c] = "done"]
    /\ UNCHANGED <<maps, made, state, podOf, pub, at, mate, doomed, closes>>

\* The pair a new channel was created for: the publisher first.
PairOf(c) == IF c \in Pubs THEN <<c, mate[c]>> ELSE <<mate[c], c>>

PublishPair(c) ==
    /\ pc[c] = "publish"
    /\ SetPublisher(at[c], PairOf(c)[1])
    /\ pc' = [pc EXCEPT ![c] = "subscribe"]
    /\ UNCHANGED <<maps, made, podOf, subs, at, mate, doomed, closes>>

SubscribePair(c) ==
    /\ pc[c] = "subscribe"
    /\ AddSubscriber(at[c], PairOf(c)[2], 0)
    /\ pc' = [pc EXCEPT ![c] = "done"]
    /\ UNCHANGED <<maps, made, state, podOf, pub, at, mate, doomed, closes>>

-----------------------------------------------------------------------------
(* The channel's own life.                                                 *)

PublisherDrops(k) ==
    /\ state[k] = "open" /\ pub[k] # None
    /\ pub' = [pub EXCEPT ![k] = None] /\ open' = open \ {pub[k]}
    /\ UNCHANGED <<maps, made, state, podOf, subs, hand, doomed, closes>>

SubscriberLeaves(k) == \E s \in subs[k] :
    /\ InUse(k)
    /\ subs' = [subs EXCEPT ![k] = @ \ {s}] /\ open' = open \ {s}
    /\ UNCHANGED <<maps, made, state, podOf, pub, hand, doomed, closes>>

\* The reconnect timeout: the publisher was there and is gone.
ReconnectTimeout(k) ==
    /\ state[k] = "open" /\ pub[k] = None
    /\ state' = [state EXCEPT ![k] = "closing"]
    /\ UNCHANGED <<maps, made, podOf, pub, subs, open, hand, doomed, closes>>

\* closeInternal closes every connection of the channel...
CloseConnections(k) ==
    /\ state[k] = "closing"
    /\ state' = [state EXCEPT ![k] = "reporting"]
    /\ open' = open \ (subs[k] \cup {pub[k]})
    /\ pub' = [pub EXCEPT ![k] = None] /\ subs' = [subs EXCEPT ![k] = {}]
    /\ UNCHANGED <<maps, made, podOf, hand, doomed, closes>>

\* ...and calls back with the pod key.
OnChannelClosed(k) ==
    /\ state[k] = "reporting"
    /\ state' = [state EXCEPT ![k] = "closed"]
    /\ channels' = [channels EXCEPT ![podOf[k]] = None]
    /\ UNCHANGED <<pendPub, pendSub, made, podOf, pub, subs, open, hand, doomed,
                   closes>>

-----------------------------------------------------------------------------
(* Operations on the manager.                                              *)

Registered == {channels[p] : p \in {q \in Pods : channels[q] # None}}

CloseChannel(p) ==
    /\ closes < MaxCloses /\ closes' = closes + 1
    /\ channels[p] # None
    /\ channels' = [channels EXCEPT ![p] = None]
    /\ doomed' = doomed \cup {channels[p]}
    /\ UNCHANGED <<pendPub, pendSub, chan, open, hand>>

CloseManager ==
    /\ closes < MaxCloses /\ closes' = closes + 1
    /\ channels' = [p \in Pods |-> None]
    /\ doomed' = doomed \cup Registered
    /\ open' = open \ ({pendPub[p] : p \in Pods} \cup {pendSub[p] : p \in Pods})
    /\ pendPub' = [p \in Pods |-> None] /\ pendSub' = [p \in Pods |-> None]
    /\ UNCHANGED <<chan, hand>>

\* Channel.Close, on a channel that was taken out of the map.
CloseDoomed(k) ==
    /\ k \in doomed /\ doomed' = doomed \ {k}
    /\ state' = [state EXCEPT ![k] = IF InUse(k) THEN "closing" ELSE @]
    /\ UNCHANGED <<maps, made, podOf, pub, subs, open, hand, closes>>

\* cleanupPendingConnections, for one pod whose connection waited too long.
CleanupPending(p) ==
    /\ pendPub[p] # None \/ pendSub[p] # None
    /\ open' = open \ {pendPub[p], pendSub[p]}
    /\ pendPub' = [pendPub EXCEPT ![p] = None]
    /\ pendSub' = [pendSub EXCEPT ![p] = None]
    /\ UNCHANGED <<channels, chan, hand, doomed, closes>>

-----------------------------------------------------------------------------
Handle(c) == JoinAsPublisher(c) \/ JoinAsSubscriber(c) \/ PublishPair(c)
                \/ SubscribePair(c)

Next ==
    \/ \E p \in Pods : \/ \E c \in Pubs : HandlePublisherConnect(p, c)
                       \/ \E c \in Subs : HandleSubscriberConnect(p, c)
                       \/ CloseChannel(p) \/ CleanupPending(p)
    \/ \E c \in Conns : Handle(c)
    \/ \E k \in Chans : \/ PublisherDrops(k) \/ SubscriberLeaves(k)
                        \/ ReconnectTimeout(k) \/ CloseConnections(k)
                        \/ OnChannelClosed(k) \/ CloseDoomed(k)
    \/ CloseManager

Spec == Init /\ [][Next]_vars

-----------------------------------------------------------------------------
(* What makes the manager correct.                                         *)

\* A pod has a channel, or a waiting publisher, or a waiting subscriber, but
\* never two of them: a waiting connection is never passed over.
OneRolePerPod ==
    \A p \in Pods :
      Cardinality({m \in {channels[p]} : m # None}) +
      Cardinality({m \in {pendPub[p], pendSub[p]} : m # None}) =< 1

\* Every connection the relay holds open is somebody's: a handler has it, it
\* waits for its pod, or a channel that is not through closing uses it.
NoConnectionLeaks ==
    \A c \in open :
      \/ pc[c] # "done"
      \/ \E d \in Conns : mate[d] = c /\ pc[d] \in {"publish", "subscribe"}
      \/ \E p \in Pods : c \in {pendPub[p], pendSub[p]}
      \/ \E k \in Chans : (InUse(k) \/ state[k] = "closing") /\ (c = pub[k] \/ c \in subs[k])

\* A pod gets a new channel only when its old one has closed and reported, or
\* was taken out of the map by CloseChannel or Close.
OneChannelPerPod ==
    \A j, k \in 1..made :
      j # k /\ podOf[j] = podOf[k] => "closed" \in {state[j], state[k]} \/ closes > 0

\* As long as nobody calls CloseChannel or Close, a channel that is open can be
\* found by its pod: the callback of an old channel never deletes a newer one.
OpenChannelIsFound ==
    closes = 0 => \A k \in 1..made : InUse(k) => channels[podOf[k]] = k

\* The limit on subscribers, which HandleSubscriberConnect checks when it joins
\* a channel, is exceeded at most by the one the channel was created for.
LimitPlusFirst ==
    \A k \in Chans : MaxSubs > 0 => Cardinality(subs[k]) =< MaxSubs + 1

ManagerInv == TypeOK /\ OneRolePerPod /\ OneChannelPerPod /\ LimitPlusFirst

\* Documented: CloseChannel closes and removes a channel.  (A channel that is
\* open is in the map, or somebody took it out to close it.)
OpenChannelIsRegistered ==
    \A k \in 1..made : InUse(k) => channels[podOf[k]] = k \/ k \in doomed

\* Documented: the limit is checked atomically, so that no more subscribers
\* are admitted than MaxSubscribersPerPod.
LimitRespected == \A k \in Chans : MaxSubs > 0 => Cardinality(subs[k]) =< MaxSubs

\* Documented: a runner that connects to an existing channel updates its
\* publisher.  (An older connection never takes the place of a newer one.)
NewestPublisherStays ==
    [][\A k \in Chans : {pub[k], pub'[k]} \subseteq Pubs => pub[k] =< pub'[k]]_vars
=============================================================================
