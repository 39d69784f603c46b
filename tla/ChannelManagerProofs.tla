------------------------ MODULE ChannelManagerProofs ------------------------
(***************************************************************************)
(* Proofs about the channel manager, for any pods, connections, limit on   *)
(* subscribers and calls of CloseChannel and Close.                        *)
(***************************************************************************)
EXTENDS ChannelManager, FiniteSetTheorems, TLAPS

(***************************************************************************)
(* The inductive invariant.                                                *)
(***************************************************************************)
\* A pod is in one of the three maps at most.
OneWaits ==
  \A p \in Pods : /\ channels[p] # None => pendPub[p] = None /\ pendSub[p] = None
                  /\ pendPub[p] # None => pendSub[p] = None

\* What is entered in the map, or was taken out of it to be closed, was made.
ChannelsAreMade ==
  /\ \A p \in Pods : channels[p] # None => channels[p] \in 1 .. made /\ podOf[channels[p]] = p
  /\ \A k \in Chans : k > made => state[k] = "fresh" /\ subs[k] = {}
  /\ \A k \in 1 .. made : podOf[k] \in Pods
  /\ doomed \subseteq 1 .. made

\* A channel leaves the map when it reports, or by CloseChannel or Close.
ChannelsAreFound ==
  closes = 0 => doomed = {} /\ \A k \in 1 .. made : state[k] # "closed" => channels[podOf[k]] = k

Building(c) == pc[c] \in {"publish", "subscribe"}

\* A connection that no handler has paired yet.
Unpaired(c) == mate[c] = None /\ \A d \in Conns : mate[d] # c

\* What a handler knows of the channel and the pair it works for.
HandlersKnow ==
  /\ \A c \in Conns : /\ pc[c] \in {"join", "publish", "subscribe"} => at[c] \in 1 .. made
                      /\ pc[c] = "new" => mate[c] = None /\ (c \in Pubs => Unpaired(c))
                      /\ Building(c) => mate[c] # None
                      /\ mate[c] # None => /\ mate[c] \in Subs <=> c \in Pubs
                                           /\ mate[c] \in Pubs => pc[mate[c]] # "new"
  /\ \A c, d \in Conns : Building(c) /\ Building(d) /\ at[c] = at[d] => c = d

\* A publisher waits for one pod, and nobody has taken it.
WaitersAreUnpaired ==
  \A p \in Pods : pendPub[p] # None =>
    /\ pc[pendPub[p]] = "done" /\ Unpaired(pendPub[p])
    /\ \A q \in Pods : pendPub[q] = pendPub[p] => q = p

\* The publishers a channel was created for, one for each.
Founders == {c \in Pubs : ~Unpaired(c)}
MadeIsCounted == made = Cardinality(Founders)

\* A channel whose first subscriber is still to come has a place for it.
RoomForFirst ==
  \A c \in Conns : Building(c) /\ MaxSubs > 0 => Cardinality(subs[at[c]]) =< MaxSubs

\* The publisher a new channel was created for is its publisher, or was closed.
Founder(c) == PairOf(c)[1]
FounderIsKept ==
  \A c \in Conns : pc[c] = "subscribe" /\ Founder(c) \in open =>
    pub[at[c]] = Founder(c) /\ state[at[c]] \in {"fresh", "open", "closing"}

IInv ==
  /\ TypeOK /\ OneWaits /\ ChannelsAreMade /\ ChannelsAreFound
  /\ HandlersKnow /\ WaitersAreUnpaired /\ MadeIsCounted
  /\ RoomForFirst /\ LimitPlusFirst /\ FounderIsKept /\ NoConnectionLeaks

(***************************************************************************)
(* Counting channels, subscribers and founders.                            *)
(***************************************************************************)
\* The channels made so far are the first of all there can be.
LEMMA MadeAreChans ==
  ASSUME TypeOK
  PROVE  made \in Nat /\ 1 .. made \subseteq Chans /\ \A k \in Chans : k \in 1 .. made \/ k > made
<1>1. Cardinality(Pubs) \in Nat
  BY ConstantsAssumption, FS_CardinalityType
<1> QED
  BY <1>1 DEF TypeOK, Chans

\* One subscriber more or less changes a count by one at most.
LEMMA CountOfSubs ==
  ASSUME NEW S \in SUBSET Subs
  PROVE  /\ Cardinality(S) \in Nat
         /\ \A s : Cardinality(S \cup {s}) \in Nat /\ Cardinality(S \cup {s}) =< Cardinality(S) + 1
         /\ \A T \in SUBSET S : Cardinality(T) \in Nat /\ Cardinality(T) =< Cardinality(S)
<1>1. IsFiniteSet(S) /\ Cardinality(S) \in Nat
  BY ConstantsAssumption, FS_Subset, FS_CardinalityType
<1>2. ASSUME NEW s PROVE Cardinality(S \cup {s}) \in Nat /\ Cardinality(S \cup {s}) =< Cardinality(S) + 1
  BY <1>1, FS_AddElement
<1>3. ASSUME NEW T \in SUBSET S PROVE Cardinality(T) \in Nat /\ Cardinality(T) =< Cardinality(S)
  BY <1>1, <1>3, FS_Subset, FS_CardinalityType
<1> QED
  BY <1>1, <1>2, <1>3

\* Each channel is made for a publisher of its own, so that there are never
\* more of them than publishers.
LEMMA OneMoreFounder ==
  ASSUME IInv, NEW c \in Pubs, Unpaired(c), Founders' = Founders \cup {c}, made' = made + 1
  PROVE  MadeIsCounted' /\ made' \in Chans
<1>1. IsFiniteSet(Founders) /\ c \notin Founders /\ Founders \cup {c} \in SUBSET Pubs
  BY ConstantsAssumption, FS_Subset DEF Founders
<1>2. Cardinality(Founders \cup {c}) = Cardinality(Founders) + 1
  BY <1>1, FS_AddElement
<1>3. Cardinality(Pubs) \in Nat /\ Cardinality(Founders \cup {c}) =< Cardinality(Pubs)
  BY <1>1, ConstantsAssumption, FS_Subset, FS_CardinalityType
<1>4. made \in Nat /\ made = Cardinality(Founders)
  BY MadeAreChans DEF IInv, MadeIsCounted
<1> QED
  BY <1>2, <1>3, <1>4 DEF Chans, MadeIsCounted

\* Channels that get no subscriber, and handlers that do not start to build
\* one, stay within the limit.
LEMMA NoMoreSubs ==
  ASSUME IInv, subs' \in [Chans -> SUBSET Subs], \A k \in Chans : subs'[k] \subseteq subs[k],
         UNCHANGED at, \A c \in Conns : Building(c)' => Building(c)
  PROVE  RoomForFirst' /\ LimitPlusFirst'
<1>1. \A k \in Chans : /\ Cardinality(subs[k]) \in Nat /\ Cardinality(subs'[k]) \in Nat
                       /\ Cardinality(subs'[k]) =< Cardinality(subs[k])
  BY CountOfSubs DEF IInv, TypeOK
<1>2. \A c \in Conns : Building(c) => at[c] \in Chans
  BY MadeAreChans DEF IInv, HandlersKnow, Building
<1>3. MaxSubs \in Nat
  BY ConstantsAssumption
<1>4. LimitPlusFirst'
  BY <1>1, <1>3 DEF IInv, LimitPlusFirst
<1>5. RoomForFirst'
  BY <1>1, <1>2, <1>3 DEF IInv, RoomForFirst
<1> QED
  BY <1>4, <1>5

(***************************************************************************)
(* The connect handlers.                                                   *)
(***************************************************************************)
\* Nothing is there at first.
LEMMA InitHolds == Init => IInv
<1> SUFFICES ASSUME Init PROVE IInv
  OBVIOUS
<1>1. TypeOK
  BY ConstantsAssumption DEF Init, TypeOK, Conns
<1>2. OneWaits /\ ChannelsAreMade /\ ChannelsAreFound /\ HandlersKnow /\ WaitersAreUnpaired
  BY ConstantsAssumption, MadeAreChans, <1>1
     DEF Init, OneWaits, ChannelsAreMade, ChannelsAreFound, HandlersKnow, WaitersAreUnpaired, Building, Unpaired,
         Conns
<1>3. Founders = {}
  BY ConstantsAssumption DEF Init, Founders, Unpaired, Conns
<1>4. MadeIsCounted
  BY <1>3, FS_EmptySet DEF Init, MadeIsCounted
<1>5. RoomForFirst /\ LimitPlusFirst /\ FounderIsKept /\ NoConnectionLeaks
  BY ConstantsAssumption, FS_EmptySet
     DEF Init, RoomForFirst, LimitPlusFirst, FounderIsKept, NoConnectionLeaks, Building
<1> QED
  BY <1>1, <1>2, <1>4, <1>5 DEF IInv

\* A handler that finds the channel of its pod.
LEMMA FindKept ==
  ASSUME IInv, NEW p \in Pods, NEW c \in Conns, pc[c] = "new", FindChannel(p, c), UNCHANGED <<doomed, closes>>
  PROVE  IInv'
<1> USE ConstantsAssumption DEF IInv, TypeOK, Conns, FindChannel, HasChannel, maps, chan, InUse
<1>1. TypeOK' /\ OneWaits' /\ ChannelsAreMade' /\ ChannelsAreFound'
  BY MadeAreChans DEF OneWaits, ChannelsAreMade, ChannelsAreFound
<1>2. HandlersKnow'
  BY DEF HandlersKnow, ChannelsAreMade, Building, Unpaired
<1>3. WaitersAreUnpaired' /\ MadeIsCounted'
  BY DEF WaitersAreUnpaired, MadeIsCounted, Founders, Unpaired
<1>4. RoomForFirst' /\ LimitPlusFirst'
  BY DEF RoomForFirst, LimitPlusFirst, Building
<1>5. FounderIsKept'
  BY DEF FounderIsKept, Founder, PairOf, HandlersKnow, Building
<1>6. NoConnectionLeaks'
  BY DEF NoConnectionLeaks
<1> QED
  BY <1>1, <1>2, <1>3, <1>4, <1>5, <1>6

\* One whose counterpart waits makes a channel for the two of them.
LEMMA CreateKept ==
  ASSUME IInv, NEW p \in Pods, NEW c \in Conns, pc[c] = "new", NEW d \in Conns, c \in Pubs <=> d \in Subs,
         \/ d \in Subs /\ pendSub[p] = d /\ pendSub' = [pendSub EXCEPT ![p] = None] /\ UNCHANGED pendPub
         \/ d \in Pubs /\ pendPub[p] = d /\ pendPub' = [pendPub EXCEPT ![p] = None] /\ UNCHANGED pendSub,
         CreateChannel(p, c, d), UNCHANGED <<doomed, closes>>
  PROVE  IInv'
<1> USE ConstantsAssumption DEF IInv, Conns, CreateChannel, HasChannel, InUse
<1> DEFINE f == IF c \in Pubs THEN c ELSE d
<1>1. f \in Pubs /\ Unpaired(f) /\ d # c /\ (d \in Pubs => pc[d] # "new") /\ d # None /\ (d \in Pubs <=> d \notin Subs)
      /\ (c \in Pubs <=> c \notin Subs)
  BY DEF HandlersKnow, WaitersAreUnpaired
<1>2. mate[c] = None /\ mate' = [mate EXCEPT ![c] = d] /\ mate \in [Conns -> Conns \cup {None}]
  BY DEF HandlersKnow, Unpaired, TypeOK
<1>3. Founders' = Founders \cup {f}
  <2>1. ASSUME NEW x \in Pubs PROVE Unpaired(x)' <=> Unpaired(x) /\ x # f
    BY <1>1, <1>2 DEF Unpaired
  <2> QED
    BY <1>1, <2>1 DEF Founders
<1>4. MadeIsCounted' /\ made' \in Chans /\ made \in Nat
  BY <1>1, <1>3, OneMoreFounder, MadeAreChans
<1>5. TypeOK'
  BY <1>4 DEF TypeOK
<1>6. OneWaits'
  BY <1>4 DEF OneWaits, TypeOK
<1>7. ChannelsAreMade' /\ ChannelsAreFound'
  BY <1>4, MadeAreChans DEF ChannelsAreMade, ChannelsAreFound, TypeOK
<1>8. HandlersKnow'
  <2>1. /\ pc' = [pc EXCEPT ![c] = "publish"] /\ at' = [at EXCEPT ![c] = made + 1]
        /\ pc \in [Conns -> {"new", "join", "publish", "subscribe", "done"}] /\ at \in [Conns -> Chans \cup {None}]
    BY DEF TypeOK
  <2>2. \A x \in Conns : Building(x)' <=> Building(x) \/ x = c
    BY <2>1 DEF Building
  <2>3. \A x, y \in Conns : Building(x)' /\ Building(y)' /\ at'[x] = at'[y] => x = y
    BY <1>4, <2>1, <2>2 DEF HandlersKnow, Building
  <2>4. ASSUME NEW x \in Conns
        PROVE  /\ pc'[x] \in {"join", "publish", "subscribe"} => at'[x] \in 1 .. made'
               /\ pc'[x] = "new" => mate'[x] = None /\ (x \in Pubs => Unpaired(x)')
               /\ Building(x)' => mate'[x] # None
               /\ mate'[x] # None => /\ mate'[x] \in Subs <=> x \in Pubs
                                     /\ mate'[x] \in Pubs => pc'[mate'[x]] # "new"
    <3>1. pc'[x] \in {"join", "publish", "subscribe"} => at'[x] \in 1 .. made'
      BY <1>4, <2>1 DEF HandlersKnow
    <3>2. CASE x = c
      <4>1. mate'[x] = d /\ pc'[x] = "publish"
        BY <1>2, <2>1, <3>2
      <4>2. d \in Pubs => pc'[d] # "new"
        BY <1>1, <2>1
      <4> QED
        BY <1>1, <3>1, <3>2, <4>1, <4>2
    <3>3. CASE x # c
      <4>1. mate'[x] = mate[x] /\ pc'[x] = pc[x]
        BY <1>2, <2>1, <3>3
      <4>2. x \in Pubs /\ pc[x] = "new" => Unpaired(x)'
        BY <1>1, <1>2, <3>3 DEF HandlersKnow, Unpaired
      <4>3. mate[x] # None /\ mate[x] \in Pubs => pc'[mate[x]] # "new"
        BY <2>1 DEF HandlersKnow
      <4> QED
        BY <2>2, <3>1, <3>3, <4>1, <4>2, <4>3 DEF HandlersKnow
    <3> QED
      BY <3>2, <3>3
  <2> QED
    BY <2>3, <2>4 DEF HandlersKnow
<1>9. WaitersAreUnpaired'
  BY <1>1, <1>2 DEF WaitersAreUnpaired, Unpaired, TypeOK
<1>10. RoomForFirst' /\ LimitPlusFirst'
  <2>1. subs[made + 1] = {}
    BY <1>4 DEF ChannelsAreMade
  <2>2. LimitPlusFirst'
    BY DEF LimitPlusFirst
  <2>3. ASSUME NEW x \in Conns, Building(x)' PROVE MaxSubs > 0 => Cardinality(subs'[at'[x]]) =< MaxSubs
    <3>1. CASE x = c
      <4>1. subs'[at'[x]] = {}
        BY <2>1, <3>1 DEF TypeOK
      <4>2. Cardinality(subs'[at'[x]]) = 0
        BY <4>1, FS_EmptySet
      <4> QED
        BY <4>2
    <3>2. CASE x # c
      BY <2>3, <3>2 DEF RoomForFirst, Building, TypeOK
    <3> QED
      BY <3>1, <3>2
  <2> QED
    BY <2>2, <2>3 DEF RoomForFirst
<1>11. FounderIsKept'
  BY <1>1, <1>2 DEF FounderIsKept, Founder, PairOf, HandlersKnow, Building, TypeOK
<1>12. NoConnectionLeaks'
  BY <1>1, <1>2 DEF NoConnectionLeaks, TypeOK, HandlersKnow
<1> QED
  BY <1>4, <1>5, <1>6, <1>7, <1>8, <1>9, <1>10, <1>11, <1>12

\* One that is the first of its kind waits, in the place of an older one.
LEMMA WaitKept ==
  ASSUME IInv, NEW p \in Pods, NEW c \in Conns, pc[c] = "new",
         \/ /\ c \in Pubs /\ pendSub[p] = None /\ BecomePending(p, c, pendPub[p])
            /\ pendPub' = [pendPub EXCEPT ![p] = c] /\ UNCHANGED pendSub
         \/ /\ c \in Subs /\ pendPub[p] = None /\ BecomePending(p, c, pendSub[p])
            /\ pendSub' = [pendSub EXCEPT ![p] = c] /\ UNCHANGED pendPub,
         UNCHANGED <<doomed, closes>>
  PROVE  IInv'
<1> USE ConstantsAssumption DEF IInv, TypeOK, Conns, chan, InUse
<1>1. /\ pc' = [pc EXCEPT ![c] = "done"] /\ channels[p] = None
      /\ UNCHANGED <<channels, chan, at, mate>>
      /\ mate[c] = None /\ (c \in Pubs => Unpaired(c))
  BY DEF BecomePending, HasChannel, HandlersKnow
<1>2. \/ /\ c \in Pubs /\ pendSub[p] = None /\ open' = (open \cup {c}) \ {pendPub[p]}
         /\ pendPub' = [pendPub EXCEPT ![p] = c] /\ UNCHANGED pendSub
      \/ /\ c \in Subs /\ pendPub[p] = None /\ open' = (open \cup {c}) \ {pendSub[p]}
         /\ pendSub' = [pendSub EXCEPT ![p] = c] /\ UNCHANGED pendPub
  BY DEF BecomePending, Replaced
<1>3. TypeOK'
  <2>1. UNCHANGED <<channels, made, state, podOf, pub, subs, at, mate, doomed, closes>>
    BY <1>1
  <2>2. pc' \in [Conns -> {"new", "join", "publish", "subscribe", "done"}]
    BY <1>1
  <2>3. pendPub' \in [Pods -> Pubs \cup {None}] /\ pendSub' \in [Pods -> Subs \cup {None}]
    BY <1>2
  <2>4. open' \subseteq open \cup {c}
    BY <1>2
  <2> QED
    BY <2>1, <2>2, <2>3, <2>4
<1>4. OneWaits'
  BY <1>1, <1>2 DEF OneWaits
<1>5. ChannelsAreMade' /\ ChannelsAreFound'
  BY <1>1 DEF ChannelsAreMade, ChannelsAreFound
<1>6. HandlersKnow'
  BY <1>1 DEF HandlersKnow, Building, Unpaired
<1>7. WaitersAreUnpaired'
  BY <1>1, <1>2 DEF WaitersAreUnpaired, Unpaired
<1>8. MadeIsCounted'
  BY <1>1 DEF MadeIsCounted, Founders, Unpaired
<1>9. RoomForFirst' /\ LimitPlusFirst'
  BY <1>1 DEF RoomForFirst, LimitPlusFirst, Building
<1>10. FounderIsKept'
  <2> SUFFICES ASSUME NEW x \in Conns, pc'[x] = "subscribe", Founder(x)' \in open'
               PROVE  pub'[at'[x]] = Founder(x)' /\ state'[at'[x]] \in {"fresh", "open", "closing"}
    BY DEF FounderIsKept
  <2>1. x # c /\ pc[x] = "subscribe" /\ Founder(x)' = Founder(x)
    BY <1>1 DEF Founder, PairOf
  <2>2. Founder(x) # c
    BY <1>1, <2>1 DEF Founder, PairOf, Unpaired, HandlersKnow, Building
  <2>3. Founder(x) \in open
    BY <1>2, <2>1, <2>2
  <2> QED
    BY <1>1, <2>1, <2>3 DEF FounderIsKept
<1>11. NoConnectionLeaks'
  <2> SUFFICES ASSUME NEW x \in open'
               PROVE  \/ pc'[x] # "done"
                      \/ \E d \in Conns : mate'[d] = x /\ pc'[d] \in {"publish", "subscribe"}
                      \/ \E q \in Pods : x \in {pendPub'[q], pendSub'[q]}
                      \/ \E k \in Chans : (InUse(k)' \/ state'[k] = "closing") /\ (x = pub'[k] \/ x \in subs'[k])
    BY DEF NoConnectionLeaks
  <2>1. CASE x = c
    <3>1. c = pendPub'[p] \/ c = pendSub'[p]
      BY <1>2
    <3> QED
      BY <2>1, <3>1
  <2>2. CASE x # c
    <3>1. x \in open
      BY <1>2, <2>2
    <3>2. ASSUME NEW q \in Pods, x \in {pendPub[q], pendSub[q]} PROVE x \in {pendPub'[q], pendSub'[q]}
      BY <1>1, <1>2, <3>2
    <3> QED
      BY <1>1, <2>2, <3>1, <3>2 DEF NoConnectionLeaks, Building
  <2> QED
    BY <2>1, <2>2
<1> QED
  BY <1>3, <1>4, <1>5, <1>6, <1>7, <1>8, <1>9, <1>10, <1>11

(***************************************************************************)
(* What the handlers do to a channel.                                      *)
(***************************************************************************)
\* A connection in a channel that is not through closing.
InChannel(c) == \E k \in Chans : (InUse(k) \/ state[k] = "closing") /\ (c = pub[k] \/ c \in subs[k])

\* A channel gets a publisher, and the relay closes the one it had; or the
\* channel is closed, and the relay closes the new one.
LEMMA SetPublisherKeeps ==
  ASSUME IInv, NEW k \in 1 .. made, NEW c \in Pubs, SetPublisher(k, c), UNCHANGED <<maps, made, podOf, subs, doomed, closes>>
  PROVE  /\ pub' \in [Chans -> Pubs \cup {None}] /\ open' \subseteq open
         /\ state' \in [Chans -> {"fresh", "open", "closing", "reporting", "closed"}]
         /\ ChannelsAreMade' /\ ChannelsAreFound'
         /\ \A x \in open' : InChannel(x) \/ x = c => InChannel(x)'
         /\ c \in open' => pub'[k] = c /\ state'[k] = "open"
         /\ \A j \in Chans, x \in Pubs : /\ x \in open' /\ pub[j] = x
                                      /\ state[j] \in {"fresh", "open", "closing"}
                                      => pub'[j] = x /\ state'[j] \in {"fresh", "open", "closing"}
<1> USE ConstantsAssumption DEF IInv, TypeOK, maps, InUse
<1>0. made \in Nat /\ k \in Chans /\ 1 .. made \subseteq Chans /\ c # None
  BY MadeAreChans
<1>1. CASE InUse(k)
  <2>1. /\ pub' = [pub EXCEPT ![k] = c] /\ open' = open \ {pub[k]} /\ state' = [state EXCEPT ![k] = "open"]
    BY <1>1 DEF SetPublisher, Replaced
  <2>2. ChannelsAreMade' /\ ChannelsAreFound'
    BY <1>0, <1>1, <2>1 DEF ChannelsAreMade, ChannelsAreFound
  <2>3. \A x \in open' : InChannel(x) \/ x = c => InChannel(x)'
    BY <1>0, <1>1, <2>1 DEF InChannel
  <2> QED
    BY <1>0, <1>1, <2>1, <2>2, <2>3
<1>2. CASE ~InUse(k)
  <2>1. open' = open \ {c} /\ UNCHANGED <<pub, state>>
    BY <1>2 DEF SetPublisher
  <2>2. ChannelsAreMade' /\ ChannelsAreFound'
    BY <2>1 DEF ChannelsAreMade, ChannelsAreFound
  <2> QED
    BY <2>1, <2>2 DEF InChannel
<1> QED
  BY <1>1, <1>2

\* A channel gets a subscriber, or the relay closes it.
LEMMA AddSubscriberKeeps ==
  ASSUME IInv, NEW k \in 1 .. made, NEW c \in Subs, NEW limit \in Nat, AddSubscriber(k, c, limit),
         UNCHANGED <<maps, made, state, podOf, pub, doomed, closes>>
  PROVE  /\ subs' \in [Chans -> SUBSET Subs] /\ open' \subseteq open
         /\ ChannelsAreMade' /\ ChannelsAreFound'
         /\ \A x \in open' : InChannel(x) \/ x = c => InChannel(x)'
         /\ \A j \in Chans : /\ j # k \/ (limit > 0 /\ Cardinality(subs[j]) >= limit) => subs'[j] = subs[j]
                            /\ Cardinality(subs'[j]) \in Nat /\ Cardinality(subs'[j]) =< Cardinality(subs[j]) + 1
<1> USE ConstantsAssumption DEF IInv, TypeOK, maps, InUse
<1>0. made \in Nat /\ k \in Chans /\ 1 .. made \subseteq Chans
  BY MadeAreChans
<1>1. CASE InUse(k) /\ Below(k, limit)
  <2>1. subs' = [subs EXCEPT ![k] = @ \cup {c}] /\ UNCHANGED open
    BY <1>1 DEF AddSubscriber
  <2>2. ChannelsAreMade' /\ ChannelsAreFound'
    BY <1>0, <2>1 DEF ChannelsAreMade, ChannelsAreFound
  <2>3. \A x \in open' : InChannel(x) \/ x = c => InChannel(x)'
    BY <1>0, <1>1, <2>1 DEF InChannel
  <2>4. subs' \in [Chans -> SUBSET Subs] /\ \A j \in Chans : subs'[j] = subs[j] \/ subs'[j] = subs[j] \cup {c}
    BY <2>1
  <2>5. ASSUME NEW j \in Chans
        PROVE  Cardinality(subs'[j]) \in Nat /\ Cardinality(subs'[j]) =< Cardinality(subs[j]) + 1
    <3>1. subs[j] \in SUBSET Subs
      OBVIOUS
    <3>2. Cardinality(subs[j]) \in Nat /\ Cardinality(subs[j] \cup {c}) \in Nat
          /\ Cardinality(subs[j] \cup {c}) =< Cardinality(subs[j]) + 1
      BY <3>1, CountOfSubs
    <3>3. CASE subs'[j] = subs[j]
      BY <3>2, <3>3
    <3>4. CASE subs'[j] = subs[j] \cup {c}
      BY <3>2, <3>4
    <3> QED
      BY <2>4, <3>3, <3>4
  <2>6. Cardinality(subs[k]) \in Nat /\ ~(limit > 0 /\ Cardinality(subs[k]) >= limit)
    BY <1>0, <1>1, CountOfSubs DEF Below
  <2> QED
    BY <2>1, <2>2, <2>3, <2>4, <2>5, <2>6
<1>2. CASE ~(InUse(k) /\ Below(k, limit))
  <2>1. open' = open \ {c} /\ UNCHANGED subs
    BY <1>2 DEF AddSubscriber
  <2>2. ChannelsAreMade' /\ ChannelsAreFound'
    BY <2>1 DEF ChannelsAreMade, ChannelsAreFound
  <2>3. \A j \in Chans : Cardinality(subs'[j]) \in Nat /\ Cardinality(subs'[j]) =< Cardinality(subs[j]) + 1
    BY <2>1, CountOfSubs
  <2> QED
    BY <2>1, <2>2, <2>3 DEF InChannel
<1> QED
  BY <1>1, <1>2

\* A handler that goes on to its next call, or ends.
LEMMA HandlerGoesOn ==
  ASSUME IInv, NEW c \in Conns, NEW place \in {"subscribe", "done"}, pc' = [pc EXCEPT ![c] = place],
         pc[c] # "new", place = "subscribe" => pc[c] = "publish", UNCHANGED <<maps, made, at, mate>>
  PROVE  /\ pc' \in [Conns -> {"new", "join", "publish", "subscribe", "done"}]
         /\ OneWaits' /\ HandlersKnow' /\ WaitersAreUnpaired' /\ MadeIsCounted'
         /\ \A x \in Conns : Building(x)' => Building(x)
<1> USE ConstantsAssumption DEF IInv, TypeOK, maps
<1>1. pc' \in [Conns -> {"new", "join", "publish", "subscribe", "done"}]
  OBVIOUS
<1>2. \A x \in Conns : Building(x)' => Building(x)
  BY DEF Building
<1>3. OneWaits' /\ MadeIsCounted'
  BY DEF OneWaits, MadeIsCounted, Founders, Unpaired
<1>4. HandlersKnow'
  BY <1>2 DEF HandlersKnow, Unpaired, Conns
<1>5. WaitersAreUnpaired'
  BY DEF WaitersAreUnpaired, Unpaired, Conns
<1> QED
  BY <1>1, <1>2, <1>3, <1>4, <1>5

\* The publisher's handler joins the channel it found.
LEMMA JoinAsPublisherKept == ASSUME IInv, NEW c \in Conns, JoinAsPublisher(c) PROVE IInv'
<1> USE DEF JoinAsPublisher
<1>1. c \in Pubs /\ at[c] \in 1 .. made /\ pc' = [pc EXCEPT ![c] = "done"]
  BY DEF IInv, HandlersKnow
<1>2. /\ pub' \in [Chans -> Pubs \cup {None}] /\ open' \subseteq open
      /\ state' \in [Chans -> {"fresh", "open", "closing", "reporting", "closed"}]
      /\ ChannelsAreMade' /\ ChannelsAreFound'
      /\ \A x \in open' : InChannel(x) \/ x = c => InChannel(x)'
      /\ \A j \in Chans, x \in Pubs : /\ x \in open' /\ pub[j] = x
                                   /\ state[j] \in {"fresh", "open", "closing"}
                                   => pub'[j] = x /\ state'[j] \in {"fresh", "open", "closing"}
  BY <1>1, SetPublisherKeeps
<1>3. /\ pc' \in [Conns -> {"new", "join", "publish", "subscribe", "done"}]
      /\ OneWaits' /\ HandlersKnow' /\ WaitersAreUnpaired' /\ MadeIsCounted'
      /\ \A x \in Conns : Building(x)' => Building(x)
  BY <1>1, HandlerGoesOn
<1>4. TypeOK'
  BY <1>2, <1>3 DEF IInv, TypeOK, maps
<1>5. RoomForFirst' /\ LimitPlusFirst'
  BY <1>3, NoMoreSubs DEF IInv, TypeOK
<1>6. FounderIsKept'
  <2> SUFFICES ASSUME NEW x \in Conns, pc'[x] = "subscribe", Founder(x)' \in open'
               PROVE  pub'[at'[x]] = Founder(x)' /\ state'[at'[x]] \in {"fresh", "open", "closing"}
    BY DEF FounderIsKept
  <2>1. pc[x] = "subscribe" /\ Founder(x)' = Founder(x) /\ at'[x] = at[x] /\ at[x] \in Chans /\ Founder(x) \in Pubs
    BY <1>1, MadeAreChans DEF IInv, TypeOK, HandlersKnow, Building, Founder, PairOf, Conns
  <2>2. pub[at[x]] = Founder(x) /\ state[at[x]] \in {"fresh", "open", "closing"}
    BY <1>2, <2>1 DEF IInv, FounderIsKept
  <2> QED
    BY <1>2, <2>1, <2>2
<1>7. NoConnectionLeaks'
  BY <1>1, <1>2 DEF IInv, TypeOK, NoConnectionLeaks, InChannel, maps
<1> QED
  BY <1>2, <1>3, <1>4, <1>5, <1>6, <1>7 DEF IInv

\* The handler that made the channel gives it the publisher of its pair first...
LEMMA PublishPairKept == ASSUME IInv, NEW c \in Conns, PublishPair(c) PROVE IInv'
<1> USE DEF PublishPair
<1> DEFINE f == Founder(c)
<1>1. f \in Pubs /\ at[c] \in 1 .. made /\ pc' = [pc EXCEPT ![c] = "subscribe"] /\ pc[c] = "publish" /\ SetPublisher(at[c], f)
  BY ConstantsAssumption DEF IInv, TypeOK, HandlersKnow, Building, Founder, PairOf, Conns
<1> HIDE DEF f
<1>2. /\ pub' \in [Chans -> Pubs \cup {None}] /\ open' \subseteq open
      /\ state' \in [Chans -> {"fresh", "open", "closing", "reporting", "closed"}]
      /\ ChannelsAreMade' /\ ChannelsAreFound'
      /\ \A x \in open' : InChannel(x) \/ x = f => InChannel(x)'
      /\ f \in open' => pub'[at[c]] = f /\ state'[at[c]] = "open"
      /\ \A j \in Chans, x \in Pubs : /\ x \in open' /\ pub[j] = x
                                   /\ state[j] \in {"fresh", "open", "closing"}
                                   => pub'[j] = x /\ state'[j] \in {"fresh", "open", "closing"}
  BY <1>1, SetPublisherKeeps
<1>3. /\ pc' \in [Conns -> {"new", "join", "publish", "subscribe", "done"}]
      /\ OneWaits' /\ HandlersKnow' /\ WaitersAreUnpaired' /\ MadeIsCounted'
      /\ \A x \in Conns : Building(x)' => Building(x)
  BY <1>1, HandlerGoesOn
<1>4. TypeOK'
  BY <1>2, <1>3 DEF IInv, TypeOK, maps
<1>5. RoomForFirst' /\ LimitPlusFirst'
  BY <1>3, NoMoreSubs DEF IInv, TypeOK
<1>6. FounderIsKept'
  <2> SUFFICES ASSUME NEW x \in Conns, pc'[x] = "subscribe", Founder(x)' \in open'
               PROVE  pub'[at'[x]] = Founder(x)' /\ state'[at'[x]] \in {"fresh", "open", "closing"}
    BY DEF FounderIsKept
  <2>1. Founder(x)' = Founder(x) /\ at'[x] = at[x]
    BY DEF Founder, PairOf
  <2>2. CASE x = c
    BY <1>2, <2>1, <2>2 DEF f
  <2>3. CASE x # c
    <3>1. pc[x] = "subscribe" /\ at[x] \in Chans /\ Founder(x) \in Pubs
      BY <1>1, <2>3, MadeAreChans DEF IInv, TypeOK, HandlersKnow, Building, Founder, PairOf, Conns
    <3>2. pub[at[x]] = Founder(x) /\ state[at[x]] \in {"fresh", "open", "closing"}
      BY <1>2, <2>1, <3>1 DEF IInv, FounderIsKept
    <3> QED
      BY <1>2, <2>1, <3>1, <3>2
  <2> QED
    BY <2>2, <2>3
<1>7. NoConnectionLeaks'
  BY <1>1, <1>2 DEF IInv, TypeOK, NoConnectionLeaks, InChannel, maps
<1> QED
  BY <1>2, <1>3, <1>4, <1>5, <1>6, <1>7 DEF IInv

\* A handler that has given the channel its subscriber, or had it closed: the
\* publisher of the pair is the channel's, or was closed, and nobody is lost.
LEMMA SubscribedKeeps ==
  ASSUME IInv, NEW c \in Conns, NEW s \in Subs, NEW limit \in Nat, AddSubscriber(at[c], s, limit),
         pc' = [pc EXCEPT ![c] = "done"],
         \/ pc[c] = "join" /\ s = c
         \/ pc[c] = "subscribe" /\ s \in {c, mate[c]},
         UNCHANGED <<maps, made, state, podOf, pub, at, mate, doomed, closes>>
  PROVE  TypeOK' /\ FounderIsKept' /\ NoConnectionLeaks'
<1> USE ConstantsAssumption
<1>1. at[c] \in 1 .. made
  BY DEF IInv, HandlersKnow
<1>2. /\ subs' \in [Chans -> SUBSET Subs] /\ open' \subseteq open
      /\ \A x \in open' : InChannel(x) \/ x = s => InChannel(x)'
  BY <1>1, AddSubscriberKeeps
<1>3. TypeOK'
  <2>1. pc' \in [Conns -> {"new", "join", "publish", "subscribe", "done"}]
    BY DEF IInv, TypeOK
  <2> QED
    BY <1>2, <2>1 DEF IInv, TypeOK, maps
<1>4. FounderIsKept'
  BY <1>2 DEF IInv, TypeOK, FounderIsKept, Founder, PairOf
<1>5. NoConnectionLeaks'
  <2> SUFFICES ASSUME NEW x \in open'
               PROVE  \/ pc'[x] # "done"
                      \/ \E d \in Conns : mate'[d] = x /\ pc'[d] \in {"publish", "subscribe"}
                      \/ \E p \in Pods : x \in {pendPub'[p], pendSub'[p]}
                      \/ InChannel(x)'
    BY DEF NoConnectionLeaks, InChannel
  <2>1. x \in Conns /\ x \in open /\ pc \in [Conns -> {"new", "join", "publish", "subscribe", "done"}]
    BY <1>2 DEF IInv, TypeOK
  <2>2. CASE x = s \/ InChannel(x)
    BY <1>2, <2>2
  <2>3. CASE x = Founder(c) /\ pc[c] = "subscribe"
    <3>1. pub[at[c]] = x /\ state[at[c]] \in {"fresh", "open", "closing"} /\ at[c] \in Chans
      BY <1>1, <2>1, <2>3, MadeAreChans DEF IInv, FounderIsKept
    <3>2. InChannel(x)
      BY <3>1 DEF InChannel, InUse
    <3> QED
      BY <1>2, <3>2
  <2>4. CASE x # s /\ ~InChannel(x) /\ ~(x = Founder(c) /\ pc[c] = "subscribe")
    <3>1. x = c \/ x = mate[c] => pc[c] = "join" /\ x # c
      BY <2>1, <2>4 DEF IInv, TypeOK, HandlersKnow, Building, Founder, PairOf, Conns
    <3>2. \/ pc[x] # "done"
          \/ \E d \in Conns : mate[d] = x /\ pc[d] \in {"publish", "subscribe"}
          \/ \E p \in Pods : x \in {pendPub[p], pendSub[p]}
      BY <2>1, <2>4 DEF IInv, NoConnectionLeaks, InChannel
    <3> QED
      BY <2>1, <3>1, <3>2 DEF maps
  <2> QED
    BY <2>2, <2>3, <2>4
<1> QED
  BY <1>3, <1>4, <1>5

\* A subscriber's handler joins the channel it found, within the limit.
LEMMA JoinAsSubscriberKept == ASSUME IInv, NEW c \in Conns, JoinAsSubscriber(c) PROVE IInv'
<1> USE ConstantsAssumption DEF JoinAsSubscriber
<1>1. c \in Subs /\ at[c] \in 1 .. made /\ pc' = [pc EXCEPT ![c] = "done"]
  BY DEF IInv, HandlersKnow
<1>2. /\ ChannelsAreMade' /\ ChannelsAreFound' /\ subs' \in [Chans -> SUBSET Subs]
      /\ \A j \in Chans : /\ j # at[c] \/ (MaxSubs > 0 /\ Cardinality(subs[j]) >= MaxSubs) => subs'[j] = subs[j]
                         /\ Cardinality(subs'[j]) \in Nat /\ Cardinality(subs'[j]) =< Cardinality(subs[j]) + 1
  BY <1>1, AddSubscriberKeeps
<1>3. /\ OneWaits' /\ HandlersKnow' /\ WaitersAreUnpaired' /\ MadeIsCounted'
      /\ \A x \in Conns : Building(x)' => Building(x)
  BY <1>1, HandlerGoesOn
<1>4. TypeOK' /\ FounderIsKept' /\ NoConnectionLeaks'
  BY <1>1, SubscribedKeeps
<1>5. \A j \in Chans : Cardinality(subs[j]) \in Nat
  BY CountOfSubs DEF IInv, TypeOK
<1>6. RoomForFirst'
  <2> SUFFICES ASSUME NEW x \in Conns, Building(x)', MaxSubs > 0 PROVE Cardinality(subs'[at'[x]]) =< MaxSubs
    BY DEF RoomForFirst
  <2>1. Building(x) /\ at'[x] = at[x] /\ at[x] \in Chans
    BY <1>3, MadeAreChans DEF IInv, HandlersKnow, Building
  <2>2. Cardinality(subs[at[x]]) =< MaxSubs
    BY <2>1 DEF IInv, RoomForFirst
  <2> QED
    BY <1>2, <1>5, <2>1, <2>2
<1>7. LimitPlusFirst'
  BY <1>2, <1>5 DEF IInv, LimitPlusFirst
<1> QED
  BY <1>2, <1>3, <1>4, <1>6, <1>7 DEF IInv

\* ...and then its subscriber, without a look at the limit.
LEMMA SubscribePairKept == ASSUME IInv, NEW c \in Conns, SubscribePair(c) PROVE IInv'
<1> USE ConstantsAssumption DEF SubscribePair
<1> DEFINE s == PairOf(c)[2]
<1>1. s \in Subs /\ s \in {c, mate[c]} /\ at[c] \in 1 .. made /\ pc' = [pc EXCEPT ![c] = "done"]
      /\ pc[c] = "subscribe" /\ AddSubscriber(at[c], s, 0)
  BY DEF IInv, TypeOK, HandlersKnow, Building, PairOf, Conns
<1> HIDE DEF s
<1>2. /\ ChannelsAreMade' /\ ChannelsAreFound' /\ subs' \in [Chans -> SUBSET Subs]
      /\ \A j \in Chans : /\ j # at[c] => subs'[j] = subs[j]
                         /\ Cardinality(subs'[j]) \in Nat /\ Cardinality(subs'[j]) =< Cardinality(subs[j]) + 1
  <2>1. 0 \in Nat /\ UNCHANGED <<maps, made, state, podOf, pub, doomed, closes>>
    OBVIOUS
  <2> QED
    BY <1>1, <2>1, AddSubscriberKeeps
<1>3. /\ OneWaits' /\ HandlersKnow' /\ WaitersAreUnpaired' /\ MadeIsCounted'
      /\ \A x \in Conns : Building(x)' => Building(x)
  BY <1>1, HandlerGoesOn
<1>4. TypeOK' /\ FounderIsKept' /\ NoConnectionLeaks'
  BY <1>1, SubscribedKeeps
<1>5. \A j \in Chans : Cardinality(subs[j]) \in Nat
  BY CountOfSubs DEF IInv, TypeOK
<1>6. RoomForFirst'
  <2> SUFFICES ASSUME NEW x \in Conns, Building(x)', MaxSubs > 0 PROVE Cardinality(subs'[at'[x]]) =< MaxSubs
    BY DEF RoomForFirst
  <2>1. Building(x) /\ x # c /\ at'[x] = at[x] /\ at[x] \in Chans
    BY <1>1, <1>3, MadeAreChans DEF IInv, TypeOK, HandlersKnow, Building
  <2>2. at[x] # at[c]
    BY <1>1, <2>1 DEF IInv, HandlersKnow, Building
  <2> QED
    BY <1>2, <2>1, <2>2 DEF IInv, RoomForFirst
<1>7. LimitPlusFirst'
  <2>1. MaxSubs > 0 => Cardinality(subs[at[c]]) =< MaxSubs
    BY <1>1 DEF IInv, RoomForFirst, Building
  <2> QED
    BY <1>2, <1>5, <2>1 DEF IInv, LimitPlusFirst
<1> QED
  BY <1>2, <1>3, <1>4, <1>6, <1>7 DEF IInv

(***************************************************************************)
(* The channel's own life, and operations on the manager.                  *)
(***************************************************************************)
\* Steps that no handler takes, that make no channel and pair nobody.
LEMMA HandlersStay ==
  ASSUME IInv, UNCHANGED <<hand, made>>, \A p \in Pods : pendPub'[p] \in {pendPub[p], None}
  PROVE  HandlersKnow' /\ WaitersAreUnpaired' /\ MadeIsCounted'
<1> USE ConstantsAssumption DEF IInv, hand
<1>1. HandlersKnow'
  BY DEF HandlersKnow, Building, Unpaired
<1>2. WaitersAreUnpaired'
  BY DEF WaitersAreUnpaired, Unpaired
<1>3. MadeIsCounted'
  BY DEF MadeIsCounted, Founders, Unpaired
<1> QED
  BY <1>1, <1>2, <1>3

\* One connection of a channel is gone, or the channel starts to close.
LEMMA ChannelStepKept ==
  ASSUME IInv, NEW k \in Chans, PublisherDrops(k) \/ SubscriberLeaves(k) \/ ReconnectTimeout(k)
  PROVE  IInv'
<1> USE ConstantsAssumption DEF IInv, TypeOK, maps, hand, InUse
<1>1. UNCHANGED <<maps, made, podOf, hand, doomed, closes>>
  BY DEF PublisherDrops, SubscriberLeaves, ReconnectTimeout
<1>2. subs' \in [Chans -> SUBSET Subs] /\ \A j \in Chans : subs'[j] \subseteq subs[j]
  BY DEF PublisherDrops, SubscriberLeaves, ReconnectTimeout
<1>3. /\ pub' \in [Chans -> Pubs \cup {None}] /\ open' \subseteq open
      /\ state' \in [Chans -> {"fresh", "open", "closing", "reporting", "closed"}]
  BY DEF PublisherDrops, SubscriberLeaves, ReconnectTimeout
<1>4. \A j \in Chans : state'[j] = state[j] \/ (state[j] = "open" /\ state'[j] = "closing")
  BY DEF PublisherDrops, SubscriberLeaves, ReconnectTimeout
<1>5. \A j \in Chans, x \in open' : x # None /\ (x = pub[j] \/ x \in subs[j]) => x = pub'[j] \/ x \in subs'[j]
  BY DEF PublisherDrops, SubscriberLeaves, ReconnectTimeout
<1>6. HandlersKnow' /\ WaitersAreUnpaired' /\ MadeIsCounted'
  BY <1>1, HandlersStay
<1>7. RoomForFirst' /\ LimitPlusFirst'
  BY <1>1, <1>2, NoMoreSubs DEF Building
<1>8. TypeOK' /\ OneWaits'
  BY <1>1, <1>2, <1>3 DEF OneWaits
<1>9. ChannelsAreMade' /\ ChannelsAreFound'
  BY <1>1, <1>2, <1>4, MadeAreChans DEF ChannelsAreMade, ChannelsAreFound
<1>10. \A x : x \in open' => x \in open /\ x # None
  BY <1>3 DEF Conns
<1>11. FounderIsKept'
  <2> SUFFICES ASSUME NEW x \in Conns, pc'[x] = "subscribe", Founder(x)' \in open'
               PROVE  pub'[at'[x]] = Founder(x)' /\ state'[at'[x]] \in {"fresh", "open", "closing"}
    BY DEF FounderIsKept
  <2>1. pc[x] = "subscribe" /\ Founder(x)' = Founder(x) /\ at'[x] = at[x] /\ at[x] \in Chans /\ Founder(x) \in Pubs
    BY <1>1, MadeAreChans DEF HandlersKnow, Building, Founder, PairOf, Conns
  <2>2. pub[at[x]] = Founder(x) /\ state[at[x]] \in {"fresh", "open", "closing"}
    BY <1>10, <2>1 DEF FounderIsKept
  <2>3. pub'[at[x]] = Founder(x)
    BY <1>2, <1>5, <1>10, <2>1, <2>2
  <2> QED
    BY <1>4, <2>1, <2>2, <2>3
<1>12. NoConnectionLeaks'
  BY <1>1, <1>4, <1>5, <1>10 DEF NoConnectionLeaks
<1> QED
  BY <1>6, <1>7, <1>8, <1>9, <1>11, <1>12

\* A channel that closes closes every connection it has...
LEMMA CloseConnectionsKept == ASSUME IInv, NEW k \in Chans, CloseConnections(k) PROVE IInv'
<1> USE ConstantsAssumption DEF IInv, TypeOK, maps, hand, InUse, CloseConnections
<1>1. HandlersKnow' /\ WaitersAreUnpaired' /\ MadeIsCounted'
  BY HandlersStay
<1>2. RoomForFirst' /\ LimitPlusFirst'
  BY NoMoreSubs DEF Building
<1>3. TypeOK' /\ OneWaits' /\ ChannelsAreMade' /\ ChannelsAreFound'
  BY MadeAreChans DEF OneWaits, ChannelsAreMade, ChannelsAreFound
<1>4. FounderIsKept'
  BY MadeAreChans DEF FounderIsKept, HandlersKnow, Founder, PairOf
<1>5. NoConnectionLeaks'
  BY DEF NoConnectionLeaks
<1> QED
  BY <1>1, <1>2, <1>3, <1>4, <1>5

\* ...and takes its pod, whose channel it is, out of the map.
LEMMA OnChannelClosedKept == ASSUME IInv, NEW k \in Chans, OnChannelClosed(k) PROVE IInv'
<1> USE ConstantsAssumption DEF IInv, TypeOK, hand, InUse, OnChannelClosed
<1>1. HandlersKnow' /\ WaitersAreUnpaired' /\ MadeIsCounted'
  BY HandlersStay
<1>2. RoomForFirst' /\ LimitPlusFirst'
  BY NoMoreSubs DEF Building
<1>3. TypeOK' /\ OneWaits' /\ ChannelsAreMade' /\ ChannelsAreFound'
  BY MadeAreChans DEF OneWaits, ChannelsAreMade, ChannelsAreFound
<1>4. FounderIsKept'
  BY MadeAreChans DEF FounderIsKept, HandlersKnow, Founder, PairOf
<1>5. NoConnectionLeaks'
  BY DEF NoConnectionLeaks
<1> QED
  BY <1>1, <1>2, <1>3, <1>4, <1>5

\* A channel that is taken out of the map is closed.
LEMMA CloseDoomedKept == ASSUME IInv, NEW k \in Chans, CloseDoomed(k) PROVE IInv'
<1> USE ConstantsAssumption DEF IInv, TypeOK, maps, hand, InUse, CloseDoomed
<1>1. HandlersKnow' /\ WaitersAreUnpaired' /\ MadeIsCounted'
  BY HandlersStay
<1>2. RoomForFirst' /\ LimitPlusFirst'
  BY NoMoreSubs DEF Building
<1>3. TypeOK' /\ OneWaits' /\ ChannelsAreMade' /\ ChannelsAreFound'
  BY MadeAreChans DEF OneWaits, ChannelsAreMade, ChannelsAreFound
<1>4. FounderIsKept'
  BY MadeAreChans DEF FounderIsKept, HandlersKnow, Founder, PairOf
<1>5. NoConnectionLeaks'
  BY DEF NoConnectionLeaks
<1> QED
  BY <1>1, <1>2, <1>3, <1>4, <1>5

\* CloseChannel, Close and the cleanup change the maps, and close those who wait.
LEMMA ManagerStepKept ==
  ASSUME IInv, (\E p \in Pods : CloseChannel(p) \/ CleanupPending(p)) \/ CloseManager
  PROVE  IInv'
<1> USE ConstantsAssumption DEF IInv, TypeOK, chan, hand, InUse
<1>1. UNCHANGED <<chan, hand>> /\ open' \subseteq open
  BY DEF CloseChannel, CleanupPending, CloseManager
<1>2. /\ channels' \in [Pods -> Chans \cup {None}]
      /\ \A q \in Pods : channels'[q] \in {channels[q], None}
  BY DEF CloseChannel, CleanupPending, CloseManager
<1>3. /\ pendPub' \in [Pods -> Pubs \cup {None}] /\ pendSub' \in [Pods -> Subs \cup {None}]
      /\ \A q \in Pods : pendPub'[q] \in {pendPub[q], None} /\ pendSub'[q] \in {pendSub[q], None}
  BY DEF CloseChannel, CleanupPending, CloseManager
<1>4. \A x \in open', q \in Pods : x # None /\ x \in {pendPub[q], pendSub[q]} => x \in {pendPub'[q], pendSub'[q]}
  BY DEF CloseChannel, CleanupPending, CloseManager
<1>5. \/ UNCHANGED <<channels, doomed, closes>>
      \/ closes' = closes + 1 /\ closes' \in 0 .. MaxCloses /\ doomed' \subseteq 1 .. made
  <2>1. CASE \E p \in Pods : CloseChannel(p)
    <3>1. PICK p \in Pods : CloseChannel(p)
      BY <2>1
    <3>2. doomed' \subseteq 1 .. made
      <4>1. channels[p] \in 1 .. made /\ doomed \subseteq 1 .. made
        BY <3>1 DEF CloseChannel, ChannelsAreMade
      <4> HIDE DEF IInv, TypeOK
      <4>2. doomed' = doomed \cup {channels[p]}
        BY <3>1 DEF CloseChannel
      <4> QED
        BY <4>1, <4>2
    <3>3. closes' = closes + 1 /\ closes' \in 0 .. MaxCloses
      BY <3>1, ConstantsAssumption DEF CloseChannel
    <3> QED
      BY <3>2, <3>3
  <2>2. CASE \E p \in Pods : CleanupPending(p)
    BY <2>2 DEF CleanupPending
  <2>3. CASE CloseManager
    <3>1. Registered \subseteq 1 .. made
      BY DEF Registered, ChannelsAreMade
    <3> QED
      BY <2>3, <3>1, ConstantsAssumption DEF CloseManager, ChannelsAreMade
  <2> QED
    BY <2>1, <2>2, <2>3
<1>6. HandlersKnow' /\ WaitersAreUnpaired' /\ MadeIsCounted'
  BY <1>1, <1>3, HandlersStay
<1>7. RoomForFirst' /\ LimitPlusFirst'
  BY <1>1, NoMoreSubs DEF Building
<1>8. OneWaits'
  BY <1>2, <1>3 DEF OneWaits
<1>9. TypeOK'
  BY <1>1, <1>2, <1>3, <1>5, MadeAreChans
<1>10. ChannelsAreMade'
  BY <1>1, <1>2, <1>5 DEF ChannelsAreMade
<1>11. ChannelsAreFound'
  BY <1>1, <1>5 DEF ChannelsAreFound
<1>12. FounderIsKept'
  BY <1>1 DEF FounderIsKept, Founder, PairOf
<1>13. NoConnectionLeaks'
  BY <1>1, <1>4 DEF NoConnectionLeaks, Conns
<1> QED
  BY <1>6, <1>7, <1>8, <1>9, <1>10, <1>11, <1>12, <1>13

\* Every step keeps the invariant.
LEMMA StepKept == IInv /\ [Next]_vars => IInv'
<1> SUFFICES ASSUME IInv, [Next]_vars PROVE IInv'
  OBVIOUS
<1>1. ASSUME NEW p \in Pods, NEW c \in Pubs, HandlePublisherConnect(p, c) PROVE IInv'
  <2>1. c \in Conns /\ c \notin Subs /\ pendSub[p] \in Subs \cup {None} /\ UNCHANGED <<doomed, closes>> /\ pc[c] = "new"
    BY <1>1, ConstantsAssumption DEF IInv, TypeOK, Conns, HandlePublisherConnect
  <2>2. CASE FindChannel(p, c)
    BY <2>1, <2>2, FindKept
  <2>3. CASE pendSub[p] # None /\ CreateChannel(p, c, pendSub[p]) /\ pendSub' = TakePending(pendSub, p) /\ UNCHANGED pendPub
    BY <2>1, <2>3, CreateKept DEF TakePending, Conns
  <2>4. CASE pendSub[p] = None /\ BecomePending(p, c, pendPub[p]) /\ pendPub' = [pendPub EXCEPT ![p] = c] /\ UNCHANGED pendSub
    BY <2>1, <2>4, WaitKept
  <2> QED
    BY <1>1, <2>2, <2>3, <2>4 DEF HandlePublisherConnect
<1>2. ASSUME NEW p \in Pods, NEW c \in Subs, HandleSubscriberConnect(p, c) PROVE IInv'
  <2>1. c \in Conns /\ c \notin Pubs /\ pendPub[p] \in Pubs \cup {None} /\ UNCHANGED <<doomed, closes>> /\ pc[c] = "new"
    BY <1>2, ConstantsAssumption DEF IInv, TypeOK, Conns, HandleSubscriberConnect
  <2>2. CASE FindChannel(p, c)
    BY <2>1, <2>2, FindKept
  <2>3. CASE pendPub[p] # None /\ CreateChannel(p, c, pendPub[p]) /\ pendPub' = TakePending(pendPub, p) /\ UNCHANGED pendSub
    <3>1. pendPub[p] \in Pubs /\ pendPub[p] \notin Subs
      BY <2>1, <2>3, ConstantsAssumption
    <3> QED
      BY <2>1, <2>3, <3>1, CreateKept DEF TakePending, Conns
  <2>4. CASE pendPub[p] = None /\ BecomePending(p, c, pendSub[p]) /\ pendSub' = [pendSub EXCEPT ![p] = c] /\ UNCHANGED pendPub
    BY <2>1, <2>4, WaitKept
  <2> QED
    BY <1>2, <2>2, <2>3, <2>4 DEF HandleSubscriberConnect
<1>3. ASSUME NEW c \in Conns, Handle(c) PROVE IInv'
  BY <1>3, JoinAsPublisherKept, JoinAsSubscriberKept, PublishPairKept, SubscribePairKept DEF Handle
<1>4. ASSUME NEW k \in Chans,
             \/ PublisherDrops(k) \/ SubscriberLeaves(k) \/ ReconnectTimeout(k)
             \/ CloseConnections(k) \/ OnChannelClosed(k) \/ CloseDoomed(k)
      PROVE  IInv'
  BY <1>4, ChannelStepKept, CloseConnectionsKept, OnChannelClosedKept, CloseDoomedKept
<1>5. CASE (\E p \in Pods : CloseChannel(p) \/ CleanupPending(p)) \/ CloseManager
  BY <1>5, ManagerStepKept
<1>6. CASE UNCHANGED vars
  <2> USE ConstantsAssumption DEF IInv, vars, maps, chan, hand
  <2>1. HandlersKnow' /\ WaitersAreUnpaired' /\ MadeIsCounted'
    BY <1>6, HandlersStay DEF TypeOK
  <2>2. RoomForFirst' /\ LimitPlusFirst'
    BY <1>6, NoMoreSubs DEF TypeOK, Building
  <2>3. TypeOK' /\ OneWaits' /\ ChannelsAreMade' /\ ChannelsAreFound'
    BY <1>6 DEF TypeOK, OneWaits, ChannelsAreMade, ChannelsAreFound
  <2>4. FounderIsKept' /\ NoConnectionLeaks'
    BY <1>6 DEF FounderIsKept, Founder, PairOf, NoConnectionLeaks, InUse
  <2> QED
    BY <2>1, <2>2, <2>3, <2>4
<1> QED
  BY <1>1, <1>2, <1>3, <1>4, <1>5, <1>6 DEF Next

(***************************************************************************)
(* What the manager promises.                                              *)
(***************************************************************************)
LEMMA Invariant == Spec => []IInv
  BY InitHolds, StepKept, PTL DEF Spec

\* A pod is in one map at most.
LEMMA WaitsAreCounted == IInv => OneRolePerPod
<1> SUFFICES ASSUME IInv, NEW p \in Pods
             PROVE  Cardinality({m \in {channels[p]} : m # None}) + Cardinality({m \in {pendPub[p], pendSub[p]} : m # None}) =< 1
  BY DEF OneRolePerPod
<1> DEFINE Here == {m \in {channels[p]} : m # None}
           There == {m \in {pendPub[p], pendSub[p]} : m # None}
<1>1. (Here = {} /\ There = {}) \/ (Here = {channels[p]} /\ There = {})
      \/ (Here = {} /\ There = {pendPub[p]}) \/ (Here = {} /\ There = {pendSub[p]})
  BY DEF IInv, OneWaits
<1>2. Cardinality({}) = 0 /\ \A x : Cardinality({x}) = 1
  BY FS_EmptySet, FS_Singleton
<1> HIDE DEF Here, There
<1>3. \/ Cardinality(Here) = 0 /\ Cardinality(There) = 0
      \/ Cardinality(Here) = 1 /\ Cardinality(There) = 0
      \/ Cardinality(Here) = 0 /\ Cardinality(There) = 1
  BY <1>1, <1>2, Zenon
<1>4. Cardinality(Here) + Cardinality(There) =< 1
  BY <1>3
<1> QED
  BY <1>4 DEF Here, There

\* However the connect handlers, which look a pod up under m.mu and act on its
\* channel after they released it, the callbacks of closed channels and the calls
\* of CloseChannel and Close interleave: a pod is never in two of the three maps,
\* gets a new channel only when the old one has reported or was taken out, and
\* has at most one viewer more than the limit.
THEOREM ManagerInvariant == Spec => []ManagerInv
<1>1. ASSUME IInv PROVE OneChannelPerPod
  <2> SUFFICES ASSUME NEW j \in 1 .. made, NEW k \in 1 .. made, j # k, podOf[j] = podOf[k], closes = 0
               PROVE  "closed" \in {state[j], state[k]}
    BY <1>1, ConstantsAssumption DEF OneChannelPerPod, IInv, TypeOK
  <2> QED
    BY <1>1 DEF IInv, ChannelsAreFound
<1>2. IInv => ManagerInv
  BY <1>1, WaitsAreCounted DEF IInv, ManagerInv
<1> QED
  BY <1>2, Invariant, PTL

\* Whatever is closed under the handlers' feet, the relay holds no connection
\* open that no handler, pod or channel knows of.
THEOREM ConnectionsAreKept == Spec => []NoConnectionLeaks
<1>1. IInv => NoConnectionLeaks
  BY DEF IInv
<1> QED
  BY <1>1, Invariant, PTL

\* onChannelClosed deletes by pod key, and still never takes a newer channel
\* out of the map: until CloseChannel or Close is called, an open channel is
\* found by its pod.
THEOREM OpenChannelsAreFound == Spec => []OpenChannelIsFound
<1>1. IInv => OpenChannelIsFound
  BY DEF IInv, ChannelsAreFound, OpenChannelIsFound, InUse
<1> QED
  BY <1>1, Invariant, PTL
=============================================================================
