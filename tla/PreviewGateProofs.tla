-------------------------- MODULE PreviewGateProofs --------------------------
(***************************************************************************)
(* Proofs about the preview gate, for any tunnels, requests, slots and     *)
(* places in the queue.                                                    *)
(***************************************************************************)
EXTENDS PreviewGate, FiniteSetTheorems, TLAPS

(***************************************************************************)
(* The registry.                                                           *)
(***************************************************************************)
RegistryTyped ==
  /\ reg \in Tunnels \cup {None}
  /\ tun \in [Tunnels -> TunnelPlaces] /\ old \in [Tunnels -> Tunnels \cup {None}]
  /\ closed \subseteq Tunnels

RegistryInv == RegistryTyped /\ RegistryIsTrue

\* Nothing is registered and no tunnel is there at first.
LEMMA RegistryInit == Init => RegistryInv
  BY GateAssumption DEF Init, RegistryInv, RegistryTyped, RegistryIsTrue, TunnelPlaces

\* Connecting, taking over, closing and unregistering keep the registry true.
LEMMA RegistryStep == RegistryInv /\ [Next]_vars => RegistryInv'
<1> SUFFICES ASSUME RegistryInv, [Next]_vars PROVE RegistryInv'
  OBVIOUS
<1> USE GateAssumption DEF RegistryInv, RegistryTyped, RegistryIsTrue, TunnelPlaces
<1>1. ASSUME NEW t \in Tunnels, Connect(t) PROVE RegistryInv'
  BY <1>1 DEF Connect
<1>2. ASSUME NEW t \in Tunnels, Register(t) PROVE RegistryInv'
  BY <1>2 DEF Register
<1>3. ASSUME NEW t \in Tunnels, CloseOld(t) PROVE RegistryInv'
  BY <1>3 DEF CloseOld
<1>4. ASSUME NEW t \in Tunnels, Acknowledge(t) PROVE RegistryInv'
  BY <1>4 DEF Acknowledge
<1>5. ASSUME NEW t \in Tunnels, Breaks(t) PROVE RegistryInv'
  BY <1>5 DEF Breaks
<1>6. ASSUME NEW t \in Tunnels, Ends(t) PROVE RegistryInv'
  BY <1>6 DEF Ends
<1>7. ASSUME NEW t \in Tunnels, Unregister(t) PROVE RegistryInv'
  BY <1>7 DEF Unregister, Removed
<1>8. ASSUME NEW t \in Tunnels, CloseRefused(t) PROVE RegistryInv'
  BY <1>8 DEF CloseRefused
<1>9. ASSUME UNCHANGED tunVars PROVE RegistryInv'
  BY <1>9 DEF tunVars
<1>10. ASSUME NEW r \in Requests, Arrive(r) \/ Abandon(r) \/ Continue(r) PROVE UNCHANGED tunVars
  BY <1>10 DEF Arrive, Abandon, Continue, Look, GiveUpLooking, Acquire, Join, Select,
               LeaveAfterGrant, Leave, Proxy, ProxyEnds, Release
<1>11. CASE UNCHANGED vars
  BY <1>9, <1>11 DEF vars, tunVars
<1> QED
  BY <1>1, <1>2, <1>3, <1>4, <1>5, <1>6, <1>7, <1>8, <1>9, <1>10, <1>11 DEF Next, HandleTunnel

\* Registry.Unregister never takes a newer tunnel away and never leaves an older
\* one behind, however many connections of a runner come and go at once.
THEOREM RegistryInvariant == Spec => []RegistryIsTrue
<1>1. Init => RegistryInv
  BY RegistryInit
<1>2. RegistryInv /\ [Next]_vars => RegistryInv'
  BY RegistryStep
<1>3. RegistryInv => RegistryIsTrue
  BY DEF RegistryInv
<1> QED
  BY <1>1, <1>2, <1>3, PTL DEF Spec

(***************************************************************************)
(* Counting requests.                                                      *)
(***************************************************************************)
\* One request more or less in a set of requests changes its count by one.
LEMMA CountIsNat == ASSUME NEW S \in SUBSET Requests PROVE Cardinality(S) \in Nat
  BY GateAssumption, FS_Subset, FS_CardinalityType

\* One more request in a set counts one more.
LEMMA CountGrows ==
  ASSUME NEW S \in SUBSET Requests, NEW r \in Requests \ S
  PROVE  Cardinality(S \cup {r}) = Cardinality(S) + 1
  BY GateAssumption, FS_Subset, FS_AddElement

\* One request less in a set counts one less.
LEMMA CountShrinks ==
  ASSUME NEW S \in SUBSET Requests, NEW r \in S
  PROVE  Cardinality(S \ {r}) = Cardinality(S) - 1 /\ Cardinality(S) >= 1
<1>1. IsFiniteSet(S)
  BY GateAssumption, FS_Subset
<1>2. Cardinality(S \ {r}) = Cardinality(S) - 1
  BY <1>1, FS_RemoveElement
<1>3. Cardinality(S \ {r}) \in Nat /\ Cardinality(S) \in Nat
  BY CountIsNat
<1> QED
  BY <1>2, <1>3

(***************************************************************************)
(* The queue of those who wait for a slot.                                 *)
(***************************************************************************)
\* What is left of the queue when one of them gives up.
LEMMA WithoutIsSeq ==
  ASSUME waiters \in Seq(Requests), NEW i \in 1 .. Len(waiters)
  PROVE  /\ Without(i) \in Seq(Requests) /\ Len(Without(i)) = Len(waiters) - 1
         /\ \A j \in 1 .. (Len(waiters) - 1) :
              Without(i)[j] = IF j < i THEN waiters[j] ELSE waiters[j + 1]
  BY DEF Without

\* And when the first of them is let in.
LEMMA TailIsSeq ==
  ASSUME waiters \in Seq(Requests), waiters # <<>>
  PROVE  /\ Head(waiters) = waiters[1] /\ Head(waiters) \in Requests /\ Len(waiters) >= 1
         /\ Tail(waiters) \in Seq(Requests) /\ Len(Tail(waiters)) = Len(waiters) - 1
         /\ \A j \in 1 .. (Len(waiters) - 1) : Tail(waiters)[j] = waiters[j + 1]
  OBVIOUS

(***************************************************************************)
(* Slots, places in the queue and those who are blocked.                   *)
(***************************************************************************)
\* A fresh pod has all slots free and nobody in its queue.
LEMMA GateInit == Init => GateInv
<1> SUFFICES ASSUME Init PROVE GateInv
  OBVIOUS
<1>1. TypeOK /\ WaitersAreBlocked
  BY GateAssumption DEF Init, TypeOK, TunnelPlaces, Places, WaitersAreBlocked
<1>2. Holders = {} /\ Queueing = {}
  BY DEF Init, Holders, Queueing
<1> QED
  BY <1>1, <1>2, FS_EmptySet DEF Init, GateInv, SlotsAreCounted

\* A request that stays on the same side of both counts, and out of the queue
\* of the blocked, changes nothing.
LEMMA WalkKeepsGate ==
  ASSUME GateInv, NEW r \in Requests, NEW place \in Places, Goto(r, place), UNCHANGED slotVars,
         got' \in [Requests -> Tunnels \cup {None}], UNCHANGED tunVars,
         at[r] # "queued", place # "queued",
         (place \in {"granted", "holding", "proxying", "over"}) = (r \in Holders),
         (place \in {"joining", "queued", "leaving", "granted"}) = (r \in Queueing)
  PROVE  GateInv'
<1> USE DEF GateInv, Goto, slotVars
<1>1. Holders' = Holders /\ Queueing' = Queueing
  BY DEF TypeOK, Holders, Queueing
<1>2. TypeOK'
  BY DEF TypeOK, tunVars
<1>3. WaitersAreBlocked'
  BY DEF TypeOK, WaitersAreBlocked
<1> QED
  BY <1>1, <1>2, <1>3 DEF SlotsAreCounted

\* A request that takes or gives a place of the queue is counted.
LEMMA PlaceIsCounted ==
  ASSUME GateInv, NEW r \in Requests, Holders' = Holders, UNCHANGED slots,
         \/ r \notin Queueing /\ Queueing' = Queueing \cup {r} /\ queueLen < MaxQueue /\ queueLen' = queueLen + 1
         \/ r \in Queueing /\ Queueing' = Queueing \ {r} /\ queueLen' = queueLen - 1
  PROVE  SlotsAreCounted' /\ queueLen' \in 0 .. MaxQueue
<1>0. Queueing \in SUBSET Requests
  BY DEF Queueing
<1>1. CASE r \notin Queueing /\ Queueing' = Queueing \cup {r} /\ queueLen < MaxQueue /\ queueLen' = queueLen + 1
  BY <1>0, <1>1, CountGrows, GateAssumption DEF GateInv, SlotsAreCounted, TypeOK
<1>2. CASE r \in Queueing /\ Queueing' = Queueing \ {r} /\ queueLen' = queueLen - 1
  <2>1. Cardinality(Queueing \ {r}) = Cardinality(Queueing) - 1 /\ Cardinality(Queueing) >= 1
    BY <1>0, <1>2, CountShrinks
  <2>2. queueLen = Cardinality(Queueing) /\ queueLen \in 0 .. MaxQueue
    BY DEF GateInv, SlotsAreCounted, TypeOK
  <2>3. queueLen' \in 0 .. MaxQueue /\ queueLen' = Cardinality(Queueing')
    BY <1>2, <2>1, <2>2, GateAssumption
  <2> QED
    BY <2>3 DEF GateInv, SlotsAreCounted
<1> QED
  BY <1>1, <1>2

\* A request that takes or frees a slot is counted.
LEMMA SlotIsCounted ==
  ASSUME GateInv, NEW r \in Requests, Queueing' = Queueing, UNCHANGED queueLen,
         \/ r \notin Holders /\ Holders' = Holders \cup {r} /\ slots < MaxConcurrent /\ slots' = slots + 1
         \/ r \in Holders /\ Holders' = Holders \ {r} /\ slots' = slots - 1
  PROVE  SlotsAreCounted' /\ slots' \in 0 .. MaxConcurrent
<1>0. Holders \in SUBSET Requests
  BY DEF Holders
<1>1. CASE r \notin Holders /\ Holders' = Holders \cup {r} /\ slots < MaxConcurrent /\ slots' = slots + 1
  BY <1>0, <1>1, CountGrows, GateAssumption DEF GateInv, SlotsAreCounted, TypeOK
<1>2. CASE r \in Holders /\ Holders' = Holders \ {r} /\ slots' = slots - 1
  <2>1. Cardinality(Holders \ {r}) = Cardinality(Holders) - 1 /\ Cardinality(Holders) >= 1
    BY <1>0, <1>2, CountShrinks
  <2>2. slots = Cardinality(Holders) /\ slots \in 0 .. MaxConcurrent
    BY DEF GateInv, SlotsAreCounted, TypeOK
  <2>3. slots' \in 0 .. MaxConcurrent /\ slots' = Cardinality(Holders')
    BY <1>2, <2>1, <2>2, GateAssumption
  <2> QED
    BY <2>3 DEF GateInv, SlotsAreCounted
<1> QED
  BY <1>1, <1>2

\* acquire, its queue, the hand-over of a slot and its release keep the counts
\* and leave nobody blocked beside a free slot.
LEMMA GateStep == GateInv /\ [Next]_vars => GateInv'
<1> SUFFICES ASSUME GateInv, [Next]_vars PROVE GateInv'
  OBVIOUS
<1>0. at \in [Requests -> Places] /\ got \in [Requests -> Tunnels \cup {None}]
  BY DEF GateInv, TypeOK
<1>1. ASSUME NEW t \in Tunnels, Connect(t) \/ Breaks(t) \/ HandleTunnel(t) PROVE GateInv'
  <2>1. UNCHANGED <<at, got, slotVars>>
    BY <1>1 DEF Connect, Breaks, HandleTunnel, Register, CloseOld, Acknowledge, Ends, Unregister, CloseRefused
  <2>2. /\ reg' \in Tunnels \cup {None} /\ tun' \in [Tunnels -> TunnelPlaces]
        /\ old' \in [Tunnels -> Tunnels \cup {None}] /\ closed' \subseteq Tunnels
    <3> USE DEF GateInv, TypeOK, TunnelPlaces
    <3>1. CASE Connect(t) \/ Breaks(t)
      BY <3>1 DEF Connect, Breaks
    <3>2. CASE Register(t) \/ CloseOld(t)
      BY <3>2 DEF Register, CloseOld
    <3>3. CASE Acknowledge(t) \/ Ends(t)
      BY <3>3 DEF Acknowledge, Ends
    <3>4. CASE Unregister(t) \/ CloseRefused(t)
      BY <3>4 DEF Unregister, Removed, CloseRefused
    <3> QED
      BY <1>1, <3>1, <3>2, <3>3, <3>4 DEF HandleTunnel
  <2>3. Holders' = Holders /\ Queueing' = Queueing
    BY <2>1 DEF Holders, Queueing
  <2> QED
    BY <2>1, <2>2, <2>3 DEF GateInv, TypeOK, SlotsAreCounted, WaitersAreBlocked, slotVars
<1>2. ASSUME NEW r \in Requests, Arrive(r) \/ Look(r) \/ GiveUpLooking(r) \/ Proxy(r) \/ ProxyEnds(r)
      PROVE  GateInv'
  <2>1. CASE Arrive(r)
    BY <1>0, <2>1, WalkKeepsGate DEF Arrive, Places, Holders, Queueing
  <2>2. CASE Look(r)
    <3>1. got' \in [Requests -> Tunnels \cup {None}]
      BY <1>0, <2>2 DEF Look, GateInv, TypeOK
    <3> QED
      BY <2>2, <3>1, WalkKeepsGate DEF Look, Places, Holders, Queueing
  <2>3. CASE GiveUpLooking(r)
    BY <1>0, <2>3, WalkKeepsGate DEF GiveUpLooking, Places, Holders, Queueing
  <2>4. CASE Proxy(r)
    <3>1. got' \in [Requests -> Tunnels \cup {None}]
      BY <1>0, <2>4 DEF Proxy, Forget
    <3>2. AfterSend(r) \in {"over", "proxying"}
      BY DEF AfterSend
    <3> QED
      BY <2>4, <3>1, <3>2, WalkKeepsGate DEF Proxy, Places, Holders, Queueing
  <2>5. CASE ProxyEnds(r)
    BY <1>0, <2>5, WalkKeepsGate DEF ProxyEnds, Places, Holders, Queueing
  <2> QED
    BY <1>2, <2>1, <2>2, <2>3, <2>4, <2>5
<1>3. ASSUME NEW r \in Requests, Acquire(r) PROVE GateInv'
  <2>1. CASE slots < MaxConcurrent
    <3>1. Goto(r, "holding") /\ slots' = slots + 1 /\ UNCHANGED <<tunVars, got, waiters, queueLen>> /\ at[r] = "found"
      BY <1>3, <2>1 DEF Acquire
    <3>2. r \notin Holders /\ Holders' = Holders \cup {r} /\ Queueing' = Queueing
      BY <1>0, <3>1 DEF Goto, Holders, Queueing
    <3>3. SlotsAreCounted' /\ slots' \in 0 .. MaxConcurrent
      BY <2>1, <3>1, <3>2, SlotIsCounted
    <3>4. waiters = <<>>
      BY <2>1 DEF GateInv, TypeOK, WaitersAreBlocked
    <3>5. WaitersAreBlocked'
      BY <1>0, <3>1, <3>4 DEF Goto, GateInv, WaitersAreBlocked
    <3>6. TypeOK'
      BY <3>1, <3>3 DEF GateInv, TypeOK, Goto, Places, tunVars
    <3> QED
      BY <3>3, <3>5, <3>6 DEF GateInv
  <2>2. CASE ~(slots < MaxConcurrent)
    BY <1>0, <1>3, <2>2, WalkKeepsGate DEF Acquire, slotVars, Places, Holders, Queueing
  <2> QED
    BY <2>1, <2>2
<1>4. ASSUME NEW r \in Requests, Join(r) PROVE GateInv'
  <2>1. CASE queueLen < MaxQueue
    <3>1. Goto(r, "joining") /\ queueLen' = queueLen + 1 /\ UNCHANGED <<tunVars, got, slots, waiters>> /\ at[r] = "full"
      BY <1>4, <2>1 DEF Join
    <3>2. r \notin Queueing /\ Queueing' = Queueing \cup {r} /\ Holders' = Holders
      BY <1>0, <3>1 DEF Goto, Holders, Queueing
    <3>3. SlotsAreCounted' /\ queueLen' \in 0 .. MaxQueue
      BY <2>1, <3>1, <3>2, PlaceIsCounted
    <3>4. WaitersAreBlocked'
      BY <1>0, <3>1 DEF Goto, GateInv, TypeOK, WaitersAreBlocked
    <3>5. TypeOK'
      BY <3>1, <3>3 DEF GateInv, TypeOK, Goto, Places, tunVars
    <3> QED
      BY <3>3, <3>4, <3>5 DEF GateInv
  <2>2. CASE ~(queueLen < MaxQueue)
    <3>1. got' \in [Requests -> Tunnels \cup {None}]
      BY <1>0, <1>4, <2>2 DEF Join, Forget
    <3> QED
      BY <1>0, <1>4, <2>2, <3>1, WalkKeepsGate DEF Join, slotVars, Places, Holders, Queueing
  <2> QED
    BY <2>1, <2>2
<1>5. ASSUME NEW r \in Requests, Select(r) PROVE GateInv'
  <2>1. CASE slots < MaxConcurrent
    <3>1. Goto(r, "granted") /\ slots' = slots + 1 /\ UNCHANGED <<tunVars, got, waiters, queueLen>> /\ at[r] = "joining"
      BY <1>5, <2>1 DEF Select
    <3>2. r \notin Holders /\ Holders' = Holders \cup {r} /\ Queueing' = Queueing
      BY <1>0, <3>1 DEF Goto, Holders, Queueing
    <3>3. SlotsAreCounted' /\ slots' \in 0 .. MaxConcurrent
      BY <2>1, <3>1, <3>2, SlotIsCounted
    <3>4. waiters = <<>>
      BY <2>1 DEF GateInv, TypeOK, WaitersAreBlocked
    <3>5. WaitersAreBlocked'
      BY <1>0, <3>1, <3>4 DEF Goto, GateInv, WaitersAreBlocked
    <3>6. TypeOK'
      BY <3>1, <3>3 DEF GateInv, TypeOK, Goto, Places, tunVars
    <3> QED
      BY <3>3, <3>5, <3>6 DEF GateInv
  <2>2. CASE ~(slots < MaxConcurrent)
    <3>1. /\ Goto(r, "queued") /\ waiters' = Append(waiters, r)
          /\ UNCHANGED <<tunVars, got, slots, queueLen>> /\ at[r] = "joining" /\ slots = MaxConcurrent
      BY <1>5, <2>2, GateAssumption DEF Select, GateInv, TypeOK
    <3>2. Holders' = Holders /\ Queueing' = Queueing
      BY <1>0, <3>1 DEF Goto, Holders, Queueing
    <3>3. TypeOK'
      BY <3>1 DEF GateInv, TypeOK, Goto, Places, tunVars
    <3>4. /\ Len(waiters') = Len(waiters) + 1 /\ waiters'[Len(waiters) + 1] = r /\ Len(waiters) \in Nat
          /\ \A i \in 1 .. Len(waiters) : waiters'[i] = waiters[i]
      BY <3>1 DEF GateInv, TypeOK
    <3>5. WaitersAreBlocked'
      BY <1>0, <3>1, <3>4 DEF Goto, GateInv, WaitersAreBlocked
    <3> QED
      BY <3>1, <3>2, <3>3, <3>5 DEF GateInv, SlotsAreCounted
  <2> QED
    BY <2>1, <2>2
<1>6. ASSUME NEW r \in Requests, Abandon(r) PROVE GateInv'
  <2>1. PICK i \in 1 .. Len(waiters) : waiters[i] = r /\ waiters' = Without(i)
    BY <1>6 DEF Abandon
  <2>2. Goto(r, "leaving") /\ Forget(r) /\ UNCHANGED <<tunVars, slots, queueLen>> /\ at[r] = "queued"
    BY <1>6 DEF Abandon
  <2>3. Holders' = Holders /\ Queueing' = Queueing
    BY <1>0, <2>2 DEF Goto, Holders, Queueing
  <2>4. /\ waiters \in Seq(Requests) /\ Len(waiters) \in Nat /\ waiters' \in Seq(Requests)
        /\ Len(waiters') = Len(waiters) - 1
        /\ \A j \in 1 .. (Len(waiters) - 1) : waiters'[j] = IF j < i THEN waiters[j] ELSE waiters[j + 1]
    <3>1. waiters \in Seq(Requests) /\ Len(waiters) \in Nat
      BY DEF GateInv, TypeOK
    <3>2. /\ Without(i) \in Seq(Requests) /\ Len(Without(i)) = Len(waiters) - 1
          /\ \A j \in 1 .. (Len(waiters) - 1) : Without(i)[j] = IF j < i THEN waiters[j] ELSE waiters[j + 1]
      BY <3>1, WithoutIsSeq
    <3>3. waiters' = Without(i)
      BY <2>1
    <3> QED
      BY <3>1, <3>2, <3>3, Zenon
  <2>5. TypeOK'
    BY <2>2, <2>4 DEF GateInv, TypeOK, Goto, Forget, Places, tunVars
  <2>6. \A q \in Requests : at'[q] = "queued" => \E j \in 1 .. Len(waiters') : waiters'[j] = q
    <3> SUFFICES ASSUME NEW q \in Requests, at'[q] = "queued" PROVE \E j \in 1 .. Len(waiters') : waiters'[j] = q
      OBVIOUS
    <3>1. q # r /\ at[q] = "queued"
      BY <1>0, <2>2 DEF Goto
    <3>2. PICK k \in 1 .. Len(waiters) : waiters[k] = q
      BY <3>1 DEF GateInv, WaitersAreBlocked
    <3>3. k # i
      BY <2>1, <3>1, <3>2
    <3>4. CASE k < i
      BY <2>4, <3>2, <3>4
    <3>5. CASE k > i
      <4>1. k - 1 \in 1 .. Len(waiters') /\ waiters'[k - 1] = q
        BY <2>4, <3>2, <3>5
      <4> QED
        BY <4>1
    <3> QED
      BY <3>3, <3>4, <3>5
  <2>7. /\ \A j, k \in 1 .. Len(waiters) : waiters[j] = waiters[k] => j = k
        /\ \A j \in 1 .. Len(waiters) : at[waiters[j]] = "queued" /\ waiters[j] \in Requests
        /\ waiters # <<>> => slots = MaxConcurrent
    BY <2>4 DEF GateInv, WaitersAreBlocked
  <2>8. \A j \in 1 .. Len(waiters') : at'[waiters'[j]] = "queued"
    BY <1>0, <2>1, <2>2, <2>4, <2>7 DEF Goto
  <2>9. \A j, k \in 1 .. Len(waiters') : waiters'[j] = waiters'[k] => j = k
    BY <2>4, <2>7
  <2>10. slots' = MaxConcurrent
    BY <2>1, <2>2, <2>4, <2>7
  <2> QED
    BY <2>2, <2>3, <2>5, <2>6, <2>8, <2>9, <2>10 DEF GateInv, SlotsAreCounted, WaitersAreBlocked
<1>7. ASSUME NEW r \in Requests, LeaveAfterGrant(r) \/ Leave(r) PROVE GateInv'
  <2>1. PICK place \in {"holding", "idle"} :
          /\ Goto(r, place) /\ queueLen' = queueLen - 1 /\ UNCHANGED <<tunVars, got, slots, waiters>>
          /\ at[r] = IF place = "holding" THEN "granted" ELSE "leaving"
    BY <1>7 DEF LeaveAfterGrant, Leave, GivePlace
  <2>2. r \in Queueing /\ Queueing' = Queueing \ {r} /\ Holders' = Holders
    BY <1>0, <2>1 DEF Goto, Holders, Queueing
  <2>3. SlotsAreCounted' /\ queueLen' \in 0 .. MaxQueue
    BY <2>1, <2>2, PlaceIsCounted
  <2>4. WaitersAreBlocked'
    BY <1>0, <2>1 DEF Goto, GateInv, TypeOK, WaitersAreBlocked
  <2>5. TypeOK'
    BY <2>1, <2>3 DEF GateInv, TypeOK, Goto, Places, tunVars
  <2> QED
    BY <2>3, <2>4, <2>5 DEF GateInv
<1>8. ASSUME NEW r \in Requests, Release(r) PROVE GateInv'
  <2>1. CASE waiters = <<>>
    <3>1. Goto(r, "idle") /\ slots' = slots - 1 /\ UNCHANGED <<tunVars, got, waiters, queueLen>> /\ at[r] = "over"
      BY <1>8, <2>1 DEF Release
    <3>2. r \in Holders /\ Holders' = Holders \ {r} /\ Queueing' = Queueing
      BY <1>0, <3>1 DEF Goto, Holders, Queueing
    <3>3. SlotsAreCounted' /\ slots' \in 0 .. MaxConcurrent
      BY <3>1, <3>2, SlotIsCounted
    <3>4. WaitersAreBlocked'
      BY <1>0, <2>1, <3>1 DEF Goto, GateInv, WaitersAreBlocked
    <3>5. TypeOK'
      BY <3>1, <3>3 DEF GateInv, TypeOK, Goto, Places, tunVars
    <3> QED
      BY <3>3, <3>4, <3>5 DEF GateInv
  <2>2. CASE waiters # <<>>
    <3> DEFINE first == Head(waiters)
    <3>1. /\ at[r] = "over" /\ at' = [at EXCEPT ![r] = "idle", ![first] = "granted"]
          /\ waiters' = Tail(waiters) /\ UNCHANGED <<tunVars, got, slots, queueLen>>
      BY <1>8, <2>2 DEF Release
    <3>2. /\ waiters \in Seq(Requests) /\ Len(waiters) \in Nat /\ Len(waiters) >= 1
          /\ first = waiters[1] /\ first \in Requests
          /\ waiters' \in Seq(Requests) /\ Len(waiters') = Len(waiters) - 1
          /\ \A j \in 1 .. (Len(waiters) - 1) : waiters'[j] = waiters[j + 1]
      BY <2>2, <3>1, TailIsSeq DEF GateInv, TypeOK
    <3>3. /\ \A j, k \in 1 .. Len(waiters) : waiters[j] = waiters[k] => j = k
          /\ \A j \in 1 .. Len(waiters) : at[waiters[j]] = "queued" /\ waiters[j] \in Requests
          /\ slots = MaxConcurrent
      BY <2>2, <3>2 DEF GateInv, WaitersAreBlocked
    <3> HIDE DEF first
    <3>4. at[first] = "queued" /\ first # r
      BY <3>1, <3>2, <3>3
    <3>5. \A q \in Requests : at'[q] = IF q = r THEN "idle" ELSE IF q = first THEN "granted" ELSE at[q]
      BY <1>0, <3>1, <3>2, <3>4
    <3>6. Holders' = (Holders \ {r}) \cup {first} /\ Queueing' = Queueing
      <4>1. at[r] = "over" /\ at[first] = "queued" /\ first # r /\ first \in Requests
        BY <3>1, <3>2, <3>4
      <4>2. ASSUME NEW q PROVE q \in Holders' <=> q \in (Holders \ {r}) \cup {first}
        BY <3>5, <4>1 DEF Holders
      <4>3. ASSUME NEW q PROVE q \in Queueing' <=> q \in Queueing
        BY <3>5, <4>1 DEF Queueing
      <4> QED
        BY <4>2, <4>3
    <3>7. r \in Holders /\ first \notin Holders /\ Holders \in SUBSET Requests
      BY <3>1, <3>4 DEF Holders
    <3>8. Cardinality(Holders \ {r}) = Cardinality(Holders) - 1 /\ Cardinality(Holders) \in Nat
      BY <3>7, CountShrinks, CountIsNat
    <3>9. Cardinality((Holders \ {r}) \cup {first}) = Cardinality(Holders \ {r}) + 1
      BY <3>2, <3>7, CountGrows
    <3>10. SlotsAreCounted'
      <4>1. slots' = Cardinality(Holders')
        BY <3>1, <3>6, <3>8, <3>9 DEF GateInv, SlotsAreCounted
      <4>2. queueLen' = Cardinality(Queueing')
        BY <3>1, <3>6 DEF GateInv, SlotsAreCounted
      <4> QED
        BY <4>1, <4>2 DEF SlotsAreCounted
    <3>11. TypeOK'
      BY <3>1, <3>2 DEF GateInv, TypeOK, Places, tunVars
    <3>12. \A q \in Requests : at'[q] = "queued" => \E j \in 1 .. Len(waiters') : waiters'[j] = q
      <4> SUFFICES ASSUME NEW q \in Requests, at'[q] = "queued" PROVE \E j \in 1 .. Len(waiters') : waiters'[j] = q
        OBVIOUS
      <4>1. q # first /\ at[q] = "queued"
        BY <3>5
      <4>2. PICK k \in 1 .. Len(waiters) : waiters[k] = q
        BY <4>1 DEF GateInv, WaitersAreBlocked
      <4>3. k # 1
        BY <3>2, <4>1, <4>2
      <4>4. k - 1 \in 1 .. Len(waiters') /\ waiters'[k - 1] = q
        BY <3>2, <4>2, <4>3
      <4> QED
        BY <4>4
    <3>13. \A j \in 1 .. Len(waiters') : at'[waiters'[j]] = "queued"
      <4> SUFFICES ASSUME NEW j \in 1 .. Len(waiters') PROVE at'[waiters'[j]] = "queued"
        OBVIOUS
      <4>1. j + 1 \in 1 .. Len(waiters) /\ waiters'[j] = waiters[j + 1] /\ 1 \in 1 .. Len(waiters)
        BY <3>2
      <4>2. waiters[j + 1] # first /\ waiters[j + 1] # r /\ waiters[j + 1] \in Requests
        BY <3>1, <3>2, <3>3, <4>1
      <4> QED
        BY <3>3, <3>5, <4>1, <4>2
    <3>14. \A j, k \in 1 .. Len(waiters') : waiters'[j] = waiters'[k] => j = k
      BY <3>2, <3>3
    <3> QED
      BY <3>1, <3>3, <3>10, <3>11, <3>12, <3>13, <3>14 DEF GateInv, WaitersAreBlocked
  <2> QED
    BY <2>1, <2>2
<1>9. CASE UNCHANGED vars
  BY <1>9 DEF vars, tunVars, slotVars, GateInv, TypeOK, SlotsAreCounted, WaitersAreBlocked, Holders, Queueing
<1> QED
  BY <1>1, <1>2, <1>3, <1>4, <1>5, <1>6, <1>7, <1>8, <1>9 DEF Next, Continue

\* For any number of requests, and whichever way each leaves Acquire, the two
\* counts of a pod are exact and nobody is blocked beside a free slot.
THEOREM GateInvariant == Spec => []GateInv
<1>1. Init => GateInv
  BY GateInit
<1>2. GateInv /\ [Next]_vars => GateInv'
  BY GateStep
<1> QED
  BY <1>1, <1>2, PTL DEF Spec
=============================================================================
