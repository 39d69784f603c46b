------------------------- MODULE RelayChannelProofs -------------------------
(***************************************************************************)
(* Proofs about one relay channel, for any publisher connections,          *)
(* subscribers and limit.                                                  *)
(***************************************************************************)
EXTENDS RelayChannel, FiniteSetTheorems, TLAPS

(***************************************************************************)
(* The inductive invariant.                                                *)
(***************************************************************************)
Publishing(c) == call[c] \in {"locked", "wait", "announce"}
Shutting(p)   == closePc[p] \in {"locked", "mark", "timer", "publisher", "wait"}

\* publisherReplaceMu is held by whom it says, over all of a call.
MutexHeld ==
  /\ \A c \in Conns : Publishing(c) <=> replaceMu = c
  /\ \A p \in Closers : Shutting(p) <=> replaceMu = p

\* One epoch for each connection that became the publisher.
Swapped == {c \in Conns : call[c] \in {"wait", "announce", "done"}}
EpochsAreCounted == epoch =< Cardinality(Swapped)

\* The forwarding goroutine of an epoch is there once, alone, and arms one timer.
ForwardingIsOrdered ==
  /\ \A e, f \in Running : e = f
  /\ \A e \in Epochs : e > epoch => fwd[e] = "none"
  /\ \A c \in Conns : /\ call[c] \in {"wait", "announce"} => epoch \in Epochs /\ fwd[epoch] = "none"
                      /\ call[c] = "announce" => Running = {}
  /\ \A e \in Epochs : fwd[e] \in {"none", "start", "read", "error"} => closePc[e] = "idle" /\ timer # e
  /\ timer # 0 => closePc[timer] = "idle"

\* The publisher is the only connection given to SetPublisher that is open
\* after its Swap, and is told apart from an outage.
PublisherIsLast ==
  /\ \A c \in open \cap Conns : call[c] \in {"wait", "announce", "done"} => c = publisher
  /\ \A c \in Conns : call[c] \in {"wait", "announce"} => ~disconnected /\ ~closed
  /\ publisher # NoConn => epoch > 0

\* Between its look at the flag and the close the timer holds the mutex.
TimerSawOutage == \A e \in Epochs : closePc[e] = "mark" => disconnected

\* Closing is one goroutine's, and what it has done stays done.
ClosingIsOnce ==
  /\ \A p \in Closers : closePc[p] \in {"timer", "publisher", "wait"} => closed
  /\ closed => \/ publisher = NoConn
               \/ \E p \in Closers : closePc[p] \in {"timer", "publisher"}
  /\ closed => \/ subscribers = {} /\ Running = {}
               \/ \E p \in Closers : closePc[p] \in {"timer", "publisher", "wait"}

\* A subscriber that is connected is in the map.
OpenIsSubscribed == open \cap Subs \subseteq subscribers

\* A runner that is back is announced while its SetPublisher holds the mutex.
AnnouncedUnderMutex == \A c \in Conns : todo[c] \cup failed[c] # {} => call[c] = "announce"

IInv ==
  /\ TypeOK /\ MutexHeld /\ EpochsAreCounted /\ ForwardingIsOrdered /\ PublisherIsLast
  /\ OutageIsTimed /\ TimerSawOutage /\ ClosingIsOnce /\ OpenIsSubscribed
  /\ AnnouncedUnderMutex /\ SubscribersKnowOutage

(***************************************************************************)
(* Who is who, and counting.                                               *)
(***************************************************************************)
\* Connections, timers and the caller of Close are told apart.
LEMMA KindsDiffer ==
  /\ Cardinality(Conns) \in Nat /\ Epochs \subseteq Nat \ {0}
  /\ Conns \cap Closers = {} /\ Free \notin Conns \cup Closers
  /\ Closer \in Closers /\ Closer \notin Epochs /\ Epochs \subseteq Closers
  /\ Conns \cap Subs = {} /\ NoConn \notin Conns
  /\ \A e \in Epochs : Fwd(e) \in Bcasters /\ Fwd(e) \notin Conns
  /\ Conns \subseteq Bcasters
<1>1. Cardinality(Conns) \in Nat
  BY ConstantsAssumption, FS_CardinalityType
<1>2. Epochs \subseteq Nat \ {0}
  BY <1>1 DEF Epochs
<1>3. \A e \in Epochs : Fwd(e) \in Bcasters /\ Fwd(e) \notin Conns
  BY ConstantsAssumption DEF Epochs, Bcasters, Fwd
<1> QED
  BY <1>1, <1>2, <1>3, ConstantsAssumption DEF Closers, Bcasters

\* There have been no more subscribers than there are.
LEMMA JoinedIsVisit == Joined \in {0} \cup Visits
<1> DEFINE S == {s \in Subs : add[s] \notin {"new", "rejected"}}
<1>1. IsFiniteSet(Subs) /\ S \in SUBSET Subs
  BY ConstantsAssumption
<1> HIDE DEF S
<1>2. Cardinality(S) \in Nat /\ Cardinality(Subs) \in Nat /\ Cardinality(S) =< Cardinality(Subs)
  BY <1>1, FS_Subset, FS_CardinalityType
<1>3. Joined = Cardinality(S)
  BY DEF Joined, S
<1> QED
  BY <1>2, <1>3 DEF Visits

\* A connection that became the publisher counts for an epoch.
LEMMA OneMoreSwapped ==
  ASSUME IInv, NEW c \in Conns, call[c] = "locked", NEW place \in {"wait", "done"}, call' = [call EXCEPT ![c] = place]
  PROVE  /\ Cardinality(Swapped) \in Nat /\ Cardinality(Swapped') = Cardinality(Swapped) + 1
         /\ Cardinality(Swapped') =< Cardinality(Conns) /\ Cardinality(Conns) \in Nat
<1>1. Swapped' = Swapped \cup {c} /\ c \notin Swapped
  BY DEF IInv, TypeOK, Swapped
<1>2. Swapped \in SUBSET Conns /\ Swapped \cup {c} \in SUBSET Conns /\ IsFiniteSet(Conns)
  BY ConstantsAssumption DEF Swapped
<1>3. IsFiniteSet(Swapped) /\ Cardinality(Swapped) \in Nat /\ Cardinality(Conns) \in Nat
  BY <1>2, FS_Subset, FS_CardinalityType
<1>4. Cardinality(Swapped \cup {c}) = Cardinality(Swapped) + 1
  BY <1>1, <1>3, FS_AddElement
<1>5. Cardinality(Swapped \cup {c}) =< Cardinality(Conns)
  BY <1>2, FS_Subset
<1> QED
  BY <1>1, <1>3, <1>4, <1>5

\* Nobody publishes or closes while the mutex is free.
LEMMA FreeMutex ==
  ASSUME IInv, replaceMu = Free
  PROVE  (\A c \in Conns : ~Publishing(c)) /\ (\A p \in Closers : ~Shutting(p))
  BY KindsDiffer DEF IInv, MutexHeld

\* And one alone does while it is held.
LEMMA HeldMutex ==
  ASSUME IInv
  PROVE  /\ \A c \in Conns : Publishing(c) => /\ replaceMu = c /\ \A d \in Conns : Publishing(d) => d = c
                                             /\ \A p \in Closers : ~Shutting(p)
         /\ \A p \in Closers : Shutting(p) => /\ replaceMu = p /\ \A q \in Closers : Shutting(q) => q = p
                                             /\ \A c \in Conns : ~Publishing(c)
  BY KindsDiffer DEF IInv, MutexHeld

\* At first there is no publisher, no subscriber and no goroutine.
LEMMA InitHolds == Init => IInv
<1> SUFFICES ASSUME Init PROVE IInv
  OBVIOUS
<1> USE KindsDiffer DEF Init
<1>1. TypeOK
  <2>0. epoch \in 0 .. Cardinality(Conns)
    OBVIOUS
  <2>1. /\ publisher \in Conns \cup {NoConn}
        /\ disconnected \in BOOLEAN /\ closed \in BOOLEAN /\ timer \in {0} \cup Epochs
        /\ replaceMu \in Conns \cup Closers \cup {Free} /\ open \subseteq Conns \cup Subs
        /\ lastGone \in Nat /\ keepAlive \in {0} \cup Visits
        /\ subscribers \subseteq Subs /\ kaFired \subseteq Visits /\ kaReport \subseteq Visits /\ reports \subseteq Visits
    OBVIOUS
  <2>2. /\ call \in [Conns -> {"new", "locked", "wait", "announce", "done"}] /\ was \in [Conns -> BOOLEAN]
        /\ fwd \in [Epochs -> {"none", "start", "read", "error", "copy", "announce", "done"}]
        /\ source \in [Epochs -> Conns \cup {NoConn}]
        /\ closePc \in [Closers -> {"idle", "fired", "locked", "mark", "timer", "publisher", "wait", "done"}]
    OBVIOUS
  <2>3. /\ add \in [Subs -> {"new", "check", "tell", "in", "gone", "rejected"}]
        /\ told \in [Subs -> {"nothing", "disconnected", "reconnected", "unreachable"}]
        /\ todo \in [Bcasters -> SUBSET Subs] /\ failed \in [Bcasters -> SUBSET Subs]
    OBVIOUS
  <2> QED
    BY <2>0, <2>1, <2>2, <2>3 DEF TypeOK
<1>2. MutexHeld /\ AnnouncedUnderMutex
  BY DEF MutexHeld, Publishing, Shutting, AnnouncedUnderMutex, Bcasters
<1>3. Swapped = {} /\ Running = {}
  BY DEF Swapped, Running
<1>4. EpochsAreCounted
  BY <1>3, FS_EmptySet DEF EpochsAreCounted
<1>5. ForwardingIsOrdered /\ PublisherIsLast
  BY <1>3 DEF ForwardingIsOrdered, PublisherIsLast
<1>6. OutageIsTimed /\ TimerSawOutage /\ ClosingIsOnce /\ OpenIsSubscribed /\ SubscribersKnowOutage
  BY <1>3 DEF OutageIsTimed, TimerSawOutage, ClosingIsOnce, OpenIsSubscribed, SubscribersKnowOutage
<1> QED
  BY <1>1, <1>2, <1>4, <1>5, <1>6 DEF IInv

(***************************************************************************)
(* SetPublisher.                                                           *)
(***************************************************************************)
\* A call of SetPublisher takes the mutex.
LEMMA LockKept == ASSUME IInv, NEW c \in Conns, Lock(c) PROVE IInv'
<1> USE KindsDiffer DEF Lock, pubVars, fwdVars, subVars, sendVars, kaVars
<1>1. call' = [call EXCEPT ![c] = "locked"] /\ call[c] = "new" /\ call \in [Conns -> {"new", "locked", "wait", "announce", "done"}]
  BY DEF IInv, TypeOK
<1>2. TypeOK'
  BY DEF IInv, TypeOK
<1>3. MutexHeld'
  BY <1>1, FreeMutex DEF MutexHeld, Publishing, Shutting
<1>4. Swapped' = Swapped
  BY <1>1 DEF Swapped
<1>5. EpochsAreCounted'
  BY <1>4 DEF IInv, EpochsAreCounted
<1>6. ForwardingIsOrdered' /\ PublisherIsLast' /\ AnnouncedUnderMutex'
  BY <1>1 DEF IInv, ForwardingIsOrdered, Running, PublisherIsLast, AnnouncedUnderMutex
<1>7. OutageIsTimed' /\ TimerSawOutage' /\ ClosingIsOnce' /\ OpenIsSubscribed' /\ SubscribersKnowOutage'
  BY DEF IInv, OutageIsTimed, TimerSawOutage, ClosingIsOnce, Running, OpenIsSubscribed, SubscribersKnowOutage
<1> QED
  BY <1>2, <1>3, <1>5, <1>6, <1>7 DEF IInv

\* Its connection becomes the publisher, or is closed with the channel.
LEMMA SwapKept == ASSUME IInv, NEW c \in Conns, Swap(c) PROVE IInv'
<1> USE KindsDiffer DEF Swap, fwdVars, subVars, sendVars, kaVars
<1>1. call \in [Conns -> {"new", "locked", "wait", "announce", "done"}] /\ call[c] = "locked"
      /\ epoch \in 0 .. Cardinality(Conns) /\ epoch =< Cardinality(Swapped)
  BY DEF IInv, TypeOK, EpochsAreCounted
<1>2. replaceMu = c /\ (\A d \in Conns \ {c} : ~Publishing(d)) /\ \A p \in Closers : ~Shutting(p)
  BY <1>1, HeldMutex DEF Publishing
<1>3. CASE closed /\ open' = open \ {c} /\ call' = [call EXCEPT ![c] = "done"] /\ replaceMu' = Free
           /\ UNCHANGED <<pubVars, was>>
  <2> USE <1>3 DEF pubVars
  <2>1. TypeOK'
    BY DEF IInv, TypeOK
  <2>2. MutexHeld'
    BY <1>1, <1>2 DEF MutexHeld, Publishing, Shutting
  <2>3. EpochsAreCounted'
    <3>1. call' = [call EXCEPT ![c] = "done"] /\ "done" \in {"wait", "done"} /\ epoch' = epoch
      OBVIOUS
    <3>2. Cardinality(Swapped) \in Nat /\ Cardinality(Swapped') = Cardinality(Swapped) + 1
      BY <1>1, <3>1, OneMoreSwapped
    <3> QED
      BY <1>1, <3>1, <3>2 DEF EpochsAreCounted
  <2>4. ForwardingIsOrdered' /\ PublisherIsLast' /\ AnnouncedUnderMutex'
    BY <1>1 DEF IInv, ForwardingIsOrdered, Running, PublisherIsLast, AnnouncedUnderMutex
  <2>5. OutageIsTimed' /\ TimerSawOutage' /\ ClosingIsOnce' /\ OpenIsSubscribed' /\ SubscribersKnowOutage'
    BY DEF IInv, OutageIsTimed, TimerSawOutage, ClosingIsOnce, Running, OpenIsSubscribed, SubscribersKnowOutage
  <2> QED
    BY <2>1, <2>2, <2>3, <2>4, <2>5 DEF IInv
<1>4. CASE ~closed /\ open' = open \ {publisher} /\ was' = [was EXCEPT ![c] = disconnected]
           /\ publisher' = c /\ disconnected' = FALSE /\ epoch' = epoch + 1 /\ timer' = 0
           /\ call' = [call EXCEPT ![c] = "wait"] /\ UNCHANGED replaceMu
  <2> USE <1>4
  <2>1. epoch + 1 \in Epochs /\ EpochsAreCounted'
    <3>1. call' = [call EXCEPT ![c] = "wait"] /\ "wait" \in {"wait", "done"} /\ epoch' = epoch + 1
      OBVIOUS
    <3>2. /\ Cardinality(Swapped) \in Nat /\ Cardinality(Swapped') = Cardinality(Swapped) + 1
          /\ Cardinality(Swapped') =< Cardinality(Conns) /\ Cardinality(Conns) \in Nat
      BY <1>1, <3>1, OneMoreSwapped
    <3> QED
      BY <1>1, <3>1, <3>2 DEF EpochsAreCounted, Epochs
  <2>2. TypeOK'
    <3>1. epoch' \in 0 .. Cardinality(Conns) /\ timer' \in {0} \cup Epochs
      BY <1>1, <2>1 DEF Epochs
    <3>2. was' \in [Conns -> BOOLEAN] /\ call' \in [Conns -> {"new", "locked", "wait", "announce", "done"}]
      BY <1>1 DEF IInv, TypeOK
    <3> QED
      BY <3>1, <3>2 DEF IInv, TypeOK
  <2>3. MutexHeld'
    BY <1>1, <1>2 DEF IInv, MutexHeld, Publishing, Shutting
  <2>4. ForwardingIsOrdered'
    <3>1. \A d \in Conns : call'[d] \in {"wait", "announce"} => d = c /\ call'[d] = "wait"
      BY <1>1, <1>2 DEF Publishing
    <3>2. fwd[epoch + 1] = "none"
      BY <1>1, <2>1 DEF IInv, ForwardingIsOrdered
    <3>3. \A e \in Epochs : e > epoch + 1 => e > epoch
      BY <1>1
    <3> QED
      BY <1>1, <2>1, <3>1, <3>2, <3>3 DEF IInv, ForwardingIsOrdered, Running
  <2>5. PublisherIsLast' /\ AnnouncedUnderMutex'
    BY <1>1, <1>2 DEF IInv, PublisherIsLast, AnnouncedUnderMutex, Publishing
  <2>6. TimerSawOutage'
    BY <1>2 DEF TimerSawOutage, Shutting
  <2>7. OutageIsTimed' /\ ClosingIsOnce' /\ OpenIsSubscribed' /\ SubscribersKnowOutage'
    BY <1>1 DEF IInv, OutageIsTimed, ClosingIsOnce, OpenIsSubscribed, SubscribersKnowOutage
  <2> QED
    BY <2>1, <2>2, <2>3, <2>4, <2>5, <2>6, <2>7 DEF IInv
<1> QED
  BY <1>3, <1>4 DEF OldConnection, NextEpoch

\* The old forwarding goroutine is gone; the announcement is prepared.
LEMMA WaitedKept == ASSUME IInv, NEW c \in Conns, Waited(c) PROVE IInv'
<1> USE KindsDiffer DEF Waited, Awaited, pubVars, fwdVars, subVars, kaVars
<1>1. call' = [call EXCEPT ![c] = "announce"] /\ call[c] = "wait" /\ call \in [Conns -> {"new", "locked", "wait", "announce", "done"}]
      /\ todo' = [todo EXCEPT ![c] = IF was[c] THEN subscribers ELSE {}] /\ todo \in [Bcasters -> SUBSET Subs]
      /\ ~disconnected /\ subscribers \subseteq Subs /\ Running = {}
  BY DEF IInv, TypeOK, PublisherIsLast
<1>2. TypeOK'
  BY <1>1 DEF IInv, TypeOK
<1>3. Swapped' = Swapped /\ Running' = Running
  BY <1>1 DEF Swapped, Running
<1>4. MutexHeld' /\ EpochsAreCounted'
  BY <1>1, <1>3 DEF IInv, MutexHeld, Publishing, Shutting, EpochsAreCounted
<1>5. ForwardingIsOrdered' /\ PublisherIsLast' /\ AnnouncedUnderMutex'
  BY <1>1, <1>3 DEF IInv, ForwardingIsOrdered, PublisherIsLast, AnnouncedUnderMutex
<1>6. OutageIsTimed' /\ TimerSawOutage' /\ ClosingIsOnce' /\ OpenIsSubscribed' /\ SubscribersKnowOutage'
  BY <1>1, <1>3 DEF IInv, OutageIsTimed, TimerSawOutage, ClosingIsOnce, OpenIsSubscribed, SubscribersKnowOutage
<1> QED
  BY <1>2, <1>4, <1>5, <1>6 DEF IInv

\* The new one starts, alone, and the mutex is released.
LEMMA SpawnKept == ASSUME IInv, NEW c \in Conns, Spawn(c) PROVE IInv'
<1> USE KindsDiffer DEF Spawn, Settled, pubVars, subVars, sendVars, kaVars
<1>1. call' = [call EXCEPT ![c] = "done"] /\ call[c] = "announce" /\ call \in [Conns -> {"new", "locked", "wait", "announce", "done"}]
      /\ fwd' = [fwd EXCEPT ![epoch] = "start"] /\ fwd[epoch] = "none" /\ epoch \in Epochs /\ Running = {}
      /\ ~disconnected /\ ~closed /\ todo[c] = {} /\ failed[c] = {} /\ replaceMu' = Free
      /\ fwd \in [Epochs -> {"none", "start", "read", "error", "copy", "announce", "done"}]
  BY DEF IInv, TypeOK, PublisherIsLast, ForwardingIsOrdered
<1>2. TypeOK'
  BY DEF IInv, TypeOK
<1>3. Swapped' = Swapped
  BY <1>1 DEF Swapped
<1>4. (\A d \in Conns \ {c} : ~Publishing(d)) /\ \A p \in Closers : ~Shutting(p)
  BY <1>1, HeldMutex DEF Publishing
<1>5. MutexHeld' /\ EpochsAreCounted'
  BY <1>1, <1>3, <1>4 DEF IInv, MutexHeld, Publishing, Shutting, EpochsAreCounted
<1>6. ForwardingIsOrdered'
  <2>1. \A e \in Running' : e = epoch
    BY <1>1 DEF Running
  <2>2. \A d \in Conns : call'[d] \notin {"wait", "announce"}
    BY <1>1, <1>4 DEF Publishing
  <2> QED
    BY <1>1, <2>1, <2>2 DEF IInv, TypeOK, ForwardingIsOrdered
<1>7. PublisherIsLast' /\ AnnouncedUnderMutex'
  BY <1>1 DEF IInv, PublisherIsLast, AnnouncedUnderMutex
<1>8. OutageIsTimed' /\ TimerSawOutage' /\ ClosingIsOnce' /\ OpenIsSubscribed' /\ SubscribersKnowOutage'
  BY <1>1 DEF IInv, OutageIsTimed, TimerSawOutage, ClosingIsOnce, OpenIsSubscribed, SubscribersKnowOutage
<1> QED
  BY <1>2, <1>5, <1>6, <1>7, <1>8 DEF IInv

(***************************************************************************)
(* The forwarding goroutine.                                               *)
(***************************************************************************)
\* It goes on, and is still the only one.
LEMMA ForwarderGoesOn ==
  ASSUME IInv, NEW e \in Epochs, NEW place \in {"read", "error", "copy", "announce", "done"},
         fwd[e] \notin {"none", "done"}, fwd' = [fwd EXCEPT ![e] = place],
         place \in {"read", "error"} => fwd[e] \in {"start", "read", "error"},
         UNCHANGED <<epoch, callVars, closePc>>
  PROVE  /\ fwd' \in [Epochs -> {"none", "start", "read", "error", "copy", "announce", "done"}]
         /\ Running' \subseteq Running
         /\ UNCHANGED timer => ForwardingIsOrdered'
         /\ UNCHANGED <<closed, publisher, subscribers>> => ClosingIsOnce'
         /\ fwd[e] # "copy" /\ UNCHANGED <<disconnected, closed, subVars, told, sendVars>> => SubscribersKnowOutage'
<1> USE KindsDiffer DEF callVars
<1>1. fwd' \in [Epochs -> {"none", "start", "read", "error", "copy", "announce", "done"}]
  BY DEF IInv, TypeOK
<1>2. Running' \subseteq Running
  BY DEF IInv, TypeOK, Running
<1>3. ASSUME UNCHANGED timer PROVE ForwardingIsOrdered'
  <2>1. e \in Running /\ epoch \in Nat /\ ~(e > epoch)
    BY DEF IInv, TypeOK, ForwardingIsOrdered, Running
  <2>2. \A x \in Epochs : x > epoch => fwd'[x] = "none"
    BY <2>1 DEF IInv, TypeOK, ForwardingIsOrdered
  <2>3. \A c \in Conns : call[c] \in {"wait", "announce"} => epoch # e
    BY <2>1 DEF IInv, ForwardingIsOrdered, Running
  <2>4. \A c \in Conns : /\ call[c] \in {"wait", "announce"} => epoch \in Epochs /\ fwd'[epoch] = "none"
                         /\ call[c] = "announce" => Running' = {}
    BY <1>2, <2>3 DEF IInv, TypeOK, ForwardingIsOrdered
  <2>5. \A x \in Epochs : fwd'[x] \in {"none", "start", "read", "error"} => closePc[x] = "idle" /\ timer # x
    BY DEF IInv, TypeOK, ForwardingIsOrdered
  <2>6. (\A x, y \in Running' : x = y) /\ (timer # 0 => closePc[timer] = "idle")
    BY <1>2 DEF IInv, ForwardingIsOrdered
  <2> QED
    BY <1>3, <2>2, <2>4, <2>5, <2>6 DEF ForwardingIsOrdered
<1>4. ASSUME UNCHANGED <<closed, publisher, subscribers>> PROVE ClosingIsOnce'
  BY <1>2, <1>4 DEF IInv, ClosingIsOnce
<1>5. ASSUME fwd[e] # "copy", UNCHANGED <<disconnected, closed, subVars, told, sendVars>> PROVE SubscribersKnowOutage'
  <2>1. disconnected /\ ~closed => epoch \in Epochs
    BY DEF IInv, TypeOK, OutageIsTimed, Epochs
  <2>2. disconnected /\ ~closed /\ fwd[epoch] = "copy" => fwd'[epoch] = "copy"
    BY <1>5, <2>1 DEF IInv, TypeOK
  <2> QED
    BY <1>5, <2>2 DEF IInv, SubscribersKnowOutage, subVars, sendVars
<1> QED
  BY <1>1, <1>2, <1>3, <1>4, <1>5

\* What it leaves alone: the calls of SetPublisher, the timers and the flag.
LEMMA ForwarderLeaves ==
  ASSUME IInv, UNCHANGED <<pubVars, replaceMu, callVars, closePc, closed>>, open' \cap Conns \subseteq open
  PROVE  MutexHeld' /\ EpochsAreCounted' /\ PublisherIsLast' /\ OutageIsTimed' /\ TimerSawOutage'
<1> USE DEF IInv, pubVars, callVars
<1>1. MutexHeld' /\ EpochsAreCounted'
  BY DEF MutexHeld, Publishing, Shutting, EpochsAreCounted, Swapped
<1>2. PublisherIsLast' /\ OutageIsTimed' /\ TimerSawOutage'
  BY DEF PublisherIsLast, OutageIsTimed, TimerSawOutage
<1> QED
  BY <1>1, <1>2

\* It starts to read the publisher, unless there is a newer one.
LEMMA FwdStartKept == ASSUME IInv, NEW e \in Epochs, FwdStart(e) PROVE IInv'
<1> USE KindsDiffer DEF FwdStart, subVars, sendVars, kaVars
<1>1. PICK place \in {"read", "done"} : fwd' = [fwd EXCEPT ![e] = place]
  OBVIOUS
<1>2. /\ fwd' \in [Epochs -> {"none", "start", "read", "error", "copy", "announce", "done"}]
      /\ ForwardingIsOrdered' /\ ClosingIsOnce'
  BY <1>1, ForwarderGoesOn DEF pubVars
<1>3. MutexHeld' /\ EpochsAreCounted' /\ PublisherIsLast' /\ OutageIsTimed' /\ TimerSawOutage'
  BY ForwarderLeaves
<1>4. TypeOK'
  <2>1. source' \in [Epochs -> Conns \cup {NoConn}]
    BY DEF IInv, TypeOK
  <2> QED
    BY <1>2, <2>1 DEF IInv, TypeOK, pubVars, callVars
<1>5. SubscribersKnowOutage'
  BY <1>1, ForwarderGoesOn DEF pubVars
<1>6. OpenIsSubscribed' /\ AnnouncedUnderMutex'
  BY DEF IInv, OpenIsSubscribed, AnnouncedUnderMutex, callVars
<1> QED
  BY <1>2, <1>3, <1>4, <1>5, <1>6 DEF IInv

\* Some subscribers do not take the output.
LEMMA OutputKept == ASSUME IInv, NEW e \in Epochs, Output(e) PROVE IInv'
<1> USE KindsDiffer DEF Output, subVars, fwdVars, kaVars
<1>1. /\ failed' \in [Bcasters -> SUBSET Subs] /\ failed[Fwd(e)] = {}
      /\ \A p \in Bcasters \ {Fwd(e)} : failed'[p] = failed[p]
  BY DEF IInv, TypeOK, Settled
<1>2. MutexHeld' /\ EpochsAreCounted' /\ PublisherIsLast' /\ OutageIsTimed' /\ TimerSawOutage'
  BY ForwarderLeaves
<1>3. TypeOK'
  BY <1>1 DEF IInv, TypeOK, pubVars, callVars
<1>4. ForwardingIsOrdered' /\ ClosingIsOnce' /\ OpenIsSubscribed'
  BY DEF IInv, ForwardingIsOrdered, ClosingIsOnce, Running, OpenIsSubscribed, pubVars, callVars
<1>5. AnnouncedUnderMutex'
  BY <1>1 DEF IInv, AnnouncedUnderMutex, callVars
<1>6. SubscribersKnowOutage'
  <2>1. \A p \in Bcasters : failed[p] \subseteq failed'[p]
    BY <1>1
  <2> QED
    BY <2>1 DEF IInv, SubscribersKnowOutage, pubVars
<1> QED
  BY <1>2, <1>3, <1>4, <1>5, <1>6 DEF IInv

\* The read fails, or there is nothing left to announce.
LEMMA FwdStepKept == ASSUME IInv, NEW e \in Epochs, ReadFails(e) \/ FwdEnds(e) PROVE IInv'
<1> USE KindsDiffer DEF subVars, sendVars, kaVars
<1>1. /\ UNCHANGED <<pubVars, replaceMu, open, callVars, source, closePc, closed, subVars, told, sendVars, lastGone, kaVars>>
      /\ \/ fwd[e] = "read" /\ fwd' = [fwd EXCEPT ![e] = "error"]
         \/ fwd[e] = "announce" /\ fwd' = [fwd EXCEPT ![e] = "done"]
  BY DEF ReadFails, FwdEnds
<1>2. /\ fwd' \in [Epochs -> {"none", "start", "read", "error", "copy", "announce", "done"}]
      /\ ForwardingIsOrdered' /\ ClosingIsOnce'
  BY <1>1, ForwarderGoesOn DEF pubVars
<1>3. MutexHeld' /\ EpochsAreCounted' /\ PublisherIsLast' /\ OutageIsTimed' /\ TimerSawOutage'
  BY <1>1, ForwarderLeaves
<1>4. TypeOK'
  BY <1>1, <1>2 DEF IInv, TypeOK, pubVars, callVars
<1>5. SubscribersKnowOutage'
  BY <1>1, ForwarderGoesOn DEF pubVars
<1>6. OpenIsSubscribed' /\ AnnouncedUnderMutex'
  BY <1>1 DEF IInv, OpenIsSubscribed, AnnouncedUnderMutex, callVars
<1> QED
  BY <1>2, <1>3, <1>4, <1>5, <1>6 DEF IInv

\* The runner is gone: unless there is a newer connection, an outage begins.
LEMMA DisconnectKept == ASSUME IInv, NEW e \in Epochs, Disconnect(e) PROVE IInv'
<1> USE KindsDiffer DEF Disconnect, subVars, sendVars, kaVars
<1>1. CASE Replaced(e)
  <2>1. fwd' = [fwd EXCEPT ![e] = "done"] /\ UNCHANGED <<pubVars, open>>
    BY <1>1
  <2>2. /\ fwd' \in [Epochs -> {"none", "start", "read", "error", "copy", "announce", "done"}]
        /\ ForwardingIsOrdered' /\ ClosingIsOnce'
    BY <2>1, ForwarderGoesOn DEF pubVars
  <2>3. MutexHeld' /\ EpochsAreCounted' /\ PublisherIsLast' /\ OutageIsTimed' /\ TimerSawOutage'
    BY <2>1, ForwarderLeaves
  <2>4. TypeOK'
    BY <2>1, <2>2 DEF IInv, TypeOK, pubVars, callVars
  <2>5. SubscribersKnowOutage'
    BY <2>1, ForwarderGoesOn DEF pubVars
  <2>6. OpenIsSubscribed' /\ AnnouncedUnderMutex'
    BY <2>1 DEF IInv, OpenIsSubscribed, AnnouncedUnderMutex, callVars
  <2> QED
    BY <2>2, <2>3, <2>4, <2>5, <2>6 DEF IInv
<1>2. CASE ~Replaced(e)
  <2>1. /\ fwd' = [fwd EXCEPT ![e] = "copy"] /\ publisher' = NoConn /\ disconnected' = TRUE
        /\ timer' = e /\ UNCHANGED epoch /\ open' = open \ {source[e]}
        /\ publisher = source[e] /\ epoch = e
    BY <1>2 DEF Replaced, ArmReconnect
  <2>2. fwd' \in [Epochs -> {"none", "start", "read", "error", "copy", "announce", "done"}] /\ Running' \subseteq Running
    BY <2>1, ForwarderGoesOn
  <2>3. TypeOK'
    BY <2>1, <2>2 DEF IInv, TypeOK, callVars
  <2>4. MutexHeld' /\ EpochsAreCounted' /\ TimerSawOutage'
    BY <2>1 DEF IInv, MutexHeld, Publishing, Shutting, EpochsAreCounted, Swapped, TimerSawOutage, callVars
  <2>5. \A c \in Conns : call[c] \notin {"wait", "announce"}
    BY <2>1 DEF IInv, ForwardingIsOrdered
  <2>6. ForwardingIsOrdered'
    <3>1. closePc[e] = "idle" /\ timer' = e /\ fwd'[e] = "copy" /\ e # 0 /\ ~(e > epoch)
      BY <2>1 DEF IInv, TypeOK, ForwardingIsOrdered
    <3>2. \A x \in Epochs \ {e} : fwd'[x] = fwd[x]
      BY <2>1 DEF IInv, TypeOK
    <3> QED
      BY <2>1, <2>2, <2>5, <3>1, <3>2 DEF IInv, ForwardingIsOrdered, callVars
  <2>7. PublisherIsLast' /\ AnnouncedUnderMutex' /\ OpenIsSubscribed'
    BY <2>1, <2>5 DEF IInv, PublisherIsLast, AnnouncedUnderMutex, OpenIsSubscribed, callVars
  <2>8. OutageIsTimed'
    BY <2>1 DEF OutageIsTimed
  <2>9. ClosingIsOnce'
    BY <2>1, <2>2 DEF IInv, ClosingIsOnce
  <2>10. SubscribersKnowOutage'
    BY <2>1 DEF IInv, TypeOK, SubscribersKnowOutage
  <2> QED
    BY <2>3, <2>4, <2>6, <2>7, <2>8, <2>9, <2>10 DEF IInv
<1> QED
  BY <1>1, <1>2

\* It announces the outage to everybody who is there.
LEMMA CopySubscribersKept == ASSUME IInv, NEW e \in Epochs, CopySubscribers(e) PROVE IInv'
<1> USE KindsDiffer DEF CopySubscribers, subVars, kaVars
<1>1. /\ todo' \in [Bcasters -> SUBSET Subs] /\ todo'[Fwd(e)] = subscribers
      /\ \A p \in Bcasters \ {Fwd(e)} : todo'[p] = todo[p]
  BY DEF IInv, TypeOK
<1>2. /\ fwd' \in [Epochs -> {"none", "start", "read", "error", "copy", "announce", "done"}]
      /\ ForwardingIsOrdered' /\ ClosingIsOnce'
  BY ForwarderGoesOn DEF pubVars
<1>3. MutexHeld' /\ EpochsAreCounted' /\ PublisherIsLast' /\ OutageIsTimed' /\ TimerSawOutage'
  BY ForwarderLeaves
<1>4. TypeOK'
  BY <1>1, <1>2 DEF IInv, TypeOK, pubVars, callVars
<1>5. AnnouncedUnderMutex' /\ OpenIsSubscribed'
  BY <1>1 DEF IInv, AnnouncedUnderMutex, OpenIsSubscribed, callVars
<1>6. SubscribersKnowOutage'
  BY <1>1 DEF SubscribersKnowOutage
<1> QED
  BY <1>2, <1>3, <1>4, <1>5, <1>6 DEF IInv

(***************************************************************************)
(* The reconnect timer and closing.                                        *)
(***************************************************************************)
\* A goroutine that closes goes on to its next statement.
LEMMA CloserGoesOn ==
  ASSUME IInv, NEW p \in Closers, NEW place \in {"locked", "mark", "timer", "publisher", "wait", "done"},
         closePc' = [closePc EXCEPT ![p] = place], p \in Epochs => closePc[p] # "idle",
         UNCHANGED <<epoch, callVars, fwdVars, sendVars>>, timer' \in {timer, 0}
  PROVE  /\ closePc' \in [Closers -> {"idle", "fired", "locked", "mark", "timer", "publisher", "wait", "done"}]
         /\ EpochsAreCounted' /\ ForwardingIsOrdered' /\ AnnouncedUnderMutex'
<1> USE KindsDiffer DEF IInv, callVars, fwdVars, sendVars
<1>1. closePc' \in [Closers -> {"idle", "fired", "locked", "mark", "timer", "publisher", "wait", "done"}]
  BY DEF TypeOK
<1>2. EpochsAreCounted' /\ AnnouncedUnderMutex'
  BY DEF EpochsAreCounted, Swapped, AnnouncedUnderMutex
<1>3. timer \in {0} \cup Epochs /\ (\A q \in Closers \ {p} : closePc'[q] = closePc[q])
  BY DEF TypeOK
<1>4. Running' = Running
  BY DEF Running
<1>5. ForwardingIsOrdered'
  BY <1>3, <1>4 DEF ForwardingIsOrdered
<1> QED
  BY <1>1, <1>2, <1>5

\* The reconnect timer of an outage fires...
LEMMA TimerFiresKept == ASSUME IInv, TimerFires PROVE IInv'
<1> USE KindsDiffer DEF TimerFires, callVars, fwdVars, subVars, sendVars, kaVars
<1>1. /\ timer \in Epochs /\ closePc[timer] = "idle" /\ closePc' = [closePc EXCEPT ![timer] = "fired"]
      /\ fwd[timer] \notin {"none", "start", "read", "error"}
      /\ closePc \in [Closers -> {"idle", "fired", "locked", "mark", "timer", "publisher", "wait", "done"}]
  BY DEF IInv, TypeOK, ForwardingIsOrdered
<1>2. TypeOK'
  BY <1>1 DEF IInv, TypeOK
<1>3. MutexHeld' /\ EpochsAreCounted'
  BY <1>1 DEF IInv, MutexHeld, Publishing, Shutting, EpochsAreCounted, Swapped
<1>4. ForwardingIsOrdered'
  BY <1>1 DEF IInv, ForwardingIsOrdered, Running
<1>5. PublisherIsLast' /\ OutageIsTimed' /\ TimerSawOutage'
  BY <1>1 DEF IInv, PublisherIsLast, OutageIsTimed, TimerSawOutage
<1>6. ClosingIsOnce' /\ OpenIsSubscribed' /\ AnnouncedUnderMutex' /\ SubscribersKnowOutage'
  BY <1>1 DEF IInv, ClosingIsOnce, Running, OpenIsSubscribed, AnnouncedUnderMutex, SubscribersKnowOutage
<1> QED
  BY <1>2, <1>3, <1>4, <1>5, <1>6 DEF IInv

\* ...and takes the mutex, as the caller of Close does.
LEMMA LocksKept == ASSUME IInv, (\E e \in Epochs : TimerLocks(e)) \/ CloseLocks PROVE IInv'
<1> USE KindsDiffer DEF pubVars, callVars, fwdVars, subVars, sendVars, kaVars
<1>1. PICK p \in Closers :
        /\ replaceMu = Free /\ replaceMu' = p
        /\ \/ p \in Epochs /\ closePc[p] = "fired" /\ closePc' = [closePc EXCEPT ![p] = "locked"]
           \/ p = Closer /\ closePc[p] = "idle" /\ closePc' = [closePc EXCEPT ![p] = "mark"]
        /\ UNCHANGED <<pubVars, open, callVars, fwdVars, closed, subVars, told, sendVars, lastGone, kaVars>>
  BY DEF TimerLocks, CloseLocks
<1>2. closePc \in [Closers -> {"idle", "fired", "locked", "mark", "timer", "publisher", "wait", "done"}]
  BY DEF IInv, TypeOK
<1>3. /\ closePc' \in [Closers -> {"idle", "fired", "locked", "mark", "timer", "publisher", "wait", "done"}]
      /\ EpochsAreCounted' /\ ForwardingIsOrdered' /\ AnnouncedUnderMutex'
  BY <1>1, CloserGoesOn
<1>4. MutexHeld'
  BY <1>1, <1>2, FreeMutex DEF MutexHeld, Publishing, Shutting
<1>5. TypeOK'
  BY <1>1, <1>3 DEF IInv, TypeOK
<1>6. PublisherIsLast' /\ TimerSawOutage'
  BY <1>1, <1>2 DEF IInv, PublisherIsLast, TimerSawOutage
<1>7. OutageIsTimed'
  <2>1. ~closed /\ disconnected => epoch \in Epochs
    BY DEF IInv, TypeOK, OutageIsTimed, Epochs
  <2> QED
    BY <1>1, <1>2, <2>1 DEF IInv, OutageIsTimed
<1>8. ClosingIsOnce' /\ OpenIsSubscribed' /\ SubscribersKnowOutage'
  BY <1>1, <1>2 DEF IInv, ClosingIsOnce, Running, OpenIsSubscribed, SubscribersKnowOutage
<1> QED
  BY <1>3, <1>4, <1>5, <1>6, <1>7, <1>8 DEF IInv

\* The timer closes the channel only if it finds the runner away.
LEMMA TimerLooksKept == ASSUME IInv, NEW e \in Epochs, TimerLooks(e) PROVE IInv'
<1> USE KindsDiffer DEF pubVars, callVars, fwdVars, subVars, sendVars, kaVars
<1>1. /\ e \in Closers /\ closePc[e] = "locked"
      /\ \/ disconnected /\ closePc' = [closePc EXCEPT ![e] = "mark"] /\ UNCHANGED replaceMu
         \/ ~disconnected /\ closePc' = [closePc EXCEPT ![e] = "done"] /\ replaceMu' = Free
      /\ UNCHANGED <<pubVars, open, callVars, fwdVars, closed, subVars, told, sendVars, lastGone, kaVars>>
  BY DEF TimerLooks, StillAway
<1>2. /\ closePc \in [Closers -> {"idle", "fired", "locked", "mark", "timer", "publisher", "wait", "done"}]
      /\ replaceMu = e /\ (\A p \in Closers \ {e} : ~Shutting(p)) /\ (\A c \in Conns : ~Publishing(c))
  BY <1>1, HeldMutex DEF IInv, TypeOK, Shutting
<1>3. /\ closePc' \in [Closers -> {"idle", "fired", "locked", "mark", "timer", "publisher", "wait", "done"}]
      /\ EpochsAreCounted' /\ ForwardingIsOrdered' /\ AnnouncedUnderMutex'
  BY <1>1, CloserGoesOn
<1>4. MutexHeld'
  BY <1>1, <1>2 DEF MutexHeld, Publishing, Shutting
<1>5. TypeOK'
  BY <1>1, <1>3 DEF IInv, TypeOK
<1>6. PublisherIsLast' /\ TimerSawOutage'
  BY <1>1, <1>2 DEF IInv, PublisherIsLast, TimerSawOutage
<1>7. OutageIsTimed'
  <2>1. ~closed /\ disconnected => epoch \in Closers
    BY DEF IInv, TypeOK, OutageIsTimed, Epochs
  <2> QED
    BY <1>1, <1>2, <2>1 DEF IInv, OutageIsTimed
<1>8. ClosingIsOnce' /\ OpenIsSubscribed' /\ SubscribersKnowOutage'
  BY <1>1, <1>2 DEF IInv, ClosingIsOnce, Running, OpenIsSubscribed, SubscribersKnowOutage
<1> QED
  BY <1>3, <1>4, <1>5, <1>6, <1>7, <1>8 DEF IInv

\* Of those that find the channel open one goes on to close it...
LEMMA MarkKept == ASSUME IInv, NEW p \in Closers, Mark(p) PROVE IInv'
<1> USE KindsDiffer DEF pubVars, callVars, fwdVars, subVars, sendVars, kaVars
<1>1. /\ closePc[p] = "mark" /\ closed' = TRUE
      /\ \/ closed /\ closePc' = [closePc EXCEPT ![p] = "done"] /\ replaceMu' = Free
         \/ ~closed /\ closePc' = [closePc EXCEPT ![p] = "timer"] /\ UNCHANGED replaceMu
      /\ UNCHANGED <<pubVars, open, callVars, fwdVars, subVars, told, sendVars, lastGone, kaVars>>
  BY DEF Mark
<1>2. /\ closePc \in [Closers -> {"idle", "fired", "locked", "mark", "timer", "publisher", "wait", "done"}]
      /\ replaceMu = p /\ (\A q \in Closers \ {p} : ~Shutting(q)) /\ (\A c \in Conns : ~Publishing(c))
  BY <1>1, HeldMutex DEF IInv, TypeOK, Shutting
<1>3. /\ closePc' \in [Closers -> {"idle", "fired", "locked", "mark", "timer", "publisher", "wait", "done"}]
      /\ EpochsAreCounted' /\ ForwardingIsOrdered' /\ AnnouncedUnderMutex'
  BY <1>1, CloserGoesOn
<1>4. MutexHeld'
  BY <1>1, <1>2 DEF MutexHeld, Publishing, Shutting
<1>5. TypeOK'
  <2>1. closed' \in BOOLEAN /\ replaceMu' \in Conns \cup Closers \cup {Free}
    BY <1>1, <1>2
  <2> QED
    BY <1>1, <1>3, <2>1 DEF IInv, TypeOK
<1>6. PublisherIsLast'
  BY <1>1, <1>2 DEF IInv, PublisherIsLast, Publishing
<1>7. OutageIsTimed' /\ TimerSawOutage' /\ SubscribersKnowOutage'
  BY <1>1, <1>2 DEF IInv, OutageIsTimed, TimerSawOutage, SubscribersKnowOutage
<1>8. ClosingIsOnce' /\ OpenIsSubscribed'
  BY <1>1, <1>2 DEF IInv, ClosingIsOnce, Running, OpenIsSubscribed
<1> QED
  BY <1>3, <1>4, <1>5, <1>6, <1>7, <1>8 DEF IInv

\* ...stops the timers and closes the publisher...
LEMMA ClosesPublisherKept == ASSUME IInv, NEW p \in Closers, StopKeepAlive(p) \/ ClosePublisher(p) PROVE IInv'
<1> USE KindsDiffer DEF callVars, fwdVars, subVars, sendVars
<1>1. /\ \/ /\ closePc[p] = "timer" /\ closePc' = [closePc EXCEPT ![p] = "publisher"] /\ keepAlive' = 0
            /\ UNCHANGED <<publisher, timer, open>>
         \/ /\ closePc[p] = "publisher" /\ closePc' = [closePc EXCEPT ![p] = "wait"] /\ UNCHANGED keepAlive
            /\ publisher' = NoConn /\ timer' = 0 /\ open' = open \ {publisher}
      /\ UNCHANGED <<epoch, disconnected, replaceMu, callVars, fwdVars, closed, subVars, told, sendVars, lastGone,
                     kaFired, kaReport, reports>>
  BY DEF StopKeepAlive, ClosePublisher, pubVars, kaVars
<1>2. /\ closePc \in [Closers -> {"idle", "fired", "locked", "mark", "timer", "publisher", "wait", "done"}]
      /\ closed /\ \A q \in Closers \ {p} : ~Shutting(q)
  BY <1>1, HeldMutex DEF IInv, TypeOK, Shutting, ClosingIsOnce
<1>3. /\ closePc' \in [Closers -> {"idle", "fired", "locked", "mark", "timer", "publisher", "wait", "done"}]
      /\ EpochsAreCounted' /\ ForwardingIsOrdered' /\ AnnouncedUnderMutex'
  BY <1>1, CloserGoesOn
<1>4. MutexHeld'
  BY <1>1, <1>2 DEF IInv, MutexHeld, Publishing, Shutting
<1>5. TypeOK'
  BY <1>1, <1>3 DEF IInv, TypeOK
<1>6. PublisherIsLast'
  BY <1>1, <1>2 DEF IInv, PublisherIsLast
<1>7. OutageIsTimed' /\ TimerSawOutage' /\ SubscribersKnowOutage'
  BY <1>1, <1>2 DEF IInv, OutageIsTimed, TimerSawOutage, SubscribersKnowOutage
<1>8. ClosingIsOnce' /\ OpenIsSubscribed'
  BY <1>1, <1>2 DEF IInv, ClosingIsOnce, Running, OpenIsSubscribed
<1> QED
  BY <1>3, <1>4, <1>5, <1>6, <1>7, <1>8 DEF IInv

\* ...and, when the forwarding goroutine is gone, the subscribers.
LEMMA CloseSubscribersKept == ASSUME IInv, NEW p \in Closers, CloseSubscribers(p) PROVE IInv'
<1> USE KindsDiffer DEF CloseSubscribers, Awaited, pubVars, callVars, fwdVars, sendVars, kaVars
<1>1. /\ closePc \in [Closers -> {"idle", "fired", "locked", "mark", "timer", "publisher", "wait", "done"}]
      /\ closed /\ (\A q \in Closers \ {p} : ~Shutting(q)) /\ (\A c \in Conns : ~Publishing(c))
      /\ publisher = NoConn /\ Running = {}
  BY HeldMutex DEF IInv, TypeOK, Shutting, ClosingIsOnce
<1>2. /\ closePc' \in [Closers -> {"idle", "fired", "locked", "mark", "timer", "publisher", "wait", "done"}]
      /\ EpochsAreCounted' /\ ForwardingIsOrdered' /\ AnnouncedUnderMutex'
  BY CloserGoesOn
<1>3. MutexHeld'
  BY <1>1 DEF MutexHeld, Publishing, Shutting
<1>4. TypeOK'
  BY <1>2 DEF IInv, TypeOK
<1>5. PublisherIsLast' /\ OutageIsTimed' /\ TimerSawOutage' /\ SubscribersKnowOutage'
  BY <1>1 DEF IInv, PublisherIsLast, OutageIsTimed, TimerSawOutage, SubscribersKnowOutage
<1>6. ClosingIsOnce' /\ OpenIsSubscribed'
  BY <1>1 DEF IInv, ClosingIsOnce, Running, OpenIsSubscribed
<1> QED
  BY <1>2, <1>3, <1>4, <1>5, <1>6 DEF IInv

(***************************************************************************)
(* Subscribers.                                                            *)
(***************************************************************************)
\* They come and go beside the publisher and the close.
LEMMA PublisherSideStays ==
  ASSUME IInv, UNCHANGED <<pubVars, replaceMu, callVars, fwdVars, closePc, closed>>, open' \cap Conns \subseteq open,
         closed => subscribers' \subseteq subscribers
  PROVE  /\ MutexHeld' /\ EpochsAreCounted' /\ ForwardingIsOrdered' /\ PublisherIsLast' /\ OutageIsTimed'
         /\ TimerSawOutage' /\ ClosingIsOnce'
<1>1. MutexHeld' /\ EpochsAreCounted' /\ PublisherIsLast' /\ OutageIsTimed' /\ TimerSawOutage'
  BY ForwarderLeaves
<1>2. Running' = Running
  BY DEF Running, fwdVars
<1>3. ForwardingIsOrdered'
  BY <1>2 DEF IInv, ForwardingIsOrdered, pubVars, callVars, fwdVars
<1>4. ClosingIsOnce'
  BY <1>2 DEF IInv, ClosingIsOnce, pubVars
<1> QED
  BY <1>1, <1>3, <1>4

\* A subscriber that joins looks whether the runner is away, and is told.
LEMMA JoinKept == ASSUME IInv, NEW s \in Subs, AddSubscriber(s) \/ AddCheck(s) \/ AddTell(s) PROVE IInv'
<1> USE KindsDiffer DEF AddSubscriber, AddCheck, AddTell, Refuses, MustTell, pubVars, callVars, fwdVars, sendVars
<1>1. /\ MutexHeld' /\ EpochsAreCounted' /\ ForwardingIsOrdered' /\ PublisherIsLast' /\ OutageIsTimed'
      /\ TimerSawOutage' /\ ClosingIsOnce'
  BY PublisherSideStays DEF subVars
<1>2. TypeOK'
  BY DEF IInv, TypeOK, subVars, kaVars
<1>3. AnnouncedUnderMutex' /\ OpenIsSubscribed'
  BY DEF IInv, AnnouncedUnderMutex, OpenIsSubscribed, subVars
<1>4. SubscribersKnowOutage'
  <2>1. add \in [Subs -> {"new", "check", "tell", "in", "gone", "rejected"}] /\ subscribers \subseteq Subs
        /\ told \in [Subs -> {"nothing", "disconnected", "reconnected", "unreachable"}]
    BY DEF IInv, TypeOK
  <2>2. CASE AddSubscriber(s)
    <3>1. subscribers' \subseteq subscribers \cup {s} /\ add'[s] # "in" /\ \A x \in Subs \ {s} : add'[x] = add[x]
      BY <2>1, <2>2
    <3> QED
      BY <2>1, <2>2, <3>1 DEF IInv, SubscribersKnowOutage
  <2>3. CASE AddCheck(s)
    BY <2>1, <2>3 DEF IInv, SubscribersKnowOutage, subVars
  <2>4. CASE AddTell(s)
    BY <2>1, <2>4 DEF IInv, SubscribersKnowOutage, subVars
  <2> QED
    BY <2>2, <2>3, <2>4
<1> QED
  BY <1>1, <1>2, <1>3, <1>4 DEF IInv

\* One that leaves, or could not be written to, is removed and closed.
LEMMA RemoveKept ==
  ASSUME IInv, (\E s \in Subs : Leave(s)) \/ (\E p \in Bcasters : RemoveFailed(p)) PROVE IInv'
<1> USE KindsDiffer DEF pubVars, callVars, fwdVars, kaVars
<1>1. PICK s : /\ subscribers' = subscribers \ {s} /\ open' = open \ {s} /\ lastGone' \in {lastGone, lastGone + 1}
               /\ UNCHANGED <<pubVars, replaceMu, callVars, fwdVars, closePc, closed, told, todo, kaVars>>
               /\ \A x \in Subs : add'[x] = "in" => add[x] = "in"
               /\ add' \in [Subs -> {"new", "check", "tell", "in", "gone", "rejected"}]
               /\ failed' \in [Bcasters -> SUBSET Subs]
               /\ \A q \in Bcasters : failed[q] \subseteq failed'[q] \cup {s} /\ failed'[q] \subseteq failed[q]
  <2>1. CASE \E s \in Subs : Leave(s)
    <3>1. PICK s \in Subs : Leave(s)
      BY <2>1
    <3>2. /\ subscribers' = subscribers \ {s} /\ open' = open \ {s} /\ lastGone' \in {lastGone, lastGone + 1}
          /\ UNCHANGED <<pubVars, replaceMu, callVars, fwdVars, closePc, closed, told, todo, failed, kaVars>>
          /\ add' = [add EXCEPT ![s] = "gone"]
      BY <3>1 DEF Leave, RemoveSubscriber, sendVars
    <3>3. /\ \A x \in Subs : add'[x] = "in" => add[x] = "in"
          /\ add' \in [Subs -> {"new", "check", "tell", "in", "gone", "rejected"}]
      BY <3>2 DEF IInv, TypeOK
    <3>4. failed \in [Bcasters -> SUBSET Subs]
      BY DEF IInv, TypeOK
    <3> QED
      BY <3>2, <3>3, <3>4
  <2>2. CASE \E p \in Bcasters : RemoveFailed(p)
    <3>1. PICK p \in Bcasters : RemoveFailed(p)
      BY <2>2
    <3>2. PICK s \in failed[p] : failed' = [failed EXCEPT ![p] = @ \ {s}] /\ RemoveSubscriber(s)
      BY <3>1 DEF RemoveFailed
    <3>3. UNCHANGED <<pubVars, replaceMu, callVars, fwdVars, closePc, closed, add, told, todo, kaVars>>
      BY <3>1 DEF RemoveFailed
    <3>4. failed' \in [Bcasters -> SUBSET Subs]
          /\ \A q \in Bcasters : failed[q] \subseteq failed'[q] \cup {s} /\ failed'[q] \subseteq failed[q]
      BY <3>2 DEF IInv, TypeOK
    <3> QED
      BY <3>2, <3>3, <3>4 DEF RemoveSubscriber, IInv, TypeOK
  <2> QED
    BY <2>1, <2>2
<1>2. /\ MutexHeld' /\ EpochsAreCounted' /\ ForwardingIsOrdered' /\ PublisherIsLast' /\ OutageIsTimed'
      /\ TimerSawOutage' /\ ClosingIsOnce'
  BY <1>1, PublisherSideStays
<1>3. TypeOK'
  BY <1>1 DEF IInv, TypeOK
<1>4. AnnouncedUnderMutex' /\ OpenIsSubscribed'
  BY <1>1 DEF IInv, AnnouncedUnderMutex, OpenIsSubscribed
<1>5. SubscribersKnowOutage'
  <2> SUFFICES ASSUME disconnected', ~closed', fwd'[epoch'] # "copy", NEW x \in subscribers'
               PROVE  \/ add'[x] # "in" \/ (\E p \in Bcasters : x \in todo'[p] \cup failed'[p])
                      \/ told'[x] \in {"disconnected", "unreachable"}
    BY DEF SubscribersKnowOutage
  <2>1. x \in subscribers /\ x # s /\ x \in Subs
    BY <1>1 DEF IInv, TypeOK
  <2>2. \/ add[x] # "in" \/ (\E p \in Bcasters : x \in todo[p] \cup failed[p])
        \/ told[x] \in {"disconnected", "unreachable"}
    BY <1>1, <2>1 DEF IInv, SubscribersKnowOutage
  <2> QED
    BY <1>1, <2>1, <2>2
<1> QED
  BY <1>2, <1>3, <1>4, <1>5 DEF IInv

\* During an outage it is the outage that is announced: a return is announced
\* under the mutex, while the runner is there.
LEMMA DeliverKept == ASSUME IInv, NEW p \in Bcasters, Deliver(p) PROVE IInv'
<1> USE KindsDiffer DEF Deliver, pubVars, callVars, fwdVars, subVars, kaVars
<1>1. PICK s \in todo[p] :
        /\ todo' = [todo EXCEPT ![p] = @ \ {s}]
        /\ \/ /\ told' = [told EXCEPT ![s] = IF p \in Conns THEN "reconnected" ELSE "disconnected"]
              /\ UNCHANGED failed
           \/ failed' = [failed EXCEPT ![p] = @ \cup {s}] /\ UNCHANGED told
  OBVIOUS
<1>2. s \in Subs /\ todo \in [Bcasters -> SUBSET Subs] /\ failed \in [Bcasters -> SUBSET Subs]
      /\ told \in [Subs -> {"nothing", "disconnected", "reconnected", "unreachable"}]
  BY <1>1 DEF IInv, TypeOK
<1>3. /\ MutexHeld' /\ EpochsAreCounted' /\ ForwardingIsOrdered' /\ PublisherIsLast' /\ OutageIsTimed'
      /\ TimerSawOutage' /\ ClosingIsOnce'
  BY PublisherSideStays
<1>4. TypeOK'
  <2>1. todo' \in [Bcasters -> SUBSET Subs] /\ failed' \in [Bcasters -> SUBSET Subs]
        /\ told' \in [Subs -> {"nothing", "disconnected", "reconnected", "unreachable"}]
    BY <1>1, <1>2
  <2> QED
    BY <2>1 DEF IInv, TypeOK
<1>5. \A q \in Bcasters : todo'[q] \cup failed'[q] \subseteq todo[q] \cup failed[q]
  BY <1>1, <1>2
<1>6. AnnouncedUnderMutex' /\ OpenIsSubscribed'
  BY <1>5 DEF IInv, AnnouncedUnderMutex, OpenIsSubscribed
<1>7. SubscribersKnowOutage'
  <2> SUFFICES ASSUME disconnected', ~closed', fwd'[epoch'] # "copy", NEW x \in subscribers'
               PROVE  \/ add'[x] # "in" \/ (\E q \in Bcasters : x \in todo'[q] \cup failed'[q])
                      \/ told'[x] \in {"disconnected", "unreachable"}
    BY DEF SubscribersKnowOutage
  <2>1. p \notin Conns /\ x \in Subs
    BY <1>1 DEF IInv, TypeOK, AnnouncedUnderMutex, PublisherIsLast
  <2>2. \/ add[x] # "in" \/ (\E q \in Bcasters : x \in todo[q] \cup failed[q])
        \/ told[x] \in {"disconnected", "unreachable"}
    BY DEF IInv, SubscribersKnowOutage
  <2>3. CASE x = s
    BY <1>1, <1>2, <2>1, <2>3
  <2>4. CASE x # s
    <3>1. told'[x] = told[x] /\ \A q \in Bcasters : x \in todo[q] \cup failed[q] => x \in todo'[q] \cup failed'[q]
      BY <1>1, <1>2, <2>1, <2>4
    <3> QED
      BY <2>2, <3>1
  <2> QED
    BY <2>3, <2>4
<1> QED
  BY <1>3, <1>4, <1>6, <1>7 DEF IInv

\* The keep-alive timer is beside all of it.
LEMMA KeepAliveKept ==
  ASSUME IInv, (\E k \in Visits : KeepAlive(k)) \/ LastSubscriberGone \/ KeepAliveFires
  PROVE  IInv'
<1> USE KindsDiffer DEF KeepAlive, KeepAliveClosed, KeepAliveReports, LastSubscriberGone, KeepAliveFires
<1>1. UNCHANGED <<pubVars, replaceMu, open, callVars, fwdVars, closePc, closed, subVars, told, sendVars>>
  OBVIOUS
<1>2. /\ MutexHeld' /\ EpochsAreCounted' /\ ForwardingIsOrdered' /\ PublisherIsLast' /\ OutageIsTimed'
      /\ TimerSawOutage' /\ ClosingIsOnce'
  BY <1>1, PublisherSideStays DEF subVars
<1>3. TypeOK'
  <2>1. lastGone' \in Nat /\ keepAlive' \in {0} \cup Visits
    BY JoinedIsVisit DEF IInv, TypeOK
  <2>2. kaFired' \subseteq Visits /\ kaReport' \subseteq Visits /\ reports' \subseteq Visits
    BY DEF IInv, TypeOK
  <2> QED
    BY <1>1, <2>1, <2>2 DEF IInv, TypeOK, pubVars, callVars, fwdVars, subVars, sendVars
<1>4. AnnouncedUnderMutex' /\ OpenIsSubscribed' /\ SubscribersKnowOutage'
  BY <1>1 DEF IInv, AnnouncedUnderMutex, OpenIsSubscribed, SubscribersKnowOutage, pubVars, callVars, fwdVars, subVars, sendVars
<1> QED
  BY <1>2, <1>3, <1>4 DEF IInv

\* Every step keeps the invariant.
LEMMA StepKept == IInv /\ [Next]_vars => IInv'
<1> SUFFICES ASSUME IInv, [Next]_vars PROVE IInv'
  OBVIOUS
<1>1. ASSUME NEW c \in Conns, SetPublisher(c) PROVE IInv'
  BY <1>1, LockKept, SwapKept, WaitedKept, SpawnKept DEF SetPublisher
<1>2. ASSUME NEW e \in Epochs, Forward(e) \/ Output(e) \/ ReadFails(e) \/ Reconnect(e) PROVE IInv'
  BY <1>2, FwdStartKept, DisconnectKept, CopySubscribersKept, FwdStepKept, OutputKept, LocksKept, TimerLooksKept
     DEF Forward, Reconnect
<1>3. ASSUME NEW p \in Closers, Closing(p) PROVE IInv'
  BY <1>3, MarkKept, ClosesPublisherKept, CloseSubscribersKept DEF Closing
<1>4. ASSUME NEW p \in Bcasters, Broadcast(p) PROVE IInv'
  BY <1>4, DeliverKept, RemoveKept DEF Broadcast
<1>5. ASSUME NEW s \in Subs, AddSubscriber(s) \/ Added(s) \/ Leave(s) PROVE IInv'
  BY <1>5, JoinKept, RemoveKept DEF Added
<1>6. CASE UNCHANGED vars
  <2>1. /\ MutexHeld' /\ EpochsAreCounted' /\ ForwardingIsOrdered' /\ PublisherIsLast' /\ OutageIsTimed'
        /\ TimerSawOutage' /\ ClosingIsOnce'
    BY <1>6, PublisherSideStays DEF vars, subVars
  <2>2. TypeOK'
    BY <1>6 DEF IInv, TypeOK, vars, pubVars, callVars, fwdVars, subVars, sendVars, kaVars
  <2>3. AnnouncedUnderMutex' /\ OpenIsSubscribed' /\ SubscribersKnowOutage'
    BY <1>6 DEF IInv, AnnouncedUnderMutex, OpenIsSubscribed, SubscribersKnowOutage, vars, pubVars, callVars, fwdVars,
                subVars, sendVars
  <2> QED
    BY <2>1, <2>2, <2>3 DEF IInv
<1> QED
  BY <1>1, <1>2, <1>3, <1>4, <1>5, <1>6, TimerFiresKept, LocksKept, KeepAliveKept DEF Next

(***************************************************************************)
(* What the channel promises.                                              *)
(***************************************************************************)
LEMMA Invariant == Spec => []IInv
  BY InitHolds, StepKept, PTL DEF Spec

\* However connections replace each other, drop and come back while the channel
\* closes: one goroutine at most forwards the runner's output, and an outage
\* is always accompanied by its own timer, armed or running.
THEOREM ChannelInvariant == Spec => []ChannelInv
<1>1. ASSUME IInv PROVE OneForwarder
  <2>1. Running = {} \/ \E e : Running = {e}
    BY <1>1 DEF IInv, ForwardingIsOrdered
  <2>2. Cardinality(Running) = 0 \/ Cardinality(Running) = 1
    BY <2>1, FS_EmptySet, FS_Singleton
  <2> QED
    BY <2>2 DEF OneForwarder
<1>2. IInv => ChannelInv
  BY <1>1 DEF IInv, ChannelInv
<1> QED
  BY <1>2, Invariant, PTL

\* When Close has returned, no subscriber, connection or goroutine is left,
\* whoever was in the middle of joining, connecting or forwarding.
THEOREM CloseLeavesNothingOpen == Spec => []CloseLeavesNothing
<1>1. ASSUME IInv, CloseDone
      PROVE  subscribers = {} /\ open \cap Subs = {} /\ (\A c \in open : call[c] # "done") /\ Running = {}
  <2>1. publisher = NoConn /\ subscribers = {} /\ Running = {}
    BY <1>1 DEF IInv, ClosingIsOnce, CloseDone
  <2>2. open \cap Subs = {} /\ open \subseteq Conns
    BY <1>1, <2>1 DEF IInv, OpenIsSubscribed, TypeOK
  <2>3. \A c \in open : call[c] # "done"
    BY <1>1, <2>1, <2>2, KindsDiffer DEF IInv, PublisherIsLast
  <2> QED
    BY <2>1, <2>2, <2>3
<1>2. IInv => CloseLeavesNothing
  BY <1>1 DEF CloseLeavesNothing
<1> QED
  BY <1>2, Invariant, PTL

\* A subscriber that joined before, during or after the broadcast of an outage
\* knows of it or is about to be told.
THEOREM OutageIsKnown == Spec => []SubscribersKnowOutage
<1>1. IInv => SubscribersKnowOutage
  BY DEF IInv
<1> QED
  BY <1>1, Invariant, PTL

\* The timer fires, waits for the mutex and looks, and only then closes: never
\* a channel whose runner came back in between.
THEOREM TimeoutSparesTheRunner == Spec => TimeoutSparesPublisher
<1>1. ASSUME IInv, [Next]_vars, ~closed, closed', replaceMu \in Epochs PROVE publisher = NoConn
  <2>1. PICK p \in Closers : Mark(p)
    BY <1>1 DEF Next, vars, SetPublisher, Lock, Swap, Waited, Spawn, Forward, FwdStart, Disconnect, CopySubscribers,
           FwdEnds, Output, ReadFails, Reconnect, TimerLocks, TimerLooks, Closing, StopKeepAlive, ClosePublisher,
           CloseSubscribers, Broadcast, Deliver, RemoveFailed, AddSubscriber, Added, AddCheck, AddTell, Leave,
           KeepAlive, KeepAliveClosed, KeepAliveReports, TimerFires, CloseLocks, LastSubscriberGone, KeepAliveFires
  <2>2. replaceMu = p /\ closePc[p] = "mark"
    BY <1>1, <2>1, HeldMutex DEF Mark, Shutting
  <2>3. disconnected
    BY <1>1, <2>2 DEF IInv, TimerSawOutage
  <2> QED
    BY <1>1, <2>3 DEF IInv, OutageIsTimed
<1>2. IInv /\ [Next]_vars => [~closed /\ closed' /\ replaceMu \in Epochs => publisher = NoConn]_vars
  BY <1>1
<1> QED
  BY <1>2, Invariant, PTL DEF Spec, TimeoutSparesPublisher
=============================================================================
