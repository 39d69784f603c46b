------------------------ MODULE PendingDispatchProofs ------------------------
(***************************************************************************)
(* Proofs about the queue of create commands of one runner, for any pods,  *)
(* limits, losses of the connection and crashes of the control plane.      *)
(***************************************************************************)
EXTENDS PendingDispatch, SequenceTheorems, FiniteSetTheorems, TLAPS

(***************************************************************************)
(* The inductive invariant.                                                *)
(***************************************************************************)
\* The drainer and the sweeper work on the first row of their batch.
HeadPlaces == {"expire", "claim", "reserve", "send", "undo", "revert", "delete", "mark"}
Claimed    == {"reserve", "send", "undo", "revert"}
Places     == HeadPlaces \cup {"idle", "list", "leave", "row", "begin", "starting", "queued", "fail"}
Batches    == [pc : Places, batch : Seq(Pods)]
Written    == {"alignQueued", "done"}
Unsent     == {"idle", "insert", "choose", "enqueue", "reserve", "send"}
Creation   == Written \cup Unsent \cup {"undo", "align", "failed"}

BatchesTyped ==
  /\ drain \in Batches /\ sweep \in Batches /\ disc \in Batches
  /\ drain.pc \in HeadPlaces => drain.batch # <<>>
  /\ sweep.pc = "mark" => sweep.batch # <<>>
  /\ disc.pc = "fail" => disc.batch # <<>>
  /\ create \in [Pods -> Creation]

\* What somebody may still find of a pod's row.
Known(p) == p \in ToSet(queue) \cup ToSet(drain.batch) \cup ToSet(sweep.batch)

\* A row is there only after its pod was queued; a pod that was sent
\* directly never gets one.
RowsAreWritten ==
  /\ \A p \in Pods : Known(p) => create[p] \in Written
  /\ \A p \in Pods : create[p] \in Unsent => sent[p] = 0

\* A pod whose row is still known is not queued again after it was sent.
SentIsNotQueued == \A p \in Pods : Known(p) /\ sent[p] > 0 => status[p] # "queued"

\* A pod that was to be sent at once and is queued instead becomes "queued"
\* only with its last statement: nobody claims it before.
Aligning(p) == initial[p] = "initializing" /\ create[p] \in {"choose", "enqueue", "alignQueued"}
AligningIsSafe == \A p \in Pods : Aligning(p) => sent[p] = 0 /\ status[p] # "queued"

\* Whoever holds a claim is the only one who may put the pod back.
ClaimHolds ==
  drain.pc \in Claimed =>
    LET p == Head(drain.batch) IN sent[p] = 0 /\ status[p] # "queued" /\ ~Aligning(p)

\* What is before a row of the batch in the queue is before it in the batch.
InOrder(q, b) ==
  \A i, j \in DOMAIN q, l \in DOMAIN b :
    i < j /\ q[j] = b[l] => \E k \in 1 .. (l - 1) : q[i] = b[k]
BatchIsFirst == InOrder(queue, drain.batch)
MarkedIsGone == drain.pc = "mark" => Head(drain.batch) \notin ToSet(queue)

IInv == /\ TypeOK /\ BatchesTyped /\ RowsAreWritten /\ SentIsNotQueued /\ AligningIsSafe
        /\ ClaimHolds /\ BatchIsFirst /\ MarkedIsGone /\ SentOnce

(***************************************************************************)
(* Rows and batches as sequences.                                          *)
(***************************************************************************)
\* The first row of a batch, and the rest of it.
LEMMA BatchParts ==
  ASSUME NEW b \in Seq(Pods), b # <<>>
  PROVE  /\ Head(b) = b[1] /\ Head(b) \in Pods /\ Head(b) \in ToSet(b) /\ 1 \in DOMAIN b
         /\ Tail(b) \in Seq(Pods) /\ ToSet(Tail(b)) \subseteq ToSet(b)
         /\ \A l \in DOMAIN Tail(b) : l + 1 \in DOMAIN b /\ Tail(b)[l] = b[l + 1]
<1>1. Head(b) = b[1] /\ Head(b) \in Pods /\ Len(b) >= 1 /\ Len(b) \in Nat /\ DOMAIN b = 1 .. Len(b)
  OBVIOUS
<1>2. /\ Tail(b) \in Seq(Pods) /\ Len(Tail(b)) = Len(b) - 1 /\ DOMAIN Tail(b) = 1 .. Len(Tail(b))
      /\ \A l \in 1 .. Len(Tail(b)) : Tail(b)[l] = b[l + 1]
  BY HeadTailProperties
<1>3. \A l \in DOMAIN Tail(b) : l + 1 \in DOMAIN b /\ Tail(b)[l] = b[l + 1]
  BY <1>1, <1>2
<1> QED
  BY <1>1, <1>2, <1>3 DEF ToSet

\* A row that is deleted leaves the others in their order.
LEMMA RemovedRow ==
  ASSUME NEW q \in Seq(Pods), NEW n \in DOMAIN q
  PROVE  /\ RemoveAt(q, n) \in Seq(Pods) /\ Len(RemoveAt(q, n)) = Len(q) - 1
         /\ \A i \in 1 .. (Len(q) - 1) : RemoveAt(q, n)[i] = IF i < n THEN q[i] ELSE q[i + 1]
<1> DEFINE s == SubSeq(q, 1, n - 1)
           t == SubSeq(q, n + 1, Len(q))
<1>1. n \in 1 .. Len(q) /\ Len(q) \in Nat /\ \A i \in 1 .. Len(q) : q[i] \in Pods
  OBVIOUS
<1>2. s \in Seq(Pods) /\ Len(s) = n - 1 /\ \A i \in 1 .. (n - 1) : s[i] = q[i]
  <2>1. \A i \in 1 .. (n - 1) : q[i] \in Pods
    BY <1>1
  <2>2. /\ s \in Seq(Pods) /\ Len(s) = IF 1 <= n - 1 THEN n - 1 - 1 + 1 ELSE 0
        /\ \A i \in 1 .. (n - 1 - 1 + 1) : s[i] = q[1 + i - 1]
    BY <1>1, <2>1, SubSeqProperties
  <2> HIDE DEF s
  <2> QED
    BY <1>1, <2>2
<1>3. t \in Seq(Pods) /\ Len(t) = Len(q) - n /\ \A i \in 1 .. (Len(q) - n) : t[i] = q[n + i]
  <2>1. \A i \in (n + 1) .. Len(q) : q[i] \in Pods
    BY <1>1
  <2>2. /\ t \in Seq(Pods) /\ Len(t) = IF n + 1 <= Len(q) THEN Len(q) - (n + 1) + 1 ELSE 0
        /\ \A i \in 1 .. (Len(q) - (n + 1) + 1) : t[i] = q[n + 1 + i - 1]
    BY <1>1, <2>1, SubSeqProperties
  <2> HIDE DEF t
  <2> QED
    BY <1>1, <2>2
<1>4. RemoveAt(q, n) = s \o t
  BY DEF RemoveAt
<1> HIDE DEF s, t
<1>5. /\ s \o t \in Seq(Pods) /\ Len(s \o t) = Len(s) + Len(t)
      /\ \A i \in 1 .. (Len(s) + Len(t)) : (s \o t)[i] = IF i <= Len(s) THEN s[i] ELSE t[i - Len(s)]
  BY <1>2, <1>3, ConcatProperties
<1>6. /\ \A i \in 1 .. (Len(q) - 1) : i < n => i <= n - 1 /\ i \in 1 .. (n - 1)
      /\ \A i \in 1 .. (Len(q) - 1) : ~(i < n) => /\ ~(i <= n - 1) /\ i - (n - 1) \in 1 .. (Len(q) - n)
                                                  /\ n + (i - (n - 1)) = i + 1
      /\ (n - 1) + (Len(q) - n) = Len(q) - 1
  BY <1>1
<1>7. ASSUME NEW i \in 1 .. (Len(q) - 1) PROVE (s \o t)[i] = IF i < n THEN q[i] ELSE q[i + 1]
  <2>1. (s \o t)[i] = IF i <= n - 1 THEN s[i] ELSE t[i - (n - 1)]
    BY <1>2, <1>3, <1>5, <1>6
  <2>2. CASE i < n
    BY <1>2, <1>6, <2>1, <2>2
  <2>3. CASE ~(i < n)
    <3>1. t[i - (n - 1)] = q[n + (i - (n - 1))]
      BY <1>3, <1>6, <2>3
    <3> QED
      BY <1>6, <2>1, <2>3, <3>1
  <2> QED
    BY <2>2, <2>3
<1>8. Len(s \o t) = Len(q) - 1
  BY <1>2, <1>3, <1>5, <1>6
<1> QED
  BY <1>4, <1>5, <1>7, <1>8

\* The relation between a queue and a batch when a row is deleted.
LEMMA RowDeleted ==
  ASSUME NEW q \in Seq(Pods), IsInjective(q), NEW n \in DOMAIN q, NEW b \in Seq(Pods), InOrder(q, b)
  PROVE  /\ RemoveAt(q, n) \in Seq(Pods) /\ Len(RemoveAt(q, n)) <= Len(q)
         /\ IsInjective(RemoveAt(q, n)) /\ InOrder(RemoveAt(q, n), b)
         /\ ToSet(RemoveAt(q, n)) \subseteq ToSet(q) /\ q[n] \notin ToSet(RemoveAt(q, n))
<1> DEFINE r == RemoveAt(q, n)
           At1(i) == IF i < n THEN i ELSE i + 1
<1>1. /\ r \in Seq(Pods) /\ Len(r) = Len(q) - 1 /\ Len(q) \in Nat /\ DOMAIN q = 1 .. Len(q) /\ DOMAIN r = 1 .. (Len(q) - 1)
      /\ \A i \in 1 .. (Len(q) - 1) : r[i] = IF i < n THEN q[i] ELSE q[i + 1]
  BY RemovedRow
<1>2. \A i \in DOMAIN r : At1(i) \in DOMAIN q /\ At1(i) # n /\ r[i] = q[At1(i)]
  BY <1>1
<1>3. \A i, j \in DOMAIN r : (i < j <=> At1(i) < At1(j)) /\ (At1(i) = At1(j) => i = j)
  BY <1>1
<1> HIDE DEF r, At1
<1>4. IsInjective(r) /\ ToSet(r) \subseteq ToSet(q) /\ q[n] \notin ToSet(r)
  BY <1>2, <1>3 DEF IsInjective, ToSet
<1>5. InOrder(r, b)
  BY <1>2, <1>3 DEF InOrder
<1> QED
  BY <1>1, <1>4, <1>5 DEF r

\* A row that is added comes last, behind all of a batch it is not in.
LEMMA RowAdded ==
  ASSUME NEW q \in Seq(Pods), IsInjective(q), NEW p \in Pods, p \notin ToSet(q),
         NEW b \in Seq(Pods), InOrder(q, b), p \notin ToSet(b)
  PROVE  /\ Append(q, p) \in Seq(Pods) /\ Len(Append(q, p)) = Len(q) + 1
         /\ IsInjective(Append(q, p)) /\ InOrder(Append(q, p), b)
         /\ ToSet(Append(q, p)) = ToSet(q) \cup {p}
<1> DEFINE r == Append(q, p)
<1>1. /\ r \in Seq(Pods) /\ Len(r) = Len(q) + 1 /\ Len(q) \in Nat /\ DOMAIN q = 1 .. Len(q) /\ DOMAIN r = 1 .. (Len(q) + 1)
      /\ \A i \in DOMAIN q : r[i] = q[i]
      /\ r[Len(q) + 1] = p
  BY AppendProperties
<1> HIDE DEF r
<1>2. \A i \in DOMAIN r : (i \in DOMAIN q /\ r[i] = q[i]) \/ (i = Len(q) + 1 /\ r[i] = p)
  BY <1>1
<1>3. IsInjective(r)
  BY <1>1, <1>2 DEF IsInjective, ToSet
<1>4. ToSet(r) = ToSet(q) \cup {p}
  <2>1. ToSet(r) \subseteq ToSet(q) \cup {p}
    BY <1>2 DEF ToSet
  <2>2. DOMAIN q \subseteq DOMAIN r /\ Len(q) + 1 \in DOMAIN r
    BY <1>1
  <2> QED
    BY <1>1, <2>1, <2>2 DEF ToSet
<1>5. InOrder(r, b)
  <2> SUFFICES ASSUME NEW i \in DOMAIN r, NEW j \in DOMAIN r, NEW l \in DOMAIN b, i < j, r[j] = b[l]
               PROVE  \E k \in 1 .. (l - 1) : r[i] = b[k]
    BY DEF InOrder
  <2>1. r[j] # p
    BY DEF ToSet
  <2>2. j \in DOMAIN q /\ i \in DOMAIN q /\ r[j] = q[j] /\ r[i] = q[i]
    BY <1>1, <1>2, <2>1
  <2> QED
    BY <2>2 DEF InOrder
<1> QED
  BY <1>1, <1>3, <1>4, <1>5 DEF r

\* A batch that lists the queue has its order, and so has the rest of a batch
\* whose first row is gone.
LEMMA BatchListed ==
  /\ \A q \in Seq(Pods) : InOrder(q, <<>>) /\ (IsInjective(q) => InOrder(q, q))
  /\ \A q \in Seq(Pods), b \in Seq(Pods) :
       b # <<>> /\ InOrder(q, b) /\ Head(b) \notin ToSet(q) => InOrder(q, Tail(b))
<1>1. \A q \in Seq(Pods) : InOrder(q, <<>>)
  BY DEF InOrder
<1>2. ASSUME NEW q \in Seq(Pods), IsInjective(q), NEW i \in DOMAIN q, NEW j \in DOMAIN q, NEW l \in DOMAIN q, i < j, q[j] = q[l]
      PROVE  \E k \in 1 .. (l - 1) : q[i] = q[k]
  <2>1. j = l
    BY <1>2 DEF IsInjective
  <2>2. i \in 1 .. (l - 1)
    BY <1>2, <2>1
  <2> QED
    BY <2>2
<1>3. ASSUME NEW q \in Seq(Pods), NEW b \in Seq(Pods), b # <<>>, InOrder(q, b), Head(b) \notin ToSet(q)
      PROVE  InOrder(q, Tail(b))
  <2> SUFFICES ASSUME NEW i \in DOMAIN q, NEW j \in DOMAIN q, NEW l \in DOMAIN Tail(b), i < j, q[j] = Tail(b)[l]
               PROVE  \E k \in 1 .. (l - 1) : q[i] = Tail(b)[k]
    BY DEF InOrder
  <2>1. /\ l + 1 \in DOMAIN b /\ q[j] = b[l + 1] /\ l \in 1 .. Len(Tail(b)) /\ Len(Tail(b)) \in Nat
        /\ Head(b) = b[1] /\ DOMAIN Tail(b) = 1 .. Len(Tail(b))
        /\ \A m \in DOMAIN Tail(b) : Tail(b)[m] = b[m + 1]
    BY <1>3, BatchParts
  <2>2. PICK k \in 1 .. l : q[i] = b[k]
    BY <1>3, <2>1 DEF InOrder
  <2>3. k # 1
    BY <1>3, <2>1, <2>2 DEF ToSet
  <2>4. k - 1 \in 1 .. (l - 1) /\ k - 1 \in DOMAIN Tail(b) /\ Tail(b)[k - 1] = b[k - 1 + 1] /\ k - 1 + 1 = k
    BY <2>1, <2>3
  <2> QED
    BY <2>2, <2>4
<1>4. \A q \in Seq(Pods) : IsInjective(q) => InOrder(q, q)
  BY <1>2 DEF InOrder
<1> QED
  BY <1>1, <1>3, <1>4

(***************************************************************************)
(* What a step may do to each part of the state.                           *)
(***************************************************************************)
Moves ==
  {<<"idle", "insert">>, <<"insert", "choose">>, <<"choose", "reserve">>, <<"choose", "enqueue">>,
   <<"reserve", "send">>, <<"reserve", "failed">>, <<"send", "align">>, <<"send", "undo">>,
   <<"undo", "failed">>, <<"enqueue", "alignQueued">>, <<"enqueue", "failed">>,
   <<"align", "done">>, <<"alignQueued", "done">>, <<"failed", "done">>}

\* A request goes on, or is given up; it knows from the insert on how its pod
\* was inserted.
CreationSteps ==
  /\ create' \in [Pods -> Creation] /\ initial' \in [Pods -> {"queued", "initializing"}]
  /\ \A p \in Pods :
       /\ create'[p] = create[p] \/ <<create[p], create'[p]>> \in Moves \/ create'[p] = "done"
       /\ create[p] = "idle" \/ initial'[p] = initial[p]
       /\ create[p] = "insert" /\ create'[p] = "choose" => status'[p] = initial[p]

\* Who makes a pod wait again.
MayQueue(p) ==
  \/ create[p] = "insert"
  \/ Aligning(p) /\ create'[p] = "done"
  \/ drain.pc = "revert" /\ p = Head(drain.batch) /\ drain' = At("leave")
StatusSteps ==
  /\ status' \in [Pods -> Statuses]
  /\ \A p \in Pods : status'[p] = "queued" => status[p] = "queued" \/ MayQueue(p)

\* Who sends.
SentSteps ==
  /\ sent' \in [Pods -> Nat]
  /\ \A p \in Pods : sent'[p] # sent[p] =>
       /\ sent'[p] = sent[p] + 1
       /\ \/ create[p] = "send" /\ create'[p] = "align"
          \/ drain.pc = "send" /\ p = Head(drain.batch) /\ drain'.pc = "delete"

Enqueues(p) ==
  /\ create[p] = "enqueue" /\ create'[p] = "alignQueued"
  /\ Len(queue) < MaxPerRunner /\ queue' = Append(queue, p)
QueueSteps ==
  \/ queue' = queue
  \/ \E n \in DOMAIN queue : queue' = RemoveAt(queue, n)
  \/ \E p \in Pods : Enqueues(p)

HeadIsGone == Head(drain.batch) \notin ToSet(queue')
ClaimsHead == status[Head(drain.batch)] = "queued" /\ status'[Head(drain.batch)] # "queued"
DrainSteps ==
  \/ drain' = drain
  \/ \E c \in {"idle", "list", "leave"} : drain' = At(c)
  \/ drain' = [pc |-> "row", batch |-> queue] /\ queue' = queue
  \/ /\ drain.batch # <<>>
     /\ \/ drain' = Next1(drain, "row") /\ HeadIsGone
        \/ \E c \in HeadPlaces : /\ drain' = Went(drain, c)
                                 /\ c \in Claimed => drain.pc \in Claimed \/ ClaimsHead
                                 /\ c = "mark" => HeadIsGone

SweepSteps ==
  \/ sweep' = sweep
  \/ sweep' = At("idle")
  \/ sweep' \in Batches /\ sweep'.pc = "row" /\ ToSet(sweep'.batch) \subseteq ToSet(queue)
  \/ sweep.batch # <<>> /\ (sweep' = Went(sweep, "mark") \/ sweep' = Next1(sweep, "row"))

DiscSteps == disc' \in Batches /\ (disc'.pc = "fail" => disc'.batch # <<>>)

Slots == 0 .. (MaxConcurrent + Cardinality(Pods))
Lives == [Pods -> {"none", "asked", "alive", "gone"}]
RestSteps ==
  /\ expired' \subseteq Pods /\ cancelled' \subseteq Pods /\ current' \in Slots
  /\ online' \in BOOLEAN /\ life' \in Lives

Effects == /\ CreationSteps /\ StatusSteps /\ SentSteps /\ QueueSteps
           /\ DrainSteps /\ SweepSteps /\ DiscSteps /\ RestSteps

(***************************************************************************)
(* Whoever does no more than that keeps the invariant.                     *)
(***************************************************************************)
\* The first row of the drainer's batch is known.
LEMMA HeadIsKnown ==
  ASSUME IInv, drain.batch # <<>>
  PROVE  Head(drain.batch) \in Pods /\ Known(Head(drain.batch))
<1>1. drain.batch \in Seq(Pods)
  BY DEF IInv, BatchesTyped, Batches
<1> QED
  BY <1>1, BatchParts DEF Known

\* Batches keep their type, and nobody works on the first row of an empty one.
LEMMA BatchesKept ==
  ASSUME IInv, Effects
  PROVE  BatchesTyped'
<1>0. /\ drain \in Batches /\ sweep \in Batches /\ queue \in Seq(Pods)
      /\ drain.pc \in HeadPlaces => drain.batch # <<>>
      /\ sweep.pc = "mark" => sweep.batch # <<>>
  BY DEF IInv, TypeOK, BatchesTyped
<1>1. \A c \in Places, b \in Seq(Pods) : [pc |-> c, batch |-> b] \in Batches
  BY DEF Batches
<1>2. \A f \in Batches, c \in Places : /\ Went(f, c) = [pc |-> c, batch |-> f.batch]
                                       /\ Went(f, c) \in Batches /\ f.batch \in Seq(Pods)
  BY <1>1 DEF Batches, Went
<1>3. \A c \in Places : At(c) \in Batches /\ At(c).pc = c
  <2>1. <<>> \in Seq(Pods)
    OBVIOUS
  <2> QED
    BY <1>1, <2>1 DEF At
<1>4. \A f \in Batches, c \in Places : f.batch # <<>> => Next1(f, c) \in Batches /\ Next1(f, c).pc = c
  BY <1>1, <1>2, BatchParts DEF Next1
<1>5. HeadPlaces \subseteq Places /\ {"idle", "list", "leave", "row"} \subseteq Places \ HeadPlaces
  BY DEF Places, HeadPlaces
<1>6. drain' \in Batches /\ (drain'.pc \in HeadPlaces => drain'.batch # <<>>)
  <2>1. CASE \E c \in {"idle", "list", "leave"} : drain' = At(c)
    BY <1>3, <1>5, <2>1
  <2>2. CASE drain' = [pc |-> "row", batch |-> queue]
    BY <1>0, <1>1, <1>5, <2>2
  <2>3. CASE drain.batch # <<>> /\ drain' = Next1(drain, "row")
    BY <1>0, <1>4, <1>5, <2>3
  <2>4. CASE drain.batch # <<>> /\ \E c \in HeadPlaces : drain' = Went(drain, c)
    <3>1. PICK c \in HeadPlaces : drain' = Went(drain, c)
      BY <2>4
    <3>2. drain' = [pc |-> c, batch |-> drain.batch] /\ drain' \in Batches
      BY <1>0, <1>2, <1>5, <3>1
    <3> QED
      BY <2>4, <3>2
  <2>5. \/ drain' = drain
        \/ \E c \in {"idle", "list", "leave"} : drain' = At(c)
        \/ drain' = [pc |-> "row", batch |-> queue]
        \/ drain.batch # <<>> /\ drain' = Next1(drain, "row")
        \/ drain.batch # <<>> /\ \E c \in HeadPlaces : drain' = Went(drain, c)
    BY DEF Effects, DrainSteps
  <2>6. CASE drain' = drain
    BY <1>0, <2>6
  <2> QED
    BY <2>1, <2>2, <2>3, <2>4, <2>5, <2>6
<1>7. sweep' \in Batches /\ (sweep'.pc = "mark" => sweep'.batch # <<>>)
  <2>1. "mark" \in Places /\ "mark" # "idle" /\ "mark" # "row"
    BY DEF Places, HeadPlaces
  <2>2. CASE sweep' = At("idle")
    BY <1>3, <1>5, <2>1, <2>2
  <2>3. CASE sweep.batch # <<>> /\ sweep' = Went(sweep, "mark")
    BY <1>0, <1>2, <2>1, <2>3
  <2>4. CASE sweep.batch # <<>> /\ sweep' = Next1(sweep, "row")
    BY <1>0, <1>4, <1>5, <2>1, <2>4
  <2> QED
    BY <1>0, <2>1, <2>2, <2>3, <2>4 DEF Effects, SweepSteps
<1> QED
  BY <1>6, <1>7 DEF BatchesTyped, Effects, DiscSteps, CreationSteps

\* The queue keeps its type, and the drainer's batch its place in it.
LEMMA QueueKept ==
  ASSUME IInv, Effects
  PROVE  /\ queue' \in Seq(Pods) /\ Len(queue') <= MaxPerRunner /\ IsInjective(queue')
         /\ BatchIsFirst' /\ MarkedIsGone'
         /\ \A p \in ToSet(queue') : p \in ToSet(queue) \/ (create[p] = "enqueue" /\ create'[p] = "alignQueued")
<1>0. /\ queue \in Seq(Pods) /\ Len(queue) <= MaxPerRunner /\ IsInjective(queue) /\ BatchIsFirst
      /\ drain \in Batches /\ drain.batch \in Seq(Pods) /\ MaxPerRunner \in Nat /\ Len(queue) \in Nat
  BY DispatchAssumption DEF IInv, TypeOK, BatchesTyped, Batches
<1>1. ASSUME NEW p \in Pods, Enqueues(p)
      PROVE  p \notin ToSet(queue) /\ p \notin ToSet(drain.batch)
  BY <1>1 DEF Enqueues, IInv, RowsAreWritten, Written, Known
<1>2. /\ queue' \in Seq(Pods) /\ Len(queue') <= MaxPerRunner /\ IsInjective(queue')
      /\ InOrder(queue', drain.batch)
      /\ \A p \in ToSet(queue') : p \in ToSet(queue) \/ (create[p] = "enqueue" /\ create'[p] = "alignQueued")
  <2>1. CASE queue' = queue
    BY <1>0, <2>1 DEF BatchIsFirst
  <2>2. CASE \E n \in DOMAIN queue : queue' = RemoveAt(queue, n)
    <3>1. PICK n \in DOMAIN queue : queue' = RemoveAt(queue, n)
      BY <2>2
    <3>2. /\ queue' \in Seq(Pods) /\ Len(queue') <= Len(queue) /\ IsInjective(queue')
          /\ InOrder(queue', drain.batch) /\ ToSet(queue') \subseteq ToSet(queue)
      BY <1>0, <3>1, RowDeleted DEF BatchIsFirst
    <3> QED
      BY <1>0, <3>2
  <2>3. ASSUME NEW p \in Pods, Enqueues(p)
        PROVE  /\ queue' \in Seq(Pods) /\ Len(queue') <= MaxPerRunner /\ IsInjective(queue')
               /\ InOrder(queue', drain.batch)
               /\ \A q \in ToSet(queue') : q \in ToSet(queue) \/ (create[q] = "enqueue" /\ create'[q] = "alignQueued")
    <3>1. /\ queue' \in Seq(Pods) /\ Len(queue') = Len(queue) + 1 /\ IsInjective(queue')
          /\ InOrder(queue', drain.batch) /\ ToSet(queue') = ToSet(queue) \cup {p}
      BY <1>0, <1>1, <2>3, RowAdded DEF Enqueues, BatchIsFirst
    <3> QED
      BY <1>0, <2>3, <3>1 DEF Enqueues
  <2> QED
    BY <2>1, <2>2, <2>3 DEF Effects, QueueSteps
<1>3. InOrder(queue', drain'.batch)
  <2>1. CASE \E c \in Places : drain' = Went(drain, c)
    BY <1>0, <1>2, <2>1 DEF Went, Batches
  <2>2. CASE drain.batch # <<>> /\ drain' = Next1(drain, "row") /\ HeadIsGone
    BY <1>0, <1>2, <2>2, BatchListed DEF Next1, HeadIsGone
  <2>3. CASE drain' = [pc |-> "row", batch |-> queue] /\ queue' = queue
    BY <1>0, <2>3, BatchListed
  <2>4. CASE \E c \in Places : drain' = At(c)
    BY <1>2, <2>4, BatchListed DEF At
  <2>5. HeadPlaces \subseteq Places /\ {"idle", "list", "leave"} \subseteq Places
    BY DEF Places
  <2> QED
    BY <1>2, <2>1, <2>2, <2>3, <2>4, <2>5 DEF Effects, DrainSteps
<1>4. MarkedIsGone'
  <2> SUFFICES ASSUME drain'.pc = "mark" PROVE Head(drain'.batch) \notin ToSet(queue')
    BY DEF MarkedIsGone
  <2>1. CASE drain' = drain
    <3>1. Head(drain.batch) \notin ToSet(queue) /\ drain.batch # <<>>
      BY <2>1 DEF IInv, MarkedIsGone, BatchesTyped, HeadPlaces
    <3>2. create[Head(drain.batch)] # "enqueue"
      BY <3>1, HeadIsKnown DEF IInv, RowsAreWritten, Written
    <3> QED
      BY <1>2, <2>1, <3>1, <3>2
  <2>2. CASE \E c \in HeadPlaces : drain' = Went(drain, c) /\ (c = "mark" => HeadIsGone)
    BY <1>0, <2>2 DEF Went, Batches, HeadIsGone
  <2> QED
    BY <2>1, <2>2 DEF Effects, DrainSteps, At, Next1
<1> QED
  BY <1>2, <1>3, <1>4 DEF BatchIsFirst

\* What is known of a row was known before, but for a row that is new.
LEMMA KnownBefore ==
  ASSUME IInv, Effects, NEW p \in Pods, Known(p)'
  PROVE  Known(p) \/ (create[p] = "enqueue" /\ create'[p] = "alignQueued")
<1>0. queue \in Seq(Pods) /\ drain.batch \in Seq(Pods) /\ sweep.batch \in Seq(Pods)
  BY DEF IInv, TypeOK, BatchesTyped, Batches
<1>1. p \in ToSet(queue') => p \in ToSet(queue) \/ (create[p] = "enqueue" /\ create'[p] = "alignQueued")
  BY QueueKept
<1>2. ToSet(<<>>) = {}
  BY DEF ToSet
<1>3. ToSet(drain'.batch) \subseteq ToSet(drain.batch) \cup ToSet(queue)
  <2>1. CASE drain.batch # <<>> /\ drain' = Next1(drain, "row")
    BY <1>0, <2>1, BatchParts DEF Next1
  <2>2. CASE \E c \in HeadPlaces : drain' = Went(drain, c)
    BY <2>2 DEF Went, IInv, BatchesTyped, Batches
  <2> QED
    BY <1>2, <2>1, <2>2 DEF Effects, DrainSteps, At
<1>4. ToSet(sweep'.batch) \subseteq ToSet(sweep.batch) \cup ToSet(queue)
  <2>1. CASE sweep.batch # <<>> /\ sweep' = Next1(sweep, "row")
    BY <1>0, <2>1, BatchParts DEF Next1
  <2>2. CASE sweep' = Went(sweep, "mark")
    BY <2>2 DEF Went, IInv, BatchesTyped, Batches
  <2> QED
    BY <1>2, <2>1, <2>2 DEF Effects, SweepSteps, At
<1> QED
  BY <1>1, <1>3, <1>4 DEF Known


\* A row that is known is of a request that is over or about to be.
LEMMA WrittenIsKept ==
  ASSUME IInv, Effects, NEW p \in Pods, create[p] \in Written
  PROVE  create'[p] \in Written /\ ~(create'[p] \in Unsent)
         /\ (Aligning(p)' => Aligning(p)) /\ create[p] # "insert" /\ create[p] # "send"
  BY DEF Effects, CreationSteps, Moves, Written, Unsent, Aligning

\* A pod whose row is known is sent at the drainer's place "send" only, when
\* it is neither queued nor about to be.
LEMMA SentByDrainer ==
  ASSUME IInv, Effects, NEW p \in Pods, sent'[p] # sent[p]
  PROVE  /\ sent[p] = 0 /\ sent'[p] = 1
         /\ \/ create[p] = "send" /\ create'[p] = "align"
            \/ /\ drain.pc = "send" /\ p = Head(drain.batch) /\ drain'.pc = "delete" /\ Known(p)
               /\ status[p] # "queued" /\ ~Aligning(p)
<1>1. /\ sent'[p] = sent[p] + 1
      /\ \/ create[p] = "send" /\ create'[p] = "align"
         \/ drain.pc = "send" /\ p = Head(drain.batch) /\ drain'.pc = "delete"
  BY DEF Effects, SentSteps
<1>2. CASE create[p] = "send" /\ create'[p] = "align"
  <2>1. sent[p] = 0
    BY <1>2 DEF IInv, RowsAreWritten, Unsent
  <2> QED
    BY <1>1, <1>2, <2>1
<1>3. CASE drain.pc = "send" /\ p = Head(drain.batch) /\ drain'.pc = "delete"
  <2>1. sent[p] = 0 /\ status[p] # "queued" /\ ~Aligning(p) /\ drain.batch # <<>>
    BY <1>3 DEF IInv, ClaimHolds, Claimed, BatchesTyped, HeadPlaces
  <2> QED
    BY <1>1, <1>3, <2>1, HeadIsKnown
<1> QED
  BY <1>1, <1>2, <1>3

\* Rows and sends.
LEMMA RowsKept ==
  ASSUME IInv, Effects
  PROVE  RowsAreWritten' /\ SentOnce'
<1>1. ASSUME NEW p \in Pods, Known(p)' PROVE create'[p] \in Written
  BY <1>1, KnownBefore, WrittenIsKept DEF IInv, RowsAreWritten, Written
<1>2. ASSUME NEW p \in Pods, create'[p] \in Unsent PROVE sent'[p] = 0
  <2>1. create[p] \in Unsent
    BY <1>2 DEF Effects, CreationSteps, Moves, Unsent
  <2>2. sent[p] = 0
    BY <2>1 DEF IInv, RowsAreWritten
  <2>3. ~(create[p] = "send" /\ create'[p] = "align") /\ ~Known(p)
    BY <1>2, <2>1 DEF Unsent, Written, IInv, RowsAreWritten
  <2> QED
    BY <2>2, <2>3, SentByDrainer
<1>3. ASSUME NEW p \in Pods PROVE sent'[p] <= 1
  <2>1. sent[p] <= 1
    BY DEF IInv, SentOnce
  <2> QED
    BY <2>1, SentByDrainer
<1> QED
  BY <1>1, <1>2, <1>3 DEF RowsAreWritten, SentOnce

\* What a pod that was sent, is being aligned or is claimed may become.
LEMMA StatusesKept ==
  ASSUME IInv, Effects
  PROVE  SentIsNotQueued' /\ AligningIsSafe' /\ ClaimHolds'
<1>1. ASSUME NEW p \in Pods, Known(p)', sent'[p] > 0, status'[p] = "queued" PROVE FALSE
  <2>0. sent[p] \in Nat
    BY DEF IInv, TypeOK
  <2>1. CASE Known(p)
    <3>1. create[p] \in Written /\ create[p] # "insert" /\ create[p] # "send"
      BY <2>1, WrittenIsKept DEF IInv, RowsAreWritten
    <3>2. CASE sent'[p] = sent[p]
      <4>1. status[p] # "queued"
        BY <1>1, <2>1, <3>2 DEF IInv, SentIsNotQueued
      <4>2. ~Aligning(p) /\ ~(drain.pc = "revert" /\ p = Head(drain.batch))
        BY <1>1, <2>0, <3>2 DEF IInv, AligningIsSafe, ClaimHolds, Claimed
      <4> QED
        BY <1>1, <3>1, <4>1, <4>2 DEF Effects, StatusSteps, MayQueue
    <3>3. CASE sent'[p] # sent[p]
      <4>1. drain.pc = "send" /\ status[p] # "queued" /\ ~Aligning(p)
        BY <3>1, <3>3, SentByDrainer
      <4> QED
        BY <1>1, <3>1, <4>1 DEF Effects, StatusSteps, MayQueue
    <3> QED
      BY <3>2, <3>3
  <2>2. CASE ~Known(p)
    <3>1. create[p] = "enqueue" /\ create'[p] = "alignQueued"
      BY <1>1, <2>2, KnownBefore
    <3>2. sent[p] = 0
      BY <3>1 DEF IInv, RowsAreWritten, Unsent
    <3> QED
      BY <1>1, <2>2, <3>1, <3>2, SentByDrainer
  <2> QED
    BY <2>1, <2>2
<1>2. ASSUME NEW p \in Pods, Aligning(p)' PROVE sent'[p] = 0 /\ status'[p] # "queued"
  <2>1. /\ create'[p] \in {"choose", "enqueue", "alignQueued"} /\ initial'[p] = "initializing"
        /\ initial'[p] = initial[p] /\ (Aligning(p) \/ (create[p] = "insert" /\ create'[p] = "choose"))
    BY <1>2 DEF Effects, CreationSteps, Moves, Aligning
  <2>2. CASE Aligning(p)
    <3>1. sent[p] = 0 /\ status[p] # "queued" /\ create[p] # "insert" /\ create[p] # "send"
      BY <2>2 DEF IInv, AligningIsSafe, Aligning
    <3>2. sent'[p] = sent[p]
      BY <2>2, <3>1, SentByDrainer
    <3>3. ~(drain.pc = "revert" /\ p = Head(drain.batch))
      BY <2>2 DEF IInv, ClaimHolds, Claimed
    <3> QED
      BY <2>1, <3>1, <3>2, <3>3 DEF Effects, StatusSteps, MayQueue
  <2>3. CASE create[p] = "insert" /\ create'[p] = "choose"
    <3>1. sent[p] = 0 /\ ~Known(p)
      BY <2>3 DEF IInv, RowsAreWritten, Unsent, Written
    <3>2. sent'[p] = sent[p]
      BY <2>3, <3>1, SentByDrainer
    <3>3. status'[p] = initial[p]
      BY <2>3 DEF Effects, CreationSteps
    <3> QED
      BY <2>1, <3>1, <3>2, <3>3
  <2> QED
    BY <2>1, <2>2, <2>3
<1>3. ASSUME drain'.pc \in Claimed
      PROVE  /\ sent'[Head(drain'.batch)] = 0 /\ status'[Head(drain'.batch)] # "queued"
             /\ ~Aligning(Head(drain.batch))'
  <2>0. drain \in Batches
    BY DEF IInv, BatchesTyped
  <2>1. drain'.batch = drain.batch /\ drain.batch # <<>> /\ (drain.pc \in Claimed \/ ClaimsHead) /\ drain' # At("leave")
    <3>1. CASE drain' = drain
      BY <1>3, <3>1 DEF IInv, BatchesTyped, Claimed, HeadPlaces, At
    <3>2. CASE \E c \in HeadPlaces : drain.batch # <<>> /\ drain' = Went(drain, c) /\ (c \in Claimed => drain.pc \in Claimed \/ ClaimsHead)
      BY <1>3, <2>0, <3>2 DEF Went, Batches, At, Claimed
    <3> QED
      BY <1>3, <3>1, <3>2 DEF Effects, DrainSteps, At, Next1, Claimed
  <2>2. PICK h \in Pods : h = Head(drain.batch) /\ Known(h)
    BY <2>1, HeadIsKnown
  <2>3. create[h] \in Written /\ create[h] # "insert" /\ create[h] # "send" /\ (Aligning(h)' => Aligning(h))
    BY <2>2, WrittenIsKept DEF IInv, RowsAreWritten
  <2>4. sent[h] = 0 /\ ~Aligning(h)
    <3>1. CASE drain.pc \in Claimed
      BY <2>2, <3>1 DEF IInv, ClaimHolds
    <3>2. CASE ClaimsHead
      <4>1. sent[h] \in Nat /\ status[h] = "queued"
        BY <2>2, <3>2 DEF IInv, TypeOK, ClaimsHead
      <4> QED
        BY <2>2, <4>1 DEF IInv, SentIsNotQueued, AligningIsSafe
    <3> QED
      BY <2>1, <3>1, <3>2
  <2>5. sent'[h] = sent[h]
    <3>1. drain'.pc # "delete"
      BY <1>3 DEF Claimed
    <3> QED
      BY <2>2, <2>3, <3>1, SentByDrainer
  <2>6. status'[h] # "queued"
    <3>1. CASE ClaimsHead
      BY <2>2, <3>1 DEF ClaimsHead
    <3>2. CASE drain.pc \in Claimed
      <4>1. status[h] # "queued"
        BY <2>2, <3>2 DEF IInv, ClaimHolds
      <4> QED
        BY <2>1, <2>2, <2>3, <2>4, <4>1 DEF Effects, StatusSteps, MayQueue
    <3> QED
      BY <2>1, <3>1, <3>2
  <2>7. Head(drain'.batch) = h
    BY <2>1, <2>2
  <2>8. ~(initial'[h] = "initializing" /\ create'[h] \in {"choose", "enqueue", "alignQueued"})
    BY <2>3, <2>4 DEF Aligning
  <2> QED
    BY <2>4, <2>5, <2>6, <2>7, <2>8 DEF Aligning
<1>4. SentIsNotQueued'
  BY <1>1 DEF SentIsNotQueued
<1>5. AligningIsSafe'
  BY <1>2 DEF AligningIsSafe
<1>6. ClaimHolds'
  BY <1>3 DEF ClaimHolds
<1> QED
  BY <1>4, <1>5, <1>6

\* The parts together.
LEMMA EffectsKeep ==
  ASSUME IInv, Effects
  PROVE  IInv'
<1>1. TypeOK'
  <2>1. BatchesTyped'
    BY BatchesKept
  <2> QED
    BY <2>1, QueueKept DEF TypeOK, BatchesTyped, Batches, Effects, StatusSteps, SentSteps, CreationSteps, RestSteps, Slots, Lives
<1> QED
  BY <1>1, BatchesKept, QueueKept, RowsKept, StatusesKept DEF IInv

(***************************************************************************)
(* Parts a step leaves alone, and the statements on the database.          *)
(***************************************************************************)
\* The constants and the variables a statement computes with.
LEMMA Types ==
  ASSUME IInv
  PROVE  /\ Cardinality(Pods) \in Nat /\ MaxConcurrent \in Nat /\ MaxConcurrent >= 1
         /\ current \in Slots /\ current \in Nat
         /\ status \in [Pods -> Statuses] /\ sent \in [Pods -> Nat] /\ life \in Lives
         /\ create \in [Pods -> Creation] /\ initial \in [Pods -> {"queued", "initializing"}]
         /\ drain \in Batches /\ sweep \in Batches /\ disc \in Batches /\ queue \in Seq(Pods) /\ IsInjective(queue)
<1>1. Cardinality(Pods) \in Nat
  BY DispatchAssumption, FS_CardinalityType
<1> QED
  BY <1>1, DispatchAssumption DEF IInv, TypeOK, BatchesTyped, Slots, Lives

\* A part of the state that a step leaves alone, or a drain that is asked for.
LEMMA Quiet ==
  ASSUME IInv
  PROVE  /\ UNCHANGED <<create, initial>> => CreationSteps
         /\ UNCHANGED status => StatusSteps
         /\ UNCHANGED sent => SentSteps
         /\ UNCHANGED queue => QueueSteps
         /\ drain' = drain \/ DrainRunner => DrainSteps
         /\ UNCHANGED sweep => SweepSteps
         /\ UNCHANGED disc => DiscSteps
         /\ UNCHANGED current => current' \in Slots
         /\ UNCHANGED <<expired, cancelled, online, life>> =>
              expired' \subseteq Pods /\ cancelled' \subseteq Pods /\ online' \in BOOLEAN /\ life' \in Lives
<1>1. UNCHANGED <<create, initial>> => CreationSteps
  BY DEF IInv, TypeOK, BatchesTyped, CreationSteps
<1>2. UNCHANGED status => StatusSteps
  BY DEF IInv, TypeOK, StatusSteps
<1>3. UNCHANGED sent => SentSteps
  BY DEF IInv, TypeOK, SentSteps
<1>4. UNCHANGED queue => QueueSteps
  BY DEF QueueSteps
<1>5. drain' = drain \/ DrainRunner => DrainSteps
  BY DEF DrainRunner, DrainSteps
<1>6. UNCHANGED sweep => SweepSteps
  BY DEF SweepSteps
<1>7. UNCHANGED disc => DiscSteps
  BY DEF IInv, BatchesTyped, DiscSteps
<1> QED
  BY <1>1, <1>2, <1>3, <1>4, <1>5, <1>6, <1>7 DEF IInv, TypeOK, Slots, Lives

\* A status that is set to anything but "queued".
LEMMA StatusSet ==
  ASSUME IInv, NEW p \in Pods, NEW s \in Statuses \ {"queued"}, NEW f
  PROVE  /\ SetStatus(p, s) => StatusSteps
         /\ Cas(p, f, s) => StatusSteps
<1>1. status' = [status EXCEPT ![p] = s] => StatusSteps
  BY Types DEF StatusSteps
<1>2. status' = status => StatusSteps
  BY Types DEF StatusSteps
<1> QED
  BY <1>1, <1>2 DEF SetStatus, Cas

\* The count of pods stays within the limit, but for a heartbeat's.
LEMMA Counted ==
  ASSUME IInv
  PROVE  IncrementPods \/ DecrementPods => current' \in Slots
  BY Types DEF IncrementPods, DecrementPods, Slots

\* A row is deleted.
LEMMA Deleted ==
  ASSUME IInv, NEW p \in Pods, DeleteRow(p)
  PROVE  QueueSteps /\ p \notin ToSet(queue') /\ expired' = expired
<1>1. CASE p \notin ToSet(queue) /\ UNCHANGED queue
  BY <1>1 DEF DeleteRow, QueueSteps
<1>2. ASSUME NEW n \in DOMAIN queue, queue[n] = p, queue' = RemoveAt(queue, n)
      PROVE  QueueSteps /\ p \notin ToSet(queue')
  <2>1. queue[n] \notin ToSet(RemoveAt(queue, n))
    <3>1. InOrder(queue, <<>>) /\ <<>> \in Seq(Pods)
      BY Types, BatchListed
    <3> QED
      BY <3>1, Types, RowDeleted
  <2> QED
    BY <1>2, <2>1 DEF QueueSteps
<1> QED
  BY <1>1, <1>2 DEF DeleteRow

\* A command is sent or not.
LEMMA Sends ==
  ASSUME IInv, NEW p \in Pods
  PROVE  /\ NotSent => SentSteps /\ life' \in Lives
         /\ Send(p) => /\ life' \in Lives
                       /\ (create[p] = "send" /\ create'[p] = "align")
                            \/ (drain.pc = "send" /\ p = Head(drain.batch) /\ drain'.pc = "delete")
                          => SentSteps
<1>1. NotSent => SentSteps /\ life' \in Lives
  BY Types, Quiet DEF NotSent
<1>2. ASSUME Send(p)
      PROVE  life' \in Lives
  BY <1>2, Types DEF Send, Lives
<1>3. ASSUME Send(p), (create[p] = "send" /\ create'[p] = "align")
                            \/ (drain.pc = "send" /\ p = Head(drain.batch) /\ drain'.pc = "delete")
      PROVE  SentSteps
  <2>1. sent' = [sent EXCEPT ![p] = sent[p] + 1] /\ sent[p] \in Nat
    BY <1>3, Types DEF Send
  <2> QED
    BY <1>3, <2>1, Types DEF SentSteps
<1> QED
  BY <1>1, <1>2, <1>3

(***************************************************************************)
(* The request that creates a pod.                                         *)
(***************************************************************************)
LEMMA Creates ==
  ASSUME IInv, NEW p \in Pods, NEW from, NEW to, <<from, to>> \in Moves, Creating(p, from, to),
         initial' \in [Pods -> {"queued", "initializing"}],
         from = "idle" \/ initial' = initial, \A q \in Pods \ {p} : initial'[q] = initial[q],
         from = "insert" => status'[p] = initial[p]
  PROVE  /\ create[p] = from /\ create'[p] = to /\ CreationSteps /\ SweepSteps /\ DiscSteps
         /\ expired' \subseteq Pods /\ cancelled' \subseteq Pods /\ online' \in BOOLEAN
<1>1. /\ create[p] = from /\ create' = [create EXCEPT ![p] = to]
      /\ UNCHANGED <<expired, online, sweep, disc, cancelled>>
  BY DEF Creating
<1>2. to \in Creation
  BY DEF Moves, Creation, Written, Unsent
<1>3. CreationSteps
  BY <1>1, <1>2, Types DEF CreationSteps
<1>4. create'[p] = to
  BY <1>1, Types
<1> QED
  BY <1>1, <1>3, <1>4, Quiet DEF IInv, TypeOK

\* The steps of a request to one from which nothing is sent or queued.
LEMMA RequestKept ==
  ASSUME IInv, NEW p \in Pods, InitialPodStatus(p) \/ Request(p)
  PROVE  Effects
<1>0. initial \in [Pods -> {"queued", "initializing"}]
  BY Types
<1>1. CASE InitialPodStatus(p)
  <2>1. /\ Creating(p, "idle", "insert") /\ <<"idle", "insert">> \in Moves
        /\ NotSent /\ UNCHANGED <<status, queue, current, drain>>
        /\ \E to \in {"queued", "initializing"} : initial' = [initial EXCEPT ![p] = to]
    BY <1>1 DEF InitialPodStatus, Moves
  <2>2. initial' \in [Pods -> {"queued", "initializing"}] /\ \A q \in Pods \ {p} : initial'[q] = initial[q]
    BY <1>0, <2>1
  <2> QED
    BY <2>1, <2>2, Creates, Sends, Quiet DEF Effects, RestSteps
<1>2. CASE InsertPod(p)
  <2>1. /\ Creating(p, "insert", "choose") /\ <<"insert", "choose">> \in Moves
        /\ NotSent /\ UNCHANGED <<queue, current, initial, drain>> /\ status' = [status EXCEPT ![p] = initial[p]]
    BY <1>2 DEF InsertPod, Moves, SetStatus
  <2>2. status'[p] = initial[p] /\ initial[p] \in Statuses /\ create[p] = "insert"
    BY <1>0, <2>1, Types DEF Statuses, Active, Creating
  <2>3. StatusSteps
    BY <2>1, <2>2, Types DEF StatusSteps, MayQueue
  <2> QED
    BY <1>0, <2>1, <2>2, <2>3, Creates, Sends, Quiet DEF Effects, RestSteps
<1>3. CASE CreatePodOrQueue(p)
  <2>1. /\ Creating(p, "choose", "reserve") \/ Creating(p, "choose", "enqueue")
        /\ <<"choose", "reserve">> \in Moves /\ <<"choose", "enqueue">> \in Moves
        /\ NotSent /\ UNCHANGED <<status, queue, current, initial, drain>>
    BY <1>3 DEF CreatePodOrQueue, Moves
  <2> QED
    BY <1>0, <2>1, Creates, Sends, Quiet DEF Effects, RestSteps
<1>4. CASE ReserveDirect(p)
  <2>1. /\ Creating(p, "reserve", "send") \/ Creating(p, "reserve", "failed")
        /\ <<"reserve", "send">> \in Moves /\ <<"reserve", "failed">> \in Moves
        /\ IncrementPods \/ UNCHANGED current
        /\ NotSent /\ UNCHANGED <<status, queue, initial, drain>>
    BY <1>4 DEF ReserveDirect, Moves
  <2> QED
    BY <1>0, <2>1, Creates, Counted, Sends, Quiet DEF Effects, RestSteps
<1>5. CASE SendDirect(p)
  <2>1. /\ (Creating(p, "send", "align") /\ Send(p)) \/ (Creating(p, "send", "undo") /\ NotSent)
        /\ <<"send", "align">> \in Moves /\ <<"send", "undo">> \in Moves
        /\ UNCHANGED <<status, queue, current, initial, drain>>
    BY <1>5 DEF SendDirect, Moves
  <2>2. /\ CreationSteps /\ SweepSteps /\ DiscSteps /\ expired' \subseteq Pods /\ cancelled' \subseteq Pods /\ online' \in BOOLEAN
        /\ (create[p] = "send" /\ create'[p] = "align" /\ Send(p)) \/ NotSent
    BY <1>0, <2>1, Creates
  <2> QED
    BY <2>1, <2>2, Sends, Quiet DEF Effects, RestSteps
<1>6. CASE UndoDirect(p)
  <2>1. /\ Creating(p, "undo", "failed") /\ <<"undo", "failed">> \in Moves /\ DecrementPods
        /\ NotSent /\ UNCHANGED <<status, queue, initial, drain>>
    BY <1>6 DEF UndoDirect, Moves
  <2> QED
    BY <1>0, <2>1, Creates, Counted, Sends, Quiet DEF Effects, RestSteps
<1>7. CASE EnqueueCreatePod(p)
  <2>0. <<"enqueue", "alignQueued">> \in Moves /\ <<"enqueue", "failed">> \in Moves
    BY DEF Moves
  <2>1. /\ \/ Creating(p, "enqueue", "alignQueued") /\ Len(queue) < MaxPerRunner /\ queue' = Append(queue, p)
           \/ Creating(p, "enqueue", "failed") /\ UNCHANGED queue
        /\ drain' = drain \/ DrainRunner
        /\ NotSent /\ UNCHANGED <<status, current, initial>>
    BY <1>7 DEF EnqueueCreatePod
  <2>2. /\ CreationSteps /\ SweepSteps /\ DiscSteps /\ expired' \subseteq Pods /\ cancelled' \subseteq Pods /\ online' \in BOOLEAN
        /\ Enqueues(p) \/ UNCHANGED queue
    BY <1>0, <2>0, <2>1, Creates DEF Enqueues
  <2> QED
    BY <2>1, <2>2, Sends, Quiet DEF Effects, RestSteps, QueueSteps
<1>8. CASE AlignStatus(p)
  <2>0. <<"align", "done">> \in Moves /\ <<"alignQueued", "done">> \in Moves
    BY DEF Moves
  <2>1. PICK to \in {"initializing", "queued"} :
          /\ Creating(p, IF to = "queued" THEN "alignQueued" ELSE "align", "done")
          /\ IF initial[p] # to THEN SetStatus(p, to) ELSE UNCHANGED status
    BY <1>8 DEF AlignStatus
  <2>2. NotSent /\ UNCHANGED <<queue, current, initial, drain>>
    BY <1>8 DEF AlignStatus
  <2>3. /\ CreationSteps /\ SweepSteps /\ DiscSteps /\ expired' \subseteq Pods /\ cancelled' \subseteq Pods /\ online' \in BOOLEAN
        /\ create[p] = IF to = "queued" THEN "alignQueued" ELSE "align"
        /\ create'[p] = "done"
    BY <1>0, <2>0, <2>1, <2>2, Creates
  <2>4. StatusSteps
    <3>1. CASE initial[p] = to
      BY <2>1, <3>1, Quiet
    <3>2. CASE initial[p] # to /\ to = "initializing"
      <4>1. "initializing" \in Statuses \ {"queued"}
        BY DEF Statuses, Active
      <4> QED
        BY <2>1, <3>2, <4>1, StatusSet
    <3>3. CASE initial[p] # to /\ to = "queued"
      <4>1. MayQueue(p)
        BY <1>0, <2>3, <3>3 DEF MayQueue, Aligning
      <4>2. status' = [status EXCEPT ![p] = "queued"] /\ "queued" \in Statuses
        BY <2>1, <3>3 DEF SetStatus, Statuses, Active
      <4> QED
        BY <4>1, <4>2, Types DEF StatusSteps
    <3> QED
      BY <2>1, <3>1, <3>2, <3>3
  <2> QED
    BY <2>2, <2>3, <2>4, Sends, Quiet DEF Effects, RestSteps
<1>9. CASE MarkDispatchFailed(p)
  <2>1. /\ Creating(p, "failed", "done") /\ <<"failed", "done">> \in Moves
        /\ SetStatus(p, "error") \/ UNCHANGED status
        /\ NotSent /\ UNCHANGED <<queue, current, initial, drain>> /\ "error" \in Statuses \ {"queued"}
    BY <1>9 DEF MarkDispatchFailed, Moves, Statuses, Active
  <2> QED
    BY <1>0, <2>1, Creates, StatusSet, Sends, Quiet DEF Effects, RestSteps
<1> QED
  BY <1>1, <1>2, <1>3, <1>4, <1>5, <1>6, <1>7, <1>8, <1>9 DEF Request

(***************************************************************************)
(* A user's cancel.                                                        *)
(***************************************************************************)
LEMMA CancelKept ==
  ASSUME IInv, NEW p \in Pods, ReadPod(p) \/ Cancel(p)
  PROVE  Effects
<1>0. UNCHANGED <<expired, online, life, create, initial, sweep, disc, sent>>
  BY DEF ReadPod, Cancel, CancelPending, CancelQueued, CompletePod, FreeSlot, Cancelling
<1>1. /\ CreationSteps /\ SweepSteps /\ DiscSteps /\ SentSteps
      /\ expired' \subseteq Pods /\ online' \in BOOLEAN /\ life' \in Lives
      /\ cancelled \subseteq Pods
  BY <1>0, Quiet, Types DEF IInv, TypeOK
<1>2. CASE ReadPod(p)
  BY <1>1, <1>2, Quiet DEF ReadPod, Effects, RestSteps
<1>3. CASE CancelPending(p)
  BY <1>1, <1>3, Deleted, Quiet DEF CancelPending, Effects, RestSteps
<1>4. ASSUME Cancelled(p)
      PROVE  StatusSteps /\ DrainSteps /\ cancelled' \subseteq Pods
  <2>1. "completed" \in Statuses \ {"queued"}
    BY DEF Statuses, Active
  <2> QED
    BY <1>1, <1>4, <2>1, StatusSet, Quiet DEF Cancelled
<1>5. CASE CancelQueued(p)
  <2>1. UNCHANGED <<queue, current>> /\ (Cancelled(p) \/ UNCHANGED <<status, cancelled, drain>>)
    BY <1>5 DEF CancelQueued
  <2> QED
    BY <1>1, <1>4, <2>1, Quiet DEF Effects, RestSteps
<1>6. CASE CompletePod(p)
  <2>1. UNCHANGED <<queue, current>> /\ (Cancelled(p) \/ UNCHANGED <<status, cancelled, drain>>)
    BY <1>6 DEF CompletePod
  <2> QED
    BY <1>1, <1>4, <2>1, Quiet DEF Effects, RestSteps
<1>7. CASE FreeSlot(p)
  BY <1>1, <1>7, Counted, Quiet DEF FreeSlot, Effects, RestSteps
<1> QED
  BY <1>2, <1>3, <1>5, <1>6, <1>7 DEF Cancel

(***************************************************************************)
(* The drainer.                                                            *)
(***************************************************************************)
LEMMA DrainKept ==
  ASSUME IInv, Drain
  PROVE  Effects
<1>0. UNCHANGED <<expired, online, create, initial, sweep, disc, cancelled>>
  BY DEF Drain, ListQueue, DrainEnds, TakeRow, ClaimRow, ReserveClaimed, SendClaimed, UndoClaimed,
         RevertClaim, DeleteDrained, MarkDrained, Draining, DeleteRow
<1>1. /\ CreationSteps /\ SweepSteps /\ DiscSteps /\ expired' \subseteq Pods /\ cancelled' \subseteq Pods
      /\ online' \in BOOLEAN
  BY <1>0, Quiet DEF IInv, TypeOK
<1> DEFINE h == Head(drain.batch)
<1>2. drain.pc \in HeadPlaces => drain.batch # <<>> /\ h \in Pods
  BY HeadIsKnown DEF IInv, BatchesTyped
<1>3. /\ {"expire", "claim", "reserve", "send", "undo", "revert", "delete", "mark"} = HeadPlaces
      /\ {"reserve", "send", "undo", "revert"} = Claimed
      /\ {"initializing", "error"} \subseteq Statuses \ {"queued"} /\ "queued" \in Statuses
  BY DEF HeadPlaces, Claimed, Statuses, Active
<1>14. UNCHANGED <<sent, life>> => SentSteps /\ life' \in Lives
  BY Types, Quiet
<1>15. UNCHANGED current => current' \in Slots
  BY Types
<1>4. CASE ListQueue
  <2>1. drain' = [pc |-> "row", batch |-> queue] \/ drain' = At("leave")
    BY <1>4 DEF ListQueue, Draining
  <2> QED
    BY <1>1, <1>4, <2>1, Sends, <1>14, <1>15, Quiet, HeadIsKnown DEF ListQueue, DrainSteps, Effects, RestSteps, NotSent
<1>5. CASE DrainEnds
  <2>1. drain' = At("idle")
    BY <1>5 DEF DrainEnds, Draining
  <2> QED
    BY <1>1, <1>5, <2>1, <1>14, <1>15, Quiet DEF DrainEnds, DrainSteps, Effects, RestSteps, NotSent
<1>6. CASE TakeRow
  <2>1. \/ drain' = At("list") \/ drain' = At("leave")
        \/ drain.batch # <<>> /\ (drain' = Went(drain, "expire") \/ drain' = Went(drain, "claim"))
    BY <1>6 DEF TakeRow, Draining
  <2>2. DrainSteps
    BY <1>3, <2>1 DEF DrainSteps
  <2> QED
    BY <1>1, <1>6, <2>2, <1>14, <1>15, Quiet DEF TakeRow, Effects, RestSteps, NotSent
<1>7. CASE ClaimRow
  <2>1. /\ drain.pc = "claim" /\ UNCHANGED <<sent, life, queue, current>>
        /\ \/ status[h] = "queued" /\ SetStatus(h, "initializing") /\ drain' = Went(drain, "reserve")
           \/ UNCHANGED status /\ drain' = Went(drain, "delete")
    BY <1>7 DEF ClaimRow, Claims, Draining, NotSent
  <2>2. StatusSteps
    BY <1>2, <1>3, <2>1, StatusSet, Quiet
  <2>3. SetStatus(h, "initializing") => status'[h] # "queued"
    BY <1>2, <1>3, <2>1, Types DEF SetStatus
  <2>4. DrainSteps
    BY <1>2, <1>3, <2>1, <2>3 DEF DrainSteps, ClaimsHead
  <2> QED
    BY <1>1, <2>1, <2>2, <2>4, <1>14, <1>15, Quiet DEF Effects, RestSteps
<1>8. CASE ReserveClaimed
  <2>1. /\ drain.pc = "reserve" /\ UNCHANGED <<sent, life, status, queue>>
        /\ IncrementPods \/ UNCHANGED current
        /\ drain' = Went(drain, "send") \/ drain' = Went(drain, "revert")
    BY <1>8 DEF ReserveClaimed, Draining, NotSent
  <2>2. DrainSteps
    BY <1>2, <1>3, <2>1 DEF DrainSteps
  <2> QED
    BY <1>1, <2>1, <2>2, Counted, <1>14, <1>15, Quiet DEF Effects, RestSteps
<1>9. CASE SendClaimed
  <2>1. /\ drain.pc = "send" /\ UNCHANGED <<status, queue, current>>
        /\ (Send(h) /\ drain' = Went(drain, "delete")) \/ (NotSent /\ drain' = Went(drain, "undo"))
    BY <1>9 DEF SendClaimed, Draining
  <2>2. DrainSteps
    BY <1>2, <1>3, <2>1 DEF DrainSteps
  <2>3. drain' = Went(drain, "delete") => drain'.pc = "delete"
    BY Types DEF Went, Batches
  <2>4. SentSteps /\ life' \in Lives
    BY <1>2, <1>3, <2>1, <2>3, Sends
  <2> QED
    BY <1>1, <2>1, <2>2, <2>4, <1>14, <1>15, Quiet DEF Effects, RestSteps
<1>10. CASE UndoClaimed
  <2>1. /\ drain.pc = "undo" /\ UNCHANGED <<sent, life, status, queue>> /\ DecrementPods
        /\ drain' = Went(drain, "revert")
    BY <1>10 DEF UndoClaimed, Draining, NotSent
  <2>2. DrainSteps
    BY <1>2, <1>3, <2>1 DEF DrainSteps
  <2> QED
    BY <1>1, <2>1, <2>2, Counted, <1>14, <1>15, Quiet DEF Effects, RestSteps
<1>11. CASE RevertClaim
  <2>1. /\ drain.pc = "revert" /\ UNCHANGED <<sent, life, queue, current>>
        /\ Cas(h, "initializing", "queued") /\ drain' = At("leave")
    BY <1>11 DEF RevertClaim, Draining, NotSent, DrainStops
  <2>2. MayQueue(h)
    BY <2>1 DEF MayQueue
  <2>3. StatusSteps
    <3>1. status' = status \/ status' = [status EXCEPT ![h] = "queued"]
      BY <2>1 DEF Cas
    <3> QED
      BY <1>2, <1>3, <2>1, <2>2, <3>1, Types DEF StatusSteps
  <2>4. DrainSteps
    BY <2>1 DEF DrainSteps
  <2> QED
    BY <1>1, <2>1, <2>3, <2>4, <1>14, <1>15, Quiet DEF Effects, RestSteps
<1>12. CASE DeleteDrained
  <2>1. /\ drain.pc \in HeadPlaces /\ UNCHANGED <<sent, life, status, current>> /\ DeleteRow(h)
        /\ drain' = Next1(drain, "row") \/ drain' = Went(drain, "mark")
    BY <1>3, <1>12 DEF DeleteDrained, Draining, NotSent
  <2>2. QueueSteps /\ HeadIsGone
    BY <1>2, <2>1, Deleted DEF HeadIsGone
  <2>3. DrainSteps
    BY <1>2, <1>3, <2>1, <2>2 DEF DrainSteps
  <2> QED
    BY <1>1, <2>1, <2>2, <2>3, <1>14, <1>15, Quiet DEF Effects, RestSteps
<1>13. CASE MarkDrained
  <2>1. /\ drain.pc = "mark" /\ UNCHANGED <<sent, life, queue, current>>
        /\ Cas(h, "queued", "error") /\ drain' = Next1(drain, "row")
    BY <1>13 DEF MarkDrained, MarkExpired, Draining, NotSent
  <2>2. HeadIsGone
    BY <2>1 DEF IInv, MarkedIsGone, HeadIsGone
  <2>3. DrainSteps
    BY <1>2, <1>3, <2>1, <2>2 DEF DrainSteps
  <2>4. StatusSteps
    BY <1>2, <1>3, <2>1, StatusSet
  <2> QED
    BY <1>1, <2>1, <2>3, <2>4, <1>14, <1>15, Quiet DEF Effects, RestSteps
<1> QED
  BY <1>4, <1>5, <1>6, <1>7, <1>8, <1>9, <1>10, <1>11, <1>12, <1>13 DEF Drain

(***************************************************************************)
(* The sweeper.                                                            *)
(***************************************************************************)
LEMMA SweepKept ==
  ASSUME IInv, Sweep
  PROVE  Effects
<1>0. UNCHANGED <<expired, current, online, life, create, initial, disc, sent, cancelled>>
  BY DEF Sweep, ListExpired, DeleteExpired, MarkQueueExpired, DrainBacklog, Sweeping, DeleteRow
<1>1. /\ CreationSteps /\ DiscSteps /\ SentSteps /\ RestSteps
  BY <1>0, Quiet DEF IInv, TypeOK, RestSteps
<1>2. sweep.batch \in Seq(Pods) /\ (sweep.batch # <<>> => Head(sweep.batch) \in Pods)
  BY Types, BatchParts DEF Batches
<1>3. "error" \in Statuses \ {"queued"}
  BY DEF Statuses, Active
<1>4. CASE ListExpired
  <2>1. PICK b \in SetToSeqs(ToSet(queue) \cap expired) : sweep' = [pc |-> "row", batch |-> b]
    BY <1>4 DEF ListExpired, Sweeping
  <2>2. UNCHANGED <<status, queue, drain>>
    BY <1>4 DEF ListExpired
  <2> DEFINE E == ToSet(queue) \cap expired
             n == Cardinality(E)
  <2>3. E \subseteq Pods /\ n \in Nat
    <3>1. E \subseteq Pods
      BY DEF IInv, TypeOK
    <3> QED
      BY <3>1, DispatchAssumption, FS_Subset, FS_CardinalityType
  <2> HIDE DEF n
  <2>4. b \in [1 .. n -> E]
    BY <2>1 DEF SetToSeqs, n
  <2>5. b \in Seq(Pods) /\ ToSet(b) \subseteq ToSet(queue)
    <3>1. \A i \in 1 .. n : b[i] \in Pods /\ b[i] \in ToSet(queue)
      BY <2>3, <2>4
    <3>2. b \in [1 .. n -> Pods] /\ DOMAIN b = 1 .. n
      BY <2>4, <3>1
    <3> QED
      BY <2>3, <3>1, <3>2 DEF ToSet
  <2>6. sweep' \in Batches /\ sweep'.pc = "row" /\ sweep'.batch = b
    BY <2>1, <2>5 DEF Batches, Places
  <2>7. SweepSteps
    BY <2>5, <2>6 DEF SweepSteps
  <2> QED
    BY <1>1, <2>2, <2>7, Quiet DEF Effects
<1>5. CASE DeleteExpired
  <2>1. /\ sweep.batch # <<>> /\ sweep' = Went(sweep, "mark") /\ DeleteRow(Head(sweep.batch))
        /\ UNCHANGED <<status, drain>>
    BY <1>5 DEF DeleteExpired, Sweeping
  <2> QED
    BY <1>1, <1>2, <2>1, Deleted, Quiet DEF Effects, SweepSteps
<1>6. CASE MarkQueueExpired
  <2>1. /\ sweep.pc = "mark" /\ sweep' = Next1(sweep, "row") /\ Cas(Head(sweep.batch), "queued", "error")
        /\ UNCHANGED <<queue, drain>>
    BY <1>6 DEF MarkQueueExpired, MarkExpired, Sweeping
  <2>2. sweep.batch # <<>>
    BY <2>1 DEF IInv, BatchesTyped
  <2> QED
    BY <1>1, <1>2, <1>3, <2>1, <2>2, StatusSet, Quiet DEF Effects, SweepSteps
<1>7. CASE DrainBacklog
  <2>1. sweep' = At("idle") /\ (DrainRunner \/ UNCHANGED drain) /\ UNCHANGED <<status, queue>>
    BY <1>7 DEF DrainBacklog, Sweeping
  <2> QED
    BY <1>1, <2>1, Quiet DEF Effects, SweepSteps
<1> QED
  BY <1>4, <1>5, <1>6, <1>7 DEF Sweep

(***************************************************************************)
(* The connection.                                                         *)
(***************************************************************************)
\* The list of pods in one status.
LEMMA ListIsBatch ==
  ASSUME IInv, NEW pc \in Places, NEW which
  PROVE  Listed(pc, which) \in Batches /\ Listed(pc, which).pc = pc
<1> DEFINE S == {p \in Pods : status[p] = which}
           n == Cardinality(S)
<1>1. S \subseteq Pods /\ IsFiniteSet(S) /\ n \in Nat
  BY DispatchAssumption, FS_Subset, FS_CardinalityType
<1>2. \E f \in [1 .. n -> S] : IsInjective(f)
  <2>1. ExistsBijection(1 .. n, S)
    BY <1>1, FS_CardinalityType
  <2> QED
    BY <2>1 DEF ExistsBijection, Bijection, Injection, IsInjective
<1>3. SetToSeq(S) \in [1 .. n -> S]
  BY <1>2 DEF SetToSeq
<1> HIDE DEF n
<1>4. SetToSeq(S) \in Seq(Pods)
  <2> DEFINE f == SetToSeq(S)
  <2> HIDE DEF f
  <2>1. f \in [1 .. n -> Pods]
    BY <1>1, <1>3 DEF f
  <2>2. f \in Seq(Pods)
    BY <1>1, <2>1
  <2> QED
    BY <2>2 DEF f
<1> QED
  BY <1>4 DEF Listed, Batches

\* The connection comes, is replaced or breaks, and what follows a break.
LEMMA LinkKept ==
  ASSUME IInv, Connect \/ ReplaceConnection \/ LoseConnection \/ Disconnect
  PROVE  Effects
<1>0. UNCHANGED <<expired, create, initial, sweep, sent, cancelled>>
  BY DEF Connect, ReplaceConnection, LoseConnection, Disconnect, ListInitializing, FailInitializing,
         DropQueued, FailQueued, Linking
<1>1. /\ CreationSteps /\ SweepSteps /\ SentSteps /\ expired' \subseteq Pods /\ cancelled' \subseteq Pods
      /\ UNCHANGED disc => DiscSteps
      /\ UNCHANGED life => life' \in Lives
      /\ UNCHANGED current => current' \in Slots
      /\ UNCHANGED online => online' \in BOOLEAN
  BY <1>0, Quiet, Types DEF IInv, TypeOK
<1>2. LosesMessages => life' \in Lives
  BY Types DEF LosesMessages, Lives
<1>3. \A pc \in Places : At(pc) \in Batches /\ At(pc).pc = pc
  <2>1. <<>> \in Seq(Pods)
    OBVIOUS
  <2> QED
    BY <2>1 DEF At, Batches
<1>4. /\ {"begin", "starting", "queued", "idle", "fail"} \subseteq Places /\ "error" \in Statuses \ {"queued"}
      /\ "fail" \notin {"begin", "starting", "queued", "idle"}
  BY DEF Places, Statuses, Active
<1>5. ASSUME disc.batch # <<>>
      PROVE  /\ Head(disc.batch) \in Pods /\ Went(disc, "fail") \in Batches /\ Went(disc, "fail").batch # <<>>
             /\ \A pc \in Places : Next1(disc, pc) \in Batches /\ Next1(disc, pc).pc = pc
  BY <1>4, <1>5, Types, BatchParts DEF Batches, Went, Next1
<1>6. CASE Connect
  <2>1. online' \in BOOLEAN
    BY <1>6 DEF Connect
  <2> QED
    BY <1>1, <1>6, <2>1, Quiet DEF Connect, Effects, RestSteps
<1>7. CASE ReplaceConnection
  BY <1>1, <1>2, <1>7, Quiet DEF ReplaceConnection, Breaks, Effects, RestSteps
<1>8. CASE LoseConnection
  <2>1. DiscSteps /\ online' \in BOOLEAN
    BY <1>3, <1>4, <1>8 DEF LoseConnection, DiscSteps
  <2> QED
    BY <1>1, <1>2, <1>8, <2>1, Quiet DEF LoseConnection, Breaks, Effects, RestSteps
<1>9. CASE ListInitializing
  <2>1. DiscSteps
    BY <1>4, <1>9, ListIsBatch DEF ListInitializing, DiscSteps
  <2> QED
    BY <1>1, <1>9, <2>1, Quiet DEF ListInitializing, Effects, RestSteps
<1>10. CASE FailInitializing
  <2>1. UNCHANGED <<queue, online, life, drain>>
    BY <1>10 DEF FailInitializing
  <2>2. CASE disc.batch = <<>>
    <3>1. disc' = Listed("queued", "queued") /\ UNCHANGED <<status, current>>
      BY <1>10, <2>2 DEF FailInitializing
    <3>2. DiscSteps
      BY <1>4, <3>1, ListIsBatch DEF DiscSteps
    <3> QED
      BY <1>1, <2>1, <3>1, <3>2, Quiet DEF Effects, RestSteps
  <2>3. CASE disc.batch # <<>>
    <3>1. disc' = Next1(disc, "starting") /\ FailStarting(Head(disc.batch))
      BY <1>10, <2>3 DEF FailInitializing
    <3>2. DiscSteps
      BY <1>4, <1>5, <2>3, <3>1 DEF DiscSteps
    <3>3. StatusSteps
      BY <1>4, <1>5, <2>3, <3>1, StatusSet DEF FailStarting
    <3>4. current' \in Slots
      BY <1>1, <3>1, Counted DEF FailStarting
    <3> QED
      BY <1>1, <2>1, <3>2, <3>3, <3>4, Quiet DEF Effects, RestSteps
  <2> QED
    BY <2>2, <2>3
<1>11. CASE DropQueued
  <2>1. UNCHANGED <<status, current, online, life, drain>>
    BY <1>11 DEF DropQueued
  <2>2. CASE disc.batch = <<>>
    <3>1. disc' = At("idle") /\ UNCHANGED queue
      BY <1>11, <2>2 DEF DropQueued
    <3>2. DiscSteps
      BY <1>3, <1>4, <3>1 DEF DiscSteps
    <3> QED
      BY <1>1, <2>1, <3>1, <3>2, Quiet DEF Effects, RestSteps
  <2>3. CASE disc.batch # <<>>
    <3>1. disc' = Went(disc, "fail") /\ DeleteRow(Head(disc.batch))
      BY <1>11, <2>3 DEF DropQueued
    <3>2. DiscSteps
      BY <1>5, <2>3, <3>1 DEF DiscSteps
    <3>3. QueueSteps
      BY <1>5, <2>3, <3>1, Deleted
    <3> QED
      BY <1>1, <2>1, <3>2, <3>3, Quiet DEF Effects, RestSteps
  <2> QED
    BY <2>2, <2>3
<1>12. CASE FailQueued
  <2>1. /\ disc.pc = "fail" /\ disc' = Next1(disc, "queued") /\ Cas(Head(disc.batch), "queued", "error")
        /\ DrainRunner \/ UNCHANGED drain
        /\ UNCHANGED <<queue, current, online, life>>
    BY <1>12 DEF FailQueued
  <2>2. disc.batch # <<>>
    BY <2>1 DEF IInv, BatchesTyped
  <2>3. DiscSteps
    BY <1>4, <1>5, <2>1, <2>2 DEF DiscSteps
  <2>4. StatusSteps
    BY <1>4, <1>5, <2>1, <2>2, StatusSet
  <2> QED
    BY <1>1, <2>1, <2>3, <2>4, Quiet DEF Effects, RestSteps
<1> QED
  BY <1>6, <1>7, <1>8, <1>9, <1>10, <1>11, <1>12 DEF Disconnect

(***************************************************************************)
(* The runner's reports, time and crashes.                                 *)
(***************************************************************************)
LEMMA ReportKept ==
  ASSUME IInv, NEW p \in Pods, Report(p)
  PROVE  Effects
<1>0. UNCHANGED <<expired, create, initial, cancel, sweep, sent, cancelled, online, disc>>
  BY DEF Report, HandlePodCreated, HandlePodError, Unheard, HandlePodTerminated, Reconcile, Reporting, Linking
<1>1. /\ CreationSteps /\ SweepSteps /\ SentSteps /\ DiscSteps
      /\ expired' \subseteq Pods /\ cancelled' \subseteq Pods /\ online' \in BOOLEAN
      /\ UNCHANGED life => life' \in Lives
      /\ UNCHANGED current => current' \in Slots
  BY <1>0, Quiet, Types DEF IInv, TypeOK
<1>2. \A from, to \in {"asked", "alive", "gone"} : Became(p, from, to) => life' \in Lives
  BY Types DEF Became, Lives
<1>3. {"running", "error", "completed", "orphaned"} \subseteq Statuses \ {"queued"}
  BY DEF Statuses, Active
<1>4. CASE HandlePodCreated(p)
  BY <1>1, <1>2, <1>3, <1>4, StatusSet, Quiet DEF HandlePodCreated, Effects, RestSteps
<1>5. CASE HandlePodError(p)
  <2>1. StatusSteps /\ current' \in Slots
    BY <1>1, <1>3, <1>5, StatusSet, Counted DEF HandlePodError, FailStarting
  <2> QED
    BY <1>1, <1>2, <1>5, <2>1, Quiet DEF HandlePodError, Effects, RestSteps
<1>6. CASE Unheard(p)
  <2>1. life' \in Lives
    BY <1>2, <1>6 DEF Unheard
  <2> QED
    BY <1>1, <1>6, <2>1, Quiet DEF Unheard, Effects, RestSteps
<1>7. CASE HandlePodTerminated(p)
  <2>1. StatusSteps /\ current' \in Slots /\ DrainSteps
    BY <1>1, <1>3, <1>7, StatusSet, Counted, Quiet DEF HandlePodTerminated
  <2>2. QueueSteps /\ life' \in Lives
    BY <1>2, <1>7, Deleted DEF HandlePodTerminated
  <2> QED
    BY <1>1, <2>1, <2>2 DEF Effects, RestSteps
<1>8. CASE Reconcile(p)
  <2>1. StatusSteps
    BY <1>3, <1>8, StatusSet DEF Reconcile
  <2> QED
    BY <1>1, <1>8, <2>1, Quiet DEF Reconcile, Effects, RestSteps
<1> QED
  BY <1>4, <1>5, <1>6, <1>7, <1>8 DEF Report

\* The heartbeat's count of pods and the batch of heartbeats, a crash, and a row
\* that expires.
LEMMA RestKept ==
  ASSUME IInv, SyncPodCount \/ FlushHeartbeats \/ Crash \/ (\E p \in Pods : Expire(p)) \/ UNCHANGED vars
  PROVE  Effects
<1>0. ASSUME NEW S, S \subseteq Pods, current' = Cardinality(S) PROVE current' \in Slots
  <2>1. Cardinality(S) \in Nat /\ Cardinality(S) <= Cardinality(Pods)
    BY <1>0, DispatchAssumption, FS_Subset, FS_CardinalityType
  <2> QED
    BY <1>0, <2>1, Types DEF Slots
<1>1. CASE SyncPodCount
  <2>1. PICK told \in SUBSET Pods : current' = CountActiveByKeys(told)
    BY <1>1 DEF SyncPodCount
  <2>2. current' \in Slots
    BY <1>0, <2>1 DEF CountActiveByKeys
  <2>3. UNCHANGED <<expired, create, initial, sweep, sent, cancelled, online, disc, status, queue, drain, life>>
    BY <1>1 DEF SyncPodCount, Reporting, Linking
  <2> QED
    BY <2>2, <2>3, Quiet DEF Effects, RestSteps
<1>2. CASE Crash
  <2>1. /\ online' = FALSE /\ drain' = At("idle") /\ sweep' = At("idle") /\ disc' = At("idle")
        /\ create' = [p \in Pods |-> IF create[p] = "idle" THEN "idle" ELSE "done"]
        /\ LosesMessages /\ UNCHANGED <<status, queue, expired, current, initial, sent, cancelled>>
    BY <1>2 DEF Crash, rows
  <2>2. CreationSteps
    BY <2>1, Types DEF CreationSteps, Creation, Written
  <2>3. At("idle") \in Batches /\ At("idle").pc # "fail"
    <3>1. <<>> \in Seq(Pods) /\ "idle" \in Places
      BY DEF Places
    <3> QED
      BY <3>1 DEF At, Batches
  <2>4. DrainSteps /\ SweepSteps /\ DiscSteps
    BY <2>1, <2>3 DEF DrainSteps, SweepSteps, DiscSteps
  <2>5. RestSteps
    BY <2>1, Types DEF RestSteps, LosesMessages, Lives, IInv, TypeOK
  <2> QED
    BY <2>1, <2>2, <2>4, <2>5, Quiet DEF Effects
<1>3. ASSUME NEW p \in Pods, Expire(p)
      PROVE  Effects
  <2>1. /\ expired' = expired \cup {p}
        /\ UNCHANGED <<status, queue, current, online, life, create, initial, drain, sweep, disc, sent, cancelled>>
    BY <1>3 DEF Expire
  <2>2. RestSteps
    BY <2>1, Types DEF RestSteps, IInv, TypeOK
  <2> QED
    BY <2>1, <2>2, Quiet DEF Effects
<1>4. CASE UNCHANGED vars
  BY <1>4, Quiet DEF vars, rows, Effects, RestSteps
<1>5. CASE FlushHeartbeats
  <2>1. PICK told \in SUBSET Pods : current' = Cardinality(told)
    BY <1>5 DEF FlushHeartbeats
  <2>2. current' \in Slots
    BY <1>0, <2>1
  <2>3. UNCHANGED <<expired, create, initial, sweep, sent, cancelled, online, disc, status, queue, drain, life>>
    BY <1>5 DEF FlushHeartbeats, rows
  <2> QED
    BY <2>2, <2>3, Quiet DEF Effects, RestSteps
<1> QED
  BY <1>1, <1>2, <1>3, <1>4, <1>5

\* Every step of the queue and of those who work on it.
LEMMA StepEffects ==
  ASSUME IInv, [Next]_vars
  PROVE  Effects
BY RequestKept, CancelKept, DrainKept, SweepKept, LinkKept, ReportKept, RestKept DEF Next

\* A control plane that starts with an empty queue.
LEMMA InitHolds == Init => IInv
<1> SUFFICES ASSUME Init PROVE IInv
  OBVIOUS
<1>1. <<>> \in Seq(Pods) /\ Len(<<>>) = 0 /\ DOMAIN <<>> = {}
  OBVIOUS
<1>2. TypeOK
  <2>1. Cardinality(Pods) \in Nat
    BY DispatchAssumption, FS_CardinalityType
  <2>2. 0 <= MaxPerRunner /\ 0 \in 0 .. (MaxConcurrent + Cardinality(Pods))
    BY <2>1, DispatchAssumption
  <2>3. IsInjective(<<>>)
    BY <1>1 DEF IsInjective
  <2> QED
    BY <1>1, <2>2, <2>3 DEF Init, TypeOK, At, Statuses
<1>3. BatchesTyped
  BY <1>1 DEF Init, BatchesTyped, At, Batches, Places, HeadPlaces, Creation, Unsent
<1>4. RowsAreWritten /\ SentIsNotQueued /\ AligningIsSafe
  BY <1>1 DEF Init, RowsAreWritten, SentIsNotQueued, AligningIsSafe, Aligning, Known, At, ToSet
<1>5. ClaimHolds /\ BatchIsFirst /\ MarkedIsGone /\ SentOnce
  BY <1>1 DEF Init, ClaimHolds, Claimed, BatchIsFirst, InOrder, MarkedIsGone, SentOnce, At
<1> QED
  BY <1>2, <1>3, <1>4, <1>5 DEF IInv

\* The inductive invariant.
LEMMA Invariant == Spec => []IInv
<1>1. IInv /\ [Next]_vars => IInv'
  BY StepEffects, EffectsKeep
<1> QED
  BY <1>1, InitHolds, PTL DEF Spec

(***************************************************************************)
(* What follows for the pods.                                              *)
(***************************************************************************)
\* Rows that are claimed and put back, that are listed again after a crash or
\* overtaken by a cancel: no create command is sent twice, a pod has one row
\* at most, and the runner's count of pods stays bounded.
THEOREM QueueInvariant == Spec => []QueueInv
<1>1. IInv => QueueInv
  BY DEF IInv, QueueInv
<1> QED
  BY <1>1, Invariant, PTL

\* A row whose send failed stays the first one that is sent: the drainer
\* stops, and rows that come, go or expire meanwhile do not let a later one by.
THEOREM QueueIsDrainedInOrder == Spec => SendsInOrder
<1>1. ASSUME IInv, [Next]_vars, NEW p \in Pods, drain.pc = "send", drain' # drain, sent'[p] # sent[p], p \in ToSet(queue)
      PROVE  Head(queue) = p
  <2>1. Known(p) /\ queue \in Seq(Pods) /\ queue # <<>>
    BY <1>1, Types DEF Known, ToSet
  <2>2. p = Head(drain.batch) /\ drain.batch # <<>> /\ drain.batch \in Seq(Pods)
    <3>1. create[p] # "send"
      BY <1>1, <2>1 DEF IInv, RowsAreWritten, Written
    <3> QED
      BY <1>1, <3>1, StepEffects, SentByDrainer, Types DEF IInv, BatchesTyped, HeadPlaces, Batches
  <2>3. PICK j \in DOMAIN queue : queue[j] = p
    BY <1>1 DEF ToSet
  <2>4. p = drain.batch[1] /\ 1 \in DOMAIN drain.batch
    BY <2>2, BatchParts
  <2>5. ~(1 < j)
    <3>1. SUFFICES ASSUME 1 < j PROVE FALSE
      OBVIOUS
    <3>2. 1 \in DOMAIN queue
      BY <2>1, <3>1
    <3>3. \E k \in 1 .. (1 - 1) : queue[1] = drain.batch[k]
      <4>1. PICK l \in DOMAIN drain.batch : l = 1
        BY <2>4
      <4>2. PICK i \in DOMAIN queue : i = 1
        BY <3>2
      <4>3. InOrder(queue, drain.batch)
        BY <1>1 DEF IInv, BatchIsFirst
      <4>4. i < j /\ queue[j] = drain.batch[l]
        BY <2>3, <2>4, <3>1, <4>1, <4>2
      <4>5. \E k \in 1 .. (l - 1) : queue[i] = drain.batch[k]
        BY <4>3, <4>4 DEF InOrder
      <4> QED
        BY <4>1, <4>2, <4>5
    <3> QED
      BY <3>3
  <2> QED
    BY <2>1, <2>3, <2>5
<1>2. IInv /\ [Next]_vars => [\A p \in Pods :
        /\ drain.pc = "send" /\ drain' # drain
        /\ sent'[p] # sent[p] /\ p \in ToSet(queue)
        => Head(queue) = p]_vars
  BY <1>1
<1> QED
  BY <1>2, Invariant, PTL DEF Spec, SendsInOrder

\* Only the drainer leaves its own "mark", or a crash.
LEMMA DrainerMarks ==
  ASSUME IInv, [Next]_vars, drain.pc = "mark", drain' # drain
  PROVE  MarkDrained \/ UNCHANGED status
<1>1. ~DrainRunner
  BY DEF DrainRunner
<1>2. CASE Drain
  BY <1>2 DEF Drain, ListQueue, DrainEnds, TakeRow, ClaimRow, ReserveClaimed, SendClaimed, UndoClaimed,
              RevertClaim, DeleteDrained, Draining
<1>3. ~Sweep /\ ~Disconnect /\ ~SyncPodCount /\ ~FlushHeartbeats /\ ~Connect /\ ~ReplaceConnection /\ ~LoseConnection
  BY <1>1 DEF Sweep, ListExpired, DeleteExpired, MarkQueueExpired, DrainBacklog, Disconnect, ListInitializing,
              FailInitializing, DropQueued, FailQueued, SyncPodCount, FlushHeartbeats, Connect, ReplaceConnection, LoseConnection
<1>4. CASE Crash
  BY <1>4 DEF Crash
<1>5. ASSUME NEW p \in Pods
      PROVE  ~InitialPodStatus(p) /\ ~Request(p)
  BY <1>1 DEF InitialPodStatus, Request, InsertPod, CreatePodOrQueue, ReserveDirect, SendDirect, UndoDirect,
              EnqueueCreatePod, AlignStatus, MarkDispatchFailed
<1>6. ASSUME NEW p \in Pods
      PROVE  ~ReadPod(p) /\ ~Cancel(p) /\ ~Report(p) /\ ~Expire(p)
  BY <1>1 DEF ReadPod, Cancel, CancelPending, CancelQueued, CompletePod, FreeSlot, Cancelled, Report, HandlePodCreated,
              HandlePodError, Unheard, HandlePodTerminated, Reconcile, Expire
<1>7. ~UNCHANGED vars
  BY DEF vars
<1> QED
  BY <1>2, <1>3, <1>4, <1>5, <1>6, <1>7 DEF Next

\* Only the sweeper leaves its own "mark", or a crash.
LEMMA SweeperMarks ==
  ASSUME IInv, [Next]_vars, sweep.pc = "mark", sweep' # sweep
  PROVE  MarkQueueExpired \/ UNCHANGED status
<1>1. CASE Sweep
  BY <1>1 DEF Sweep, ListExpired, DeleteExpired, DrainBacklog, Sweeping
<1>2. ~Drain
  BY DEF Drain, ListQueue, DrainEnds, TakeRow, ClaimRow, ReserveClaimed, SendClaimed, UndoClaimed,
         RevertClaim, DeleteDrained, MarkDrained, Draining
<1>3. ~Disconnect /\ ~SyncPodCount /\ ~FlushHeartbeats /\ ~Connect /\ ~ReplaceConnection /\ ~LoseConnection
  BY DEF Disconnect, ListInitializing, FailInitializing, DropQueued, FailQueued, SyncPodCount, FlushHeartbeats, Connect,
         ReplaceConnection, LoseConnection, Linking, Reporting
<1>4. CASE Crash
  BY <1>4 DEF Crash
<1>5. ASSUME NEW p \in Pods
      PROVE  ~InitialPodStatus(p) /\ ~Request(p)
  BY DEF InitialPodStatus, Request, InsertPod, CreatePodOrQueue, ReserveDirect, SendDirect, UndoDirect,
         EnqueueCreatePod, AlignStatus, MarkDispatchFailed, Creating
<1>6. ASSUME NEW p \in Pods
      PROVE  ~ReadPod(p) /\ ~Cancel(p) /\ ~Report(p) /\ ~Expire(p)
  BY DEF ReadPod, Cancel, CancelPending, CancelQueued, CompletePod, FreeSlot, Cancelling, Report, HandlePodCreated,
         HandlePodError, Unheard, HandlePodTerminated, Reconcile, Linking, Reporting, Expire
<1>7. ~UNCHANGED vars
  BY DEF vars
<1> QED
  BY <1>1, <1>2, <1>3, <1>4, <1>5, <1>6, <1>7 DEF Next

\* A row that is expired is deleted first and its pod failed after, and a
\* cancel, a claim or a send may come between: the pod that is failed is
\* never one the runner was sent.
THEOREM ExpirySparesTheSent == Spec => ExpirySparesSent
<1>1. ASSUME IInv, [Next]_vars, NEW p \in Pods, status[p] # "error", status'[p] = "error",
             \/ drain.pc = "mark" /\ drain' # drain
             \/ sweep.pc = "mark" /\ sweep' # sweep
      PROVE  sent[p] = 0
  <2>1. /\ status \in [Pods -> Statuses] /\ sent[p] \in Nat
        /\ drain.batch \in Seq(Pods) /\ sweep.batch \in Seq(Pods)
    BY <1>1, Types DEF Batches
  <2>2. status' # status
    BY <1>1
  <2>3. status[p] = "queued" /\ Known(p)
    <3>1. CASE MarkDrained
      <4>1. drain.batch # <<>> /\ Cas(Head(drain.batch), "queued", "error")
        BY <1>1, <3>1 DEF MarkDrained, MarkExpired, IInv, BatchesTyped, HeadPlaces
      <4>2. p = Head(drain.batch) /\ status[p] = "queued"
        BY <1>1, <2>1, <4>1 DEF Cas
      <4> QED
        BY <2>1, <4>1, <4>2, BatchParts DEF Known
    <3>2. CASE MarkQueueExpired
      <4>1. sweep.batch # <<>> /\ Cas(Head(sweep.batch), "queued", "error")
        BY <1>1, <3>2 DEF MarkQueueExpired, MarkExpired, IInv, BatchesTyped
      <4>2. p = Head(sweep.batch) /\ status[p] = "queued"
        BY <1>1, <2>1, <4>1 DEF Cas
      <4> QED
        BY <2>1, <4>1, <4>2, BatchParts DEF Known
    <3> QED
      BY <1>1, <2>2, <3>1, <3>2, DrainerMarks, SweeperMarks
  <2> QED
    BY <1>1, <2>1, <2>3 DEF IInv, SentIsNotQueued
<1>2. IInv /\ [Next]_vars => [\A p \in Pods :
        /\ status[p] # "error" /\ status'[p] = "error"
        /\ \/ drain.pc = "mark" /\ drain' # drain
           \/ sweep.pc = "mark" /\ sweep' # sweep
        => sent[p] = 0]_vars
  BY <1>1
<1> QED
  BY <1>2, Invariant, PTL DEF Spec, ExpirySparesSent

=============================================================================
