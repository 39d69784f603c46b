---------------------------- MODULE TunnelProofs ----------------------------
(***************************************************************************)
(* Proofs about a runner's preview tunnel, for any streams, windows and    *)
(* capacities of channels, whether browsers leave, requests time out, the  *)
(* runner dies or its tunnel is replaced; and about the credit window.     *)
(***************************************************************************)
EXTENDS Tunnel, CreditWindow, SequenceTheorems, FiniteSetTheorems, TLAPS

(***************************************************************************)
(* The inductive invariant.                                                *)
(***************************************************************************)
\* What a queue of frames holds, whether some y comes after an x, and whether
\* every y comes after an x.
Has(q, x)      == \E i \in DOMAIN q : q[i] = x
After(q, x, y) == \E i, j \in DOMAIN q : i < j /\ q[i] = x /\ q[j] = y
Led(q, x, y)   == \A i \in DOMAIN q : q[i] = y => \E j \in DOMAIN q : j < i /\ q[j] = x

Live(s) == pump[s] \in {"wait", "write"}
Open    == closing = "open"

\* Until its REQ_START is written a request is unknown to the runner; all that
\* may be in its channel is the RESP_ERROR of a tunnel that was closed.
Untouched(s) ==
  pump[s] \in {"idle", "opened"} =>
    /\ runner[s] = "none" /\ sent[s] = 0 /\ written[s] = 0 /\ credit[s] = Window
    /\ \A t \in Types : ~Has(net, Frame(t, s)) /\ hand # Frame(t, s)
    /\ \A t \in Types \ {"error"} : ~Has(resp[s], t)

\* Frames for a request that is there find its channel.
InTable(s) == pump[s] \in {"opened", "wait", "write"} /\ closing # "swept" => s \in table

\* Credits are conserved, as CreditsConserved says.
Credits(s) ==
  /\ Bodies(s) + credit[s] =< Window
  /\ Open /\ Live(s) => Bodies(s) + credit[s] = Window

\* Nothing but what the runner sent is written; and as long as the end of the
\* response may still arrive, nothing of it was lost.
Whole(s) ==
  /\ written[s] + Bodies(s) =< sent[s]
  /\ Live(s) /\ (Open \/ hand = Frame("end", s) \/ Has(resp[s], "end"))
       => written[s] + Bodies(s) = sent[s]

\* RESP_END is the last frame of a response, wherever it is.
EndIsLast(s) ==
  /\ Has(net, Frame("end", s)) \/ hand = Frame("end", s) \/ Has(resp[s], "end")
       => runner[s] = "done"
  /\ ~After(net, Frame("end", s), Frame("body", s))
  /\ hand = Frame("end", s) => ~Has(net, Frame("body", s))
  /\ Has(resp[s], "end") => hand # Frame("body", s) /\ ~Has(net, Frame("body", s))
  /\ ~After(resp[s], "end", "body")

\* RESP_START comes before RESP_END, wherever they are.
StartIsFirst(s) ==
  LET begun   == started[s] \/ Has(resp[s], "start")
      arrived == begun \/ hand = Frame("start", s)
  IN  Live(s) =>
        /\ started[s] \/ Led(resp[s], "start", "end")
        /\ hand = Frame("end", s) => begun
        /\ Open => arrived \/ Led(net, Frame("start", s), Frame("end", s))
        /\ Open /\ runner[s] = "body" => arrived \/ Has(net, Frame("start", s))

\* A response that ended normally is whole, and stays so.
OkIsWhole(s) ==
  result[s] = "ok" =>
    started[s] /\ written[s] = sent[s] /\ pump[s] = "done" /\ runner[s] = "done"

StreamInv(s) ==
  /\ Untouched(s) /\ InTable(s) /\ Credits(s) /\ Whole(s)
  /\ EndIsLast(s) /\ StartIsFirst(s) /\ OkIsWhole(s)

IInv == TypeOK /\ \A s \in Streams : StreamInv(s)
(***************************************************************************)
(* Queues of frames.                                                       *)
(***************************************************************************)
\* What a frame at the end of a queue adds to it.
LEMMA Appended ==
  ASSUME NEW S, NEW q \in Seq(S), NEW z \in S, NEW x, NEW y
  PROVE  /\ Append(q, z) \in Seq(S) /\ Len(Append(q, z)) = Len(q) + 1
         /\ Has(Append(q, z), x) <=> Has(q, x) \/ z = x
         /\ After(Append(q, z), x, y) <=> After(q, x, y) \/ (Has(q, x) /\ z = y)
         /\ Led(Append(q, z), x, y) <=> Led(q, x, y) /\ (z = y => Has(q, x))
<1> DEFINE a == Append(q, z)
           n == Len(q)
<1>1. /\ a \in Seq(S) /\ Len(a) = n + 1 /\ n \in Nat
      /\ DOMAIN q = 1 .. n /\ DOMAIN a = 1 .. (n + 1)
      /\ \A i \in 1 .. n : a[i] = q[i]
      /\ a[n + 1] = z
  BY AppendProperties
<1> HIDE DEF a
<1>2. Has(a, x) <=> Has(q, x) \/ z = x
  BY <1>1 DEF Has
<1>3. After(a, x, y) <=> After(q, x, y) \/ (Has(q, x) /\ z = y)
  <2>1. ASSUME After(a, x, y) PROVE After(q, x, y) \/ (Has(q, x) /\ z = y)
    <3>1. PICK i, j \in 1 .. (n + 1) : i < j /\ a[i] = x /\ a[j] = y
      BY <1>1, <2>1 DEF After
    <3> QED
      BY <1>1, <3>1 DEF After, Has
  <2>2. ASSUME After(q, x, y) PROVE After(a, x, y)
    <3>1. PICK i, j \in 1 .. n : i < j /\ q[i] = x /\ q[j] = y
      BY <1>1, <2>2 DEF After
    <3>2. i \in DOMAIN a /\ j \in DOMAIN a /\ a[i] = x /\ a[j] = y
      BY <1>1, <3>1
    <3> QED
      BY <3>1, <3>2 DEF After
  <2>3. ASSUME Has(q, x), z = y PROVE After(a, x, y)
    <3>1. PICK i \in 1 .. n : q[i] = x
      BY <1>1, <2>3 DEF Has
    <3>2. i \in DOMAIN a /\ n + 1 \in DOMAIN a /\ i < n + 1 /\ a[i] = x /\ a[n + 1] = y
      BY <1>1, <2>3, <3>1
    <3> QED
      BY <3>2 DEF After
  <2> QED
    BY <2>1, <2>2, <2>3
<1>4. Led(a, x, y) <=> Led(q, x, y) /\ (z = y => Has(q, x))
  <2>1. ASSUME Led(a, x, y) PROVE Led(q, x, y) /\ (z = y => Has(q, x))
    <3>1. \A i \in 1 .. (n + 1) : a[i] = y => \E j \in 1 .. (n + 1) : j < i /\ a[j] = x
      BY <1>1, <2>1 DEF Led
    <3>2. \A i \in 1 .. n : q[i] = y => \E j \in 1 .. n : j < i /\ q[j] = x
      BY <1>1, <3>1
    <3>3. z = y => \E j \in 1 .. n : q[j] = x
      BY <1>1, <3>1
    <3> QED
      BY <1>1, <3>2, <3>3 DEF Led, Has
  <2>2. ASSUME Led(q, x, y), z = y => Has(q, x) PROVE Led(a, x, y)
    <3>1. \A i \in 1 .. n : q[i] = y => \E j \in 1 .. n : j < i /\ q[j] = x
      BY <1>1, <2>2 DEF Led
    <3>2. z = y => \E j \in 1 .. n : q[j] = x
      BY <1>1, <2>2 DEF Has
    <3>3. \A i \in 1 .. (n + 1) : a[i] = y => \E j \in 1 .. (n + 1) : j < i /\ a[j] = x
      BY <1>1, <3>1, <3>2
    <3> QED
      BY <1>1, <3>3 DEF Led
  <2> QED
    BY <2>1, <2>2
<1> QED
  BY <1>1, <1>2, <1>3, <1>4 DEF a

\* What a queue has without its first frame.
LEMMA Taken ==
  ASSUME NEW S, NEW q \in Seq(S), q # <<>>, NEW x, NEW y
  PROVE  /\ Head(q) \in S /\ Tail(q) \in Seq(S) /\ Len(Tail(q)) = Len(q) - 1
         /\ Has(q, x) <=> Head(q) = x \/ Has(Tail(q), x)
         /\ After(q, x, y) <=> After(Tail(q), x, y) \/ (Head(q) = x /\ Has(Tail(q), y))
         /\ Led(q, x, y) <=> Head(q) # y /\ (Head(q) = x \/ Led(Tail(q), x, y))
<1> DEFINE t == Tail(q)
           n == Len(q)
<1>1. /\ Head(q) \in S /\ t \in Seq(S) /\ Len(t) = n - 1 /\ n \in Nat /\ n >= 1
      /\ DOMAIN q = 1 .. n /\ DOMAIN t = 1 .. (n - 1)
      /\ Head(q) = q[1]
      /\ \A i \in 1 .. (n - 1) : t[i] = q[i + 1]
  BY HeadTailProperties
<1>2. \A i \in 2 .. n : i - 1 \in DOMAIN t /\ t[i - 1] = q[i]
  <2>1. ASSUME NEW i \in 2 .. n PROVE i - 1 \in DOMAIN t /\ t[i - 1] = q[i]
    <3>1. i - 1 \in 1 .. (n - 1) /\ (i - 1) + 1 = i
      BY <1>1
    <3> QED
      BY <1>1, <3>1
  <2> QED
    BY <2>1
<1>3. \A i \in DOMAIN t : i \in 1 .. (n - 1) /\ i + 1 \in DOMAIN q /\ i + 1 > 1 /\ t[i] = q[i + 1]
  BY <1>1
<1>4. 1 \in DOMAIN q /\ \A i \in DOMAIN q : i = 1 \/ i \in 2 .. n
  BY <1>1
<1> HIDE DEF t
<1>5. Has(q, x) <=> Head(q) = x \/ Has(t, x)
  <2>1. ASSUME Has(q, x) PROVE Head(q) = x \/ Has(t, x)
    BY <1>1, <1>2, <1>4, <2>1 DEF Has
  <2>2. ASSUME Has(t, x) PROVE Has(q, x)
    BY <1>3, <2>2 DEF Has
  <2>3. ASSUME Head(q) = x PROVE Has(q, x)
    BY <1>1, <1>4, <2>3 DEF Has
  <2> QED
    BY <2>1, <2>2, <2>3
<1>6. After(q, x, y) <=> After(t, x, y) \/ (Head(q) = x /\ Has(t, y))
  <2>1. ASSUME After(q, x, y) PROVE After(t, x, y) \/ (Head(q) = x /\ Has(t, y))
    <3>1. PICK i, j \in DOMAIN q : i < j /\ q[i] = x /\ q[j] = y
      BY <2>1 DEF After
    <3>2. j \in 2 .. n
      BY <1>1, <3>1
    <3>3. j - 1 \in DOMAIN t /\ t[j - 1] = y
      BY <1>2, <3>1, <3>2
    <3>4. CASE i = 1
      BY <1>1, <3>1, <3>3, <3>4 DEF Has
    <3>5. CASE i \in 2 .. n
      <4>1. i - 1 \in DOMAIN t /\ t[i - 1] = x /\ i - 1 < j - 1
        BY <1>2, <3>1, <3>2, <3>5
      <4> QED
        BY <3>3, <4>1 DEF After
    <3> QED
      BY <1>4, <3>4, <3>5
  <2>2. ASSUME After(t, x, y) PROVE After(q, x, y)
    <3>1. PICK i, j \in DOMAIN t : i < j /\ t[i] = x /\ t[j] = y
      BY <2>2 DEF After
    <3>2. i + 1 \in DOMAIN q /\ j + 1 \in DOMAIN q /\ i + 1 < j + 1 /\ q[i + 1] = x /\ q[j + 1] = y
      BY <1>3, <3>1
    <3> QED
      BY <3>2 DEF After
  <2>3. ASSUME Head(q) = x, Has(t, y) PROVE After(q, x, y)
    <3>1. PICK j \in DOMAIN t : t[j] = y
      BY <2>3 DEF Has
    <3>2. j + 1 \in DOMAIN q /\ 1 < j + 1 /\ q[j + 1] = y
      BY <1>3, <3>1
    <3> QED
      BY <1>1, <1>4, <2>3, <3>2 DEF After
  <2> QED
    BY <2>1, <2>2, <2>3
<1>7. Led(q, x, y) <=> Head(q) # y /\ (Head(q) = x \/ Led(t, x, y))
  <2>1. ASSUME Led(q, x, y) PROVE Head(q) # y /\ (Head(q) = x \/ Led(t, x, y))
    <3>1. Head(q) # y
      BY <1>1, <1>4, <2>1 DEF Led
    <3>2. ASSUME Head(q) # x, NEW i \in DOMAIN t, t[i] = y
          PROVE  \E j \in DOMAIN t : j < i /\ t[j] = x
      <4>1. i + 1 \in DOMAIN q /\ q[i + 1] = y
        BY <1>3, <3>2
      <4>2. PICK k \in DOMAIN q : k < i + 1 /\ q[k] = x
        BY <2>1, <4>1 DEF Led
      <4>3. k \in 2 .. n
        BY <1>1, <1>4, <3>2, <4>2
      <4>4. k - 1 \in DOMAIN t /\ t[k - 1] = x /\ k - 1 < i
        BY <1>2, <1>3, <4>2, <4>3
      <4> QED
        BY <4>4
    <3> QED
      BY <3>1, <3>2 DEF Led
  <2>2. ASSUME Head(q) # y, Head(q) = x \/ Led(t, x, y), NEW i \in DOMAIN q, q[i] = y
        PROVE  \E j \in DOMAIN q : j < i /\ q[j] = x
    <3>1. i \in 2 .. n
      BY <1>1, <1>4, <2>2
    <3>2. CASE Head(q) = x
      BY <1>1, <1>4, <3>1, <3>2
    <3>3. CASE Led(t, x, y)
      <4>1. i - 1 \in DOMAIN t /\ t[i - 1] = y
        BY <1>2, <2>2, <3>1
      <4>2. PICK k \in DOMAIN t : k < i - 1 /\ t[k] = x
        BY <3>3, <4>1 DEF Led
      <4>3. k + 1 \in DOMAIN q /\ k + 1 < i /\ q[k + 1] = x
        BY <1>3, <3>1, <4>2
      <4> QED
        BY <4>3
    <3> QED
      BY <2>2, <3>2, <3>3
  <2> QED
    BY <2>1, <2>2 DEF Led
<1> QED
  BY <1>1, <1>5, <1>6, <1>7 DEF t

\* Counting frames is counting places.
LEMMA CountIsNat ==
  ASSUME NEW S, NEW q \in Seq(S), NEW x
  PROVE  /\ Count(q, x) \in Nat
         /\ ~Has(q, x) => Count(q, x) = 0
         /\ IsFiniteSet({i \in DOMAIN q : q[i] = x})
<1>1. IsFiniteSet(DOMAIN q)
  <2>1. DOMAIN q = 1 .. Len(q) /\ Len(q) \in Nat
    BY LenProperties
  <2> QED
    BY <2>1, FS_Interval
<1>2. IsFiniteSet({i \in DOMAIN q : q[i] = x})
  BY <1>1, FS_Subset
<1>3. ~Has(q, x) => {i \in DOMAIN q : q[i] = x} = {}
  BY DEF Has
<1> QED
  BY <1>2, <1>3, FS_CardinalityType, FS_EmptySet DEF Count

\* One more frame at the end.
LEMMA CountAppended ==
  ASSUME NEW S, NEW q \in Seq(S), NEW z \in S, NEW x
  PROVE  Count(Append(q, z), x) = Count(q, x) + (IF z = x THEN 1 ELSE 0)
<1> DEFINE a == Append(q, z)
           n == Len(q)
           P == {i \in DOMAIN q : q[i] = x}
<1>1. /\ n \in Nat /\ DOMAIN q = 1 .. n /\ DOMAIN a = 1 .. (n + 1)
      /\ \A i \in 1 .. n : a[i] = q[i]
      /\ a[n + 1] = z
  BY AppendProperties
<1> HIDE DEF a
<1>2. IsFiniteSet(P) /\ n + 1 \notin P /\ Cardinality(P) \in Nat
  <2>1. IsFiniteSet(P)
    BY CountIsNat
  <2>2. n + 1 \notin P
    BY <1>1
  <2> QED
    BY <2>1, <2>2, FS_CardinalityType
<1>3. CASE z = x
  <2>1. {i \in DOMAIN a : a[i] = x} = P \cup {n + 1}
    BY <1>1, <1>3
  <2> HIDE DEF P
  <2>2. Cardinality(P \cup {n + 1}) = Cardinality(P) + 1
    BY <1>2, FS_AddElement
  <2> QED
    BY <1>3, <2>1, <2>2 DEF Count, P, a
<1>4. CASE z # x
  <2>1. {i \in DOMAIN a : a[i] = x} = P
    BY <1>1, <1>4
  <2>2. Count(a, x) = Cardinality(P) /\ Count(q, x) = Cardinality(P)
    BY <2>1 DEF Count
  <2> HIDE DEF P
  <2> QED
    BY <1>2, <1>4, <2>2 DEF a
<1> QED
  BY <1>3, <1>4

\* One frame less at the beginning.
LEMMA CountTaken ==
  ASSUME NEW S, NEW q \in Seq(S), q # <<>>, NEW x
  PROVE  Count(q, x) = Count(Tail(q), x) + (IF Head(q) = x THEN 1 ELSE 0)
<1> DEFINE t == Tail(q)
           n == Len(q)
           P == {i \in DOMAIN t : t[i] = x}
           Q == {i \in 2 .. n : q[i] = x}
           f == [i \in P |-> i + 1]
<1>1. /\ t \in Seq(S) /\ n \in Nat /\ n >= 1 /\ DOMAIN q = 1 .. n /\ DOMAIN t = 1 .. (n - 1)
      /\ Head(q) = q[1]
      /\ \A i \in 1 .. (n - 1) : t[i] = q[i + 1]
  BY HeadTailProperties
<1>2. IsFiniteSet(P)
  BY <1>1, CountIsNat
<1> HIDE DEF t
<1>3. f \in Bijection(P, Q)
  <2>1. \A i \in P : i + 1 \in Q
    BY <1>1
  <2>2. \A i, j \in P : i + 1 = j + 1 => i = j
    BY <1>1
  <2>3. ASSUME NEW j \in Q PROVE \E i \in P : i + 1 = j
    <3>1. j - 1 \in 1 .. (n - 1) /\ (j - 1) + 1 = j
      BY <1>1
    <3>2. j - 1 \in P
      BY <1>1, <3>1
    <3> QED
      BY <3>1, <3>2
  <2> HIDE DEF P, Q
  <2>4. f \in Surjection(P, Q) /\ f \in Injection(P, Q)
    BY <2>1, <2>2, <2>3 DEF Surjection, Injection, IsInjective
  <2> QED
    BY <2>4 DEF Bijection
<1>4. IsFiniteSet(Q) /\ Cardinality(Q) = Cardinality(P) /\ Cardinality(P) \in Nat /\ 1 \notin Q
  <2>1. 1 \notin Q
    OBVIOUS
  <2> HIDE DEF P, Q, f
  <2>2. ExistsBijection(P, Q)
    BY <1>3 DEF ExistsBijection
  <2>3. IsFiniteSet(Q) /\ Cardinality(Q) = Cardinality(P)
    BY <1>2, <2>2, FS_Bijection
  <2> QED
    BY <1>2, <2>1, <2>3, FS_CardinalityType
<1>5. CASE Head(q) = x
  <2>1. {i \in DOMAIN q : q[i] = x} = Q \cup {1}
    BY <1>1, <1>5
  <2> HIDE DEF P, Q, f
  <2>2. Cardinality(Q \cup {1}) = Cardinality(Q) + 1
    BY <1>4, FS_AddElement
  <2> QED
    BY <1>4, <1>5, <2>1, <2>2 DEF Count, P, t
<1>6. CASE Head(q) # x
  <2>1. {i \in DOMAIN q : q[i] = x} = Q
    BY <1>1, <1>6
  <2>2. Count(q, x) = Cardinality(Q) /\ Count(t, x) = Cardinality(P)
    BY <2>1 DEF Count
  <2> HIDE DEF P, Q, f
  <2> QED
    BY <1>4, <1>6, <2>2 DEF t
<1> QED
  BY <1>5, <1>6
(***************************************************************************)
(* A stream that a step does not touch.                                    *)
(***************************************************************************)
\* Frames are told apart by their type and their stream.
LEMMA FrameIs ==
  ASSUME NEW s \in Streams, NEW t \in Types
  PROVE  /\ Frame(t, s) \in Frames /\ Frame(t, s) # Pong /\ Frame(t, s) # NoFrame
         /\ Frame(t, s).type = t /\ Frame(t, s).st = s
         /\ \A u \in Types, r \in Streams : Frame(t, s) = Frame(u, r) => t = u /\ s = r
         /\ \A f \in Frames : f.st \in Streams /\ f.type \in Types /\ f = Frame(f.type, f.st)
<1>1. Frame(t, s) \in Frames /\ Frame(t, s).type = t /\ Frame(t, s).st = s
  BY DEF Frame, Frames
<1>2. Frame(t, s) # Pong
  <2>1. Pong.type = "pong" /\ t # "pong"
    BY DEF Pong, Types
  <2> QED
    BY <1>1, <2>1
<1>3. \A u \in Types, r \in Streams : Frame(u, r).type = u /\ Frame(u, r).st = r
  BY DEF Frame
<1>4. \A f \in Frames : f.st \in Streams /\ f.type \in Types /\ f = Frame(f.type, f.st)
  BY DEF Frame, Frames
<1> QED
  BY <1>1, <1>2, <1>3, <1>4, ConstantsAssumption

\* The types of a stream's parts.
LEMMA StreamTypes ==
  ASSUME TypeOK, NEW s \in Streams
  PROVE  /\ resp[s] \in Seq(Types) /\ Len(resp[s]) =< Cap
         /\ net \in Seq(Frames \cup {Pong}) /\ hand \in Frames \cup {NoFrame}
         /\ sent[s] \in 0 .. MaxBody /\ sent[s] \in Nat
         /\ written[s] \in Nat /\ credit[s] \in Nat
         /\ Count(net, Frame("body", s)) \in Nat /\ Count(resp[s], "body") \in Nat
         /\ Bodies(s) \in Nat
         /\ Cap \in Nat /\ Cap >= 1 /\ Window \in Nat /\ Window >= 1 /\ MaxBody \in Nat
         /\ MaxQuiet \in Nat /\ MaxQuiet >= 1
<1>1. Cap \in Nat /\ Cap >= 1 /\ Window \in Nat /\ Window >= 1 /\ MaxBody \in Nat /\ MaxQuiet \in Nat /\ MaxQuiet >= 1
  BY ConstantsAssumption
<1>2. /\ resp[s] \in Seq(Types) /\ Len(resp[s]) =< Cap
      /\ net \in Seq(Frames \cup {Pong}) /\ hand \in Frames \cup {NoFrame}
      /\ sent[s] \in 0 .. MaxBody /\ written[s] \in 0 .. MaxBody /\ credit[s] \in 0 .. Window
  BY DEF TypeOK
<1>3. Count(net, Frame("body", s)) \in Nat /\ Count(resp[s], "body") \in Nat
  BY <1>2, CountIsNat
<1>4. Bodies(s) \in Nat
  BY <1>3 DEF Bodies
<1> QED
  BY <1>1, <1>2, <1>3, <1>4

\* Other streams' frames and pongs on the connection do not concern it.
LEMMA NetElsewhere ==
  ASSUME TypeOK, NEW s \in Streams,
         net' = net \/ \E f \in Frames \cup {Pong} :
                         net' = Append(net, f) /\ \A t \in Types : f # Frame(t, s)
  PROVE  /\ net' \in Seq(Frames \cup {Pong})
         /\ \A t \in Types : Has(net', Frame(t, s)) <=> Has(net, Frame(t, s))
         /\ \A t, u \in Types : /\ After(net', Frame(t, s), Frame(u, s)) <=> After(net, Frame(t, s), Frame(u, s))
                                /\ Led(net', Frame(t, s), Frame(u, s)) <=> Led(net, Frame(t, s), Frame(u, s))
         /\ Count(net', Frame("body", s)) = Count(net, Frame("body", s))
<1>1. net \in Seq(Frames \cup {Pong}) /\ Count(net, Frame("body", s)) \in Nat /\ "body" \in Types
  BY StreamTypes DEF Types
<1>2. CASE net' = net
  BY <1>1, <1>2
<1>3. ASSUME NEW f \in Frames \cup {Pong}, net' = Append(net, f), \A t \in Types : f # Frame(t, s)
      PROVE  /\ net' \in Seq(Frames \cup {Pong})
             /\ \A t \in Types : Has(net', Frame(t, s)) <=> Has(net, Frame(t, s))
             /\ \A t, u \in Types : /\ After(net', Frame(t, s), Frame(u, s)) <=> After(net, Frame(t, s), Frame(u, s))
                                    /\ Led(net', Frame(t, s), Frame(u, s)) <=> Led(net, Frame(t, s), Frame(u, s))
             /\ Count(net', Frame("body", s)) = Count(net, Frame("body", s))
  <2>1. ASSUME NEW t \in Types, NEW u \in Types
        PROVE  /\ net' \in Seq(Frames \cup {Pong})
               /\ Has(net', Frame(t, s)) <=> Has(net, Frame(t, s))
               /\ After(net', Frame(t, s), Frame(u, s)) <=> After(net, Frame(t, s), Frame(u, s))
               /\ Led(net', Frame(t, s), Frame(u, s)) <=> Led(net, Frame(t, s), Frame(u, s))
    <3>1. f # Frame(t, s) /\ f # Frame(u, s)
      BY <1>3
    <3> QED
      BY <1>1, <1>3, <3>1, Appended
  <2>2. Count(net', Frame("body", s)) = Count(net, Frame("body", s))
    <3>1. f # Frame("body", s)
      BY <1>1, <1>3
    <3>2. Count(Append(net, f), Frame("body", s)) = Count(net, Frame("body", s)) + 0
      BY <1>1, <3>1, CountAppended
    <3> QED
      BY <1>1, <1>3, <3>2
  <2> QED
    BY <1>1, <2>1, <2>2
<1> QED
  BY <1>2, <1>3

\* What a step of others means for a stream: nothing.
LEMMA Elsewhere ==
  ASSUME IInv, NEW s \in Streams,
         pump'[s] = pump[s], started'[s] = started[s], written'[s] = written[s], result'[s] = result[s],
         resp'[s] = resp[s], runner'[s] = runner[s], sent'[s] = sent[s], credit'[s] = credit[s],
         \A t \in Types : hand' = Frame(t, s) <=> hand = Frame(t, s),
         closing' = "swept" \/ (s \in table => s \in table'),
         closing' = closing \/ closing' = "swept" \/ (closing = "open" /\ closing' = "closed"),
         net' = net \/ \E f \in Frames \cup {Pong} :
                         net' = Append(net, f) /\ \A t \in Types : f # Frame(t, s)
  PROVE  StreamInv(s)'
<1>1. /\ StreamInv(s) /\ TypeOK
      /\ {"start", "body", "end", "error"} = Types
  BY DEF IInv, Types
<1>2. /\ \A t \in Types : Has(net', Frame(t, s)) <=> Has(net, Frame(t, s))
      /\ \A t, u \in Types : /\ After(net', Frame(t, s), Frame(u, s)) <=> After(net, Frame(t, s), Frame(u, s))
                             /\ Led(net', Frame(t, s), Frame(u, s)) <=> Led(net, Frame(t, s), Frame(u, s))
      /\ Count(net', Frame("body", s)) = Count(net, Frame("body", s))
  BY <1>1, NetElsewhere
<1>3. Bodies(s)' = Bodies(s)
  BY <1>1, <1>2 DEF Bodies
<1>4. Untouched(s)' /\ InTable(s)' /\ OkIsWhole(s)'
  BY <1>1, <1>2 DEF StreamInv, Untouched, InTable, OkIsWhole
<1>5. Credits(s)' /\ Whole(s)'
  BY <1>1, <1>2, <1>3 DEF StreamInv, Credits, Whole, Live, Open
<1>6. EndIsLast(s)' /\ StartIsFirst(s)'
  BY <1>1, <1>2 DEF StreamInv, EndIsLast, StartIsFirst, Live, Open
<1> QED
  BY <1>4, <1>5, <1>6 DEF StreamInv
(***************************************************************************)
(* The request.                                                            *)
(***************************************************************************)
\* A new request.
LEMMA OpenStreamStep ==
  ASSUME IInv, NEW r \in Streams, OpenStream(r)
  PROVE  IInv'
<1>1. /\ pump[r] = "idle" /\ pump' = [pump EXCEPT ![r] = "opened"] /\ table' = table \cup {r}
      /\ UNCHANGED <<closing, notify, started, written, result, resp, runner, sent, credit, net, hand, reading, quiet, up>>
      /\ TypeOK /\ StreamInv(r)
  BY DEF OpenStream, tunVars, runVars, readVars, IInv
<1>2. TypeOK' /\ pump'[r] = "opened"
  BY <1>1 DEF TypeOK
<1>3. ASSUME NEW s \in Streams, s # r PROVE StreamInv(s)'
  BY <1>1, <1>3, Elsewhere DEF TypeOK
<1>4. StreamInv(r)'
  BY <1>1, <1>2 DEF StreamInv, Untouched, InTable, Credits, Whole, EndIsLast, StartIsFirst, OkIsWhole, Bodies, Live, Open
<1> QED
  BY <1>2, <1>3, <1>4 DEF IInv

\* REQ_START is written: what the request has so far is nothing.
LEMMA WriteReqStartStep ==
  ASSUME IInv, NEW r \in Streams, WriteReqStart(r)
  PROVE  IInv'
<1>1. /\ pump[r] = "opened" /\ TypeOK /\ StreamInv(r)
      /\ UNCHANGED <<closing, notify, started, written, resp, sent, credit, net, hand, reading, quiet, up>>
      /\ {"start", "body", "end", "error"} = Types
  BY DEF WriteReqStart, tunVars, readVars, IInv, Types
<1>2. \/ /\ Open /\ pump' = [pump EXCEPT ![r] = "wait"] /\ UNCHANGED <<table, result>>
         /\ runner' = [runner EXCEPT ![r] = IF up THEN "dial" ELSE "none"]
      \/ Finish(r, "502") /\ UNCHANGED runner
  BY DEF WriteReqStart, Open
<1>3. /\ sent[r] = 0 /\ written[r] = 0 /\ credit[r] = Window
      /\ \A t \in Types : ~Has(net, Frame(t, r)) /\ hand # Frame(t, r)
      /\ \A t \in Types \ {"error"} : ~Has(resp[r], t)
  BY <1>1 DEF StreamInv, Untouched
<1>4. Bodies(r) = 0 /\ Bodies(r)' = 0
  <2>1. resp[r] \in Seq(Types) /\ net \in Seq(Frames \cup {Pong})
    BY <1>1, StreamTypes
  <2>2. ~Has(net, Frame("body", r)) /\ hand # Frame("body", r) /\ ~Has(resp[r], "body")
    BY <1>1, <1>3
  <2>3. Count(net, Frame("body", r)) = 0 /\ Count(resp[r], "body") = 0
    BY <2>1, <2>2, CountIsNat
  <2>4. pump'[r] # "write"
    BY <1>1, <1>2 DEF Finish, TypeOK
  <2> QED
    BY <1>1, <2>2, <2>3, <2>4 DEF Bodies
<1>5. TypeOK'
  BY <1>1, <1>2 DEF TypeOK, Finish
<1>6. ASSUME NEW s \in Streams, s # r PROVE StreamInv(s)'
  BY <1>1, <1>2, <1>6, Elsewhere DEF TypeOK, Finish
<1>7. StreamInv(r)'
  <2>1. Untouched(r)' /\ InTable(r)'
    BY <1>1, <1>2 DEF StreamInv, Untouched, InTable, Finish, TypeOK, Open
  <2>2. Credits(r)' /\ Whole(r)'
    BY <1>1, <1>3, <1>4, StreamTypes DEF Credits, Whole
  <2>3. EndIsLast(r)'
    BY <1>1, <1>3 DEF StreamInv, EndIsLast
  <2>4. StartIsFirst(r)'
    <3>1. Live(r)' => runner'[r] \in {"dial", "none"}
      BY <1>1, <1>2 DEF Live, Finish, TypeOK
    <3>2. Led(resp[r], "start", "end") /\ Led(net, Frame("start", r), Frame("end", r))
      BY <1>1, <1>3 DEF Led, Has
    <3> QED
      BY <1>1, <1>3, <3>1, <3>2 DEF StartIsFirst
  <2>5. OkIsWhole(r)'
    BY <1>1, <1>2 DEF StreamInv, OkIsWhole, Finish, TypeOK
  <2> QED
    BY <2>1, <2>2, <2>3, <2>4, <2>5 DEF StreamInv
<1> QED
  BY <1>5, <1>6, <1>7 DEF IInv

\* A channel whose first frame may be taken.
LEMMA Shorter ==
  ASSUME NEW q \in Seq(Types), NEW p, p = q \/ (q # <<>> /\ p = Tail(q))
  PROVE  /\ p \in Seq(Types) /\ Len(p) \in Nat /\ Len(p) =< Len(q)
         /\ Count(p, "body") \in Nat /\ Count(p, "body") =< Count(q, "body")
         /\ \A t \in Types : Has(p, t) => Has(q, t)
         /\ After(p, "end", "body") => After(q, "end", "body")
<1>1. Len(q) \in Nat /\ Count(q, "body") \in Nat
  BY LenProperties, CountIsNat
<1>2. CASE p = q
  BY <1>1, <1>2
<1>3. CASE q # <<>> /\ p = Tail(q)
  <2>1. p \in Seq(Types) /\ Len(p) = Len(q) - 1 /\ Len(q) >= 1
    BY <1>1, <1>3, HeadTailProperties
  <2>2. Count(q, "body") = Count(p, "body") + (IF Head(q) = "body" THEN 1 ELSE 0)
    BY <1>3, CountTaken
  <2>3. Count(p, "body") \in Nat
    BY <2>1, CountIsNat
  <2>4. \A t \in Types : Has(p, t) => Has(q, t)
    BY <1>3, Taken
  <2>5. After(p, "end", "body") => After(q, "end", "body")
    BY <1>3, Taken
  <2>6. Count(p, "body") =< Count(q, "body") /\ Len(p) \in Nat /\ Len(p) =< Len(q)
    BY <1>1, <2>1, <2>2, <2>3
  <2> QED
    BY <2>1, <2>3, <2>4, <2>5, <2>6
<1> QED
  BY <1>2, <1>3

\* A request is over, and may have taken a last frame.
Over(r) ==
  /\ Live(r) /\ pump' = [pump EXCEPT ![r] = "done"] /\ table' = table \ {r}
  /\ \E how \in {"502", "timeout", "client gone"} : result' = [result EXCEPT ![r] = how]
  /\ runner' = runner \/ (runner[r] # "done" /\ runner' = [runner EXCEPT ![r] = "cancelled"])
  /\ \/ resp' = resp
     \/ resp[r] # <<>> /\ resp' = [resp EXCEPT ![r] = Tail(resp[r])]
  /\ UNCHANGED <<closing, notify, started, written, sent, credit, net, hand, reading, quiet, up>>

\* It needs little of the invariant.
LEMMA OverStep ==
  ASSUME IInv, NEW r \in Streams, Over(r)
  PROVE  IInv'
<1>1. /\ TypeOK /\ StreamInv(r) /\ {"start", "body", "end", "error"} = Types
      /\ pump[r] \in {"wait", "write"} /\ pump'[r] = "done" /\ result'[r] # "ok" /\ started'[r] = started[r]
      /\ written'[r] = written[r] /\ sent'[r] = sent[r] /\ credit'[r] = credit[r]
      /\ runner'[r] = runner[r] \/ (runner[r] # "done" /\ runner'[r] = "cancelled")
      /\ closing' = closing /\ net' = net /\ hand' = hand
  BY DEF IInv, Types, TypeOK, Over, Live
<1>2. /\ resp[r] \in Seq(Types) /\ Len(resp[r]) =< Cap /\ Len(resp[r]) \in Nat
      /\ Count(net, Frame("body", r)) \in Nat /\ Count(resp[r], "body") \in Nat
      /\ sent[r] \in Nat /\ written[r] \in Nat /\ credit[r] \in Nat /\ Cap \in Nat /\ Window \in Nat
  <2>1. resp[r] \in Seq(Types)
    BY <1>1, StreamTypes
  <2>2. Len(resp[r]) \in Nat
    BY <2>1, LenProperties
  <2> QED
    BY <1>1, <2>1, <2>2, StreamTypes
<1>3. /\ resp'[r] \in Seq(Types) /\ Len(resp'[r]) =< Cap
      /\ Count(resp'[r], "body") \in Nat /\ Count(resp'[r], "body") =< Count(resp[r], "body")
      /\ \A t \in Types : Has(resp'[r], t) => Has(resp[r], t)
      /\ After(resp'[r], "end", "body") => After(resp[r], "end", "body")
  <2> DEFINE q == resp[r]
             p == resp'[r]
  <2>1. q \in Seq(Types) /\ Len(q) =< Cap /\ Len(q) \in Nat /\ Cap \in Nat
    BY <1>2
  <2>2. p = q \/ (q # <<>> /\ p = Tail(q))
    BY <1>1 DEF TypeOK, Over
  <2> HIDE DEF p, q
  <2>3. /\ p \in Seq(Types) /\ Len(p) \in Nat /\ Len(p) =< Len(q)
        /\ Count(p, "body") \in Nat /\ Count(p, "body") =< Count(q, "body")
        /\ \A t \in Types : Has(p, t) => Has(q, t)
        /\ After(p, "end", "body") => After(q, "end", "body")
    BY <2>1, <2>2, Shorter
  <2>4. Len(p) =< Cap
    BY <2>1, <2>3
  <2> QED
    BY <2>3, <2>4 DEF p, q
<1>4. TypeOK'
  <2>1. resp' \in [Streams -> Seq(Types)] /\ \A s \in Streams : Len(resp'[s]) =< Cap
    BY <1>1, <1>3 DEF TypeOK, Over
  <2>2. runner' \in [Streams -> {"none", "dial", "body", "cancelled", "done"}]
    BY <1>1 DEF TypeOK, Over
  <2>3. result' \in [Streams -> {"none", "ok", "502", "timeout", "client gone"}] /\ table' \subseteq Streams
    <3>1. PICK how \in {"502", "timeout", "client gone"} : result' = [result EXCEPT ![r] = how]
      BY DEF Over
    <3> QED
      BY <1>1, <3>1 DEF TypeOK, Over
  <2>4. pump' \in [Streams -> {"idle", "opened", "wait", "write", "done"}]
    BY <1>1 DEF TypeOK, Over
  <2> QED
    BY <1>1, <2>1, <2>2, <2>3, <2>4 DEF TypeOK, Over
<1>5. ASSUME NEW s \in Streams, s # r PROVE StreamInv(s)'
  BY <1>1, <1>2, <1>5, Elsewhere DEF TypeOK, Over
<1>6. StreamInv(r)'
  <2>1. Bodies(r)' \in Nat /\ Bodies(r)' =< Bodies(r) /\ Bodies(r) \in Nat
    BY <1>1, <1>2, <1>3 DEF Bodies
  <2>2. Untouched(r)' /\ InTable(r)' /\ StartIsFirst(r)' /\ ~Live(r)'
    BY <1>1 DEF Untouched, InTable, StartIsFirst, Live
  <2>3. Credits(r)' /\ Whole(r)'
    BY <1>1, <1>2, <2>1, <2>2 DEF StreamInv, Credits, Whole
  <2>4. EndIsLast(r)'
    BY <1>1, <1>3 DEF StreamInv, EndIsLast
  <2>5. OkIsWhole(r)'
    BY <1>1 DEF StreamInv, OkIsWhole
  <2> QED
    BY <2>2, <2>3, <2>4, <2>5 DEF StreamInv
<1> QED
  BY <1>4, <1>5, <1>6 DEF IInv

\* The browser leaves, or the request's context is done.
LEMMA LeaveStep ==
  ASSUME IInv, NEW r \in Streams, ClientGone(r) \/ Timeout(r)
  PROVE  IInv'
<1>1. TypeOK /\ Live(r)
  BY DEF IInv, ClientGone, Timeout, Waits, Live
<1>2. PICK how \in {"timeout", "client gone"} : Finish(r, how)
  BY DEF ClientGone, Timeout
<1>3. CancelRunner(r) /\ UNCHANGED <<closing, notify, started, written, resp, sent, credit, net, hand, reading, quiet, up>>
  BY DEF ClientGone, Timeout, tunVars, readVars
<1>4. runner' = runner \/ (runner[r] # "done" /\ runner' = [runner EXCEPT ![r] = "cancelled"])
  BY <1>1, <1>3 DEF CancelRunner, TypeOK
<1> QED
  BY <1>1, <1>2, <1>3, <1>4, OverStep DEF Finish, Over
\* pumpResponse takes the first frame of the channel.
LEMMA FrameTaken ==
  ASSUME NEW q \in Seq(Types), q # <<>>, NEW p, p = Tail(q)
  PROVE  /\ p \in Seq(Types) /\ Len(p) \in Nat /\ Len(p) =< Len(q) /\ Head(q) \in Types
         /\ Count(p, "body") \in Nat /\ Count(q, "body") \in Nat
         /\ Count(q, "body") = Count(p, "body") + (IF Head(q) = "body" THEN 1 ELSE 0)
         /\ \A t \in Types : Has(q, t) <=> Head(q) = t \/ Has(p, t)
         /\ After(q, "end", "body") <=> After(p, "end", "body") \/ (Head(q) = "end" /\ Has(p, "body"))
         /\ Led(q, "start", "end") <=> Head(q) # "end" /\ (Head(q) = "start" \/ Led(p, "start", "end"))
<1>1. Len(q) \in Nat /\ Count(q, "body") \in Nat
  BY LenProperties, CountIsNat
<1>2. p \in Seq(Types) /\ Len(p) = Len(q) - 1 /\ Len(q) >= 1 /\ Head(q) \in Types
  BY <1>1, HeadTailProperties
<1>3. Count(q, "body") = Count(p, "body") + (IF Head(q) = "body" THEN 1 ELSE 0)
  BY CountTaken
<1>4. Count(p, "body") \in Nat
  BY <1>2, CountIsNat
<1>5. \A t \in Types : Has(q, t) <=> Head(q) = t \/ Has(p, t)
  BY Taken
<1>6. After(q, "end", "body") <=> After(p, "end", "body") \/ (Head(q) = "end" /\ Has(p, "body"))
  BY Taken
<1>7. Led(q, "start", "end") <=> Head(q) # "end" /\ (Head(q) = "start" \/ Led(p, "start", "end"))
  BY Taken
<1>8. Len(p) \in Nat /\ Len(p) =< Len(q)
  BY <1>1, <1>2
<1> QED
  BY <1>1, <1>2, <1>3, <1>4, <1>5, <1>6, <1>7, <1>8

\* A header, a body frame or the end; anything else ends the request.
LEMMA PumpStep ==
  ASSUME IInv, NEW r \in Streams, Pump(r)
  PROVE  IInv'
<1>1. /\ TypeOK /\ StreamInv(r) /\ {"start", "body", "end", "error"} = Types
      /\ pump[r] = "wait" /\ resp[r] # <<>>
  BY DEF IInv, Types, Pump
<1>2. /\ resp' = [resp EXCEPT ![r] = Tail(resp[r])]
      /\ UNCHANGED <<closing, notify, written, runner, sent, credit, net, hand, reading, quiet, up>>
  BY DEF Pump, tunVars, runVars, readVars
<1>3. /\ resp[r] \in Seq(Types) /\ Len(resp[r]) =< Cap /\ Cap \in Nat /\ Window \in Nat
      /\ Count(net, Frame("body", r)) \in Nat /\ Bodies(r) \in Nat
      /\ sent[r] \in Nat /\ written[r] \in Nat /\ credit[r] \in Nat
  BY <1>1, StreamTypes
<1> DEFINE h == Head(resp[r])
<1>4. /\ Len(resp[r]) \in Nat /\ resp'[r] = Tail(resp[r])
  BY <1>1, <1>2, <1>3, LenProperties DEF TypeOK
<1>5. /\ resp'[r] \in Seq(Types) /\ Len(resp'[r]) \in Nat /\ Len(resp'[r]) =< Len(resp[r]) /\ h \in Types
      /\ Count(resp'[r], "body") \in Nat /\ Count(resp[r], "body") \in Nat
      /\ Count(resp[r], "body") = Count(resp'[r], "body") + (IF h = "body" THEN 1 ELSE 0)
      /\ \A t \in Types : Has(resp[r], t) <=> h = t \/ Has(resp'[r], t)
      /\ After(resp[r], "end", "body") <=> After(resp'[r], "end", "body") \/ (h = "end" /\ Has(resp'[r], "body"))
      /\ Led(resp[r], "start", "end") <=> h # "end" /\ (h = "start" \/ Led(resp'[r], "start", "end"))
  BY <1>1, <1>3, <1>4, FrameTaken
<1>6. \/ h = "start" /\ started' = [started EXCEPT ![r] = TRUE] /\ UNCHANGED <<pump, result, table>>
      \/ h = "body" /\ started[r] /\ pump' = [pump EXCEPT ![r] = "write"] /\ UNCHANGED <<started, result, table>>
      \/ h = "end" /\ Finish(r, "ok") /\ UNCHANGED started
      \/ Finish(r, "502") /\ UNCHANGED started
  BY DEF Pump
<1> HIDE DEF h
<1>7. resp' \in [Streams -> Seq(Types)] /\ \A s \in Streams : Len(resp'[s]) =< Cap
  <2>1. Len(resp'[r]) =< Cap
    BY <1>3, <1>4, <1>5
  <2> QED
    BY <1>1, <1>2, <1>5, <2>1 DEF TypeOK
<1>8. CASE h = "start" /\ started' = [started EXCEPT ![r] = TRUE] /\ UNCHANGED <<pump, result, table>>
  <2>1. TypeOK' /\ started'[r]
    BY <1>1, <1>2, <1>7, <1>8 DEF TypeOK
  <2>2. ASSUME NEW s \in Streams, s # r PROVE StreamInv(s)'
    BY <1>1, <1>2, <1>8, <2>2, Elsewhere DEF TypeOK
  <2>3. Bodies(r)' = Bodies(r)
    <3>1. Count(resp'[r], "body") = Count(resp[r], "body")
      BY <1>5, <1>8
    <3> QED
      BY <1>2, <1>8, <3>1 DEF Bodies
  <2>4. Untouched(r)' /\ InTable(r)' /\ StartIsFirst(r)'
    BY <1>1, <1>2, <1>8, <2>1 DEF StreamInv, Untouched, InTable, StartIsFirst
  <2>5. Credits(r)' /\ Whole(r)'
    BY <1>1, <1>2, <1>5, <1>8, <2>3 DEF StreamInv, Credits, Whole, Live, Open
  <2>6. EndIsLast(r)' /\ OkIsWhole(r)'
    BY <1>1, <1>2, <1>5, <1>8, <2>1 DEF StreamInv, EndIsLast, OkIsWhole
  <2> QED
    BY <2>1, <2>2, <2>4, <2>5, <2>6 DEF IInv, StreamInv
<1>9. CASE /\ h = "body" /\ started[r] /\ pump' = [pump EXCEPT ![r] = "write"]
           /\ UNCHANGED <<started, result, table>>
  <2>1. TypeOK' /\ pump'[r] = "write"
    BY <1>1, <1>2, <1>7, <1>9 DEF TypeOK
  <2>2. ASSUME NEW s \in Streams, s # r PROVE StreamInv(s)'
    BY <1>1, <1>2, <1>9, <2>2, Elsewhere DEF TypeOK
  <2>3. Bodies(r)' = Bodies(r)
    <3>1. Count(resp[r], "body") = Count(resp'[r], "body") + 1
      BY <1>5, <1>9
    <3>2. Count(net, Frame("body", r)) \in Nat /\ Count(resp'[r], "body") \in Nat
      BY <1>3, <1>5
    <3>3. pump[r] = "wait" /\ pump'[r] = "write" /\ net' = net /\ hand' = hand
      BY <1>1, <1>2, <2>1
    <3> QED
      BY <3>1, <3>2, <3>3 DEF Bodies
  <2>4. Untouched(r)' /\ InTable(r)' /\ StartIsFirst(r)'
    BY <1>1, <1>2, <1>9, <2>1 DEF StreamInv, Untouched, InTable, StartIsFirst
  <2>5. Credits(r)' /\ Whole(r)'
    BY <1>1, <1>2, <1>5, <1>9, <2>1, <2>3 DEF StreamInv, Credits, Whole, Live, Open
  <2>6. EndIsLast(r)' /\ OkIsWhole(r)'
    BY <1>1, <1>2, <1>5, <1>9, <2>1 DEF StreamInv, EndIsLast, OkIsWhole
  <2> QED
    BY <2>1, <2>2, <2>4, <2>5, <2>6 DEF IInv, StreamInv
<1>10. CASE h = "end" /\ Finish(r, "ok") /\ UNCHANGED started
  <2>1. /\ pump' = [pump EXCEPT ![r] = "done"] /\ result' = [result EXCEPT ![r] = "ok"] /\ table' = table \ {r}
        /\ started' = started
    BY <1>10 DEF Finish
  <2>2. TypeOK' /\ pump'[r] = "done"
    BY <1>1, <1>2, <1>7, <2>1 DEF TypeOK
  <2>3. ASSUME NEW s \in Streams, s # r PROVE StreamInv(s)'
    BY <1>1, <1>2, <2>1, <2>3, Elsewhere DEF TypeOK
  <2>4. Bodies(r) = 0 /\ Bodies(r)' = 0
    <3>1. hand # Frame("body", r) /\ ~Has(net, Frame("body", r)) /\ ~Has(resp'[r], "body")
      BY <1>1, <1>5, <1>10 DEF StreamInv, EndIsLast
    <3>2. Count(net, Frame("body", r)) = 0 /\ Count(resp'[r], "body") = 0
      BY <1>1, <1>5, <3>1, CountIsNat, StreamTypes
    <3> QED
      BY <1>1, <1>2, <1>5, <1>10, <2>2, <3>1, <3>2 DEF Bodies
  <2>5. written[r] = sent[r] /\ runner[r] = "done" /\ started[r]
    <3>1. Has(resp[r], "end")
      BY <1>1, <1>5, <1>10
    <3> QED
      BY <1>1, <1>3, <1>5, <1>10, <2>4, <3>1 DEF StreamInv, Whole, EndIsLast, StartIsFirst, Live
  <2>6. Untouched(r)' /\ InTable(r)' /\ StartIsFirst(r)' /\ ~Live(r)'
    BY <2>2 DEF Untouched, InTable, StartIsFirst, Live
  <2>7. Credits(r)' /\ Whole(r)'
    BY <1>1, <1>2, <1>3, <2>4, <2>6 DEF StreamInv, Credits, Whole
  <2>8. EndIsLast(r)' /\ OkIsWhole(r)'
    BY <1>1, <1>2, <1>5, <2>1, <2>2, <2>5 DEF StreamInv, EndIsLast, OkIsWhole
  <2> QED
    BY <2>2, <2>3, <2>6, <2>7, <2>8 DEF IInv, StreamInv
<1>11. CASE Finish(r, "502") /\ UNCHANGED started
  <2>1. Over(r)
    BY <1>1, <1>2, <1>11 DEF Over, Finish, Live
  <2> QED
    BY <2>1, OverStep
<1> QED
  BY <1>6, <1>8, <1>9, <1>10, <1>11

\* The browser has taken a body frame, and the credit goes back if there is a
\* connection left to write it to.
LEMMA FlushedStep ==
  ASSUME IInv, NEW r \in Streams, Flushed(r)
  PROVE  IInv'
<1>1. /\ TypeOK /\ StreamInv(r) /\ pump[r] = "write" /\ pump' = [pump EXCEPT ![r] = "wait"]
      /\ written' = [written EXCEPT ![r] = written[r] + 1]
      /\ credit' = [credit EXCEPT ![r] = IF Open THEN credit[r] + 1 ELSE credit[r]]
      /\ UNCHANGED <<closing, notify, table, started, result, resp, runner, sent, net, hand, reading, quiet, up>>
  BY DEF IInv, Flushed, Credited, Open, tunVars, runVars, readVars
<1>2. /\ Bodies(r) \in Nat /\ sent[r] \in 0 .. MaxBody /\ MaxBody \in Nat /\ Window \in Nat
      /\ written[r] \in Nat /\ credit[r] \in Nat /\ Count(net, Frame("body", r)) \in Nat /\ Count(resp[r], "body") \in Nat
  BY <1>1, StreamTypes
<1>3. /\ pump'[r] = "wait" /\ written'[r] = written[r] + 1
      /\ credit'[r] = IF Open THEN credit[r] + 1 ELSE credit[r]
  BY <1>1 DEF TypeOK
<1>4. Bodies(r)' = Bodies(r) - 1 /\ Bodies(r) >= 1
  BY <1>1, <1>2, <1>3 DEF Bodies
<1>5. written'[r] \in 0 .. MaxBody /\ credit'[r] \in 0 .. Window
  BY <1>1, <1>2, <1>3, <1>4 DEF StreamInv, Whole, Credits
<1>6. TypeOK'
  BY <1>1, <1>3, <1>5 DEF TypeOK
<1>7. ASSUME NEW s \in Streams, s # r PROVE StreamInv(s)'
  BY <1>1, <1>7, Elsewhere DEF TypeOK
<1>8. Untouched(r)' /\ InTable(r)' /\ StartIsFirst(r)'
  BY <1>1, <1>3 DEF StreamInv, Untouched, InTable, StartIsFirst, Live, Open
<1>9. Credits(r)' /\ Whole(r)'
  BY <1>1, <1>2, <1>3, <1>4 DEF StreamInv, Credits, Whole, Live, Open
<1>10. EndIsLast(r)' /\ OkIsWhole(r)'
  BY <1>1, <1>3 DEF StreamInv, EndIsLast, OkIsWhole
<1> QED
  BY <1>6, <1>7, <1>8, <1>9, <1>10 DEF IInv, StreamInv
(***************************************************************************)
(* The runner.                                                             *)
(***************************************************************************)
\* A frame of r at the end of the connection.
LEMMA FrameSent ==
  ASSUME TypeOK, NEW r \in Streams, NEW t \in Types, Send(Frame(t, r))
  PROVE  /\ net' \in Seq(Frames \cup {Pong})
         /\ Count(net', Frame("body", r)) = Count(net, Frame("body", r)) + (IF t = "body" THEN 1 ELSE 0)
         /\ \A u \in Types : Has(net', Frame(u, r)) <=> Has(net, Frame(u, r)) \/ t = u
         /\ After(net', Frame("end", r), Frame("body", r)) <=>
              After(net, Frame("end", r), Frame("body", r)) \/ (Has(net, Frame("end", r)) /\ t = "body")
         /\ Led(net', Frame("start", r), Frame("end", r)) <=>
              Led(net, Frame("start", r), Frame("end", r)) /\ (t = "end" => Has(net, Frame("start", r)))
         /\ \A s \in Streams \ {r} : \E f \in Frames \cup {Pong} :
              net' = Append(net, f) /\ \A u \in Types : f # Frame(u, s)
<1> DEFINE f == Frame(t, r)
<1>1. /\ net \in Seq(Frames \cup {Pong}) /\ Count(net, Frame("body", r)) \in Nat
      /\ f \in Frames \cup {Pong} /\ net' = Append(net, f)
      /\ {"start", "body", "end", "error"} = Types
  BY StreamTypes, FrameIs DEF Send, Types
<1>2. \A u \in Types : f = Frame(u, r) <=> t = u
  BY FrameIs
<1>3. \A s \in Streams \ {r}, u \in Types : f # Frame(u, s)
  BY FrameIs
<1> HIDE DEF f
<1>4. net' \in Seq(Frames \cup {Pong}) /\ \A u \in Types : Has(net', Frame(u, r)) <=> Has(net, Frame(u, r)) \/ t = u
  <2>1. ASSUME NEW u \in Types PROVE Has(net', Frame(u, r)) <=> Has(net, Frame(u, r)) \/ f = Frame(u, r)
    BY <1>1, Appended
  <2>2. net' \in Seq(Frames \cup {Pong})
    BY <1>1, Appended
  <2> QED
    BY <1>2, <2>1, <2>2
<1>5. Count(net', Frame("body", r)) = Count(net, Frame("body", r)) + (IF f = Frame("body", r) THEN 1 ELSE 0)
  BY <1>1, CountAppended
<1>6. /\ After(net', Frame("end", r), Frame("body", r)) <=>
           After(net, Frame("end", r), Frame("body", r)) \/ (Has(net, Frame("end", r)) /\ f = Frame("body", r))
      /\ Led(net', Frame("start", r), Frame("end", r)) <=>
           Led(net, Frame("start", r), Frame("end", r)) /\ (f = Frame("end", r) => Has(net, Frame("start", r)))
  BY <1>1, Appended
<1>7. f = Frame("body", r) <=> t = "body"
  BY <1>1, <1>2
<1>8. f = Frame("end", r) <=> t = "end"
  BY <1>1, <1>2
<1> QED
  BY <1>1, <1>3, <1>4, <1>5, <1>6, <1>7, <1>8

\* What the runner sends of a response: header, body within its credits, end.
LEMMA RunnerSendsStep ==
  ASSUME IInv, NEW r \in Streams, RunnerSends(r)
  PROVE  IInv'
<1>1. /\ TypeOK /\ StreamInv(r) /\ Open /\ {"start", "body", "end", "error"} = Types
      /\ UNCHANGED <<closing, notify, table, pump, started, written, result, resp, hand, reading, quiet, up>>
  BY DEF IInv, Types, RunnerSends, Connected, Open, tunVars, pumpVars, readVars
<1>2. \E t \in Types :
        /\ Send(Frame(t, r))
        /\ \/ /\ t = "start" /\ runner[r] = "dial" /\ runner' = [runner EXCEPT ![r] = "body"]
              /\ UNCHANGED <<sent, credit>>
           \/ /\ t = "body" /\ runner[r] \in {"body", "cancelled"} /\ sent[r] < MaxBody /\ credit[r] > 0
              /\ sent' = [sent EXCEPT ![r] = sent[r] + 1] /\ credit' = [credit EXCEPT ![r] = credit[r] - 1]
              /\ UNCHANGED runner
           \/ /\ t \in {"end", "error"} /\ runner[r] \in {"dial", "body", "cancelled"}
              /\ t = "end" => runner[r] = "body"
              /\ runner' = [runner EXCEPT ![r] = "done"] /\ UNCHANGED <<sent, credit>>
  BY <1>1 DEF RunnerSends
<1>3. PICK t \in Types :
        /\ Send(Frame(t, r))
        /\ \/ /\ t = "start" /\ runner[r] = "dial" /\ runner' = [runner EXCEPT ![r] = "body"]
              /\ UNCHANGED <<sent, credit>>
           \/ /\ t = "body" /\ runner[r] \in {"body", "cancelled"} /\ sent[r] < MaxBody /\ credit[r] > 0
              /\ sent' = [sent EXCEPT ![r] = sent[r] + 1] /\ credit' = [credit EXCEPT ![r] = credit[r] - 1]
              /\ UNCHANGED runner
           \/ /\ t \in {"end", "error"} /\ runner[r] \in {"dial", "body", "cancelled"}
              /\ t = "end" => runner[r] = "body"
              /\ runner' = [runner EXCEPT ![r] = "done"] /\ UNCHANGED <<sent, credit>>
  BY <1>2
<1>4. /\ net' \in Seq(Frames \cup {Pong})
      /\ Count(net', Frame("body", r)) = Count(net, Frame("body", r)) + (IF t = "body" THEN 1 ELSE 0)
      /\ \A u \in Types : Has(net', Frame(u, r)) <=> Has(net, Frame(u, r)) \/ t = u
      /\ After(net', Frame("end", r), Frame("body", r)) <=>
           After(net, Frame("end", r), Frame("body", r)) \/ (Has(net, Frame("end", r)) /\ t = "body")
      /\ Led(net', Frame("start", r), Frame("end", r)) <=>
           Led(net, Frame("start", r), Frame("end", r)) /\ (t = "end" => Has(net, Frame("start", r)))
      /\ \A s \in Streams \ {r} : \E f \in Frames \cup {Pong} :
           net' = Append(net, f) /\ \A u \in Types : f # Frame(u, s)
  BY <1>1, <1>3, FrameSent
<1>5. /\ Bodies(r) \in Nat /\ sent[r] \in 0 .. MaxBody /\ MaxBody \in Nat /\ Window \in Nat
      /\ written[r] \in Nat /\ credit[r] \in 0 .. Window
      /\ Count(net, Frame("body", r)) \in Nat /\ Count(resp[r], "body") \in Nat
  BY <1>1, StreamTypes DEF TypeOK
<1>6. /\ sent'[r] = sent[r] + (IF t = "body" THEN 1 ELSE 0)
      /\ credit'[r] = credit[r] - (IF t = "body" THEN 1 ELSE 0)
      /\ sent'[r] \in 0 .. MaxBody /\ credit'[r] \in 0 .. Window
      /\ runner[r] \in {"dial", "body", "cancelled"}
      /\ t = "start" => runner[r] = "dial" /\ runner'[r] = "body"
      /\ t = "body" => runner[r] \in {"body", "cancelled"} /\ runner'[r] = runner[r]
      /\ t = "end" => runner[r] = "body"
      /\ t \in {"end", "error"} => runner'[r] = "done"
  <2>0. /\ sent \in [Streams -> 0 .. MaxBody] /\ credit \in [Streams -> 0 .. Window]
        /\ runner \in [Streams -> {"none", "dial", "body", "cancelled", "done"}]
    BY <1>1 DEF TypeOK
  <2>1. CASE t = "body"
    <3>1. /\ runner[r] \in {"body", "cancelled"} /\ sent[r] < MaxBody /\ credit[r] > 0
          /\ sent' = [sent EXCEPT ![r] = sent[r] + 1] /\ credit' = [credit EXCEPT ![r] = credit[r] - 1]
          /\ runner' = runner
      BY <1>3, <2>1
    <3>2. sent'[r] = sent[r] + 1 /\ credit'[r] = credit[r] - 1
      BY <2>0, <3>1
    <3> QED
      BY <1>5, <2>1, <3>1, <3>2
  <2>2. CASE t = "start"
    <3>1. runner[r] = "dial" /\ runner' = [runner EXCEPT ![r] = "body"] /\ UNCHANGED <<sent, credit>>
      BY <1>3, <2>2
    <3>2. runner'[r] = "body"
      BY <2>0, <3>1
    <3> QED
      BY <1>5, <2>2, <3>1, <3>2
  <2>3. CASE t \in {"end", "error"}
    <3>1. /\ runner[r] \in {"dial", "body", "cancelled"} /\ (t = "end" => runner[r] = "body")
          /\ runner' = [runner EXCEPT ![r] = "done"] /\ UNCHANGED <<sent, credit>>
      BY <1>3, <2>3
    <3>2. runner'[r] = "done"
      BY <2>0, <3>1
    <3> QED
      BY <1>5, <2>3, <3>1, <3>2
  <2> QED
    BY <1>1, <2>1, <2>2, <2>3
<1>7. /\ TypeOK'
      /\ \A s \in Streams \ {r} : sent'[s] = sent[s] /\ credit'[s] = credit[s] /\ runner'[s] = runner[s]
  BY <1>1, <1>3, <1>4, <1>6 DEF TypeOK
<1>8. ASSUME NEW s \in Streams, s # r PROVE StreamInv(s)'
  BY <1>1, <1>4, <1>7, <1>8, Elsewhere
<1>9. Bodies(r)' = Bodies(r) + (IF t = "body" THEN 1 ELSE 0)
  BY <1>1, <1>4, <1>5 DEF Bodies
<1>10. Untouched(r)' /\ InTable(r)' /\ OkIsWhole(r)'
  BY <1>1, <1>6 DEF StreamInv, Untouched, InTable, OkIsWhole
<1>11. Credits(r)' /\ Whole(r)'
  BY <1>1, <1>5, <1>6, <1>9 DEF StreamInv, Credits, Whole, Live, Open
<1>12. EndIsLast(r)'
  BY <1>1, <1>3, <1>4, <1>6 DEF StreamInv, EndIsLast
<1>13. StartIsFirst(r)'
  BY <1>1, <1>3, <1>4, <1>6 DEF StreamInv, StartIsFirst, Live, Open
<1> QED
  BY <1>7, <1>8, <1>10, <1>11, <1>12, <1>13 DEF IInv, StreamInv

\* A cancelled runner stops without a word.
LEMMA RunnerStopsStep ==
  ASSUME IInv, NEW r \in Streams, RunnerStops(r)
  PROVE  IInv'
<1>1. /\ TypeOK /\ StreamInv(r) /\ runner[r] = "cancelled" /\ runner' = [runner EXCEPT ![r] = "done"]
      /\ UNCHANGED <<closing, notify, table, pump, started, written, result, resp, sent, credit, net, hand, reading, quiet, up>>
  BY DEF IInv, RunnerStops, tunVars, pumpVars, readVars
<1>2. TypeOK' /\ runner'[r] = "done"
  BY <1>1 DEF TypeOK
<1>3. ASSUME NEW s \in Streams, s # r PROVE StreamInv(s)'
  BY <1>1, <1>3, Elsewhere DEF TypeOK
<1>4. StreamInv(r)'
  <2>1. Untouched(r)' /\ InTable(r)' /\ OkIsWhole(r)' /\ EndIsLast(r)' /\ StartIsFirst(r)'
    BY <1>1, <1>2 DEF StreamInv, Untouched, InTable, OkIsWhole, EndIsLast, StartIsFirst, Live, Open
  <2>2. Credits(r)' /\ Whole(r)'
    BY <1>1 DEF StreamInv, Credits, Whole, Bodies, Live, Open
  <2> QED
    BY <2>1, <2>2 DEF StreamInv
<1> QED
  BY <1>2, <1>3, <1>4 DEF IInv

(***************************************************************************)
(* The read loop.                                                          *)
(***************************************************************************)
\* A frame is read from the connection, for a stream that is there or not.
LEMMA ReadFrameStep ==
  ASSUME IInv, ReadFrame
  PROVE  IInv'
<1> DEFINE h == Head(net)
<1>1. /\ TypeOK /\ hand = NoFrame /\ Open /\ net # <<>> /\ net' = Tail(net)
      /\ quiet' = 0 \/ quiet' = quiet
      /\ hand' = (IF h # Pong /\ h.st \in table THEN h ELSE NoFrame)
      /\ UNCHANGED <<closing, notify, table, pump, started, written, result, resp, runner, sent, credit, reading, up>>
      /\ {"start", "body", "end", "error"} = Types
  BY DEF IInv, ReadFrame, tunVars, pumpVars, runVars, Open, Types
<1>2. net \in Seq(Frames \cup {Pong}) /\ MaxQuiet \in Nat
  BY <1>1, ConstantsAssumption DEF TypeOK
<1>3. h \in Frames \cup {Pong} /\ net' \in Seq(Frames \cup {Pong})
  BY <1>1, <1>2, HeadTailProperties
<1>4. TypeOK'
  <2>1. quiet' \in 0 .. MaxQuiet
    <3>1. quiet \in 0 .. MaxQuiet
      BY <1>1 DEF TypeOK
    <3> QED
      BY <1>1, <1>2, <3>1
  <2>2. hand' = h \/ hand' = NoFrame
    BY <1>1
  <2>3. hand' = h => h # Pong \/ h = NoFrame
    BY <1>1
  <2>4. hand' \in Frames \cup {NoFrame}
    BY <1>3, <2>2, <2>3
  <2> QED
    BY <1>1, <1>3, <2>1, <2>4 DEF TypeOK
<1>5. ASSUME NEW s \in Streams PROVE StreamInv(s)'
  <2>1. StreamInv(s)
    BY DEF IInv
  <2>2. /\ \A t \in Types : Has(net, Frame(t, s)) <=> h = Frame(t, s) \/ Has(net', Frame(t, s))
        /\ After(net, Frame("end", s), Frame("body", s)) <=>
             After(net', Frame("end", s), Frame("body", s)) \/ (h = Frame("end", s) /\ Has(net', Frame("body", s)))
        /\ Led(net, Frame("start", s), Frame("end", s)) <=>
             h # Frame("end", s) /\ (h = Frame("start", s) \/ Led(net', Frame("start", s), Frame("end", s)))
    <3>1. ASSUME NEW t \in Types PROVE Has(net, Frame(t, s)) <=> h = Frame(t, s) \/ Has(net', Frame(t, s))
      BY <1>1, <1>2, Taken
    <3>2. /\ After(net, Frame("end", s), Frame("body", s)) <=>
               After(net', Frame("end", s), Frame("body", s)) \/ (h = Frame("end", s) /\ Has(net', Frame("body", s)))
          /\ Led(net, Frame("start", s), Frame("end", s)) <=>
               h # Frame("end", s) /\ (h = Frame("start", s) \/ Led(net', Frame("start", s), Frame("end", s)))
      BY <1>1, <1>2, Taken
    <3> QED
      BY <3>1, <3>2
  <2>3. /\ Count(net, Frame("body", s)) = Count(net', Frame("body", s)) + (IF h = Frame("body", s) THEN 1 ELSE 0)
        /\ Count(net', Frame("body", s)) \in Nat /\ Count(net, Frame("body", s)) \in Nat
    BY <1>1, <1>2, <1>3, CountTaken, CountIsNat
  <2>4. /\ \A t \in Types : hand # Frame(t, s)
        /\ \A t, u \in Types : Frame(t, s) = Frame(u, s) => t = u
        /\ \A t \in Types : h = Frame(t, s) => h # Pong /\ h.st = s
    BY <1>1, FrameIs
  <2>5. /\ \A t \in Types : hand' = Frame(t, s) => h = Frame(t, s)
        /\ s \in table => \A t \in Types : h = Frame(t, s) => hand' = Frame(t, s)
    BY <1>1, <2>4, FrameIs
  <2> HIDE DEF h
  <2>6. Live(s) => s \in table
    BY <1>1, <2>1 DEF StreamInv, InTable, Live, Open
  <2>7. /\ Bodies(s)' \in Nat /\ Bodies(s) \in Nat /\ Bodies(s)' =< Bodies(s)
        /\ s \in table => Bodies(s)' = Bodies(s)
        /\ sent[s] \in Nat /\ written[s] \in Nat /\ credit[s] \in Nat /\ Window \in Nat
    <3>1. /\ Count(resp[s], "body") \in Nat /\ sent[s] \in Nat /\ written[s] \in Nat /\ credit[s] \in Nat
          /\ Window \in Nat
      BY <1>1, StreamTypes
    <3> DEFINE b == Frame("body", s)
    <3>2. hand # b /\ (hand' = b => h = b) /\ (s \in table => (h = b => hand' = b))
      BY <1>1, <2>4, <2>5
    <3> HIDE DEF b
    <3>3. Bodies(s) = Count(net, b) + Count(resp[s], "body") + (IF pump[s] = "write" THEN 1 ELSE 0)
      BY <2>3, <3>1, <3>2 DEF Bodies, b
    <3>4. Bodies(s)' = Count(net', b) + (IF hand' = b THEN 1 ELSE 0) + Count(resp[s], "body")
                         + (IF pump[s] = "write" THEN 1 ELSE 0)
      BY <1>1 DEF Bodies, b
    <3>5. /\ Count(net, b) = Count(net', b) + (IF h = b THEN 1 ELSE 0)
          /\ Count(net, b) \in Nat /\ Count(net', b) \in Nat
      BY <2>3 DEF b
    <3> QED
      BY <3>1, <3>2, <3>3, <3>4, <3>5
  <2>8. Untouched(s)' /\ InTable(s)' /\ OkIsWhole(s)'
    BY <1>1, <2>1, <2>2, <2>5 DEF StreamInv, Untouched, InTable, OkIsWhole
  <2>9. Credits(s)' /\ Whole(s)'
    BY <1>1, <2>1, <2>6, <2>7 DEF StreamInv, Credits, Whole, Live, Open
  <2>10. EndIsLast(s)'
    BY <1>1, <2>1, <2>2, <2>4, <2>5 DEF StreamInv, EndIsLast
  <2>11. StartIsFirst(s)'
    BY <1>1, <2>1, <2>2, <2>4, <2>5, <2>6 DEF StreamInv, StartIsFirst, Live, Open
  <2> QED
    BY <2>8, <2>9, <2>10, <2>11 DEF StreamInv
<1> QED
  BY <1>4, <1>5 DEF IInv
\* A frame at the end of a channel.
LEMMA ChannelGets ==
  ASSUME NEW q \in Seq(Types), NEW t \in Types, NEW p, p = Append(q, t), NEW n \in Nat, Len(q) < n
  PROVE  /\ p \in Seq(Types) /\ Len(p) =< n
         /\ Count(p, "body") \in Nat /\ Count(q, "body") \in Nat
         /\ Count(p, "body") = Count(q, "body") + (IF t = "body" THEN 1 ELSE 0)
         /\ \A u \in Types : Has(p, u) <=> Has(q, u) \/ t = u
         /\ After(p, "end", "body") <=> After(q, "end", "body") \/ (Has(q, "end") /\ t = "body")
         /\ Led(p, "start", "end") <=> Led(q, "start", "end") /\ (t = "end" => Has(q, "start"))
<1>1. p \in Seq(Types) /\ Len(p) = Len(q) + 1 /\ Len(q) \in Nat
  BY AppendProperties, LenProperties
<1>2. Count(p, "body") = Count(q, "body") + (IF t = "body" THEN 1 ELSE 0)
  BY CountAppended
<1>3. Count(p, "body") \in Nat /\ Count(q, "body") \in Nat
  BY <1>1, CountIsNat
<1>4. \A u \in Types : Has(p, u) <=> Has(q, u) \/ t = u
  BY Appended
<1>5. After(p, "end", "body") <=> After(q, "end", "body") \/ (Has(q, "end") /\ t = "body")
  BY Appended
<1>6. Led(p, "start", "end") <=> Led(q, "start", "end") /\ (t = "end" => Has(q, "start"))
  BY Appended
<1>7. Len(p) =< n
  BY <1>1
<1> QED
  BY <1>1, <1>2, <1>3, <1>4, <1>5, <1>6, <1>7

\* dispatch finds room in the channel, or gives up as the tunnel is closed:
\* then nothing is read any more, so no later frame gets past the lost one.
LEMMA DeliverStep ==
  ASSUME IInv, Deliver
  PROVE  IInv'
<1>1. /\ TypeOK /\ hand # NoFrame /\ hand' = NoFrame
      /\ UNCHANGED <<closing, notify, table, pump, started, written, result, runner, sent, credit, net, reading, quiet, up>>
      /\ {"start", "body", "end", "error"} = Types
  BY DEF IInv, Deliver, tunVars, pumpVars, runVars, Types
<1>2. hand \in Frames
  BY <1>1 DEF TypeOK
<1>3. PICK r \in Streams, t \in Types : hand = Frame(t, r) /\ hand.st = r /\ hand.type = t
  BY <1>2 DEF Frames, Frame
<1>4. \/ Len(resp[r]) < Cap /\ resp' = [resp EXCEPT ![r] = Append(resp[r], t)]
      \/ ~Open /\ resp' = resp
  BY <1>3 DEF Deliver, Room, GivesUp, Open
<1>5. /\ resp[r] \in Seq(Types) /\ resp \in [Streams -> Seq(Types)] /\ Cap \in Nat
      /\ Count(net, Frame("body", r)) \in Nat /\ Count(resp[r], "body") \in Nat /\ Bodies(r) \in Nat
      /\ sent[r] \in Nat /\ written[r] \in Nat /\ credit[r] \in Nat /\ Window \in Nat
      /\ \A s \in Streams : Len(resp[s]) =< Cap
  BY <1>1, StreamTypes DEF TypeOK
<1>6. /\ \A u \in Types : (hand = Frame(u, r) <=> t = u) /\ hand' # Frame(u, r)
      /\ \A s \in Streams \ {r}, u \in Types : hand # Frame(u, s) /\ hand' # Frame(u, s)
  BY <1>1, <1>3, FrameIs
<1>7. ASSUME NEW s \in Streams, s # r PROVE StreamInv(s)'
  <2>1. resp'[s] = resp[s]
    BY <1>4, <1>5, <1>7
  <2>2. \A u \in Types : hand' = Frame(u, s) <=> hand = Frame(u, s)
    BY <1>6, <1>7
  <2> QED
    BY <1>1, <2>1, <2>2, Elsewhere
<1>8. StreamInv(r)
  BY DEF IInv
<1>9. CASE Len(resp[r]) < Cap /\ resp' = [resp EXCEPT ![r] = Append(resp[r], t)]
  <2>1. resp'[r] = Append(resp[r], t)
    BY <1>5, <1>9
  <2>2. /\ resp'[r] \in Seq(Types) /\ Len(resp'[r]) =< Cap
        /\ Count(resp'[r], "body") \in Nat
        /\ Count(resp'[r], "body") = Count(resp[r], "body") + (IF t = "body" THEN 1 ELSE 0)
        /\ \A u \in Types : Has(resp'[r], u) <=> Has(resp[r], u) \/ t = u
        /\ After(resp'[r], "end", "body") <=> After(resp[r], "end", "body") \/ (Has(resp[r], "end") /\ t = "body")
        /\ Led(resp'[r], "start", "end") <=> Led(resp[r], "start", "end") /\ (t = "end" => Has(resp[r], "start"))
    BY <1>5, <1>9, <2>1, ChannelGets
  <2>3. TypeOK'
    <3>1. resp' \in [Streams -> Seq(Types)] /\ \A s \in Streams : Len(resp'[s]) =< Cap
      BY <1>5, <1>9, <2>2
    <3> QED
      BY <1>1, <3>1 DEF TypeOK
  <2>4. Bodies(r)' = Bodies(r)
    <3>1. hand = Frame("body", r) <=> t = "body"
      BY <1>1, <1>6
    <3>2. hand' # Frame("body", r)
      BY <1>1, <1>6
    <3>3. Bodies(r) = Count(net, Frame("body", r)) + (IF t = "body" THEN 1 ELSE 0) + Count(resp[r], "body")
                        + (IF pump[r] = "write" THEN 1 ELSE 0)
      BY <3>1 DEF Bodies
    <3>4. Bodies(r)' = Count(net, Frame("body", r)) + 0 + Count(resp'[r], "body")
                        + (IF pump[r] = "write" THEN 1 ELSE 0)
      BY <1>1, <3>2 DEF Bodies
    <3> QED
      BY <1>5, <2>2, <3>3, <3>4
  <2>5. Untouched(r)' /\ InTable(r)' /\ OkIsWhole(r)'
    BY <1>1, <1>6, <1>8, <2>2 DEF StreamInv, Untouched, InTable, OkIsWhole
  <2>6. Credits(r)' /\ Whole(r)'
    BY <1>1, <1>6, <1>8, <2>2, <2>4 DEF StreamInv, Credits, Whole, Live, Open
  <2>7. EndIsLast(r)'
    BY <1>1, <1>6, <1>8, <2>2 DEF StreamInv, EndIsLast
  <2>8. StartIsFirst(r)'
    BY <1>1, <1>6, <1>8, <2>2 DEF StreamInv, StartIsFirst, Live, Open
  <2> QED
    BY <1>7, <2>3, <2>5, <2>6, <2>7, <2>8 DEF IInv, StreamInv
<1>10. CASE ~Open /\ resp' = resp
  <2>1. TypeOK'
    BY <1>1, <1>10 DEF TypeOK
  <2>2. /\ Bodies(r)' \in Nat /\ Bodies(r)' =< Bodies(r)
        /\ t # "body" => Bodies(r)' = Bodies(r)
    <3>1. hand = Frame("body", r) <=> t = "body"
      BY <1>1, <1>6
    <3>2. hand' # Frame("body", r)
      BY <1>1, <1>6
    <3>3. Bodies(r) = Count(net, Frame("body", r)) + (IF t = "body" THEN 1 ELSE 0) + Count(resp[r], "body")
                        + (IF pump[r] = "write" THEN 1 ELSE 0)
      BY <3>1 DEF Bodies
    <3>4. Bodies(r)' = Count(net, Frame("body", r)) + 0 + Count(resp[r], "body")
                        + (IF pump[r] = "write" THEN 1 ELSE 0)
      BY <1>1, <1>10, <3>2 DEF Bodies
    <3> QED
      BY <1>5, <3>3, <3>4
  <2>3. Untouched(r)' /\ InTable(r)' /\ OkIsWhole(r)' /\ EndIsLast(r)' /\ StartIsFirst(r)'
    BY <1>1, <1>6, <1>8, <1>10 DEF StreamInv, Untouched, InTable, OkIsWhole, EndIsLast, StartIsFirst, Live, Open
  <2>4. Has(resp[r], "end") => t # "body"
    BY <1>1, <1>6, <1>8 DEF StreamInv, EndIsLast
  <2>5. Credits(r)'
    BY <1>1, <1>5, <1>8, <1>10, <2>2 DEF StreamInv, Credits, Open
  <2>6. Whole(r)'
    <3>1. ~Open' /\ hand' # Frame("end", r) /\ UNCHANGED <<resp, pump, written, sent>>
      BY <1>1, <1>6, <1>10 DEF Open
    <3>2. Live(r) /\ Has(resp[r], "end") => Bodies(r)' = Bodies(r) /\ written[r] + Bodies(r) = sent[r]
      BY <1>8, <2>2, <2>4 DEF StreamInv, Whole
    <3>3. written[r] + Bodies(r)' =< sent[r]
      BY <1>5, <1>8, <2>2 DEF StreamInv, Whole
    <3> QED
      BY <3>1, <3>2, <3>3 DEF Whole, Live
  <2> QED
    BY <1>7, <2>1, <2>3, <2>5, <2>6 DEF IInv, StreamInv
<1> QED
  BY <1>4, <1>9, <1>10

\* Close tells a stream, if its channel has room.
LEMMA NotifyStep ==
  ASSUME IInv, NEW r \in Streams, Notify(r)
  PROVE  IInv'
<1>1. /\ TypeOK /\ StreamInv(r) /\ notify' = notify \ {r}
      /\ resp' = resp \/ (Len(resp[r]) < Cap /\ resp' = [resp EXCEPT ![r] = Append(resp[r], "error")])
      /\ UNCHANGED <<closing, table, pump, started, written, result, runner, sent, credit, net, hand, reading, quiet, up>>
      /\ {"start", "body", "end", "error"} = Types
  BY DEF IInv, Notify, Room, pumpVars, runVars, readVars, Types
<1>2. /\ resp[r] \in Seq(Types) /\ resp \in [Streams -> Seq(Types)] /\ Cap \in Nat
      /\ Count(resp[r], "body") \in Nat /\ \A s \in Streams : Len(resp[s]) =< Cap
  BY <1>1, StreamTypes DEF TypeOK
<1>3. ASSUME NEW s \in Streams, s # r \/ resp' = resp PROVE StreamInv(s)'
  <2>1. resp'[s] = resp[s]
    BY <1>1, <1>2, <1>3
  <2> QED
    BY <1>1, <2>1, Elsewhere
<1>4. CASE resp' = resp
  <2>1. TypeOK'
    BY <1>1, <1>4 DEF TypeOK
  <2> QED
    BY <1>3, <1>4, <2>1 DEF IInv
<1>5. CASE Len(resp[r]) < Cap /\ resp' = [resp EXCEPT ![r] = Append(resp[r], "error")]
  <2>1. resp'[r] = Append(resp[r], "error") /\ "error" \in Types
    BY <1>1, <1>2, <1>5
  <2>2. /\ resp'[r] \in Seq(Types) /\ Len(resp'[r]) =< Cap
        /\ Count(resp'[r], "body") = Count(resp[r], "body") + 0
        /\ \A u \in Types : Has(resp'[r], u) <=> Has(resp[r], u) \/ u = "error"
        /\ After(resp'[r], "end", "body") <=> After(resp[r], "end", "body")
        /\ Led(resp'[r], "start", "end") <=> Led(resp[r], "start", "end")
    <3> DEFINE t == "error"
    <3>1. t \in Types /\ t # "body" /\ t # "end" /\ resp'[r] = Append(resp[r], t)
      BY <2>1
    <3> HIDE DEF t
    <3>2. /\ resp'[r] \in Seq(Types) /\ Len(resp'[r]) =< Cap
          /\ Count(resp'[r], "body") = Count(resp[r], "body") + (IF t = "body" THEN 1 ELSE 0)
          /\ \A u \in Types : Has(resp'[r], u) <=> Has(resp[r], u) \/ t = u
          /\ After(resp'[r], "end", "body") <=> After(resp[r], "end", "body") \/ (Has(resp[r], "end") /\ t = "body")
          /\ Led(resp'[r], "start", "end") <=> Led(resp[r], "start", "end") /\ (t = "end" => Has(resp[r], "start"))
      BY <1>2, <1>5, <3>1, ChannelGets
    <3>3. Count(resp'[r], "body") = Count(resp[r], "body") + 0
      BY <3>1, <3>2
    <3>4. /\ After(resp'[r], "end", "body") <=> After(resp[r], "end", "body")
          /\ Led(resp'[r], "start", "end") <=> Led(resp[r], "start", "end")
      BY <3>1, <3>2
    <3> QED
      BY <3>2, <3>3, <3>4 DEF t
  <2>3. TypeOK'
    <3>1. resp' \in [Streams -> Seq(Types)] /\ \A s \in Streams : Len(resp'[s]) =< Cap
      BY <1>2, <1>5, <2>2
    <3> QED
      BY <1>1, <3>1 DEF TypeOK
  <2>4. Bodies(r)' = Bodies(r)
    <3>1. Count(resp'[r], "body") = Count(resp[r], "body")
      BY <1>2, <2>2
    <3> QED
      BY <1>1, <3>1 DEF Bodies
  <2>5. Untouched(r)' /\ InTable(r)' /\ OkIsWhole(r)' /\ EndIsLast(r)' /\ StartIsFirst(r)'
    BY <1>1, <2>2 DEF StreamInv, Untouched, InTable, OkIsWhole, EndIsLast, StartIsFirst, Live, Open
  <2>6. Credits(r)' /\ Whole(r)'
    BY <1>1, <2>2, <2>4 DEF StreamInv, Credits, Whole, Live, Open
  <2> QED
    BY <1>3, <2>3, <2>5, <2>6 DEF IInv, StreamInv
<1> QED
  BY <1>1, <1>4, <1>5

(***************************************************************************)
(* The tunnel as a whole.                                                  *)
(***************************************************************************)
\* Closing the tunnel, pings and the end of the read loop touch no stream.
LEMMA TunnelStep ==
  ASSUME IInv, ReadError \/ Ping \/ TakeOver \/ Sweep \/ RunnerDies \/ UNCHANGED vars
  PROVE  IInv'
<1>1. TypeOK /\ MaxQuiet \in Nat
  BY ConstantsAssumption DEF IInv
<1>2. /\ UNCHANGED <<pump, started, written, result, resp, runner, sent, credit, hand>>
      /\ up' \in BOOLEAN /\ reading' \in BOOLEAN
      /\ closing' = closing \/ (closing = "open" /\ closing' = "closed") \/ (closing = "closed" /\ closing' = "swept")
      /\ closing' = "swept" \/ table' = table
      /\ table' \subseteq Streams /\ notify' \subseteq Streams
      /\ net' = net \/ Send(Pong)
      /\ quiet' = quiet \/ (quiet # MaxQuiet /\ quiet' = quiet + 1)
  <2>1. CASE ReadError
    BY <1>1, <2>1 DEF ReadError, MarkClosed, pumpVars, runVars, TypeOK
  <2>2. CASE Ping
    BY <1>1, <2>2 DEF Ping, MarkClosed, Silent, pumpVars, runVars, readVars, TypeOK
  <2>3. CASE TakeOver
    BY <1>1, <2>3 DEF TakeOver, MarkClosed, pumpVars, runVars, readVars, TypeOK
  <2>4. CASE Sweep
    BY <1>1, <2>4 DEF Sweep, pumpVars, runVars, readVars, TypeOK
  <2>5. CASE RunnerDies
    BY <1>1, <2>5 DEF RunnerDies, tunVars, pumpVars, runVars, readVars, TypeOK
  <2>6. CASE UNCHANGED vars
    BY <1>1, <2>6 DEF vars, tunVars, pumpVars, runVars, readVars, TypeOK
  <2> QED
    BY <2>1, <2>2, <2>3, <2>4, <2>5, <2>6
<1>3. Pong \in Frames \cup {Pong} /\ \A s \in Streams, t \in Types : Pong # Frame(t, s)
  BY FrameIs
<1>4. TypeOK'
  <2>1. net' \in Seq(Frames \cup {Pong})
    <3>1. net \in Seq(Frames \cup {Pong})
      BY <1>1 DEF TypeOK
    <3> QED
      BY <1>2, <1>3, <3>1, AppendProperties DEF Send
  <2>2. quiet' \in 0 .. MaxQuiet
    <3>1. quiet \in 0 .. MaxQuiet
      BY <1>1 DEF TypeOK
    <3> QED
      BY <1>1, <1>2, <3>1
  <2> QED
    BY <1>1, <1>2, <2>1, <2>2 DEF TypeOK
<1>5. ASSUME NEW s \in Streams PROVE StreamInv(s)'
  <2>1. net' = net \/ \E f \in Frames \cup {Pong} : net' = Append(net, f) /\ \A t \in Types : f # Frame(t, s)
    BY <1>2, <1>3 DEF Send
  <2> QED
    BY <1>2, <2>1, Elsewhere
<1> QED
  BY <1>4, <1>5 DEF IInv

\* A tunnel that was just opened.
LEMMA InitHolds == Init => IInv
<1> SUFFICES ASSUME Init PROVE IInv
  OBVIOUS
<1>1. /\ \A S : <<>> \in Seq(S)
      /\ Len(<<>>) = 0 /\ DOMAIN <<>> = {}
  OBVIOUS
<1>2. TypeOK
  BY <1>1, ConstantsAssumption DEF Init, TypeOK
<1>3. ASSUME NEW s \in Streams PROVE StreamInv(s)
  <2>1. \A x, y : ~Has(<<>>, x) /\ ~After(<<>>, x, y) /\ Led(<<>>, x, y)
    BY <1>1 DEF Has, After, Led
  <2>2. \A t \in Types : hand # Frame(t, s)
    BY FrameIs DEF Init
  <2>3. Bodies(s) = 0
    <3>1. Count(<<>>, "body") = 0 /\ Count(<<>>, Frame("body", s)) = 0
      BY <1>1, <2>1, CountIsNat
    <3>2. "body" \in Types
      BY DEF Types
    <3> QED
      BY <2>2, <3>1, <3>2 DEF Init, Bodies
  <2>4. Window \in Nat
    BY ConstantsAssumption
  <2>5. /\ pump[s] = "idle" /\ ~started[s] /\ written[s] = 0 /\ result[s] = "none" /\ resp[s] = <<>>
        /\ runner[s] = "none" /\ sent[s] = 0 /\ credit[s] = Window /\ net = <<>>
    BY DEF Init
  <2>6. Untouched(s) /\ InTable(s) /\ OkIsWhole(s)
    BY <2>1, <2>2, <2>5 DEF Untouched, InTable, OkIsWhole
  <2>7. Credits(s) /\ Whole(s)
    BY <2>3, <2>4, <2>5 DEF Credits, Whole, Live
  <2>8. EndIsLast(s) /\ StartIsFirst(s)
    <3>1. "end" \in Types
      BY DEF Types
    <3> QED
      BY <2>1, <2>2, <2>5, <3>1 DEF EndIsLast, StartIsFirst, Live
  <2> QED
    BY <2>6, <2>7, <2>8 DEF StreamInv
<1> QED
  BY <1>2, <1>3 DEF IInv

\* The inductive invariant.
LEMMA Invariant == Spec => []IInv
<1>1. IInv /\ [Next]_vars => IInv'
  BY OpenStreamStep, WriteReqStartStep, PumpStep, FlushedStep, LeaveStep, RunnerSendsStep, RunnerStopsStep,
     NotifyStep, ReadFrameStep, DeliverStep, TunnelStep DEF Next, Request
<1> QED
  BY <1>1, InitHolds, PTL DEF Spec

(***************************************************************************)
(* What follows for the requests.                                          *)
(***************************************************************************)
\* What is buffered for a response never exceeds its window, and while the
\* request lives no credit is lost: whatever is dropped or delivered late.
THEOREM TunnelInvariant == Spec => []TunnelInv
<1>1. IInv => TunnelInv
  BY DEF IInv, StreamInv, Credits, TunnelInv, CreditsConserved, Live, Open
<1> QED
  BY <1>1, Invariant, PTL

\* A response that the browser takes for complete is complete, though frames
\* are dropped when the tunnel closes and RESP_ERROR is put where there is room.
THEOREM OkMeansComplete == Spec => []OkIsComplete
<1>1. IInv => OkIsComplete
  BY DEF IInv, StreamInv, OkIsWhole, OkIsComplete
<1> QED
  BY <1>1, Invariant, PTL
-----------------------------------------------------------------------------
(***************************************************************************)
(* The credit window of one direction of a stream: CreditWindow, which has *)
(* variables and constants of its own.                                     *)
(***************************************************************************)

(***************************************************************************)
(* Credits.                                                                *)
(***************************************************************************)
\* One turn of acquire's loop moves credits from the window into flight, and
\* only those the window has.
LEMMA TurnMovesCredits ==
    ASSUME WindowTypes, NEW s \in Senders, Turn(s)
    PROVE  /\ avail' \in Nat /\ flight' \in Nat
           /\ avail' + flight' = avail + flight
           /\ pc' \in [Senders -> {"idle", "lock", "prepare", "wait", "woken", "ok", "error"}]
           /\ helper' \in [Senders -> {"none", "armed", "exited"}]
<1> USE DEF WindowTypes, Return
<1>1. want[s] \in Nat
  BY WindowAssumption
<1>2. CASE Return(s, "ok") /\ Enough(s) /\ avail' = avail - want[s] /\ flight' = flight + want[s]
  BY <1>1, <1>2 DEF Enough
<1>3. CASE UNCHANGED <<avail, flight>>
  BY <1>3 DEF Turn
<1> QED
  BY <1>2, <1>3 DEF Turn

\* newCreditWindow starts with its credits available.
LEMMA WindowInit == NewWindow => WindowInv
<1> SUFFICES ASSUME NewWindow PROVE WindowTypes /\ WindowBounds
  BY DEF WindowInv
<1>1. WindowTypes
  BY WindowAssumption DEF NewWindow, WindowTypes
<1>2. WindowBounds
  BY WindowAssumption DEF NewWindow, WindowBounds
<1> QED
  BY <1>1, <1>2

\* acquire, add and close, their wakeups and cancellation conserve the credits.
LEMMA WindowStep == WindowInv /\ [WindowNext]_windowVars => WindowInv'
<1> SUFFICES ASSUME WindowTypes, WindowBounds, [WindowNext]_windowVars PROVE WindowTypes' /\ WindowBounds'
  BY DEF WindowInv
<1> USE DEF WindowBounds
<1>1. ASSUME NEW s \in Senders, Call(s) PROVE WindowTypes' /\ WindowBounds'
  BY <1>1 DEF Call, WindowTypes
<1>2. ASSUME NEW s \in Senders, Enter(s) PROVE WindowTypes' /\ WindowBounds'
  <2>1. Turn(s)
    BY <1>2 DEF Enter
  <2> QED
    BY <1>2, <2>1, TurnMovesCredits DEF Enter, WindowTypes
<1>3. ASSUME NEW s \in Senders, Wait(s) PROVE WindowTypes' /\ WindowBounds'
  BY <1>3 DEF Wait, WindowTypes
<1>4. ASSUME NEW s \in Senders, Wake(s) PROVE WindowTypes' /\ WindowBounds'
  <2>1. CASE s \in cancelled
    BY <1>4, <2>1 DEF Wake, WindowTypes
  <2>2. CASE s \notin cancelled
    <3>1. Turn(s)
      BY <1>4, <2>2 DEF Wake
    <3> QED
      BY <1>4, <3>1, TurnMovesCredits DEF Wake, WindowTypes
  <2> QED
    BY <2>1, <2>2
<1>5. ASSUME NEW s \in Senders, HelperFires(s) PROVE WindowTypes' /\ WindowBounds'
  BY <1>5 DEF HelperFires, Broadcast, WindowTypes
<1>6. ASSUME NEW s \in Senders, Cancel(s) PROVE WindowTypes' /\ WindowBounds'
  BY <1>6 DEF Cancel, WindowTypes
<1>7. CASE Add
  BY <1>7, WindowAssumption DEF Add, Credit, WakeDue, WindowTypes
<1>8. CASE Close
  BY <1>8 DEF Close, WakeDue, WindowTypes
<1>9. CASE WakeAll
  BY <1>9 DEF WakeAll, Broadcast, WindowTypes
<1>10. CASE UNCHANGED windowVars
  BY <1>10 DEF windowVars, WindowTypes
<1> QED
  BY <1>1, <1>2, <1>3, <1>4, <1>5, <1>6, <1>7, <1>8, <1>9, <1>10 DEF WindowNext, Acquire

\* What a stream may send and what is under way add up to its window, always:
\* acquire and add neither lose nor make credits.
THEOREM WindowInvariant == WindowSpec => []WindowInv
<1>1. NewWindow => WindowInv
  BY WindowInit
<1>2. WindowInv /\ [WindowNext]_windowVars => WindowInv'
  BY WindowStep
<1> QED
  BY <1>1, <1>2, PTL DEF WindowSpec

(***************************************************************************)
(* Wakeups.                                                                *)
(***************************************************************************)
\* Between its check and cond.Wait a call holds the mutex, so what it saw of
\* the window is still so.
CheckIsFresh == \A s \in Senders : pc[s] = "prepare" => ~closed /\ avail < want[s]

WakeupInv == WindowInv /\ CheckIsFresh /\ NobodyForgotten

\* In one turn of the loop a call that does not get its credits is about to
\* wait, and the window has fewer credits after than before.
LEMMA TurnKeepsWakeups ==
    ASSUME WakeupInv, NEW s \in Senders, Turn(s), Unlocked,
           pc[s] \in {"lock", "woken"}, UNCHANGED <<closed, want, wakeups>>
    PROVE  CheckIsFresh' /\ NobodyForgotten'
<1> USE DEF WakeupInv, WindowInv, WindowTypes
<1>1. want \in [Senders -> Nat]
  BY WindowAssumption
<1>2. avail' \in Nat /\ avail' <= avail
  BY <1>1 DEF Turn, Enough
<1>3. \A t \in Senders : t # s => pc'[t] = pc[t]
  BY DEF Turn, Return
<1>4. pc'[s] \in {"ok", "error"} \/ (pc'[s] = "prepare" /\ ~closed' /\ avail' < want'[s])
  BY <1>1 DEF Turn, Return, Enough
<1>5. CheckIsFresh'
  BY <1>3, <1>4 DEF CheckIsFresh, Unlocked
<1>6. NobodyForgotten'
  BY <1>1, <1>2, <1>3, <1>4 DEF NobodyForgotten
<1> QED
  BY <1>5, <1>6

\* Whoever waits beside credits that are enough is about to be woken: the
\* changes of the window are made with the mutex held and followed by a
\* Broadcast, and a call waits only after it has looked.
LEMMA WakeupStep == WakeupInv /\ [WindowNext]_windowVars => WakeupInv'
<1> SUFFICES ASSUME WakeupInv, [WindowNext]_windowVars PROVE CheckIsFresh' /\ NobodyForgotten'
  BY WindowStep DEF WakeupInv
<1> USE DEF WakeupInv, WindowInv, WindowTypes
<1>0. avail \in Nat /\ want \in [Senders -> Nat]
  BY WindowAssumption
<1>1. ASSUME NEW s \in Senders, Call(s) \/ Cancel(s) PROVE CheckIsFresh' /\ NobodyForgotten'
  BY <1>1 DEF Call, Cancel, CheckIsFresh, NobodyForgotten
<1>2. ASSUME NEW s \in Senders, Enter(s) PROVE CheckIsFresh' /\ NobodyForgotten'
  BY <1>2, TurnKeepsWakeups DEF Enter
<1>3. ASSUME NEW s \in Senders, Wait(s) PROVE CheckIsFresh' /\ NobodyForgotten'
  BY <1>0, <1>3 DEF Wait, CheckIsFresh, NobodyForgotten
<1>4. ASSUME NEW s \in Senders, Wake(s) PROVE CheckIsFresh' /\ NobodyForgotten'
  <2>1. CASE s \in cancelled
    BY <1>4, <2>1 DEF Wake, CheckIsFresh, NobodyForgotten
  <2>2. CASE s \notin cancelled
    BY <1>4, <2>2, TurnKeepsWakeups DEF Wake
  <2> QED
    BY <2>1, <2>2
<1>5. ASSUME NEW s \in Senders, HelperFires(s) PROVE CheckIsFresh' /\ NobodyForgotten'
  BY <1>5 DEF HelperFires, Broadcast, CheckIsFresh, NobodyForgotten
<1>6. CASE Add \/ Close
  BY <1>6 DEF Add, Close, Unlocked, WakeDue, CheckIsFresh, NobodyForgotten
<1>7. CASE WakeAll
  BY <1>7 DEF WakeAll, Broadcast, CheckIsFresh, NobodyForgotten
<1>8. CASE UNCHANGED windowVars
  BY <1>8 DEF windowVars, CheckIsFresh, NobodyForgotten
<1> QED
  BY <1>1, <1>2, <1>3, <1>4, <1>5, <1>6, <1>7, <1>8 DEF WindowNext, Acquire

\* No wakeup is lost between add or close and the calls that wait, for any
\* number of them.
THEOREM NoWakeupIsLost == WindowSpec => []NobodyForgotten
<1>1. NewWindow => WakeupInv
  BY WindowInit DEF WakeupInv, NewWindow, CheckIsFresh, NobodyForgotten
<1>2. WakeupInv /\ [WindowNext]_windowVars => WakeupInv'
  BY WakeupStep
<1>3. WakeupInv => NobodyForgotten
  BY DEF WakeupInv
<1> QED
  BY <1>1, <1>2, <1>3, PTL DEF WindowSpec
=============================================================================
