---------------------------- MODULE NoLossProof ----------------------------
(***************************************************************************)
(* Reliable routing loses nothing silently, for every value of the         *)
(* constants.  ReliableRouteProof says in which order messages arrive; here *)
(* the order of the acknowledgements matters as well, and the queue must   *)
(* never fill: an acknowledgement that was overtaken names messages that a *)
(* restarted destination has not accepted, and a queue that lost its RESET *)
(* takes any acknowledgement of its front for an acceptance.               *)
(***************************************************************************)
EXTENDS ReliableRouteProof

-----------------------------------------------------------------------------
(* The inductive invariant. *)

(* Nothing stays in flight across a restart, a restart takes a second,
   acknowledgements keep their order, and the queue is long enough never to
   discard a message. *)
Calm == Drained /\ ~AckReorder /\ MaxSeq < MaxQueue

(* The RESET was taken and the destination still knows the source: what the
   acknowledgements in flight expect was accepted, has not yet been expected
   by those that left the queue, and grows from the oldest to the newest. *)
Kept(u, ac) ==
  BaseOf(u) >= 0 /\ lastReset # 0 =>
    /\ u.isReset
    /\ \A i \in 1..Len(ac) : ac[i].type # "PING" =>
         /\ ac[i].type # "SHUTDOWN"
         /\ BaseOf(u) <= ac[i].expect
         /\ ac[i].type = "RESET" => ac[i].seq = 0
         /\ IsData(ac[i]) => ac[i].seq # ac[i].expect + 1
         /\ \A j \in 1..i : ac[j].type # "PING" => ac[j].expect <= ac[i].expect

(* The destination forgot the source after the RESET was acknowledged. *)
Orphaned(u, sy, ac) ==
  BaseOf(u) >= 0 /\ lastReset = 0 =>
    /\ \A m \in sy : m.type # "RESET"
    /\ \A i \in 1..Len(ac) : ac[i].type \in {"PING", "SHUTDOWN"}

(* Nothing leaves the queue before it was accepted. *)
Balance(u) == BaseOf(u) <= Count

Careful(u, sy, ac) == Kept(u, ac) /\ Orphaned(u, sy, ac) /\ Balance(u)

IInv == OrderInv /\ (live => Careful(q, sync, acks))

LEMMA CalmIsTame == Calm => Drained /\ Tame
  BY DEF Calm, Tame

-----------------------------------------------------------------------------
(* Steps on the invariant's parts. *)

(* Losing messages, and the oldest acknowledgements, breaks nothing. *)
LEMMA LossKeepsCareful ==
  ASSUME NEW u, NEW sy, NEW sy2 \in SUBSET sy, NEW ac, NEW ac2, NEW k \in Nat,
         Len(ac) \in Nat, Len(ac2) \in Nat, Len(ac) = Len(ac2) + k,
         \A i \in 1..Len(ac2) : ac2[i] = ac[i + k],
         Careful(u, sy, ac)
  PROVE  Careful(u, sy2, ac2)
<1>1. \A i \in 1..Len(ac2) : i + k \in 1..Len(ac)
  OBVIOUS
<1>2. Orphaned(u, sy2, ac2) /\ Balance(u)
  BY <1>1 DEF Careful, Orphaned
<1>3. Kept(u, ac2)
  <2>1. \A i \in 1..Len(ac2) : \A j \in 1..i : j + k \in 1..(i + k) /\ ac2[j] = ac[j + k]
    OBVIOUS
  <2>2. SUFFICES ASSUME BaseOf(u) >= 0 /\ lastReset # 0
                 PROVE  Kept(u, ac2)
    BY DEF Kept
  <2>3. ASSUME NEW i \in 1..Len(ac2), ac2[i].type # "PING"
        PROVE  /\ ac2[i].type # "SHUTDOWN"
               /\ BaseOf(u) <= ac2[i].expect
               /\ ac2[i].type = "RESET" => ac2[i].seq = 0
               /\ IsData(ac2[i]) => ac2[i].seq # ac2[i].expect + 1
    BY <1>1, <2>2, <2>3 DEF Careful, Kept
  <2>4. ASSUME NEW i \in 1..Len(ac2), ac2[i].type # "PING",
               NEW j \in 1..i, ac2[j].type # "PING"
        PROVE  ac2[j].expect <= ac2[i].expect
    <3>1. /\ i + k \in 1..Len(ac) /\ j + k \in 1..(i + k)
          /\ ac2[j] = ac[j + k] /\ ac2[i] = ac[i + k]
      BY <1>1, <2>1
    <3>. QED BY <2>2, <2>4, <3>1, ZenonT(60) DEF Careful, Kept
  <2>. QED BY <2>2, <2>3, <2>4 DEF Careful, Kept
<1>. QED BY <1>2, <1>3 DEF Careful

(* A queue with the same front, and more in flight that is not a RESET. *)
LEMMA SameFrontCareful ==
  ASSUME NEW u, NEW r, NEW sy, NEW sy2, NEW ac, Careful(u, sy, ac),
         BaseOf(r) = BaseOf(u),
         lastReset # 0 /\ u.isReset => r.isReset,
         BaseOf(u) >= 0 => \A m \in sy2 : m.type = "RESET" => m \in sy
  PROVE  Careful(r, sy2, ac)
<1>1. Kept(r, ac)
  BY DEF Careful, Kept
<1>2. Orphaned(r, sy2, ac)
  BY DEF Careful, Orphaned
<1>. QED BY <1>1, <1>2 DEF Careful, Balance

(* A relation between the new queue and what the step leaves alone. *)
LEMMA CarefulNext ==
  ASSUME UNCHANGED <<lastReset, session, accepted>>, Careful(q', sync', acks')
  PROVE  Careful(q, sync, acks)'
<1>1. Kept(q, acks)'
  BY DEF Careful, Kept, BaseOf, IsData
<1>2. Orphaned(q, sync, acks)'
  BY DEF Careful, Orphaned, BaseOf
<1>3. Balance(q)'
  BY DEF Careful, Balance, BaseOf, Count
<1>. QED BY <1>1, <1>2, <1>3 DEF Careful

(* What Flush sends is no RESET. *)
LEMMA FlushKeepsCareful ==
  ASSUME TypeOK, session \in Sessions,
         NEW u \in Queue, Shaped(u, session), Within(u),
         NEW sy, NEW ac, Linked(u, sy, ac), Careful(u, sy, ac)
  PROVE  Careful(Flush(u), sy \cup FlushOut(u), ac)
<1>1. \A m \in FlushOut(u) : m.type # "RESET"
  BY FlushKeepsLinked
<1>2. BaseOf(Flush(u)) = BaseOf(u) /\ Flush(u).isReset = u.isReset
  BY FlushIs DEF BaseOf
<1>. DEFINE f == Flush(u)
            sy2 == sy \cup FlushOut(u)
<1>3. \A m \in sy2 : m.type = "RESET" => m \in sy
  BY <1>1
<1>4. BaseOf(f) = BaseOf(u) /\ (u.isReset => f.isReset)
  BY <1>2
<1>. HIDE DEF f, sy2
<1>5. Careful(f, sy2, ac)
  BY <1>3, <1>4, SameFrontCareful
<1>. QED BY <1>5 DEF f, sy2

-----------------------------------------------------------------------------
(* An acknowledgement that arrives. *)

(* In new mode the prefix that leaves the queue was accepted. *)
LEMMA EraseExpectedKeepsCareful ==
  ASSUME TypeOK, session \in Sessions,
         NEW v \in Queue, Shaped(v, session),
         NEW sy, NEW ac \in Seq(AckMsg), Careful(v, sy, ac),
         NEW a \in AckMsg, BaseOf(v) >= 0, lastReset # 0,
         BaseOf(v) <= a.expect, a.expect <= Count,
         \A i \in 1..Len(ac) : ac[i].type # "PING" => a.expect <= ac[i].expect
  PROVE  Careful(EraseExpected(v, a), sy, ac)
<1> DEFINE u == EraseExpected(v, a)
           n == ErasedPrefix(v, a.expect)
<1>1. /\ Count \in Nat /\ Len(v.msgs) \in Nat /\ BaseOf(v) \in Int /\ a.expect \in Nat
  BY Numbers DEF AckMsg
<1>2. /\ u.currSeq = v.currSeq /\ u.isReset = v.isReset
      /\ u.msgs = SubSeq(v.msgs, n + 1, Len(v.msgs))
  BY EraseExpectedIs
<1>3. n \in 0..Len(v.msgs) /\ \A i \in 1..n : v.msgs[i].seq <= a.expect
  BY <1>1, ErasedPrefixStops
<1>. HIDE DEF u, n
<1>4. BaseOf(v) + n <= a.expect
  <2>1. CASE n = 0
    BY <1>1, <2>1
  <2>2. CASE n > 0
    <3>1. v.msgs[n].seq <= a.expect /\ v.msgs[n].seq = BaseOf(v) + n
      BY <1>3, <2>2 DEF Shaped
    <3>. QED BY <3>1
  <2>. QED BY <1>3, <2>1, <2>2
<1>5. BaseOf(u) = BaseOf(v) + n
  BY <1>2, <1>3, TailShaped
<1>6. Balance(u)
  BY <1>1, <1>3, <1>4, <1>5 DEF Balance
<1>7. Orphaned(u, sy, ac)
  BY DEF Orphaned
<1>8. Kept(u, ac)
  <2>1. ASSUME NEW i \in 1..Len(ac), ac[i].type # "PING"
        PROVE  BaseOf(u) <= ac[i].expect
    <3>1. a.expect <= ac[i].expect
      BY <2>1
    <3>2. ac[i].expect \in Nat
      <4>1. ac[i] \in AckMsg
        BY ElementOfSeq
      <4>. QED BY <4>1 DEF AckMsg
    <3>. QED BY <1>1, <1>3, <1>4, <1>5, <3>1, <3>2
  <2>. QED BY <1>2, <2>1 DEF Careful, Kept
<1>. QED BY <1>6, <1>7, <1>8 DEF Careful, u

(* The oldest acknowledgement in flight, whatever it is. *)
LEMMA EraseKeepsCareful ==
  ASSUME Tame, TypeOK, session \in Sessions,
         NEW v \in Queue, Shaped(v, session),
         NEW sy, NEW ac \in Seq(AckMsg), ac # <<>>,
         Linked(v, sy, ac), Careful(v, sy, ac),
         NEW ac2 \in Seq(AckMsg), Len(ac) = Len(ac2) + 1,
         \A i \in 1..Len(ac2) : ac2[i] = ac[i + 1]
  PROVE  Careful(Erase(v, ac[1]), sy, ac2)
<1> DEFINE a == ac[1]
<1>1. /\ Len(ac) \in Nat /\ Len(ac2) \in Nat /\ 1 \in 1..Len(ac) /\ a \in AckMsg
      /\ BaseOf(v) \in Int /\ Count \in Nat /\ lastReset \in Nat
      /\ v.msgs \in Seq(SyncMsg) /\ Len(v.msgs) \in Nat
  BY LenProperties, EmptySeq, ElementOfSeq, Numbers
<1>2. Careful(v, sy, ac2)
  BY <1>1, LossKeepsCareful
<1>3. a.seq \in Nat /\ a.expect \in Nat
  BY <1>1 DEF AckMsg
<1>4. CASE a.type = "PING"
  BY <1>2, <1>4 DEF Erase
<1>5. CASE a.type # "PING" /\ BaseOf(v) = -1
  <2> DEFINE u == Erase(v, a)
  <2>1. a.type = "RESET" /\ a.seq = 0 /\ a.expect = 0 /\ lastReset = v.msgs[1].time
    BY <1>1, <1>5 DEF Linked, Opening
  <2>2. v.msgs # <<>>
    <3>1. v.currSeq \in Nat /\ v.currSeq = BaseOf(v) + Len(v.msgs)
      BY Numbers
    <3>. QED BY <1>1, <1>5, <3>1
  <2>3. BaseOf(u) = 0 /\ u.isReset
    BY <1>1, <1>5, <2>1, <2>2, EraseOpens
  <2>4. /\ Count = 0 /\ lastReset # 0
        /\ \A i \in 1..Len(ac) : ac[i].type # "PING" =>
             ac[i].type = "RESET" /\ ac[i].seq = 0 /\ ac[i].expect = 0
    BY <1>5, <2>1 DEF Linked, Opening
  <2>5. \A i \in 1..Len(ac2) : ac2[i].type # "PING" =>
             ac2[i].type = "RESET" /\ ac2[i].seq = 0 /\ ac2[i].expect = 0
    <3>1. \A i \in 1..Len(ac2) : i + 1 \in 1..Len(ac)
      BY <1>1
    <3>. QED BY <2>4, <3>1
  <2>. HIDE DEF u
  <2>6. \A i \in 1..Len(ac2) : \A j \in 1..i : j \in 1..Len(ac2)
    BY <1>1
  <2>7. Kept(u, ac2)
    BY <2>3, <2>5, <2>6 DEF Kept, IsData
  <2>8. Orphaned(u, sy, ac2) /\ Balance(u)
    BY <2>3, <2>4 DEF Orphaned, Balance
  <2>. QED BY <2>7, <2>8 DEF Careful, u
<1>6. CASE a.type # "PING" /\ BaseOf(v) >= 0 /\ lastReset = 0
  <2> DEFINE u == Erase(v, a)
  <2>1. a.type = "SHUTDOWN"
    BY <1>1, <1>6 DEF Careful, Orphaned
  <2>2. u = [v EXCEPT !.isReset = FALSE]
    BY <2>1 DEF Erase
  <2>3. u.currSeq = v.currSeq /\ u.msgs = v.msgs
    <3>. HIDE DEF u
    <3>. QED BY <2>2 DEF Queue
  <2>. HIDE DEF u
  <2>4. BaseOf(u) = BaseOf(v)
    BY <2>3 DEF BaseOf
  <2>5. Careful(u, sy, ac2)
    BY <1>2, <1>6, <2>4, SameFrontCareful
  <2>. QED BY <2>5 DEF u
<1>7. CASE a.type # "PING" /\ BaseOf(v) >= 0 /\ lastReset # 0
  <2>1. /\ v.isReset /\ a.type # "SHUTDOWN" /\ BaseOf(v) <= a.expect
        /\ a.type = "RESET" => a.seq = 0
        /\ IsData(a) => a.seq # a.expect + 1
    BY <1>1, <1>7 DEF Careful, Kept
  <2>2. a.expect <= Count
    BY <1>1, <1>7 DEF Linked, Running
  <2>3. CASE v.msgs = <<>>
    BY <1>2, <2>1, <2>3 DEF Erase
  <2>4. CASE v.msgs # <<>> /\ a.expect # 0
    <3>1. Erase(v, a) = EraseExpected(v, a)
      BY <1>7, <2>1, <2>4 DEF Erase
    <3>2. ASSUME NEW i \in 1..Len(ac2), ac2[i].type # "PING"
          PROVE  a.expect <= ac2[i].expect
      <4>1. i + 1 \in 1..Len(ac) /\ 1 \in 1..(i + 1) /\ ac2[i] = ac[i + 1]
        BY <1>1
      <4>. QED BY <1>7, <3>2, <4>1 DEF Careful, Kept
    <3>3. Careful(EraseExpected(v, a), sy, ac2)
      <4>. HIDE DEF a
      <4>. QED BY <1>1, <1>2, <1>7, <2>1, <2>2, <3>2, EraseExpectedKeepsCareful
    <3>. QED BY <3>1, <3>3
  <2>5. CASE v.msgs # <<>> /\ a.expect = 0
    <3> DEFINE u == EraseFront(v, a)
    <3>1. Erase(v, a) = u
      BY <1>7, <2>1, <2>5 DEF Erase
    <3>2. BaseOf(v) = 0 /\ Len(v.msgs) >= 1 /\ Head(v.msgs) = v.msgs[1]
      BY <1>1, <1>3, <1>7, <2>1, <2>5, EmptySeq, HeadTailProperties
    <3>3. v.msgs[1].seq = 1 /\ IsData(v.msgs[1])
      BY <1>1, <3>2, QueuedIsData
    <3>4. ~Matches(v, a)
      BY <2>1, <2>5, <3>2, <3>3 DEF Matches, IsData
    <3>5. u.msgs = v.msgs /\ u.isReset = v.isReset /\ u.currSeq = v.currSeq
      <4>1. Behind(v, a) => u.msgs = v.msgs /\ u.isReset = v.isReset
        BY <1>1, <2>5, EraseFrontIs
      <4>2. ~Behind(v, a) => u = v
        BY <3>4 DEF EraseFront
      <4>3. u.currSeq = v.currSeq
        BY <1>1, <2>5, EraseFrontIs
      <4>. QED BY <4>1, <4>2, <4>3
    <3>6. Careful(u, sy, ac2)
      <4>. HIDE DEF u
      <4>1. BaseOf(u) = BaseOf(v)
        BY <3>5 DEF BaseOf
      <4>. QED BY <1>2, <3>5, <4>1, SameFrontCareful
    <3>. QED BY <3>1, <3>6
  <2>. QED BY <2>3, <2>4, <2>5
<1>. QED
  <2>1. BaseOf(v) = -1 \/ BaseOf(v) >= 0
    BY <1>1 DEF Shaped
  <2>. QED BY <1>4, <1>5, <1>6, <1>7, <2>1

(* An acknowledgement that tells the truth joins those in flight. *)
LEMMA AckKeepsCareful ==
  ASSUME TypeOK, session \in Sessions, NEW u \in Queue, NEW sy,
         NEW ac \in Seq(AckMsg), Linked(u, sy, ac), Careful(u, sy, ac), Tame,
         NEW a \in AckMsg,
         BaseOf(u) >= 0 /\ lastReset # 0 /\ a.type # "PING" =>
           /\ a.type # "SHUTDOWN" /\ a.expect = Count
           /\ a.type = "RESET" => a.seq = 0
           /\ IsData(a) => a.seq # a.expect + 1,
         BaseOf(u) >= 0 /\ lastReset = 0 => a.type \in {"PING", "SHUTDOWN"}
  PROVE  Careful(u, sy, Append(ac, a))
<1> DEFINE ac2 == Append(ac, a)
           L == Len(ac)
<1>1. /\ L \in Nat /\ Len(ac2) = L + 1 /\ ac2[L + 1] = a
      /\ \A i \in 1..L : ac2[i] = ac[i]
      /\ Count \in Nat
  BY LenProperties, AppendProperties, Numbers
<1>. HIDE DEF ac2, L
<1>2. \A i \in 1..Len(ac2) : i \in 1..L \/ i = L + 1
  BY <1>1
<1>3. Orphaned(u, sy, ac2)
  <2>1. SUFFICES ASSUME BaseOf(u) >= 0, lastReset = 0, NEW i \in 1..Len(ac2)
                 PROVE  ac2[i].type \in {"PING", "SHUTDOWN"}
    BY DEF Careful, Orphaned
  <2>2. CASE i \in 1..L
    BY <1>1, <2>1, <2>2 DEF Careful, Orphaned, L
  <2>3. CASE i = L + 1
    BY <1>1, <2>1, <2>3
  <2>. QED BY <1>2, <2>2, <2>3
<1>4. Kept(u, ac2)
  <2>1. SUFFICES ASSUME BaseOf(u) >= 0, lastReset # 0,
                        NEW i \in 1..Len(ac2), ac2[i].type # "PING"
                 PROVE  /\ ac2[i].type # "SHUTDOWN"
                        /\ BaseOf(u) <= ac2[i].expect
                        /\ ac2[i].type = "RESET" => ac2[i].seq = 0
                        /\ IsData(ac2[i]) => ac2[i].seq # ac2[i].expect + 1
                        /\ \A j \in 1..i : ac2[j].type # "PING" =>
                             ac2[j].expect <= ac2[i].expect
    BY DEF Careful, Kept
  <2>2. ASSUME NEW j \in 1..L, ac[j].type # "PING"
        PROVE  ac[j].expect <= Count
    BY <2>1, <2>2 DEF Linked, Running, L
  <2>3. CASE i \in 1..L
    <3>1. ac2[i] = ac[i] /\ \A j \in 1..i : ac2[j] = ac[j]
      BY <1>1, <2>3
    <3>. QED BY <2>1, <2>3, <3>1 DEF Careful, Kept, L
  <2>4. CASE i = L + 1
    <3>1. ac2[i] = a /\ a.type # "PING"
      BY <1>1, <2>1, <2>4
    <3>2. a.expect = Count /\ a.expect <= Count /\ BaseOf(u) <= a.expect
      BY <1>1, <2>1, <3>1 DEF Careful, Balance
    <3>3. ASSUME NEW j \in 1..i, ac2[j].type # "PING" PROVE ac2[j].expect <= a.expect
      <4>1. CASE j \in 1..L
        BY <1>1, <2>2, <3>2, <3>3, <4>1
      <4>2. CASE j = L + 1
        BY <1>1, <3>2, <4>2
      <4>. QED BY <1>1, <2>4, <4>1, <4>2
    <3>. QED BY <2>1, <3>1, <3>2, <3>3
  <2>. QED BY <1>2, <2>3, <2>4
<1>. QED BY <1>3, <1>4 DEF Careful, ac2

-----------------------------------------------------------------------------
(* The steps of the source. *)

(* A queue that does not fill keeps its front. *)
LEMMA EmitNextCareful ==
  ASSUME Calm, IInv, NEW d \in DataTypes, EmitNext(d)
  PROVE  Careful(q, sync, acks)'
<1> DEFINE u == Push(q, d, session)
<1>1. /\ TypeOK /\ Shape /\ live /\ session \in Sessions /\ session \in Nat
      /\ Linked(q, sync, acks) /\ FrontSent(q) /\ Careful(q, sync, acks)
  BY LiveSession DEF IInv, OrderInv, EmitNext, TypeOK
<1>2. /\ q \in Queue /\ Shaped(q, session) /\ Within(q)
      /\ q.currSeq \in Nat /\ Len(q.msgs) \in Nat
      /\ BaseOf(q) \in Int /\ q.currSeq = BaseOf(q) + Len(q.msgs) /\ BaseOf(q) >= -1
  BY <1>1, Numbers DEF TypeOK, Shape, Shaped
<1>3. /\ q.currSeq < MaxSeq /\ q' = Flush(u) /\ sync' = sync \cup FlushOut(u)
      /\ UNCHANGED <<lastReset, session, accepted, acks>>
  BY DEF EmitNext, destination
<1>4. ~Full(q)
  BY <1>2, <1>3, ConstantsAssumption DEF Calm, Full
<1>5. /\ u \in Queue /\ Shaped(u, session) /\ Within(u)
      /\ u.currSeq = q.currSeq + 1 /\ u.isReset = q.isReset
      /\ Len(u.msgs) = Len(q.msgs) + 1
  BY <1>1, <1>2, <1>4, PushIs
<1>6. Linked(u, sync, acks)
  BY <1>1, <1>2, <1>3, PushKeepsLinked
<1>. HIDE DEF u
<1>7. BaseOf(u) = BaseOf(q)
  <2>. DEFINE l == Len(q.msgs)
              c == q.currSeq
  <2>1. BaseOf(u) = (c + 1) - (l + 1) /\ BaseOf(q) = c - l /\ c \in Nat /\ l \in Nat
    BY <1>2, <1>5 DEF BaseOf
  <2>. HIDE DEF l, c
  <2>. QED BY <2>1
<1>8. Careful(u, sync, acks)
  BY <1>1, <1>5, <1>7, SameFrontCareful
<1>9. Careful(q', sync', acks')
  BY <1>1, <1>3, <1>5, <1>6, <1>8, FlushKeepsCareful
<1>. QED BY <1>3, <1>9, CarefulNext

(* Push on a queue with room makes it one longer. *)
LEMMA PushLength ==
  ASSUME NEW r \in Queue, NEW s \in Nat, Shaped(r, s), NEW d \in DataTypes, ~Full(r)
  PROVE  Len(Push(r, d, s).msgs) = Len(r.msgs) + 1
  BY PushIs

(* A new queue of more than one message keeps its RESET, and is balanced. *)
LEMMA EmitFirstCareful ==
  ASSUME Calm, IInv, NEW d \in DataTypes, EmitFirst(d)
  PROVE  Careful(q, sync, acks)'
<1> DEFINE s == session + 1
           r == Reset(s)
           u == Push(r, d, s)
<1>1. TypeOK /\ now \in Nat /\ s \in Nat /\ MaxSeq > 0
  BY DEF IInv, OrderInv, TypeOK, EmitFirst
<1>2. /\ r \in Queue /\ Shaped(r, s) /\ Within(r)
      /\ r.currSeq = 0 /\ Len(r.msgs) = 1 /\ ~r.isReset
  BY <1>1, ResetIs
<1>3. q' = Flush(u)
  BY DEF EmitFirst
<1>. HIDE DEF r, s
<1>4. ~Full(r)
  BY <1>1, <1>2, ConstantsAssumption DEF Calm, Full
<1>5. u \in Queue /\ u.currSeq = 1 /\ Len(u.msgs) = 2
  <2>1. s \in Nat
    BY <1>1
  <2>2. Len(u.msgs) = Len(r.msgs) + 1
    BY <1>2, <1>4, <2>1, PushLength
  <2>3. u = Push(r, d, s)
    OBVIOUS
  <2>. HIDE DEF u
  <2>4. u \in Queue /\ u.currSeq = r.currSeq + 1
    BY <1>2, <2>1, <2>3, PushIs
  <2>. QED BY <1>2, <2>2, <2>4
<1>. HIDE DEF u
<1>6. BaseOf(q)' = -1
  <2>1. Flush(u).currSeq = 1 /\ Flush(u).msgs = u.msgs
    BY <1>5, FlushIs
  <2>2. q'.currSeq = 1 /\ Len(q'.msgs) = 2
    BY <1>3, <1>5, <2>1
  <2>. QED BY <2>2 DEF BaseOf
<1>7. Count' \in Nat
  <2>1. TypeOK' /\ live'
    BY TypeShapeStep DEF IInv, OrderInv, EmitFirst, Next, Writer
  <2>2. session' \in Sessions'
    BY <2>1, ConstantsAssumption DEF TypeOK, Sessions
  <2>3. accepted'[session'] \in Seq(Nat)
    BY <2>1, <2>2 DEF TypeOK, Sessions
  <2>. QED BY <2>3, LenProperties DEF Count
<1>. QED BY <1>6, <1>7 DEF Careful, Kept, Orphaned, Balance

(* The front that Retry resends is no RESET once that was acknowledged. *)
LEMMA RetryCareful ==
  ASSUME IInv, Retry
  PROVE  Careful(q, sync, acks)'
<1>1. /\ TypeOK /\ Shape /\ live /\ session \in Sessions /\ Careful(q, sync, acks)
  BY LiveSession DEF IInv, OrderInv, Retry
<1>2. /\ q \in Queue /\ Shaped(q, session)
      /\ q.msgs \in Seq(SyncMsg) /\ Len(q.msgs) \in Nat
      /\ BaseOf(q) \in Int
  BY <1>1, Numbers DEF TypeOK, Shape
<1>3. /\ sync' = sync \cup {PingMsg(session)}
                      \cup (IF q.msgs # <<>> THEN {Head(q.msgs)} ELSE {})
      /\ UNCHANGED <<lastReset, session, accepted, acks, q>>
  BY DEF Retry, source, destination
<1>4. ASSUME BaseOf(q) >= 0, NEW m \in sync', m.type = "RESET" PROVE m \in sync
  <2>1. PingMsg(session).type # "RESET"
    BY DEF PingMsg
  <2>2. ASSUME q.msgs # <<>> PROVE Head(q.msgs).type # "RESET"
    <3>1. 1 \in 1..Len(q.msgs) /\ Head(q.msgs) = q.msgs[1]
      BY <1>2, <2>2, EmptySeq, HeadTailProperties
    <3>2. BaseOf(q) + 1 > 0
      BY <1>2, <1>4
    <3>. QED BY <1>2, <3>1, <3>2, QueuedIsData
  <2>. QED BY <1>3, <1>4, <2>1, <2>2
<1>5. Careful(q, sync', acks)
  <2>. DEFINE sy2 == sync'
  <2>1. BaseOf(q) >= 0 => \A m \in sy2 : m.type = "RESET" => m \in sync
    BY <1>4
  <2>. HIDE DEF sy2
  <2>2. Careful(q, sy2, acks)
    BY <1>1, <2>1, SameFrontCareful
  <2>. QED BY <2>2 DEF sy2
<1>6. Careful(q', sync', acks')
  BY <1>3, <1>5
<1>. QED BY <1>3, <1>6, CarefulNext

(* To remove the oldest acknowledgement is to take the tail. *)
LEMMA RemoveHead ==
  ASSUME acks \in Seq(AckMsg), acks # <<>>
  PROVE  /\ RemoveAck(1) \in Seq(AckMsg) /\ Len(acks) = Len(RemoveAck(1)) + 1
         /\ \A j \in 1..Len(RemoveAck(1)) : RemoveAck(1)[j] = acks[j + 1]
<1>1. SubSeq(acks, 1, 1 - 1) = <<>> /\ SubSeq(acks, 1 + 1, Len(acks)) = Tail(acks)
  <2>1. SubSeq(acks, 1, 0) = <<>>
    BY SubSeqEmpty
  <2>2. SubSeq(acks, 2, Len(acks)) = Tail(acks)
    OBVIOUS
  <2>. QED BY <2>1, <2>2
<1>2. /\ Tail(acks) \in Seq(AckMsg) /\ Len(Tail(acks)) = Len(acks) - 1
      /\ \A j \in 1..Len(Tail(acks)) : Tail(acks)[j] = acks[j + 1]
  BY HeadTailProperties
<1>3. RemoveAck(1) = Tail(acks)
  BY <1>1, <1>2, ConcatEmptySeq DEF RemoveAck
<1>4. Len(acks) = (Len(acks) - 1) + 1
  <2>1. Len(acks) \in Nat
    BY LenProperties
  <2>2. \A n \in Nat : n = (n - 1) + 1
    OBVIOUS
  <2>. QED BY <2>1, <2>2, Zenon
<1>. HIDE DEF RemoveAck
<1>5. Len(acks) = Len(RemoveAck(1)) + 1
  BY <1>2, <1>3, <1>4, Zenon
<1>. QED BY <1>2, <1>3, <1>5

(* The oldest acknowledgement finds its queue. *)
LEMMA OnAckRouterCareful ==
  ASSUME Calm, IInv, NEW i \in 1..Len(acks), OnAckRouter(i)
  PROVE  Careful(q, sync, acks)'
<1> DEFINE v == [q EXCEPT !.lastAck = now]
           a == acks[1]
           u == Erase(v, a)
           ac2 == RemoveAck(1)
<1>1. /\ TypeOK /\ Shape /\ acks \in Seq(AckMsg) /\ acks # <<>> /\ i = 1
      /\ live /\ Linked(q, sync, acks) /\ Careful(q, sync, acks)
      /\ FrontSent(q) /\ session \in Sessions /\ Tame
  <2>1. TypeOK /\ acks \in Seq(AckMsg) /\ acks # <<>>
    BY DEF IInv, OrderInv, TypeOK
  <2>2. live
    BY <2>1 DEF IInv, OrderInv, Idle
  <2>. QED
    BY <2>1, <2>2, LiveSession, CalmIsTame DEF IInv, OrderInv, OnAckRouter, Calm
<1>2. /\ q' = Flush(u) /\ sync' = sync \cup FlushOut(u) /\ acks' = ac2
      /\ UNCHANGED <<lastReset, session, accepted>>
  BY <1>1 DEF OnAckRouter, destination
<1>3. /\ v \in Queue /\ Shaped(v, session) /\ Within(v) /\ FrontSent(v)
      /\ v.isReset = q.isReset /\ BaseOf(v) = BaseOf(q)
      /\ Linked(v, sync, acks)
  BY <1>1, HeardIs DEF TypeOK
<1>. HIDE DEF v
<1>4. Careful(v, sync, acks)
  BY <1>1, <1>3, SameFrontCareful
<1>5. /\ ac2 \in Seq(AckMsg) /\ Len(acks) = Len(ac2) + 1
      /\ \A j \in 1..Len(ac2) : ac2[j] = acks[j + 1]
  BY <1>1, RemoveHead
<1>6. 1 \in 1..Len(acks)
  BY <1>1
<1>7. Linked(u, sync, ac2)
  <2>1. sync \in SUBSET sync
    OBVIOUS
  <2>2. \A j \in 1..Len(ac2) : \E k \in 1..Len(acks) : ac2[j] = acks[k]
    BY <1>1, <1>6, RemoveAckIs
  <2>3. Linked(u, sync, acks)
    BY <1>1, <1>3, <1>6, EraseKeepsLinked
  <2>. HIDE DEF u, ac2
  <2>. QED BY <2>1, <2>2, <2>3, LossKeepsLinked
<1>8. u \in Queue /\ Shaped(u, session) /\ Within(u)
  <2>1. a \in AckMsg
    BY <1>1, <1>6, ElementOfSeq
  <2>. QED BY <1>3, <2>1, EraseKeepsShape
<1>9. Careful(u, sync, ac2)
  <2>. HIDE DEF ac2
  <2>. QED BY <1>1, <1>3, <1>4, <1>5, EraseKeepsCareful
<1>. HIDE DEF u, ac2
<1>10. Careful(q', sync', acks')
  BY <1>1, <1>2, <1>7, <1>8, <1>9, FlushKeepsCareful
<1>. QED BY <1>2, <1>10, CarefulNext

-----------------------------------------------------------------------------
(* The steps of the destination and of the environment. *)

(* The destination acknowledges what it has, so what it expects is never
   behind what has left the queue. *)
LEMMA OnSyncRouterCareful ==
  ASSUME Calm, IInv, NEW m \in sync, OnSyncRouter(m)
  PROVE  Careful(q, sync, acks)'
<1> DEFINE kept == IF Len(acks) < MaxAcks THEN acks ELSE Tail(acks)
           a == RouteAck(m, expect')
           base == BaseOf(q)
<1>1. /\ live /\ TypeOK /\ Shape /\ session \in Sessions
      /\ IsData(m) => m.seq \in 1..q.currSeq
      /\ ~IsData(m) => m.seq = 0
      /\ m.seq \in Nat /\ m.time \in Nat
      /\ m.type = "RESET" \/ m.type = "PING" \/ IsData(m)
      /\ IsData(m) => m.type # "RESET" /\ m.type # "PING" /\ m.type # "SHUTDOWN"
  BY ReceivedIs DEF IInv
<1>2. /\ kept \in Seq(AckMsg) /\ acks' = Append(kept, a) /\ a \in AckMsg
      /\ Linked(q, sync, kept)
  BY ReceivedIs DEF IInv
<1>3. /\ UNCHANGED <<q, session, sync>>
      /\ expect' = IF IsNewReset(m) \/ InSequence(m) THEN m.seq ELSE expect
      /\ lastReset' = IF IsNewReset(m) THEN m.time ELSE lastReset
      /\ accepted' = IF InSequence(m)
                     THEN [accepted EXCEPT ![m.sess] = Append(@, m.seq)]
                     ELSE accepted
      /\ m.sess = session
  BY ReceivedIs DEF IInv
<1>4. /\ a.type = IF IsData(m) /\ lastReset = 0 THEN "SHUTDOWN" ELSE m.type
      /\ a.seq = m.seq /\ a.expect = expect'
      /\ IsData(a) <=> IsData(m) /\ lastReset # 0
  BY ReceivedIs DEF IInv
<1>5. /\ q \in Queue /\ Shaped(q, session) /\ Tame /\ NoReset
      /\ Flight(q, sync) /\ Opening(q, sync, kept) /\ Running(q, sync, kept)
  <2>1. Tame
    BY CalmIsTame
  <2>. HIDE DEF kept
  <2>. QED BY <1>1, <1>2, <2>1 DEF IInv, OrderInv, Linked, TypeOK, Shape
<1>6. /\ Count \in Nat /\ expect \in Nat /\ lastReset \in Nat
      /\ q.currSeq \in Nat /\ base \in Int /\ (base = -1 \/ base >= 0)
  <2>1. base \in Int /\ base >= -1
    BY <1>1, <1>5, Numbers DEF Shaped
  <2>2. Count \in Nat /\ expect \in Nat /\ lastReset \in Nat /\ q.currSeq \in Nat
    BY <1>1, <1>5, Numbers
  <2>. HIDE DEF base
  <2>. QED BY <2>1, <2>2
<1>7. Careful(q, sync, kept)
  <2>1. acks \in Seq(AckMsg) /\ Len(acks) \in Nat /\ MaxAcks \in Nat \ {0}
        /\ Careful(q, sync, acks)
    BY <1>1, LenProperties, ConstantsAssumption DEF IInv, TypeOK
  <2>2. CASE Len(acks) < MaxAcks
    BY <2>1, <2>2
  <2>3. CASE ~(Len(acks) < MaxAcks)
    <3>1. acks # <<>>
      BY <2>1, <2>3, EmptySeq
    <3>2. /\ Tail(acks) \in Seq(AckMsg) /\ Len(Tail(acks)) \in Nat
          /\ Len(acks) = Len(Tail(acks)) + 1
          /\ \A i \in 1..Len(Tail(acks)) : Tail(acks)[i] = acks[i + 1]
      BY <2>1, <3>1, HeadTailProperties, LenProperties
    <3>3. Careful(q, sync, Tail(acks))
      BY <2>1, <3>2, LossKeepsCareful
    <3>. QED BY <2>3, <3>3
  <2>. QED BY <2>2, <2>3
<1>. HIDE DEF kept, a, base
<1>8. BaseOf(q)' = base
  BY <1>3 DEF base, BaseOf
<1>9. CASE ~IsNewReset(m) /\ ~InSequence(m)
  <2>1. UNCHANGED <<lastReset, session, accepted, expect>>
    BY <1>3, <1>9
  <2>2. base >= 0 /\ lastReset # 0 /\ a.type # "PING" =>
          /\ a.type # "SHUTDOWN" /\ a.expect = Count
          /\ a.type = "RESET" => a.seq = 0
          /\ IsData(a) => a.seq # a.expect + 1
    <3>. SUFFICES ASSUME base >= 0, lastReset # 0
                  PROVE  /\ a.type # "SHUTDOWN" /\ a.expect = Count
                         /\ a.type = "RESET" => a.seq = 0
                         /\ IsData(a) => a.seq # a.expect + 1
      OBVIOUS
    <3>1. expect = Count
      BY <1>5 DEF Running, base
    <3>2. a.type = m.type /\ m.type # "SHUTDOWN"
      BY <1>1, <1>4
    <3>3. IsData(m) => m.seq # expect + 1
      BY <1>9 DEF InSequence
    <3>4. m.type = "RESET" => m.seq = 0
      BY <1>1
    <3>. QED BY <1>4, <2>1, <3>1, <3>2, <3>3, <3>4
  <2>3. base >= 0 /\ lastReset = 0 => a.type \in {"PING", "SHUTDOWN"}
    <3>. SUFFICES ASSUME base >= 0, lastReset = 0 PROVE a.type \in {"PING", "SHUTDOWN"}
      OBVIOUS
    <3>1. m.type # "RESET"
      BY <1>7 DEF Careful, Orphaned, base
    <3>. QED BY <1>1, <1>4, <3>1
  <2>4. Careful(q, sync, Append(kept, a))
    BY <1>1, <1>2, <1>5, <1>7, <2>2, <2>3, AckKeepsCareful DEF base
  <2>5. Careful(q', sync', acks')
    BY <1>2, <1>3, <2>4
  <2>. QED BY <2>1, <2>5, CarefulNext
<1>10. CASE IsNewReset(m)
  <2>1. m.type = "RESET" /\ m.time # 0 /\ lastReset < m.time /\ ~IsData(m)
    BY <1>1, <1>10 DEF IsNewReset
  <2>2. base = -1
    <3>1. ASSUME base >= 0, lastReset # 0 PROVE m.time <= lastReset
      BY <1>5, <2>1, <3>1 DEF Running, base
    <3>2. lastReset = 0 => ~(base >= 0)
      BY <1>7, <2>1 DEF Careful, Orphaned, base
    <3>. QED BY <1>1, <1>6, <2>1, <3>1, <3>2
  <2>3. Count' = Count
    <3>1. ~InSequence(m)
      BY <2>1 DEF InSequence
    <3>. QED BY <1>3, <3>1 DEF Count
  <2>4. Kept(q, acks)' /\ Orphaned(q, sync, acks)'
    BY <1>8, <2>2 DEF Kept, Orphaned
  <2>. QED BY <1>6, <1>8, <2>2, <2>3, <2>4 DEF Careful, Balance
<1>11. CASE InSequence(m)
  <2>1. IsData(m) /\ lastReset # 0 /\ m.seq = expect + 1 /\ m.seq \in 1..q.currSeq
    BY <1>1, <1>11 DEF InSequence
  <2>2. base >= 0
    BY <1>5, <1>6, <2>1 DEF Opening, base
  <2>3. q.isReset /\ expect = Count /\ m.seq = Count + 1
    BY <1>5, <1>7, <2>1, <2>2 DEF Careful, Kept, Running, base
  <2>4. expect' = Count + 1 /\ lastReset' = lastReset /\ Count' = Count + 1
    <3>1. ~IsNewReset(m)
      BY <1>1, <2>1 DEF IsNewReset
    <3>2. accepted' = [accepted EXCEPT ![session] = Append(@, m.seq)]
      BY <1>3, <1>11
    <3>3. Count' = Count + 1
      BY <1>1, <1>3, <3>2, AcceptedIs
    <3>. QED BY <1>3, <1>11, <2>3, <3>1, <3>3
  <2>5. base <= Count /\ base <= Count + 1
    BY <1>6, <1>7 DEF Careful, Balance, base
  <2>6. Orphaned(q, sync, acks)' /\ Balance(q)'
    BY <1>8, <2>1, <2>4, <2>5 DEF Orphaned, Balance
  <2>7. Kept(q, acks)'
    <3>1. /\ a.type # "SHUTDOWN" /\ a.type # "RESET"
          /\ a.expect = Count + 1 /\ a.seq = Count + 1
      BY <1>1, <1>4, <2>1, <2>3, <2>4
    <3>2. /\ Len(acks') = Len(kept) + 1 /\ Len(kept) \in Nat
          /\ acks'[Len(kept) + 1] = a
          /\ \A j \in 1..Len(kept) : acks'[j] = kept[j]
      BY <1>2, AppendProperties, LenProperties
    <3>3. ASSUME NEW j \in 1..Len(kept), kept[j].type # "PING"
          PROVE  kept[j].expect \in Nat /\ kept[j].expect <= Count
      <4>1. kept[j] \in AckMsg
        BY <1>2, ElementOfSeq
      <4>. QED BY <1>5, <2>2, <3>3, <4>1 DEF AckMsg, Running, base
    <3>4. ASSUME NEW i \in 1..Len(acks'), acks'[i].type # "PING"
          PROVE  /\ acks'[i].type # "SHUTDOWN"
                 /\ base <= acks'[i].expect
                 /\ acks'[i].type = "RESET" => acks'[i].seq = 0
                 /\ IsData(acks'[i]) => acks'[i].seq # acks'[i].expect + 1
                 /\ \A k \in 1..i : acks'[k].type # "PING" =>
                      acks'[k].expect <= acks'[i].expect
      <4>1. CASE i \in 1..Len(kept)
        <5>1. acks'[i] = kept[i] /\ \A k \in 1..i : acks'[k] = kept[k]
          BY <3>2, <4>1
        <5>. QED BY <1>7, <2>1, <2>2, <3>4, <4>1, <5>1 DEF Careful, Kept, base
      <4>2. CASE i = Len(kept) + 1
        <5>1. acks'[i] = a /\ a.seq # a.expect + 1
          BY <1>6, <3>1, <3>2, <4>2
        <5>2. ASSUME NEW k \in 1..i, acks'[k].type # "PING"
              PROVE  acks'[k].expect <= Count + 1
          <6>1. CASE k \in 1..Len(kept)
            <7>1. kept[k].expect <= Count /\ kept[k].expect \in Nat
              BY <3>2, <3>3, <5>2, <6>1
            <7>. QED BY <1>6, <3>2, <6>1, <7>1
          <6>2. CASE k = Len(kept) + 1
            BY <1>6, <3>1, <3>2, <6>2
          <6>. QED BY <3>2, <4>2, <6>1, <6>2
        <5>. QED BY <2>5, <3>1, <5>1, <5>2
      <4>. QED BY <3>2, <4>1, <4>2
    <3>. QED BY <1>3, <1>8, <2>3, <3>4 DEF Kept, IsData
  <2>. QED BY <2>6, <2>7 DEF Careful
<1>. QED BY <1>9, <1>10, <1>11


(* A restart forgets the RESET with all that was in flight. *)
LEMMA RestartDestinationCareful ==
  ASSUME Calm, IInv, live, RestartDestination
  PROVE  Careful(q, sync, acks)'
<1>1. /\ lastReset' = 0 /\ sync' = {} /\ acks' = <<>>
      /\ UNCHANGED <<q, session, accepted>>
  BY DEF RestartDestination, DropConnections, source, Calm, Drained
<1>2. BaseOf(q)' = BaseOf(q) /\ Count' = Count
  BY <1>1 DEF BaseOf, Count
<1>3. Balance(q)'
  BY <1>2 DEF IInv, Careful, Balance
<1>4. Kept(q, acks)' /\ Orphaned(q, sync, acks)'
  <2>1. Len(acks') = 0
    BY <1>1
  <2>2. 1..Len(acks') = {}
    BY <2>1
  <2>. QED BY <1>1, <2>2 DEF Kept, Orphaned
<1>. QED BY <1>3, <1>4 DEF Careful

LEMMA LossCareful ==
  ASSUME IInv, live, (\E m \in sync : LoseSync(m)) \/ LoseAck
  PROVE  Careful(q, sync, acks)'
<1>1. /\ UNCHANGED <<q, session, accepted, lastReset>>
      /\ sync' \subseteq sync
      /\ acks' = acks \/ (acks # <<>> /\ acks' = Tail(acks))
  BY DEF LoseSync, LoseAck, source, destination
<1>2. Careful(q, sync, acks) /\ acks \in Seq(AckMsg) /\ Len(acks) \in Nat
  BY LenProperties DEF IInv, OrderInv, TypeOK
<1>3. Careful(q, sync', acks')
  <2>. DEFINE sy2 == sync'
  <2>1. sy2 \in SUBSET sync
    BY <1>1
  <2>. HIDE DEF sy2
  <2>2. Careful(q, sy2, acks)
    <3>1. /\ 0 \in Nat /\ Len(acks) = Len(acks) + 0
          /\ \A i \in 1..Len(acks) : acks[i] = acks[i + 0]
      BY <1>2
    <3>. QED BY <1>2, <2>1, <3>1, LossKeepsCareful
  <2>3. acks # <<>> => Careful(q, sy2, Tail(acks))
    <3>. SUFFICES ASSUME acks # <<>> PROVE Careful(q, sy2, Tail(acks))
      OBVIOUS
    <3>1. /\ Len(Tail(acks)) \in Nat /\ Len(acks) = Len(Tail(acks)) + 1
          /\ \A i \in 1..Len(Tail(acks)) : Tail(acks)[i] = acks[i + 1]
      BY <1>2, HeadTailProperties, LenProperties
    <3>. QED BY <1>2, <2>1, <3>1, LossKeepsCareful
  <2>. QED BY <1>1, <2>2, <2>3 DEF sy2
<1>4. Careful(q', sync', acks')
  BY <1>1, <1>3
<1>. QED BY <1>1, <1>4, CarefulNext

LEMMA UnchangedCareful ==
  ASSUME IInv, live, UNCHANGED <<q, session, accepted, lastReset, sync, acks>>
  PROVE  Careful(q, sync, acks)'
<1>1. Careful(q', sync', acks')
  BY DEF IInv
<1>. QED BY <1>1, CarefulNext

-----------------------------------------------------------------------------
(* The theorems. *)

LEMMA InvariantInit == Init => IInv
  BY OrderInit DEF IInv, Init

LEMMA InvariantStep == ASSUME Calm, IInv, [Next]_vars PROVE IInv'
<1>1. OrderInv'
  BY OrderStep, CalmIsTame DEF IInv
<1>. SUFFICES ASSUME live' PROVE Careful(q, sync, acks)'
  BY <1>1 DEF IInv
<1>2. CASE UNCHANGED vars
  <2>1. live /\ UNCHANGED <<q, session, accepted, lastReset, sync, acks>>
    BY <1>2 DEF vars, source, destination
  <2>. QED BY <2>1, UnchangedCareful
<1>3. CASE Writer
  <2>1. ASSUME NEW d \in DataTypes, EmitFirst(d) PROVE Careful(q, sync, acks)'
    BY <2>1, EmitFirstCareful
  <2>2. ASSUME NEW d \in DataTypes, EmitNext(d) PROVE Careful(q, sync, acks)'
    BY <2>2, EmitNextCareful
  <2>3. CASE Retry
    BY <2>3, RetryCareful
  <2>4. CASE ExpireQueue \/ RestartSource
    BY <2>4 DEF ExpireQueue, RestartSource
  <2>5. ASSUME NEW i \in 1..Len(acks), OnAckRouter(i) PROVE Careful(q, sync, acks)'
    BY <2>5, OnAckRouterCareful
  <2>. QED BY <1>3, <2>1, <2>2, <2>3, <2>4, <2>5 DEF Writer
<1>4. CASE Reader
  <2>1. ASSUME NEW m \in sync, OnSyncRouter(m) PROVE Careful(q, sync, acks)'
    BY <2>1, OnSyncRouterCareful
  <2>2. CASE RestartDestination
    <3>1. live
      BY <2>2 DEF RestartDestination, source
    <3>. QED BY <2>2, <3>1, RestartDestinationCareful
  <2>. QED BY <1>4, <2>1, <2>2 DEF Reader
<1>5. CASE Environment
  <2>1. live
    BY <1>5 DEF Environment, LoseSync, LoseAck, Tick, source
  <2>2. CASE Tick
    BY <2>1, <2>2, UnchangedCareful DEF Tick, source, destination
  <2>3. CASE (\E m \in sync : LoseSync(m)) \/ LoseAck
    BY <2>1, <2>3, LossCareful
  <2>. QED BY <1>5, <2>2, <2>3 DEF Environment
<1>. QED BY <1>2, <1>3, <1>4, <1>5 DEF Next

(* What has left the queue was accepted, and what is in it is queued. *)
LEMMA InvariantImplies == Calm /\ IInv => NothingLostSilently
<1>. SUFFICES ASSUME Calm, IInv, live, NEW n \in 1..q.currSeq
              PROVE  n \in Queued \/ n \in Accepted(session)
  BY DEF NothingLostSilently
<1>1. InOrderOnce
  BY OrderImplies, CalmIsTame DEF IInv
<1>2. /\ session \in Sessions /\ BaseOf(q) \in Int /\ Count \in Nat
      /\ Len(q.msgs) \in Nat /\ q.currSeq = BaseOf(q) + Len(q.msgs)
      /\ BaseOf(q) <= Count /\ Shaped(q, session)
  <2>1. TypeOK /\ Shape /\ Balance(q) /\ session \in Sessions /\ q \in Queue
    BY LiveSession DEF IInv, OrderInv, Careful, TypeOK
  <2>. QED BY <2>1, Numbers DEF Balance, Shape
<1>3. CASE n > BaseOf(q)
  <2> DEFINE i == n - BaseOf(q)
  <2>1. i \in 1..Len(q.msgs) /\ BaseOf(q) + i = n
    BY <1>2, <1>3
  <2>2. q.msgs[i].seq = n
    BY <1>2, <2>1 DEF Shaped
  <2>. QED BY <2>1, <2>2 DEF Queued
<1>4. CASE ~(n > BaseOf(q))
  <2>1. n \in 1..Count
    BY <1>2, <1>4
  <2>2. accepted[session][n] = n
    BY <1>1, <1>2, <2>1 DEF InOrderOnce, Count
  <2>. QED BY <2>1, <2>2 DEF Accepted, Count
<1>. QED BY <1>3, <1>4

(* Erase never takes from the queue a message the destination has not
   accepted, for every queue length, batch size, number of sessions and
   restarts, as long as Calm holds. *)
THEOREM NoSilentLoss == ASSUME Calm PROVE Spec => []NothingLostSilently
<1>1. IInv /\ [Next]_vars => IInv'
  BY InvariantStep
<1>2. IInv => NothingLostSilently
  BY InvariantImplies
<1>. QED BY <1>1, <1>2, InvariantInit, PTL DEF Spec

(* The relation between the queue, what the destination accepted and the
   acknowledgements in flight, on which NoSilentLoss rests. *)
THEOREM Inductive == ASSUME Calm PROVE Spec => []IInv
<1>1. IInv /\ [Next]_vars => IInv'
  BY InvariantStep
<1>. QED BY <1>1, InvariantInit, PTL DEF Spec

=============================================================================
