------------------------- MODULE ReliableRouteProof -------------------------
(***************************************************************************)
(* Proofs about ReliableRoute, for every value of its constants.  The      *)
(* types and the shape of the send queue need no further assumption.       *)
(* That Flush is never left a dangling iterator needs only that a restart  *)
(* drains the connections and takes a second (Drained).  That delivery is  *)
(* in order and once, and that routing implements OrderedDelivery, needs   *)
(* besides that a full queue does not meet a second session (Tame).        *)
(* Whether a message may be lost silently is the subject of NoLossProof.   *)
(***************************************************************************)
EXTENDS ReliableRoute, SequenceTheorems, TLAPS

-----------------------------------------------------------------------------
(* The inductive invariant. *)

(* The id of the last message that left the queue, -1 while the RESET heads
   it; and how much of the session the destination accepted. *)
BaseOf(u) == u.currSeq - Len(u.msgs)
Count == Len(accepted[session])

(* The ids of a queue are consecutive and end with the last one emitted;
   0 is the RESET's. *)
Shaped(u, s) ==
  /\ BaseOf(u) >= -1
  /\ \A i \in 1..Len(u.msgs) :
       /\ u.msgs[i].seq = BaseOf(u) + i
       /\ u.msgs[i].type = "RESET" <=> u.msgs[i].seq = 0
       /\ u.msgs[i].type # "PING"
       /\ u.msgs[i].sess = s
       /\ IsData(u.msgs[i]) => u.msgs[i].time = 0
Within(u) == u.notSent <= End(u)
Shape == Shaped(q, session) /\ Within(q)

-----------------------------------------------------------------------------
(* What the operations on a send queue return. *)

(* Queues, field by field. *)
LEMMA QueueFields ==
  ASSUME NEW u
  PROVE  u \in Queue <=>
           /\ u = [isReset |-> u.isReset, urgent |-> u.urgent,
                   currSeq |-> u.currSeq, lastAck |-> u.lastAck,
                   msgs |-> u.msgs, notSent |-> u.notSent]
           /\ u.isReset \in BOOLEAN /\ u.urgent \in BOOLEAN
           /\ u.currSeq \in Nat /\ u.lastAck \in Nat
           /\ u.msgs \in Seq(SyncMsg) /\ u.notSent \in Nat
  BY DEF Queue

(* The loop of Erase stops at a definite place of a shaped queue. *)
LEMMA ErasedPrefixStops ==
  ASSUME NEW u \in Queue, NEW s, Shaped(u, s), NEW e \in Nat
  PROVE  LET n == ErasedPrefix(u, e) IN
         /\ n \in 0..Len(u.msgs)
         /\ \A i \in 1..n : u.msgs[i].seq <= e
         /\ n < Len(u.msgs) => u.msgs[n + 1].seq > e
<1> DEFINE P(n) == /\ \A i \in 1..n : u.msgs[i].seq <= e
                   /\ n < Len(u.msgs) => u.msgs[n + 1].seq > e
           L == Len(u.msgs)
           w == IF e < BaseOf(u) THEN 0
                ELSE IF e > BaseOf(u) + L THEN L ELSE e - BaseOf(u)
<1>1. L \in Nat /\ BaseOf(u) \in Int
  BY QueueFields, LenProperties DEF BaseOf
<1>2. w \in 0..L
  BY <1>1, SMT DEF w
<1>3. \A i \in 1..L : u.msgs[i].seq = BaseOf(u) + i
  BY DEF Shaped
<1>4. ASSUME NEW i \in 1..w PROVE u.msgs[i].seq <= e
  BY <1>1, <1>2, <1>3
<1>5. ASSUME w < L PROVE u.msgs[w + 1].seq > e
  <2>1. w + 1 \in 1..L
    BY <1>1, <1>2, <1>5
  <2>. QED
    BY <1>1, <1>3, <1>5, <2>1
<1>6. \E n \in 0..L : P(n)
  BY <1>2, <1>4, <1>5
<1>7. ErasedPrefix(u, e) = CHOOSE n \in 0..L : P(n)
  BY DEF ErasedPrefix
<1>. QED
  BY <1>6, <1>7

(* Types are strings that no two messages' kinds share. *)
LEMMA DataIsData ==
  ASSUME NEW d \in DataTypes, NEW n \in Nat, NEW s \in Nat
  PROVE  /\ DataMsg(d, n, s) \in SyncMsg
         /\ IsData(DataMsg(d, n, s))
         /\ d # "RESET" /\ d # "PING" /\ d # "SHUTDOWN"
  BY ConstantsAssumption DEF DataMsg, SyncMsg, IsData

(* Push appends the next id, and drops the eldest of a full queue. *)
LEMMA PushIs ==
  ASSUME NEW u \in Queue, NEW s \in Nat, Shaped(u, s), NEW d \in DataTypes
  PROVE  LET p == Push(u, d, s) IN
         /\ p \in Queue /\ Shaped(p, s)
         /\ Within(u) => Within(p)
         /\ p.currSeq = u.currSeq + 1
         /\ p.isReset = u.isReset /\ p.lastAck = u.lastAck
         /\ u.urgent => p.urgent
         /\ ~Full(u) => /\ p.msgs = Append(u.msgs, DataMsg(d, u.currSeq + 1, s))
                        /\ Len(p.msgs) = Len(u.msgs) + 1
                        /\ p.notSent = u.notSent
         /\ Full(u) => /\ BaseOf(p) = BaseOf(u) + 1
                       /\ Len(p.msgs) = Len(u.msgs)
                       /\ p.notSent = After(u.notSent, 1)
<1> DEFINE m == DataMsg(d, u.currSeq + 1, s)
           kept == IF Full(u) THEN Tail(u.msgs) ELSE u.msgs
           pos == IF Full(u) THEN After(u.notSent, 1) ELSE u.notSent
           p == Push(u, d, s)
<1>1. /\ u.isReset \in BOOLEAN /\ u.urgent \in BOOLEAN
      /\ u.currSeq \in Nat /\ u.lastAck \in Nat
      /\ u.msgs \in Seq(SyncMsg) /\ u.notSent \in Nat
  BY QueueFields
<1>2. m \in SyncMsg /\ IsData(m) /\ m.seq = u.currSeq + 1 /\ m.sess = s
      /\ m.time = 0 /\ m.type # "RESET" /\ m.type # "PING"
  BY <1>1, DataIsData DEF DataMsg
<1>3. Len(u.msgs) \in Nat /\ (Full(u) => u.msgs # <<>>)
  BY <1>1, ConstantsAssumption, LenProperties, EmptySeq DEF Full
<1>4. /\ kept \in Seq(SyncMsg)
      /\ Len(kept) = IF Full(u) THEN Len(u.msgs) - 1 ELSE Len(u.msgs)
      /\ \A i \in 1..Len(kept) : kept[i] = IF Full(u) THEN u.msgs[i + 1] ELSE u.msgs[i]
  BY <1>1, <1>3, HeadTailProperties
<1>5. pos \in Nat
  BY <1>1 DEF After, Dangling
<1>6. /\ Append(kept, m) \in Seq(SyncMsg)
      /\ Len(Append(kept, m)) = Len(kept) + 1
      /\ \A i \in 1..Len(kept) : Append(kept, m)[i] = kept[i]
      /\ Append(kept, m)[Len(kept) + 1] = m
  BY <1>2, <1>4, AppendProperties
<1>7. p = [u EXCEPT !.currSeq = u.currSeq + 1,
                    !.urgent = u.urgent \/ Len(u.msgs) > UrgentSize,
                    !.msgs = Append(kept, m), !.notSent = pos]
  BY DEF Push
<1>8. /\ p \in Queue /\ p.currSeq = u.currSeq + 1 /\ p.isReset = u.isReset
      /\ p.lastAck = u.lastAck /\ p.msgs = Append(kept, m) /\ p.notSent = pos
      /\ u.urgent => p.urgent
  <2> DEFINE g == u.urgent \/ Len(u.msgs) > UrgentSize
             ms == Append(kept, m)
             c == u.currSeq + 1
  <2>1. g \in BOOLEAN /\ (u.urgent => g) /\ c \in Nat
    BY <1>1
  <2>2. p = [u EXCEPT !.currSeq = c, !.urgent = g, !.msgs = ms,
                      !.notSent = pos]
    BY <1>7
  <2>3. ms \in Seq(SyncMsg)
    BY <1>6
  <2>. HIDE DEF p, kept, pos, m, g, ms, c
  <2>4. /\ p.isReset = u.isReset /\ p.urgent = g /\ p.currSeq = c
        /\ p.lastAck = u.lastAck /\ p.msgs = ms /\ p.notSent = pos
    BY <1>1, <2>2 DEF Queue
  <2>5. p \in Queue
    BY <1>1, <1>5, <2>1, <2>2, <2>3 DEF Queue
  <2>. QED BY <2>1, <2>4, <2>5 DEF ms, c
<1>9. /\ BaseOf(u) \in Int
      /\ BaseOf(p) = IF Full(u) THEN BaseOf(u) + 1 ELSE BaseOf(u)
      /\ Len(kept) \in Nat
      /\ BaseOf(p) + Len(kept) + 1 = u.currSeq + 1
  <2> DEFINE k == Len(kept)
             l == Len(u.msgs)
             c == u.currSeq
  <2>1. k \in Nat /\ l \in Nat /\ c \in Nat
    BY <1>1, <1>3, <1>4, LenProperties
  <2>2. k = IF Full(u) THEN l - 1 ELSE l
    BY <1>4
  <2>3. BaseOf(u) = c - l
    BY DEF BaseOf
  <2>4. BaseOf(p) = (c + 1) - (k + 1)
    BY <1>6, <1>8 DEF BaseOf
  <2>. HIDE DEF k, l, c, p
  <2>5. /\ BaseOf(u) \in Int /\ BaseOf(p) + k + 1 = c + 1
        /\ BaseOf(p) = IF Full(u) THEN BaseOf(u) + 1 ELSE BaseOf(u)
    BY <2>1, <2>2, <2>3, <2>4
  <2>. QED BY <2>1, <2>5 DEF k, c
<1>10. Shaped(p, s)
  <2>1. BaseOf(p) >= -1
    BY <1>9 DEF Shaped
  <2>2. ASSUME NEW i \in 1..Len(kept)
        PROVE  /\ p.msgs[i].seq = BaseOf(p) + i
               /\ p.msgs[i].type = "RESET" <=> p.msgs[i].seq = 0
               /\ p.msgs[i].type # "PING"
               /\ p.msgs[i].sess = s
               /\ IsData(p.msgs[i]) => p.msgs[i].time = 0
    <3>1. CASE Full(u)
      <4>. HIDE DEF p, kept
      <4>1. i + 1 \in 1..Len(u.msgs) /\ p.msgs[i] = u.msgs[i + 1]
        BY <1>3, <1>4, <1>6, <1>8, <1>9, <3>1
      <4>2. BaseOf(p) + i = BaseOf(u) + (i + 1)
        BY <1>9, <3>1
      <4>. QED BY <4>1, <4>2 DEF Shaped
    <3>2. CASE ~Full(u)
      <4>. HIDE DEF p, kept
      <4>1. i \in 1..Len(u.msgs) /\ p.msgs[i] = u.msgs[i]
        BY <1>3, <1>4, <1>6, <1>8, <3>2
      <4>. QED BY <1>9, <3>2, <4>1 DEF Shaped
    <3>. QED BY <3>1, <3>2
  <2>3. p.msgs[Len(kept) + 1] = m
    BY <1>6, <1>8
  <2>4. ASSUME NEW i \in 1..Len(p.msgs) PROVE i \in 1..Len(kept) \/ i = Len(kept) + 1
    BY <1>6, <1>8, <1>9
  <2>5. /\ m.seq = BaseOf(p) + (Len(kept) + 1)
        /\ m.seq # 0
    BY <1>1, <1>2, <1>9, SMTT(30)
  <2>6. ASSUME NEW i \in 1..Len(p.msgs)
        PROVE  /\ p.msgs[i].seq = BaseOf(p) + i
               /\ p.msgs[i].type = "RESET" <=> p.msgs[i].seq = 0
               /\ p.msgs[i].type # "PING"
               /\ p.msgs[i].sess = s
               /\ IsData(p.msgs[i]) => p.msgs[i].time = 0
    <3>1. CASE i \in 1..Len(kept)
      BY <2>2, <3>1
    <3>2. CASE i = Len(kept) + 1
      <4>1. p.msgs[i] = m
        BY <2>3, <3>2
      <4>. HIDE DEF m, p, kept
      <4>. QED BY <1>2, <2>5, <3>2, <4>1
    <3>. QED BY <2>4, <3>1, <3>2
  <2>. HIDE DEF p
  <2>. QED BY <2>1, <2>6 DEF Shaped
<1>11. Within(u) => Within(p)
  <2>1. End(p) = Len(kept) + 2 /\ End(u) = Len(u.msgs) + 1
    BY <1>6, <1>8, <1>9 DEF End
  <2>2. Within(u) => pos <= Len(kept) + 2
    BY <1>1, <1>3, <1>4, <1>9, <2>1, SMTT(30) DEF Within, After, Dangling
  <2>. QED BY <1>8, <2>1, <2>2 DEF Within
<1>12. Full(u) => Len(p.msgs) = Len(u.msgs)
  <2>. HIDE DEF p, kept
  <2>. QED BY <1>3, <1>4, <1>6, <1>8
<1>. QED BY <1>3, <1>4, <1>6, <1>8, <1>9, <1>10, <1>11, <1>12

(* Flush moves the iterator and the urgent flag only, and sends the messages
   it passes. *)
LEMMA FlushIs ==
  ASSUME NEW u \in Queue
  PROVE  LET f == Flush(u) IN
         /\ f \in Queue
         /\ f.currSeq = u.currSeq /\ f.msgs = u.msgs
         /\ f.isReset = u.isReset /\ f.lastAck = u.lastAck
         /\ \A s : Shaped(u, s) => Shaped(f, s)
         /\ CanFlush(u) => f.notSent = FlushTo(u) /\ f.urgent = Urgent(u)
         /\ ~CanFlush(u) => f = u
         /\ Within(u) => Within(f)
<1>1. /\ u.isReset \in BOOLEAN /\ u.urgent \in BOOLEAN
      /\ u.currSeq \in Nat /\ u.lastAck \in Nat
      /\ u.msgs \in Seq(SyncMsg) /\ u.notSent \in Nat /\ Len(u.msgs) \in Nat
  BY QueueFields, LenProperties
<1>2. FlushTo(u) \in Nat /\ Urgent(u) \in BOOLEAN
  BY <1>1, ConstantsAssumption, SMTT(30) DEF FlushTo, Urgent, End
<1>3. /\ Flush(u) \in Queue
      /\ Flush(u).currSeq = u.currSeq /\ Flush(u).msgs = u.msgs
      /\ Flush(u).isReset = u.isReset /\ Flush(u).lastAck = u.lastAck
      /\ CanFlush(u) => Flush(u).notSent = FlushTo(u) /\ Flush(u).urgent = Urgent(u)
      /\ ~CanFlush(u) => Flush(u) = u
  BY <1>1, <1>2 DEF Flush, Queue
<1>4. ASSUME Within(u), CanFlush(u) PROVE FlushTo(u) <= End(u)
  <2> DEFINE e == End(u)
             p == u.notSent
  <2>0. Len(u.msgs) \in Nat
    BY <1>1
  <2>1. e \in Nat /\ p \in Nat /\ p <= e /\ p # e
    <3>1. e \in Nat
      BY <2>0 DEF End
    <3>2. p <= e /\ p # e
      BY <1>4 DEF Within, CanFlush
    <3>. QED BY <1>1, <3>1, <3>2
  <2>2. FlushTo(u) = p + 1 \/ FlushTo(u) = e
        \/ (FlushTo(u) = p + BatchSize /\ p + BatchSize < e)
    <3>1. CASE Urgent(u)
      BY <3>1 DEF FlushTo
    <3>2. CASE ~Urgent(u)
      BY <3>2, Zenon DEF FlushTo
    <3>. QED BY <3>1, <3>2
  <2>. HIDE DEF e, p
  <2>3. FlushTo(u) <= e
    BY <2>1, <2>2, ConstantsAssumption
  <2>. QED BY <2>3 DEF e
<1>5. Within(u) => Within(Flush(u))
  BY <1>3, <1>4 DEF Within, End
<1>6. \A s : Shaped(u, s) => Shaped(Flush(u), s)
  BY <1>3 DEF Shaped, BaseOf
<1>. QED BY <1>3, <1>5, <1>6

(* What Flush sends is what the iterator passes. *)
LEMMA FlushSends ==
  ASSUME NEW u \in Queue, Within(u), NEW m \in FlushOut(u)
  PROVE  /\ CanFlush(u)
         /\ \E i \in 1..Len(u.msgs) :
              m = u.msgs[i] /\ u.notSent <= i /\ i < FlushTo(u)
         /\ m \in SyncMsg
<1>1. u.msgs \in Seq(SyncMsg) /\ Len(u.msgs) \in Nat /\ u.notSent \in Nat
  BY QueueFields, LenProperties
<1>2. CanFlush(u)
  BY DEF FlushOut
<1>3. PICK i \in u.notSent .. FlushTo(u) - 1 : m = u.msgs[i]
  BY <1>2 DEF FlushOut
<1>4. i \in 1..Len(u.msgs) /\ u.notSent <= i /\ i < FlushTo(u)
  <2> DEFINE l == Len(u.msgs)
             p == u.notSent
  <2>1. l \in Nat /\ p \in Nat /\ p # 0 /\ p # l + 1 /\ p <= l + 1 /\ BatchSize \in Nat
    <3>1. p # 0 /\ p # l + 1
      BY <1>2 DEF CanFlush, End, Dangling
    <3>2. p <= l + 1
      BY DEF Within, End
    <3>. QED BY <1>1, <3>1, <3>2, ConstantsAssumption
  <2>2. FlushTo(u) = p + 1 \/ FlushTo(u) = l + 1
        \/ (FlushTo(u) = p + BatchSize /\ p + BatchSize < l + 1)
    <3>1. CASE Urgent(u)
      BY <3>1 DEF FlushTo
    <3>2. CASE ~Urgent(u)
      BY <3>2, Zenon DEF FlushTo, End
    <3>. QED BY <3>1, <3>2
  <2>. HIDE DEF l, p
  <2>3. i \in p .. FlushTo(u) - 1
    BY DEF p
  <2>4. i \in 1..l /\ p <= i /\ i < FlushTo(u)
    BY <2>1, <2>2, <2>3
  <2>. QED BY <2>4 DEF l, p
<1>5. u.msgs[i] \in SyncMsg
  BY <1>1, <1>4, ElementOfSeq
<1>. QED BY <1>2, <1>3, <1>4, <1>5

(* What is left after the first n messages is shaped as well. *)
LEMMA TailShaped ==
  ASSUME NEW u \in Queue, NEW s, Shaped(u, s), NEW n \in 0..Len(u.msgs),
         NEW r, r.currSeq = u.currSeq, r.msgs = SubSeq(u.msgs, n + 1, Len(u.msgs))
  PROVE  /\ r.msgs \in Seq(SyncMsg)
         /\ Len(r.msgs) = Len(u.msgs) - n
         /\ \A i \in 1..Len(r.msgs) : r.msgs[i] = u.msgs[i + n]
         /\ BaseOf(r) = BaseOf(u) + n
         /\ Shaped(r, s)
<1>1. /\ u.currSeq \in Nat /\ u.msgs \in Seq(SyncMsg) /\ Len(u.msgs) \in Nat
      /\ BaseOf(u) \in Int
  BY QueueFields, LenProperties DEF BaseOf
<1>2. /\ r.msgs \in Seq(SyncMsg)
      /\ Len(r.msgs) = Len(u.msgs) - n
      /\ \A i \in 1..Len(r.msgs) : r.msgs[i] = u.msgs[i + n]
  <2>1. CASE n = Len(u.msgs)
    <3>1. r.msgs = <<>>
      BY <1>1, <2>1, SubSeqEmpty
    <3>. QED BY <1>1, <2>1, <3>1
  <2>2. CASE n # Len(u.msgs)
    BY <1>1, <2>2, SubSeqProperties, SMTT(30)
  <2>. QED BY <2>1, <2>2
<1>3. BaseOf(r) = BaseOf(u) + n
  <2>1. BaseOf(r) = u.currSeq - (Len(u.msgs) - n)
    BY <1>2 DEF BaseOf
  <2>2. BaseOf(u) = u.currSeq - Len(u.msgs)
    BY DEF BaseOf
  <2>. QED BY <1>1, <2>1, <2>2
<1>4. ASSUME NEW i \in 1..Len(r.msgs)
      PROVE  /\ r.msgs[i].seq = BaseOf(r) + i
             /\ r.msgs[i].type = "RESET" <=> r.msgs[i].seq = 0
             /\ r.msgs[i].type # "PING"
             /\ r.msgs[i].sess = s
             /\ IsData(r.msgs[i]) => r.msgs[i].time = 0
  <2>1. i + n \in 1..Len(u.msgs) /\ r.msgs[i] = u.msgs[i + n]
    <3>1. i \in 1..(Len(u.msgs) - n)
      BY <1>2
    <3>2. i + n \in 1..Len(u.msgs)
      <4>. DEFINE l == Len(u.msgs)
      <4>. HIDE DEF l
      <4>1. i \in 1..(l - n) /\ l \in Nat /\ n \in 0..l
        BY <1>1, <3>1 DEF l
      <4>2. i + n \in 1..l
        BY <4>1
      <4>. QED BY <4>2 DEF l
    <3>. QED BY <1>2, <3>2
  <2>2. BaseOf(r) + i = BaseOf(u) + (i + n)
    BY <1>1, <1>3
  <2>. QED BY <2>1, <2>2 DEF Shaped
<1>5. BaseOf(r) >= -1
  BY <1>1, <1>3 DEF Shaped
<1>. QED BY <1>2, <1>3, <1>4, <1>5 DEF Shaped

(* Erase in new mode: the expected prefix leaves the queue. *)
LEMMA EraseExpectedIs ==
  ASSUME NEW u \in Queue, NEW s, Shaped(u, s), NEW a \in AckMsg
  PROVE  LET n == ErasedPrefix(u, a.expect)
             r == EraseExpected(u, a) IN
         /\ r \in Queue /\ Shaped(r, s)
         /\ Within(u) => Within(r)
         /\ r.currSeq = u.currSeq /\ r.lastAck = u.lastAck
         /\ r.isReset = u.isReset
         /\ r.msgs = SubSeq(u.msgs, n + 1, Len(u.msgs))
         /\ r.urgent = ((u.urgent \/ Behind(u, a)) /\ r.msgs # <<>>)
         /\ r.notSent = IF ((u.urgent \/ Behind(u, a)) /\ n > 0) \/ Behind(u, a)
                        THEN 1 ELSE After(u.notSent, n)
<1> DEFINE n == ErasedPrefix(u, a.expect)
           rest == SubSeq(u.msgs, n + 1, Len(u.msgs))
           urgent == u.urgent \/ Behind(u, a)
           g == urgent /\ rest # <<>>
           pos == IF (urgent /\ n > 0) \/ Behind(u, a) THEN 1 ELSE After(u.notSent, n)
           r == EraseExpected(u, a)
<1>1. /\ u.isReset \in BOOLEAN /\ u.urgent \in BOOLEAN
      /\ u.currSeq \in Nat /\ u.lastAck \in Nat
      /\ u.msgs \in Seq(SyncMsg) /\ u.notSent \in Nat /\ Len(u.msgs) \in Nat
  BY QueueFields, LenProperties
<1>2. n \in 0..Len(u.msgs)
  <2>1. a.expect \in Nat
    BY DEF AckMsg
  <2>. QED BY <2>1, ErasedPrefixStops
<1>3. rest \in Seq(SyncMsg)
  BY <1>1, <1>2, SubSeqProperties
<1>4. pos \in Nat
  BY <1>1, <1>2 DEF After, Dangling
<1>5. g \in BOOLEAN
  OBVIOUS
<1>6. r = [u EXCEPT !.msgs = rest, !.urgent = g, !.notSent = pos]
  BY DEF EraseExpected
<1>7. /\ r \in Queue
      /\ r.currSeq = u.currSeq /\ r.lastAck = u.lastAck /\ r.isReset = u.isReset
      /\ r.msgs = rest /\ r.urgent = g /\ r.notSent = pos
  <2>. HIDE DEF r, rest, g, pos
  <2>1. r \in Queue
    BY <1>1, <1>3, <1>4, <1>5, <1>6 DEF Queue
  <2>. QED BY <1>1, <1>6, <2>1 DEF Queue
<1>8. Shaped(r, s)
  <2>. HIDE DEF r, n
  <2>. QED BY <1>2, <1>7, TailShaped
<1>9. Within(u) => Within(r)
  <2>1. Len(rest) = Len(u.msgs) - n
    BY <1>1, <1>2, SubSeqProperties
  <2>2. Within(u) => pos <= Len(rest) + 1
    <3>. HIDE DEF rest, n
    <3>. QED BY <1>1, <1>2, <2>1 DEF Within, End, After, Dangling
  <2>. QED BY <1>7, <2>2 DEF Within, End
<1>. QED BY <1>7, <1>8, <1>9

(* Erase in old mode: the front leaves, or everything is to be sent again. *)
LEMMA EraseFrontIs ==
  ASSUME NEW u \in Queue, NEW s, Shaped(u, s), NEW a \in AckMsg, u.msgs # <<>>
  PROVE  LET r == EraseFront(u, a) IN
         /\ r \in Queue /\ Shaped(r, s)
         /\ Within(u) => Within(r)
         /\ r.currSeq = u.currSeq /\ r.lastAck = u.lastAck
         /\ Behind(u, a) => /\ r.isReset = u.isReset /\ r.msgs = u.msgs
                            /\ r.urgent = TRUE /\ r.notSent = 1
         /\ ~Behind(u, a) /\ Matches(u, a) =>
              /\ r.isReset <=> (u.isReset \/ a.type = "RESET")
              /\ r.msgs = Tail(u.msgs)
              /\ r.msgs = SubSeq(u.msgs, 2, Len(u.msgs))
              /\ r.urgent = (u.urgent /\ Len(u.msgs) > 1)
              /\ r.notSent = After(u.notSent, 1)
         /\ ~Behind(u, a) /\ ~Matches(u, a) => r = u
<1> DEFINE r == EraseFront(u, a)
<1>1. /\ u.isReset \in BOOLEAN /\ u.urgent \in BOOLEAN
      /\ u.currSeq \in Nat /\ u.lastAck \in Nat
      /\ u.msgs \in Seq(SyncMsg) /\ u.notSent \in Nat /\ Len(u.msgs) \in Nat
  BY QueueFields, LenProperties
<1>2. CASE Behind(u, a)
  <2> DEFINE g == TRUE
  <2>0. ~Matches(u, a)
    <3>1. Head(u.msgs).seq \in Nat /\ a.seq \in Nat
      <4>1. Head(u.msgs) \in SyncMsg
        BY <1>1, HeadTailProperties
      <4>. QED BY <4>1 DEF SyncMsg, AckMsg
    <3>. QED BY <1>2, <3>1 DEF Behind, Matches
  <2>1. r = [u EXCEPT !.urgent = g, !.notSent = 1] /\ g \in BOOLEAN
    BY <1>2, <2>0 DEF EraseFront
  <2>2. r \in Queue /\ r.msgs = u.msgs /\ r.currSeq = u.currSeq
        /\ r.lastAck = u.lastAck /\ r.isReset = u.isReset
        /\ r.urgent = g /\ r.notSent = 1
    <3>. HIDE DEF r, g
    <3>1. r \in Queue
      BY <1>1, <2>1 DEF Queue
    <3>. QED BY <1>1, <2>1, <3>1 DEF Queue
  <2>3. Shaped(r, s)
    <3>. HIDE DEF r
    <3>. QED BY <2>2 DEF Shaped, BaseOf
  <2>4. Within(r)
    BY <1>1, <2>2 DEF Within, End
  <2>. QED BY <1>2, <2>2, <2>3, <2>4
<1>3. CASE ~Behind(u, a) /\ Matches(u, a)
  <2> DEFINE f == u.isReset \/ a.type = "RESET"
             g == u.urgent /\ Len(u.msgs) > 1
             ms == Tail(u.msgs)
             pos == After(u.notSent, 1)
  <2>1. r = [u EXCEPT !.msgs = ms, !.notSent = pos, !.isReset = f, !.urgent = g]
    BY <1>3 DEF EraseFront
  <2>2. /\ ms \in Seq(SyncMsg) /\ pos \in Nat /\ f \in BOOLEAN /\ g \in BOOLEAN
    BY <1>1, HeadTailProperties DEF After, Dangling
  <2>3. ms = SubSeq(u.msgs, 2, Len(u.msgs)) /\ 1 \in 0..Len(u.msgs)
    BY <1>1, EmptySeq
  <2>4. r \in Queue /\ r.currSeq = u.currSeq /\ r.lastAck = u.lastAck
        /\ r.isReset = f /\ r.msgs = ms /\ r.urgent = g /\ r.notSent = pos
    <3>. HIDE DEF r, f, g, ms, pos
    <3>1. r \in Queue
      BY <1>1, <2>1, <2>2 DEF Queue
    <3>. QED BY <1>1, <2>1, <3>1 DEF Queue
  <2>5. Shaped(r, s)
    <3>1. r.msgs = SubSeq(u.msgs, 1 + 1, Len(u.msgs))
      BY <2>3, <2>4
    <3>. HIDE DEF r
    <3>. QED BY <2>3, <2>4, <3>1, TailShaped
  <2>6. Within(u) => Within(r)
    <3>1. Len(r.msgs) = Len(u.msgs) - 1 /\ Len(u.msgs) # 0
      BY <1>1, <2>4, HeadTailProperties, EmptySeq
    <3>. HIDE DEF r
    <3>. QED BY <1>1, <2>4, <3>1 DEF Within, End, After, Dangling
  <2>. QED BY <1>3, <2>3, <2>4, <2>5, <2>6
<1>4. CASE ~Behind(u, a) /\ ~Matches(u, a)
  BY <1>4 DEF EraseFront
<1>. QED BY <1>2, <1>3, <1>4

(* Whatever Erase does, it keeps the queue shaped. *)
LEMMA EraseKeepsShape ==
  ASSUME NEW u \in Queue, NEW s, Shaped(u, s), NEW a \in AckMsg
  PROVE  LET r == Erase(u, a) IN
         /\ r \in Queue /\ Shaped(r, s) /\ (Within(u) => Within(r))
         /\ r.currSeq = u.currSeq /\ r.lastAck = u.lastAck
<1>1. CASE a.type = "SHUTDOWN"
  <2> DEFINE r == Erase(u, a)
  <2>1. r = [u EXCEPT !.isReset = FALSE]
    BY <1>1 DEF Erase
  <2>2. /\ r \in Queue /\ r.currSeq = u.currSeq /\ r.lastAck = u.lastAck
        /\ r.msgs = u.msgs /\ r.notSent = u.notSent
    <3>. HIDE DEF r
    <3>. QED BY <2>1 DEF Queue
  <2>. HIDE DEF r
  <2>. QED BY <2>2 DEF Shaped, BaseOf, Within, End, r
<1>2. CASE a.type # "SHUTDOWN" /\ (a.type = "PING" \/ u.msgs = <<>>)
  BY <1>2 DEF Erase
<1>3. CASE a.type # "SHUTDOWN" /\ a.type # "PING" /\ u.msgs # <<>>
  <2>1. CASE a.expect # 0 /\ u.isReset
    <3>1. Erase(u, a) = EraseExpected(u, a)
      BY <1>3, <2>1 DEF Erase
    <3>. QED BY <3>1, EraseExpectedIs
  <2>2. CASE ~(a.expect # 0 /\ u.isReset)
    <3> DEFINE r == EraseFront(u, a)
    <3>1. Erase(u, a) = r
      BY <1>3, <2>2 DEF Erase
    <3>2. /\ r \in Queue /\ Shaped(r, s) /\ (Within(u) => Within(r))
          /\ r.currSeq = u.currSeq /\ r.lastAck = u.lastAck
      BY <1>3, EraseFrontIs
    <3>. HIDE DEF r
    <3>. QED BY <3>1, <3>2
  <2>. QED BY <2>1, <2>2
<1>. QED BY <1>1, <1>2, <1>3

(* No queue at all is shaped too. *)
LEMMA NoQueueIs ==
  /\ NoQueue \in Queue /\ Within(NoQueue)
  /\ NoQueue.isReset = FALSE /\ NoQueue.urgent = FALSE /\ NoQueue.currSeq = 0
  /\ NoQueue.lastAck = 0 /\ NoQueue.msgs = <<>> /\ NoQueue.notSent = 1
  /\ \A s : Shaped(NoQueue, s)
  BY DEF NoQueue, Queue, Shaped, BaseOf, Within, End

(* A new queue holds its RESET, already sent. *)
LEMMA ResetIs ==
  ASSUME NEW s \in Nat, now \in Nat
  PROVE  LET r == Reset(s) IN
         /\ r \in Queue /\ Shaped(r, s) /\ Within(r)
         /\ r.currSeq = 0 /\ r.lastAck = now /\ r.notSent = 2
         /\ r.msgs = <<ResetMsg(now, s)>> /\ Len(r.msgs) = 1
         /\ r.isReset = FALSE /\ r.urgent = FALSE
         /\ ResetMsg(now, s) \in SyncMsg
<1> DEFINE r == Reset(s)
           ms == <<ResetMsg(now, s)>>
<1>1. ResetMsg(now, s) \in SyncMsg
  BY DEF ResetMsg, SyncMsg
<1>2. r = [NoQueue EXCEPT !.lastAck = now, !.msgs = ms, !.notSent = 2]
  BY DEF Reset
<1>3. ms \in Seq(SyncMsg) /\ Len(ms) = 1 /\ ms[1] = ResetMsg(now, s)
  BY <1>1
<1>4. /\ r \in Queue /\ r.currSeq = 0 /\ r.lastAck = now /\ r.notSent = 2
      /\ r.msgs = ms /\ r.isReset = FALSE /\ r.urgent = FALSE
  <2>. HIDE DEF r, ms
  <2>. QED BY <1>2, <1>3, NoQueueIs DEF Queue
<1>5. BaseOf(r) = -1 /\ Within(r)
  <2>. HIDE DEF r
  <2>. QED BY <1>3, <1>4 DEF BaseOf, Within, End
<1>6. Shaped(r, s)
  <2>1. /\ ms[1].seq = -1 + 1 /\ ms[1].type = "RESET" /\ ms[1].sess = s
        /\ ~IsData(ms[1])
    BY <1>3 DEF ResetMsg, IsData
  <2>2. \A i \in 1..Len(r.msgs) : i = 1
    BY <1>3, <1>4
  <2>. HIDE DEF r, ms
  <2>. QED BY <1>4, <1>5, <2>1, <2>2 DEF Shaped
<1>. QED BY <1>1, <1>3, <1>4, <1>5, <1>6

-----------------------------------------------------------------------------
(* Types and the shape of the send queue, for every value of the constants. *)

(* What survives a restart was in flight. *)
LEMMA DropConnectionsIs ==
  ASSUME TypeOK, DropConnections
  PROVE  sync' \subseteq SyncMsg /\ acks' \in Seq(AckMsg)
<1>1. CASE DrainOnRestart
  BY <1>1 DEF DropConnections
<1>2. CASE ~DrainOnRestart
  BY <1>2 DEF DropConnections, TypeOK
<1>. QED BY <1>1, <1>2

LEMMA TypeShapeInit == Init => TypeOK /\ Shape
<1> SUFFICES ASSUME Init PROVE TypeOK /\ Shape
  OBVIOUS
<1>1. q \in Queue /\ Shape
  BY NoQueueIs DEF Init, Shape
<1>2. /\ emitted \in [Sessions -> Nat] /\ accepted \in [Sessions -> Seq(Nat)]
      /\ acks \in Seq(AckMsg)
  BY DEF Init
<1>3. /\ live \in BOOLEAN /\ live = FALSE /\ sync \subseteq SyncMsg
      /\ dropped \subseteq Nat /\ now = 1
  BY DEF Init
<1>4. /\ expect = 0 /\ lastReset = 0 /\ restarts = 0 /\ crashes = 0
      /\ session = 0 /\ session \in 0..MaxSession
  BY ConstantsAssumption DEF Init
<1>. QED BY <1>1, <1>2, <1>3, <1>4 DEF TypeOK

LEMMA TypeShapeStep == TypeOK /\ Shape /\ [Next]_vars => TypeOK' /\ Shape'
<1> SUFFICES ASSUME TypeOK, Shape, [Next]_vars PROVE TypeOK' /\ Shape'
  OBVIOUS
<1>. USE DEF Shape
<1>0. session \in Nat /\ MaxSession \in Nat /\ q \in Queue /\ now \in Nat
  BY ConstantsAssumption DEF TypeOK
<1>1. ASSUME NEW d \in DataTypes, EmitNext(d) PROVE TypeOK' /\ Shape'
  <2> DEFINE u == Push(q, d, session)
  <2>1. u \in Queue /\ Shaped(u, session) /\ Within(u)
    BY <1>0, PushIs
  <2>2. q' = Flush(u) /\ sync' = sync \cup FlushOut(u)
    BY <1>1 DEF EmitNext
  <2>3. q' \in Queue /\ Shaped(q', session) /\ Within(q')
    BY <2>1, <2>2, FlushIs
  <2>4. sync' \subseteq SyncMsg
    BY <2>1, <2>2, FlushSends DEF TypeOK
  <2>5. emitted' \in [Sessions -> Nat]
    <3>1. emitted' = [emitted EXCEPT ![session] = @ + 1]
      BY <1>1 DEF EmitNext
    <3>2. emitted \in [Sessions -> Nat] /\ \A t \in Sessions : emitted[t] + 1 \in Nat
      BY DEF TypeOK
    <3>. QED BY <3>1, <3>2
  <2>6. dropped' \subseteq Nat
    <3>1. CASE Full(q)
      <4>1. q.msgs \in Seq(SyncMsg) /\ q.msgs # <<>>
        BY <1>0, <3>1, QueueFields, EmptySeq, ConstantsAssumption, SMTT(30) DEF Full
      <4>2. Head(q.msgs) \in SyncMsg
        BY <4>1, HeadTailProperties
      <4>. QED BY <1>1, <3>1, <4>2 DEF EmitNext, TypeOK, SyncMsg
    <3>2. CASE ~Full(q)
      BY <1>1, <3>2 DEF EmitNext, TypeOK
    <3>. QED BY <3>1, <3>2
  <2>. QED
    BY <1>1, <2>3, <2>4, <2>5, <2>6 DEF EmitNext, TypeOK, destination
<1>2. ASSUME NEW d \in DataTypes, EmitFirst(d) PROVE TypeOK' /\ Shape'
  <2> DEFINE s == session + 1
             r == Reset(s)
             u == Push(r, d, s)
  <2>0. s \in Nat /\ s \in Sessions /\ s > 0
    BY <1>0, <1>2 DEF EmitFirst, Sessions
  <2>1. r \in Queue /\ Shaped(r, s) /\ Within(r) /\ ResetMsg(now, s) \in SyncMsg
    BY <1>0, <2>0, ResetIs
  <2>2. u \in Queue /\ Shaped(u, s) /\ Within(u)
    BY <2>0, <2>1, PushIs
  <2>3. /\ q' = Flush(u) /\ session' = s
        /\ sync' = sync \cup {ResetMsg(now, s)} \cup FlushOut(u)
    BY <1>2 DEF EmitFirst
  <2>4. q' \in Queue /\ Shaped(q', s) /\ Within(q')
    BY <2>2, <2>3, FlushIs
  <2>5. sync' \subseteq SyncMsg
    BY <2>1, <2>2, <2>3, FlushSends DEF TypeOK
  <2>6. emitted' \in [Sessions -> Nat] /\ dropped' \subseteq Nat
    <3>1. emitted' = [emitted EXCEPT ![s] = 1]
      BY <1>2 DEF EmitFirst
    <3>2. emitted \in [Sessions -> Nat]
      BY DEF TypeOK
    <3>3. dropped' \subseteq Nat
      BY <1>2 DEF EmitFirst
    <3>. HIDE DEF s
    <3>. QED BY <3>1, <3>2, <3>3
  <2>7. session' \in 0..MaxSession
    BY <1>0, <2>0, <2>3 DEF Sessions
  <2>. HIDE DEF u, r, s
  <2>. QED
    BY <1>2, <2>0, <2>3, <2>4, <2>5, <2>6, <2>7
    DEF EmitFirst, TypeOK, destination
<1>3. CASE Retry
  <2>1. q.msgs # <<>> => Head(q.msgs) \in SyncMsg
    BY <1>0, QueueFields, HeadTailProperties
  <2>2. PingMsg(session) \in SyncMsg
    BY <1>0 DEF PingMsg, SyncMsg
  <2>. QED BY <1>3, <2>1, <2>2 DEF Retry, TypeOK, source, destination
<1>4. CASE ExpireQueue
  <2>1. sync' \subseteq SyncMsg /\ acks' \in Seq(AckMsg)
    BY <1>4, DropConnectionsIs DEF ExpireQueue
  <2>. QED BY <1>4, <2>1, NoQueueIs DEF ExpireQueue, TypeOK, destination
<1>5. ASSUME NEW i \in 1..Len(acks), OnAckRouter(i) PROVE TypeOK' /\ Shape'
  <2> DEFINE v == [q EXCEPT !.lastAck = now]
             u == Erase(v, acks[i])
  <2>1. v \in Queue /\ Shaped(v, session) /\ Within(v)
    BY <1>0 DEF Queue, Shaped, BaseOf, Within, End
  <2>2. acks[i] \in AckMsg
    BY ElementOfSeq DEF TypeOK
  <2>3. u \in Queue /\ Shaped(u, session) /\ Within(u)
    BY <2>1, <2>2, EraseKeepsShape
  <2>4. q' \in Queue /\ Shaped(q', session) /\ Within(q')
    <3>. HIDE DEF u
    <3>1. q' = Flush(u) \/ q' = q
      BY <1>5 DEF OnAckRouter, u
    <3>. QED BY <1>0, <2>3, <3>1, FlushIs
  <2>5. sync' \subseteq SyncMsg
    <3>. HIDE DEF u
    <3>1. sync' = sync \cup FlushOut(u) \/ sync' = sync
      BY <1>5 DEF OnAckRouter, u
    <3>. QED BY <2>3, <3>1, FlushSends DEF TypeOK
  <2>6. acks' \in Seq(AckMsg)
    <3>1. acks' = SubSeq(acks, 1, i - 1) \o SubSeq(acks, i + 1, Len(acks))
      BY <1>5 DEF OnAckRouter, RemoveAck
    <3>2. /\ acks \in Seq(AckMsg) /\ Len(acks) \in Nat
      BY LenProperties DEF TypeOK
    <3>3. SubSeq(acks, 1, i - 1) \in Seq(AckMsg)
          /\ SubSeq(acks, i + 1, Len(acks)) \in Seq(AckMsg)
      BY <3>2, SubSeqProperties
    <3>. QED BY <3>1, <3>3, ConcatProperties
  <2>. QED
    BY <1>5, <2>4, <2>5, <2>6 DEF OnAckRouter, TypeOK, destination
<1>6. CASE RestartSource
  <2>1. sync' \subseteq SyncMsg /\ acks' \in Seq(AckMsg)
    BY <1>6, DropConnectionsIs DEF RestartSource
  <2>2. now' \in Nat \ {0}
    BY <1>6 DEF RestartSource, TypeOK
  <2>3. q' \in Queue /\ Shaped(q', session') /\ Within(q')
    BY <1>6, NoQueueIs DEF RestartSource
  <2>4. /\ ~live' /\ live' \in BOOLEAN /\ crashes' = crashes + 1
        /\ UNCHANGED <<session, emitted, dropped, expect, lastReset, accepted, restarts>>
    BY <1>6 DEF RestartSource, destination
  <2>5. crashes' \in Nat /\ live' \in BOOLEAN /\ (live' => session' > 0)
    BY <2>4 DEF TypeOK
  <2>6. /\ session' \in 0..MaxSession /\ emitted' \in [Sessions -> Nat]
        /\ accepted' \in [Sessions -> Seq(Nat)] /\ dropped' \subseteq Nat
        /\ expect' \in Nat /\ lastReset' \in Nat /\ restarts' \in Nat
    BY <2>4 DEF TypeOK
  <2>. QED BY <2>1, <2>2, <2>3, <2>5, <2>6 DEF TypeOK
<1>7. ASSUME NEW m \in sync, OnSyncRouter(m) PROVE TypeOK' /\ Shape'
  <2>1. m \in SyncMsg /\ m.seq \in Nat /\ m.time \in Nat /\ m.sess \in Nat
        /\ m.type \in DataTypes \cup {"RESET", "PING"}
    BY DEF TypeOK, SyncMsg
  <2>2. expect' \in Nat /\ lastReset' \in Nat
    BY <1>7, <2>1 DEF OnSyncRouter, TypeOK
  <2>3. RouteAck(m, expect') \in AckMsg
    BY <2>1, <2>2 DEF RouteAck, AckMsg
  <2>4. acks' \in Seq(AckMsg)
    <3>1. acks \in Seq(AckMsg)
      BY DEF TypeOK
    <3>2. Len(acks) >= MaxAcks => Tail(acks) \in Seq(AckMsg)
      BY <3>1, HeadTailProperties, EmptySeq, ConstantsAssumption
    <3>3. acks' = Append(IF Len(acks) < MaxAcks THEN acks ELSE Tail(acks),
                         RouteAck(m, expect'))
      BY <1>7 DEF OnSyncRouter
    <3>. HIDE DEF RouteAck
    <3>. QED BY <2>3, <3>1, <3>2, <3>3, AppendProperties, ConstantsAssumption, LenProperties
  <2>5. accepted' \in [Sessions -> Seq(Nat)]
    <3>1. CASE InSequence(m)
      <4>1. accepted' = [accepted EXCEPT ![m.sess] = Append(@, m.seq)]
        BY <1>7, <3>1 DEF OnSyncRouter
      <4>2. \A t \in Sessions : Append(accepted[t], m.seq) \in Seq(Nat)
        BY <2>1, AppendProperties DEF TypeOK
      <4>. QED BY <4>1, <4>2 DEF TypeOK
    <3>2. CASE ~InSequence(m)
      BY <1>7, <3>2 DEF OnSyncRouter, TypeOK
    <3>. QED BY <3>1, <3>2
  <2>. QED BY <1>7, <2>2, <2>4, <2>5 DEF OnSyncRouter, TypeOK, source
<1>8. CASE RestartDestination
  <2>1. sync' \subseteq SyncMsg /\ acks' \in Seq(AckMsg)
    BY <1>8, DropConnectionsIs DEF RestartDestination
  <2>. QED BY <1>8, <2>1 DEF RestartDestination, TypeOK, source
<1>9. ASSUME NEW m \in sync, LoseSync(m) PROVE TypeOK' /\ Shape'
  BY <1>9 DEF LoseSync, TypeOK, source, destination
<1>10. CASE LoseAck
  <2>1. Tail(acks) \in Seq(AckMsg)
    BY <1>10, HeadTailProperties DEF LoseAck, TypeOK
  <2>. QED BY <1>10, <2>1 DEF LoseAck, TypeOK, source, destination
<1>11. CASE Tick
  BY <1>11 DEF Tick, TypeOK, source, destination
<1>12. CASE UNCHANGED vars
  BY <1>12 DEF vars, TypeOK, source, destination
<1>. QED
  BY <1>1, <1>2, <1>3, <1>4, <1>5, <1>6, <1>7, <1>8, <1>9, <1>10, <1>11, <1>12
  DEF Next, Writer, Reader, Environment

(* The ids of the send queue are consecutive, so that one expected id says
   which prefix of it to erase, and m_iterNotSent never passes its end. *)
THEOREM TypeShape == Spec => [](TypeOK /\ Shape)
  BY TypeShapeInit, TypeShapeStep, PTL DEF Spec

(* Every variable keeps its type, whatever is lost, repeated or reordered. *)
THEOREM TypeCorrect == Spec => []TypeOK
<1>1. TypeOK /\ Shape => TypeOK
  OBVIOUS
<1>. QED BY <1>1, TypeShape, PTL

-----------------------------------------------------------------------------
(* The inductive invariant of delivery.  It needs no order of the
   acknowledgements and no bound on the queue. *)

(* What a restart costs: connections are gone, and a second has passed. *)
Drained == DrainOnRestart /\ RestartTakesSecond

(* A full queue may lose its RESET.  A later session then goes on where the
   former stopped, unless the queue never fills or there is no other session. *)
Tame == MaxSeq < MaxQueue \/ MaxSession <= 1

(* With no queue nothing is in flight, and a new RESET would be newer than
   the last one taken. *)
Idle == ~live => sync = {} /\ acks = <<>> /\ lastReset < now

(* What was accepted, session by session. *)
History ==
  /\ Tame => InOrderOnce
  /\ \A s \in Sessions : s > session => accepted[s] = <<>>

(* A destination that took no RESET expects nothing; none is taken before
   the first session. *)
NoReset == /\ lastReset = 0 => expect = 0
           /\ session = 0 => lastReset = 0

(* The following relate a queue u to messages sy and acknowledgements ac in
   flight and to the destination.  What may be in flight: *)
Flight(u, sy) ==
  /\ lastReset <= u.lastAck /\ u.lastAck <= now
  /\ u.currSeq <= MaxSeq
  /\ \A m \in sy : /\ m.sess = session
                   /\ m.time <= u.lastAck
                   /\ IsData(m) => m.seq \in 1..u.currSeq
                   /\ ~IsData(m) => m.seq = 0

(* The RESET is not yet acknowledged: no data has left the source. *)
Opening(u, sy, ac) ==
  BaseOf(u) = -1 =>
    /\ ~u.isReset
    /\ u.notSent = 2
    /\ Count = 0
    /\ u.msgs[1].time > 0 /\ u.msgs[1].time <= u.lastAck
    /\ lastReset <= u.msgs[1].time
    /\ MaxSession <= 1 => lastReset \in {0, u.msgs[1].time}
    /\ \A m \in sy : ~IsData(m) /\ (m.type = "RESET" => m = u.msgs[1])
    /\ lastReset = u.msgs[1].time => expect = 0
    /\ \A i \in 1..Len(ac) :
         \/ ac[i].type = "PING"
         \/ /\ ac[i].type = "RESET" /\ ac[i].seq = 0 /\ ac[i].expect = 0
            /\ lastReset = u.msgs[1].time

(* The RESET has left the queue: it was taken, or a full queue dropped it,
   and is then taken before any data. *)
Running(u, sy, ac) ==
  BaseOf(u) >= 0 /\ (u.isReset \/ Tame) =>
    /\ Count <= u.currSeq
    /\ lastReset # 0 =>
         expect = Count /\ \A m \in sy : m.type = "RESET" => m.time <= lastReset
    /\ lastReset = 0 =>
         \/ \A m \in sy : m.type # "RESET"
         \/ /\ Count = 0
            /\ \A m, n \in sy : m.type = "RESET" /\ n.type = "RESET" => m.time = n.time
    /\ \A i \in 1..Len(ac) : ac[i].type # "PING" => ac[i].expect <= Count

(* The iterator, while data may be sent; until Flush has run it may be at
   the front. *)
Pointer(u, sy) ==
  u.isReset =>
    /\ BaseOf(u) >= 0
    /\ u.notSent \in 1..End(u)
    /\ ~u.urgent => /\ \A m \in sy : IsData(m) => m.seq < BaseOf(u) + u.notSent
                    /\ Count < BaseOf(u) + u.notSent
FrontSent(u) == u.isReset /\ u.msgs # <<>> => u.notSent > 1

Linked(u, sy, ac) ==
  Flight(u, sy) /\ Opening(u, sy, ac) /\ Running(u, sy, ac) /\ Pointer(u, sy)

OrderInv == /\ TypeOK /\ Shape /\ Idle /\ History /\ NoReset
            /\ live => Linked(q, sync, acks) /\ FrontSent(q)

-----------------------------------------------------------------------------
(* Steps of the bridges and of Flush, on the invariant's parts. *)

(* The numbers the invariant compares. *)
LEMMA Numbers ==
  ASSUME TypeOK, session \in Sessions, NEW u \in Queue
  PROVE  /\ Count \in Nat /\ expect \in Nat /\ lastReset \in Nat /\ now \in Nat
         /\ u.currSeq \in Nat /\ u.lastAck \in Nat /\ u.notSent \in Nat
         /\ u.msgs \in Seq(SyncMsg) /\ Len(u.msgs) \in Nat
         /\ BaseOf(u) \in Int /\ u.currSeq = BaseOf(u) + Len(u.msgs)
<1>1. accepted[session] \in Seq(Nat)
  BY DEF TypeOK
<1>2. Count \in Nat
  BY <1>1, LenProperties DEF Count
<1>3. u.currSeq \in Nat /\ u.lastAck \in Nat /\ u.notSent \in Nat
      /\ u.msgs \in Seq(SyncMsg) /\ Len(u.msgs) \in Nat
  BY QueueFields, LenProperties
<1>4. BaseOf(u) \in Int /\ u.currSeq = BaseOf(u) + Len(u.msgs)
  BY <1>3 DEF BaseOf
<1>. QED BY <1>2, <1>3, <1>4 DEF TypeOK

(* Losing messages and acknowledgements breaks nothing, nor does taking
   acknowledgements in another order. *)
LEMMA LossKeepsLinked ==
  ASSUME NEW u, NEW sy, NEW sy2 \in SUBSET sy, NEW ac, NEW ac2,
         \A i \in 1..Len(ac2) : \E k \in 1..Len(ac) : ac2[i] = ac[k],
         Linked(u, sy, ac)
  PROVE  Linked(u, sy2, ac2)
<1>1. Flight(u, sy2) /\ Pointer(u, sy2)
  BY DEF Linked, Flight, Pointer
<1>2. Opening(u, sy2, ac2)
  BY DEF Linked, Opening
<1>3. Running(u, sy2, ac2)
  <2>. SUFFICES ASSUME BaseOf(u) >= 0, u.isReset \/ Tame PROVE Running(u, sy2, ac2)
    BY DEF Running
  <2>1. \A i \in 1..Len(ac2) : ac2[i].type # "PING" => ac2[i].expect <= Count
    BY DEF Linked, Running
  <2>2. lastReset # 0 =>
          expect = Count /\ \A m \in sy2 : m.type = "RESET" => m.time <= lastReset
    BY DEF Linked, Running
  <2>3. lastReset = 0 =>
          \/ \A m \in sy2 : m.type # "RESET"
          \/ /\ Count = 0
             /\ \A m, n \in sy2 : m.type = "RESET" /\ n.type = "RESET" => m.time = n.time
    BY ZenonT(60) DEF Linked, Running
  <2>. QED BY <2>1, <2>2, <2>3 DEF Linked, Running
<1>. QED BY <1>1, <1>2, <1>3 DEF Linked

(* A message of a queue whose RESET is acknowledged is data. *)
LEMMA QueuedIsData ==
  ASSUME NEW u \in Queue, NEW s, Shaped(u, s), NEW i \in 1..Len(u.msgs),
         BaseOf(u) + i > 0
  PROVE  /\ IsData(u.msgs[i]) /\ u.msgs[i].type # "RESET"
         /\ u.msgs[i].seq \in 1..u.currSeq /\ u.msgs[i].seq = BaseOf(u) + i
         /\ u.msgs[i].sess = s /\ u.msgs[i].time = 0
<1>1. u.currSeq \in Nat /\ u.msgs \in Seq(SyncMsg) /\ Len(u.msgs) \in Nat
  BY QueueFields, LenProperties
<1>2. BaseOf(u) \in Int /\ u.currSeq = BaseOf(u) + Len(u.msgs)
  BY <1>1 DEF BaseOf
<1>3. u.msgs[i].seq = BaseOf(u) + i /\ BaseOf(u) + i \in 1..u.currSeq
  BY <1>2 DEF Shaped
<1>4. u.msgs[i] \in SyncMsg
  BY <1>1, ElementOfSeq
<1>5. u.msgs[i].type # "RESET" /\ u.msgs[i].type # "PING"
  BY <1>3 DEF Shaped
<1>6. IsData(u.msgs[i])
  BY <1>4, <1>5, ConstantsAssumption DEF SyncMsg, IsData
<1>. QED BY <1>3, <1>5, <1>6 DEF Shaped

(* Flush sends data only, moves the iterator past it and past the front. *)
LEMMA FlushKeepsLinked ==
  ASSUME TypeOK, session \in Sessions,
         NEW u \in Queue, Shaped(u, session), Within(u),
         NEW sy, NEW ac, Linked(u, sy, ac)
  PROVE  /\ Linked(Flush(u), sy \cup FlushOut(u), ac) /\ FrontSent(Flush(u))
         /\ \A m \in FlushOut(u) : m.type # "RESET"
<1> DEFINE f == Flush(u)
           sy2 == sy \cup FlushOut(u)
<1>1. /\ f \in Queue /\ f.currSeq = u.currSeq /\ f.msgs = u.msgs
      /\ f.isReset = u.isReset /\ f.lastAck = u.lastAck
      /\ CanFlush(u) => f.notSent = FlushTo(u) /\ f.urgent = Urgent(u)
      /\ ~CanFlush(u) => f = u
      /\ Within(f) /\ BaseOf(f) = BaseOf(u) /\ End(f) = End(u)
  BY FlushIs DEF BaseOf, End
<1>2. /\ Count \in Nat /\ lastReset \in Nat /\ u.notSent \in Nat /\ f.notSent \in Nat
      /\ u.lastAck \in Nat /\ Len(u.msgs) \in Nat /\ BaseOf(u) \in Int
  BY <1>1, Numbers
<1>3. CanFlush(u) => BaseOf(u) >= 0 /\ u.isReset /\ u.notSent >= 1
  BY <1>2 DEF Linked, Pointer, CanFlush, Dangling
<1>4. ASSUME NEW m \in FlushOut(u)
      PROVE  /\ CanFlush(u) /\ IsData(m) /\ m.type # "RESET"
             /\ m.seq \in 1..u.currSeq /\ m.seq < BaseOf(u) + FlushTo(u)
             /\ m.sess = session /\ m.time = 0
  <2>1. CanFlush(u)
    BY FlushSends
  <2>2. PICK i \in 1..Len(u.msgs) : m = u.msgs[i] /\ i < FlushTo(u)
    BY FlushSends
  <2>3. BaseOf(u) + i > 0
    BY <1>2, <1>3, <2>1
  <2>4. FlushTo(u) \in Nat
    BY <1>1, <1>2, <2>1
  <2>. QED BY <1>2, <2>1, <2>2, <2>3, <2>4, QueuedIsData
<1>5. f.notSent >= u.notSent
  <2>1. CASE CanFlush(u)
    BY <1>1, <1>2, <2>1, ConstantsAssumption, SMTT(30) DEF FlushTo, Within, End
  <2>2. CASE ~CanFlush(u)
    BY <1>1, <1>2, <2>2
  <2>. QED BY <2>1, <2>2
<1>6. ~f.urgent => ~u.urgent
  BY <1>1 DEF Urgent
<1>7. Flight(f, sy2)
  BY <1>1, <1>2, <1>4 DEF Linked, Flight
<1>8. Opening(f, sy2, ac)
  <2>. SUFFICES ASSUME BaseOf(u) = -1 PROVE Opening(u, sy, ac) => Opening(f, sy2, ac)
    BY <1>1 DEF Linked, Opening
  <2>1. ~CanFlush(u)
    BY <1>3
  <2>2. f = u /\ sy2 = sy
    BY <1>1, <1>4, <2>1
  <2>. QED BY <2>2
<1>9. Running(f, sy2, ac)
  <2>. SUFFICES ASSUME BaseOf(u) >= 0, u.isReset \/ Tame PROVE Running(f, sy2, ac)
    BY <1>1 DEF Running
  <2>1. ASSUME NEW m \in sy2, m.type = "RESET" PROVE m \in sy
    BY <1>4, <2>1
  <2>. HIDE DEF f, sy2
  <2>. QED BY <1>1, <2>1 DEF Linked, Running
<1>10. Pointer(f, sy2)
  <2>. SUFFICES ASSUME u.isReset PROVE Pointer(f, sy2)
    BY <1>1 DEF Pointer
  <2>1. BaseOf(f) >= 0 /\ f.notSent \in 1..End(f)
    BY <1>1, <1>2, <1>5 DEF Linked, Pointer, Within, End
  <2>2. ASSUME ~f.urgent, NEW m \in sy2, IsData(m)
        PROVE  m.seq < BaseOf(f) + f.notSent
    <3>1. CASE m \in FlushOut(u)
      BY <1>1, <1>4, <3>1
    <3>2. CASE m \in sy
      <4>1. m.seq < BaseOf(u) + u.notSent /\ m.seq \in Nat
        BY <1>6, <2>2, <3>2 DEF Linked, Pointer, Flight
      <4>. QED BY <1>1, <1>2, <1>5, <4>1
    <3>. QED BY <3>1, <3>2
  <2>3. ASSUME ~f.urgent PROVE Count < BaseOf(f) + f.notSent
    <3>1. Count < BaseOf(u) + u.notSent
      BY <1>6, <2>3 DEF Linked, Pointer
    <3>. QED BY <1>1, <1>2, <1>5, <3>1
  <2>. QED BY <2>1, <2>2, <2>3 DEF Pointer
<1>11. FrontSent(f)
  <2>. SUFFICES ASSUME u.isReset, u.msgs # <<>> PROVE f.notSent > 1
    BY <1>1 DEF FrontSent
  <2>1. Len(u.msgs) >= 1 /\ u.notSent >= 1
    BY <1>2, EmptySeq, Numbers DEF Linked, Pointer, End
  <2>2. CASE CanFlush(u)
    BY <1>1, <1>2, <2>1, <2>2, ConstantsAssumption, SMTT(30) DEF FlushTo, End
  <2>3. CASE ~CanFlush(u)
    BY <1>1, <1>2, <2>1, <2>3 DEF CanFlush, End, Dangling
  <2>. QED BY <2>2, <2>3
<1>. QED BY <1>4, <1>7, <1>8, <1>9, <1>10, <1>11 DEF Linked

-----------------------------------------------------------------------------
(* An acknowledgement that arrives. *)

(* What leaves the present state of the destination, and what is in flight,
   alone can at most stop the sending, or take messages off the queue. *)
LEMMA RunningGoesOn ==
  ASSUME NEW u, NEW r, NEW sy, NEW ac, Running(u, sy, ac),
         BaseOf(u) >= 0, r.isReset => u.isReset, r.currSeq = u.currSeq
  PROVE  Running(r, sy, ac)
  BY DEF Running

(* The acknowledgement of the RESET opens the session. *)
LEMMA EraseOpens ==
  ASSUME TypeOK, session \in Sessions,
         NEW v \in Queue, Shaped(v, session),
         NEW sy, NEW ac, Linked(v, sy, ac),
         NEW a \in AckMsg, BaseOf(v) = -1, v.msgs # <<>>,
         a.type = "RESET", a.seq = 0, a.expect = 0, lastReset = v.msgs[1].time
  PROVE  /\ Linked(Erase(v, a), sy, ac)
         /\ BaseOf(Erase(v, a)) = 0 /\ Erase(v, a).isReset
<1> DEFINE u == Erase(v, a)
<1>1. /\ Count \in Nat /\ v.msgs \in Seq(SyncMsg) /\ Len(v.msgs) \in Nat
      /\ Len(v.msgs) >= 1 /\ Head(v.msgs) = v.msgs[1] /\ v.currSeq \in Nat
  BY Numbers, EmptySeq, HeadTailProperties
<1>2. v.msgs[1].seq = 0 /\ v.msgs[1].type = "RESET"
  BY <1>1 DEF Shaped
<1>3. ~Behind(v, a) /\ Matches(v, a)
  BY <1>1, <1>2 DEF Behind, Matches
<1>4. u = EraseFront(v, a)
  BY DEF Erase, Linked, Opening
<1>5. v.notSent = 2 /\ After(v.notSent, 1) = 1
  BY DEF Linked, Opening, After
<1>6. /\ u \in Queue /\ u.currSeq = v.currSeq /\ u.lastAck = v.lastAck
      /\ u.isReset /\ u.notSent = 1
      /\ u.msgs = SubSeq(v.msgs, 1 + 1, Len(v.msgs))
  <2>1. /\ EraseFront(v, a) \in Queue
        /\ EraseFront(v, a).currSeq = v.currSeq
        /\ EraseFront(v, a).lastAck = v.lastAck
        /\ EraseFront(v, a).isReset
        /\ EraseFront(v, a).msgs = SubSeq(v.msgs, 2, Len(v.msgs))
        /\ EraseFront(v, a).notSent = After(v.notSent, 1)
    BY <1>1, <1>3, EraseFrontIs, ZenonT(60)
  <2>. HIDE DEF u
  <2>. QED BY <1>4, <1>5, <2>1 DEF u
<1>. HIDE DEF u
<1>7. BaseOf(u) = 0 /\ Len(u.msgs) \in Nat
  <2>1. 1 \in 0..Len(v.msgs)
    BY <1>1
  <2>. QED BY <1>1, <1>6, <2>1, TailShaped
<1>8. /\ Count = 0 /\ expect = 0 /\ lastReset # 0
      /\ \A m \in sy : ~IsData(m) /\ (m.type = "RESET" => m.time = lastReset)
      /\ \A i \in 1..Len(ac) : ac[i].type # "PING" =>
           ac[i].type = "RESET" /\ ac[i].seq = 0 /\ ac[i].expect = 0
  BY DEF Linked, Opening
<1>9. Flight(u, sy)
  BY <1>1, <1>6, <1>7, <1>8 DEF Linked, Flight
<1>10. Opening(u, sy, ac)
  BY <1>7, <1>8 DEF Opening
<1>11. lastReset \in Nat
  BY DEF TypeOK
<1>12. Running(u, sy, ac)
  BY <1>1, <1>6, <1>7, <1>8, <1>11 DEF Running
<1>13. Pointer(u, sy)
  BY <1>6, <1>7, <1>8 DEF Pointer, End
<1>. QED BY <1>6, <1>7, <1>9, <1>10, <1>12, <1>13 DEF Linked, u

(* A queue that is not opening, and whose iterator is at the front, either
   urgent or empty. *)
LEMMA PointerAtFront ==
  ASSUME TypeOK, session \in Sessions, NEW u \in Queue, NEW sy,
         Flight(u, sy), BaseOf(u) >= 0, u.notSent = 1,
         u.isReset => Count <= u.currSeq,
         ~u.urgent => u.msgs = <<>>
  PROVE  Pointer(u, sy)
<1>1. Count \in Nat /\ u.currSeq \in Nat /\ Len(u.msgs) \in Nat
      /\ BaseOf(u) \in Int /\ u.currSeq = BaseOf(u) + Len(u.msgs)
  BY Numbers
<1>2. u.notSent \in 1..End(u)
  BY <1>1 DEF End
<1>3. ASSUME ~u.urgent PROVE BaseOf(u) + u.notSent = u.currSeq + 1
  <2>1. Len(u.msgs) = 0
    BY <1>3
  <2>. QED BY <1>1, <2>1
<1>4. \A m \in sy : IsData(m) => m.seq < u.currSeq + 1
  BY <1>1 DEF Flight
<1>5. u.isReset => Count < u.currSeq + 1
  BY <1>1
<1>. QED BY <1>2, <1>3, <1>4, <1>5 DEF Pointer

(* In new mode the prefix that leaves the queue was accepted, so the iterator
   is past it, or is set back. *)
LEMMA EraseExpectedKeepsLinked ==
  ASSUME TypeOK, session \in Sessions,
         NEW v \in Queue, Shaped(v, session),
         NEW sy, NEW ac, Linked(v, sy, ac),
         NEW a \in AckMsg, BaseOf(v) >= 0, v.isReset, a.expect <= Count
  PROVE  Linked(EraseExpected(v, a), sy, ac)
<1> DEFINE u == EraseExpected(v, a)
           n == ErasedPrefix(v, a.expect)
<1>1. /\ Count \in Nat /\ v.notSent \in Nat /\ v.currSeq \in Nat
      /\ Len(v.msgs) \in Nat /\ BaseOf(v) \in Int /\ a.expect \in Nat
      /\ v.currSeq = BaseOf(v) + Len(v.msgs)
  BY Numbers DEF AckMsg
<1>2. /\ u \in Queue /\ u.currSeq = v.currSeq /\ u.lastAck = v.lastAck
      /\ u.isReset = v.isReset
      /\ u.msgs = SubSeq(v.msgs, n + 1, Len(v.msgs))
      /\ u.urgent = ((v.urgent \/ Behind(v, a)) /\ u.msgs # <<>>)
      /\ u.notSent = IF ((v.urgent \/ Behind(v, a)) /\ n > 0) \/ Behind(v, a)
                     THEN 1 ELSE After(v.notSent, n)
  BY EraseExpectedIs
<1>3. n \in 0..Len(v.msgs) /\ \A i \in 1..n : v.msgs[i].seq <= a.expect
  BY <1>1, ErasedPrefixStops
<1>. HIDE DEF u, n
<1>4. n > 0 => BaseOf(v) + n <= a.expect
  <2>. SUFFICES ASSUME n > 0 PROVE BaseOf(v) + n <= a.expect
    OBVIOUS
  <2>1. v.msgs[n].seq <= a.expect /\ v.msgs[n].seq = BaseOf(v) + n
    BY <1>3 DEF Shaped
  <2>. QED BY <2>1
<1>5. BaseOf(u) = BaseOf(v) + n /\ Len(u.msgs) = Len(v.msgs) - n
      /\ u.msgs \in Seq(SyncMsg)
  <2>1. u.currSeq = v.currSeq /\ u.msgs = SubSeq(v.msgs, n + 1, Len(v.msgs))
    BY <1>2
  <2>. QED BY <1>3, <2>1, TailShaped, ZenonT(60)
<1>6. BaseOf(u) >= 0
  BY <1>1, <1>3, <1>5
<1>7. Flight(u, sy)
  BY <1>2 DEF Linked, Flight
<1>8. Opening(u, sy, ac)
  BY <1>6 DEF Opening
<1>9. Running(u, sy, ac)
  <2>1. Running(v, sy, ac)
    BY DEF Linked
  <2>. QED BY <1>2, <2>1, RunningGoesOn
<1>10. Count <= v.currSeq
  BY DEF Linked, Running
<1>11. Pointer(u, sy)
  <2>0. v.notSent >= 1 /\ v.notSent <= Len(v.msgs) + 1
    BY <1>1 DEF Linked, Pointer, End
  <2>1. CASE ((v.urgent \/ Behind(v, a)) /\ n > 0) \/ Behind(v, a)
    <3>1. u.notSent = 1 /\ (~u.urgent => u.msgs = <<>>)
      BY <1>2, <2>1
    <3>. QED BY <1>2, <1>6, <1>7, <1>10, <3>1, PointerAtFront
  <2>2. CASE ~(((v.urgent \/ Behind(v, a)) /\ n > 0) \/ Behind(v, a))
    <3>1. u.notSent = After(v.notSent, n) /\ ~Behind(v, a) /\ (v.urgent => n = 0)
      BY <1>2, <1>3, <2>2
    <3>2. n > 0 => n < v.notSent
      <4>. SUFFICES ASSUME n > 0 PROVE n < v.notSent
        OBVIOUS
      <4>1. Count < BaseOf(v) + v.notSent
        BY <3>1 DEF Linked, Pointer
      <4>2. BaseOf(v) + n <= Count
        BY <1>1, <1>3, <1>4
      <4>. QED BY <1>1, <1>3, <4>1, <4>2
    <3>3. u.notSent = v.notSent - n
      BY <1>1, <1>3, <2>0, <3>1, <3>2 DEF After
    <3>4. /\ BaseOf(u) + u.notSent = BaseOf(v) + v.notSent
          /\ u.notSent \in 1..End(u)
      <4>1. n \in Nat /\ n <= Len(v.msgs) /\ n < v.notSent
        BY <1>1, <1>3, <2>0, <3>2
      <4>2. End(u) = Len(v.msgs) - n + 1
        BY <1>1, <1>5 DEF End
      <4>3. u.notSent >= 1 /\ u.notSent <= End(u)
        BY <1>1, <2>0, <3>3, <4>1, <4>2, SMTT(30)
      <4>. QED BY <1>1, <1>5, <3>3, <4>1, <4>2, <4>3, SMTT(30)
    <3>5. CASE ~v.urgent
      BY <1>6, <3>4, <3>5 DEF Linked, Pointer
    <3>6. CASE v.urgent
      <4>1. n = 0 /\ (~u.urgent => u.msgs = <<>>)
        BY <1>2, <3>1, <3>6
      <4>2. ~u.urgent => Len(v.msgs) = 0
        BY <1>1, <1>5, <4>1, EmptySeq
      <4>3. ~u.urgent => u.notSent = 1
        BY <1>1, <2>0, <3>3, <4>1, <4>2
      <4>4. CASE u.urgent
        BY <1>6, <3>4, <4>4 DEF Pointer
      <4>5. CASE ~u.urgent
        BY <1>2, <1>6, <1>7, <1>10, <4>1, <4>3, <4>5, PointerAtFront
      <4>. QED BY <4>4, <4>5
    <3>. QED BY <3>5, <3>6
  <2>. QED BY <2>1, <2>2
<1>. QED BY <1>7, <1>8, <1>9, <1>11 DEF Linked, u

(* In old mode the iterator is past the front message that leaves the queue,
   whether that was accepted or not. *)
LEMMA EraseFrontKeepsLinked ==
  ASSUME TypeOK, session \in Sessions,
         NEW v \in Queue, Shaped(v, session), FrontSent(v), v.msgs # <<>>,
         NEW sy, NEW ac, Linked(v, sy, ac),
         NEW a \in AckMsg, BaseOf(v) >= 0
  PROVE  Linked(EraseFront(v, a), sy, ac)
<1> DEFINE u == EraseFront(v, a)
<1>1. /\ Count \in Nat /\ v.notSent \in Nat /\ v.currSeq \in Nat
      /\ v.msgs \in Seq(SyncMsg) /\ Len(v.msgs) \in Nat /\ Len(v.msgs) >= 1
      /\ BaseOf(v) \in Int /\ v.currSeq = BaseOf(v) + Len(v.msgs)
      /\ Head(v.msgs) = v.msgs[1]
  BY Numbers, EmptySeq, HeadTailProperties
<1>2. /\ u \in Queue /\ u.currSeq = v.currSeq /\ u.lastAck = v.lastAck
      /\ Behind(v, a) => /\ u.isReset = v.isReset /\ u.msgs = v.msgs
                         /\ u.urgent = TRUE /\ u.notSent = 1
      /\ ~Behind(v, a) /\ Matches(v, a) =>
              /\ u.isReset <=> (v.isReset \/ a.type = "RESET")
              /\ u.msgs = SubSeq(v.msgs, 2, Len(v.msgs))
              /\ u.urgent = (v.urgent /\ Len(v.msgs) > 1)
              /\ u.notSent = After(v.notSent, 1)
      /\ ~Behind(v, a) /\ ~Matches(v, a) => u = v
  BY EraseFrontIs, ZenonT(60)
<1>3. Running(v, sy, ac) /\ Flight(v, sy) /\ Pointer(v, sy)
      /\ (v.isReset => Count <= v.currSeq)
  BY DEF Linked, Running
<1>. HIDE DEF u
<1>4. CASE ~Behind(v, a) /\ ~Matches(v, a)
  BY <1>2, <1>4 DEF u
<1>5. CASE Behind(v, a)
  <2>1. BaseOf(u) = BaseOf(v)
    BY <1>2, <1>5 DEF BaseOf
  <2>2. Flight(u, sy)
    BY <1>2, <1>3 DEF Flight
  <2>3. Opening(u, sy, ac)
    BY <2>1 DEF Opening
  <2>4. Running(u, sy, ac)
    BY <1>2, <1>3, <1>5, RunningGoesOn
  <2>5. Pointer(u, sy)
    BY <1>2, <1>3, <1>5, <2>1, <2>2, PointerAtFront
  <2>. QED BY <2>2, <2>3, <2>4, <2>5 DEF Linked, u
<1>6. CASE ~Behind(v, a) /\ Matches(v, a)
  <2>1. a.type # "RESET"
    <3>1. 1 \in 1..Len(v.msgs) /\ BaseOf(v) + 1 > 0
      BY <1>1
    <3>2. v.msgs[1].type # "RESET"
      BY <3>1, QueuedIsData
    <3>. QED BY <1>1, <1>6, <3>2 DEF Matches
  <2>2. /\ u.isReset <=> v.isReset
        /\ u.msgs = SubSeq(v.msgs, 1 + 1, Len(v.msgs))
        /\ u.urgent = (v.urgent /\ Len(v.msgs) > 1)
        /\ u.notSent = After(v.notSent, 1)
    BY <1>2, <1>6, <2>1
  <2>3. BaseOf(u) = BaseOf(v) + 1 /\ Len(u.msgs) = Len(v.msgs) - 1
        /\ u.msgs \in Seq(SyncMsg)
    <3>1. 1 \in 0..Len(v.msgs)
      BY <1>1
    <3>. QED BY <1>2, <2>2, <3>1, TailShaped, SMTT(30)
  <2>4. BaseOf(u) >= 0
    BY <1>1, <2>3
  <2>5. Flight(u, sy)
    BY <1>2, <1>3 DEF Flight
  <2>6. Opening(u, sy, ac)
    BY <2>4 DEF Opening
  <2>7. Running(u, sy, ac)
    BY <1>2, <1>3, <2>2, RunningGoesOn
  <2>8. Pointer(u, sy)
    <3>. SUFFICES ASSUME v.isReset PROVE Pointer(u, sy)
      BY <2>2 DEF Pointer
    <3>1. v.notSent > 1 /\ v.notSent <= Len(v.msgs) + 1
      BY <1>1, <1>3 DEF FrontSent, Pointer, End
    <3>2. u.notSent = v.notSent - 1
      BY <1>1, <2>2, <3>1 DEF After
    <3>3. /\ BaseOf(u) + u.notSent = BaseOf(v) + v.notSent
          /\ u.notSent \in 1..End(u)
      <4>1. /\ v.notSent \in Nat /\ BaseOf(v) \in Int /\ Len(v.msgs) \in Nat
            /\ BaseOf(u) = BaseOf(v) + 1 /\ End(u) = Len(v.msgs)
        BY <1>1, <2>3 DEF End
      <4>2. u.notSent \in 1..Len(v.msgs)
        BY <3>1, <3>2, <4>1
      <4>. QED BY <3>2, <4>1, <4>2
    <3>4. CASE u.urgent \/ ~v.urgent
      BY <1>3, <2>2, <2>4, <3>3, <3>4 DEF Pointer
    <3>5. CASE ~u.urgent /\ v.urgent
      <4>1. Len(v.msgs) = 1
        <5>1. Len(v.msgs) \in Nat /\ Len(v.msgs) >= 1 /\ ~(Len(v.msgs) > 1)
          BY <1>1, <2>2, <3>5
        <5>2. \A n \in Nat : n >= 1 /\ ~(n > 1) => n = 1
          OBVIOUS
        <5>. QED BY <5>1, <5>2, Zenon
      <4>2. u.msgs = <<>>
        BY <2>3, <4>1, EmptySeq
      <4>3. u.notSent = 1
        BY <1>1, <3>1, <3>2, <4>1
      <4>. QED BY <1>2, <1>3, <2>4, <2>5, <4>2, <4>3, PointerAtFront
    <3>. QED BY <3>4, <3>5
  <2>. QED BY <2>5, <2>6, <2>7, <2>8 DEF Linked, u
<1>. QED BY <1>4, <1>5, <1>6

(* Any acknowledgement in flight, whatever it is. *)
LEMMA EraseKeepsLinked ==
  ASSUME TypeOK, session \in Sessions,
         NEW v \in Queue, Shaped(v, session), FrontSent(v),
         NEW sy, NEW ac \in Seq(AckMsg), Linked(v, sy, ac),
         NEW k \in 1..Len(ac)
  PROVE  Linked(Erase(v, ac[k]), sy, ac)
<1> DEFINE a == ac[k]
<1>1. /\ a \in AckMsg /\ BaseOf(v) \in Int
      /\ v.msgs \in Seq(SyncMsg) /\ Len(v.msgs) \in Nat
  BY ElementOfSeq, Numbers
<1>2. CASE a.type # "SHUTDOWN" /\ (a.type = "PING" \/ v.msgs = <<>>)
  BY <1>2 DEF Erase
<1>3. CASE a.type # "PING" /\ BaseOf(v) = -1
  <2>1. a.type = "RESET" /\ a.seq = 0 /\ a.expect = 0 /\ lastReset = v.msgs[1].time
    BY <1>1, <1>3 DEF Linked, Opening
  <2>2. v.msgs # <<>>
    <3>1. v.currSeq \in Nat /\ v.currSeq = BaseOf(v) + Len(v.msgs)
      BY Numbers
    <3>. QED BY <1>1, <1>3, <3>1
  <2>. QED BY <1>1, <1>3, <2>1, <2>2, EraseOpens
<1>4. CASE a.type = "SHUTDOWN" /\ BaseOf(v) >= 0
  <2> DEFINE u == Erase(v, a)
  <2>1. u = [v EXCEPT !.isReset = FALSE]
    BY <1>4 DEF Erase
  <2>2. /\ u.currSeq = v.currSeq /\ u.lastAck = v.lastAck /\ u.msgs = v.msgs
        /\ ~u.isReset
    <3>. HIDE DEF u
    <3>. QED BY <2>1 DEF Queue
  <2>. HIDE DEF u
  <2>3. BaseOf(u) = BaseOf(v)
    BY <2>2 DEF BaseOf
  <2>4. Flight(u, sy) /\ Opening(u, sy, ac) /\ Pointer(u, sy)
    BY <1>4, <2>2, <2>3 DEF Linked, Flight, Opening, Pointer
  <2>5. Running(u, sy, ac)
    <3>1. Running(v, sy, ac)
      BY DEF Linked
    <3>. QED BY <1>4, <2>2, <3>1, RunningGoesOn
  <2>. QED BY <2>4, <2>5 DEF Linked, u
<1>5. CASE a.type \notin {"PING", "SHUTDOWN"} /\ BaseOf(v) >= 0 /\ v.msgs # <<>>
  <2>1. CASE a.expect # 0 /\ v.isReset
    <3>1. Erase(v, a) = EraseExpected(v, a)
      BY <1>5, <2>1 DEF Erase
    <3>2. a.expect <= Count
      BY <1>5, <2>1 DEF Linked, Running
    <3>. QED BY <1>1, <1>5, <2>1, <3>1, <3>2, EraseExpectedKeepsLinked
  <2>2. CASE ~(a.expect # 0 /\ v.isReset)
    <3>1. Erase(v, a) = EraseFront(v, a)
      BY <1>5, <2>2 DEF Erase
    <3>. QED BY <1>1, <1>5, <3>1, EraseFrontKeepsLinked
  <2>. QED BY <2>1, <2>2
<1>. QED
  <2>1. BaseOf(v) = -1 \/ BaseOf(v) >= 0
    BY <1>1 DEF Shaped
  <2>. QED BY <1>2, <1>3, <1>4, <1>5, <2>1

-----------------------------------------------------------------------------
(* The steps of the source. *)

(* A relation between the new queue and what the step leaves alone. *)
LEMMA LinkedNext ==
  ASSUME UNCHANGED <<lastReset, now, session, accepted, expect>>,
         Linked(q', sync', acks')
  PROVE  Linked(q, sync, acks)'
<1>1. Flight(q, sync)'
  BY DEF Linked, Flight, IsData
<1>2. Opening(q, sync, acks)'
  BY DEF Linked, Opening, BaseOf, Count, IsData
<1>3. Running(q, sync, acks)'
  BY DEF Linked, Running, BaseOf, Count, Tame
<1>4. Pointer(q, sync)'
  BY DEF Linked, Pointer, BaseOf, Count, IsData, End
<1>. QED BY <1>1, <1>2, <1>3, <1>4 DEF Linked

(* The session of a queue is one of the sessions. *)
LEMMA LiveSession == ASSUME TypeOK, live PROVE session \in Sessions
  BY ConstantsAssumption DEF TypeOK, Sessions

(* Push, on a queue that may be full: then the front leaves it, and if that
   is the RESET the queue is never opened. *)
LEMMA PushKeepsLinked ==
  ASSUME TypeOK, session \in Sessions, NEW d \in DataTypes,
         NEW u \in Queue, Shaped(u, session), FrontSent(u), u.currSeq < MaxSeq,
         NEW sy, NEW ac, Linked(u, sy, ac)
  PROVE  Linked(Push(u, d, session), sy, ac)
<1> DEFINE p == Push(u, d, session)
<1>1. /\ Count \in Nat /\ lastReset \in Nat /\ u.notSent \in Nat
      /\ u.currSeq \in Nat /\ u.msgs \in Seq(SyncMsg) /\ Len(u.msgs) \in Nat
      /\ BaseOf(u) \in Int /\ u.currSeq = BaseOf(u) + Len(u.msgs)
      /\ BaseOf(u) >= -1 /\ session \in Nat /\ MaxSeq \in Nat
  BY Numbers, ConstantsAssumption DEF Shaped, TypeOK
<1>2. /\ p \in Queue
      /\ p.currSeq = u.currSeq + 1 /\ p.isReset = u.isReset /\ p.lastAck = u.lastAck
      /\ u.urgent => p.urgent
      /\ ~Full(u) => /\ p.msgs = Append(u.msgs, DataMsg(d, u.currSeq + 1, session))
                     /\ Len(p.msgs) = Len(u.msgs) + 1
                     /\ p.notSent = u.notSent
      /\ Full(u) => /\ BaseOf(p) = BaseOf(u) + 1
                    /\ Len(p.msgs) = Len(u.msgs)
                    /\ p.notSent = After(u.notSent, 1)
  BY <1>1, PushIs
<1>. HIDE DEF p
<1>3. Flight(u, sy) /\ Opening(u, sy, ac) /\ Running(u, sy, ac) /\ Pointer(u, sy)
  BY DEF Linked
<1>4. Flight(p, sy)
  <2>1. \A m \in sy : IsData(m) => m.seq \in 1..p.currSeq
    BY <1>1, <1>2, <1>3, SMTT(30) DEF Flight
  <2>2. p.currSeq <= MaxSeq
    BY <1>1, <1>2
  <2>. QED BY <1>2, <1>3, <2>1, <2>2 DEF Flight
<1>5. CASE ~Full(u)
  <2>1. BaseOf(p) = BaseOf(u)
    BY <1>1, <1>2, <1>5, SMTT(30) DEF BaseOf
  <2>2. Opening(p, sy, ac)
    <3>. SUFFICES ASSUME BaseOf(u) = -1 PROVE p.msgs[1] = u.msgs[1]
      BY <1>2, <1>3, <1>5, <2>1 DEF Opening
    <3>1. 1 \in 1..Len(u.msgs)
      BY <1>1
    <3>. QED BY <1>1, <1>2, <1>5, <3>1
  <2>3. Running(p, sy, ac)
    <3>1. Count <= u.currSeq => Count <= p.currSeq
      BY <1>1, <1>2
    <3>. QED BY <1>2, <1>3, <2>1, <3>1 DEF Running
  <2>4. Pointer(p, sy)
    BY <1>1, <1>2, <1>3, <1>5, <2>1, SMTT(30) DEF Pointer, End
  <2>. QED BY <1>4, <2>2, <2>3, <2>4 DEF Linked, p
<1>6. CASE Full(u)
  <2>1. BaseOf(p) = BaseOf(u) + 1 /\ BaseOf(p) >= 0
    BY <1>1, <1>2, <1>6
  <2>2. Opening(p, sy, ac)
    BY <2>1 DEF Opening
  <2>3. Pointer(p, sy)
    <3>. SUFFICES ASSUME u.isReset PROVE Pointer(p, sy)
      BY <1>2 DEF Pointer
    <3>1. u.msgs # <<>>
      BY <1>1, <1>6, EmptySeq, ConstantsAssumption DEF Full
    <3>2. u.notSent > 1 /\ u.notSent <= Len(u.msgs) + 1
      BY <1>1, <1>3, <3>1 DEF FrontSent, Pointer, End
    <3>3. p.notSent = u.notSent - 1
      BY <1>1, <1>2, <1>6, <3>2 DEF After
    <3>4. BaseOf(p) + p.notSent = BaseOf(u) + u.notSent
      BY <1>1, <2>1, <3>3, SMTT(30)
    <3>5. p.notSent \in 1..End(p)
      <4>1. End(p) = Len(u.msgs) + 1
        BY <1>2, <1>6 DEF End
      <4>. QED BY <1>1, <3>2, <3>3, <4>1, SMTT(30)
    <3>. QED BY <1>2, <1>3, <2>1, <3>4, <3>5 DEF Pointer
  <2>4. Running(p, sy, ac)
    <3>. SUFFICES ASSUME u.isReset \/ Tame PROVE Running(p, sy, ac)
      BY <1>2 DEF Running
    <3>1. CASE BaseOf(u) >= 0
      <4>1. Count <= p.currSeq
        BY <1>1, <1>2, <1>3, <3>1 DEF Running
      <4>. QED BY <1>2, <1>3, <3>1, <4>1 DEF Running
    <3>2. CASE BaseOf(u) = -1
      <4>1. MaxSession <= 1
        <5>1. Tame
          BY <1>3, <3>2 DEF Opening
        <5>2. ~(MaxSeq < MaxQueue)
          BY <1>1, <1>6, <3>2, ConstantsAssumption DEF Full
        <5>. QED BY <5>1, <5>2 DEF Tame
      <4>2. /\ Count = 0 /\ lastReset \in {0, u.msgs[1].time}
            /\ \A m \in sy : m.type = "RESET" => m = u.msgs[1]
            /\ lastReset = u.msgs[1].time => expect = 0
            /\ \A i \in 1..Len(ac) : ac[i].type # "PING" => ac[i].expect = 0
        BY <1>3, <3>2, <4>1 DEF Opening
      <4>3. Count <= p.currSeq
        BY <1>1, <1>2, <4>2
      <4>4. lastReset # 0 =>
              expect = Count /\ \A m \in sy : m.type = "RESET" => m.time <= lastReset
        BY <1>1, <4>2
      <4>5. \A i \in 1..Len(ac) : ac[i].type # "PING" => ac[i].expect <= Count
        BY <4>2
      <4>6. \A m, n \in sy : m.type = "RESET" /\ n.type = "RESET" => m.time = n.time
        BY <4>2
      <4>. QED BY <4>2, <4>3, <4>4, <4>5, <4>6 DEF Running
    <3>. QED BY <1>1, <3>1, <3>2
  <2>. QED BY <1>4, <2>2, <2>3, <2>4 DEF Linked, p
<1>. QED BY <1>5, <1>6

(* Another message for a destination that has a queue. *)
LEMMA EmitNextStep ==
  ASSUME OrderInv, NEW d \in DataTypes, EmitNext(d)
  PROVE  OrderInv'
<1> DEFINE u == Push(q, d, session)
<1>1. /\ TypeOK /\ Shape /\ History /\ NoReset /\ live
      /\ Linked(q, sync, acks) /\ FrontSent(q) /\ session \in Sessions
  BY LiveSession DEF OrderInv, EmitNext
<1>2. TypeOK' /\ Shape'
  BY <1>1, TypeShapeStep DEF Next, Writer
<1>3. /\ q \in Queue /\ Shaped(q, session) /\ Within(q) /\ session \in Nat
  BY <1>1 DEF TypeOK, Shape
<1>4. /\ q.currSeq < MaxSeq /\ q' = Flush(u) /\ sync' = sync \cup FlushOut(u)
      /\ live' /\ UNCHANGED <<lastReset, now, session, accepted, expect, acks>>
  BY <1>1 DEF EmitNext, destination
<1>5. u \in Queue /\ Shaped(u, session) /\ Within(u)
  BY <1>3, PushIs
<1>6. Linked(u, sync, acks)
  BY <1>1, <1>3, <1>4, PushKeepsLinked
<1>. HIDE DEF u
<1>7. Linked(q', sync', acks') /\ FrontSent(q)'
  <2>1. Linked(Flush(u), sync \cup FlushOut(u), acks) /\ FrontSent(Flush(u))
    BY <1>1, <1>5, <1>6, FlushKeepsLinked
  <2>. QED BY <1>4, <2>1 DEF FrontSent
<1>8. Linked(q, sync, acks)'
  BY <1>4, <1>7, LinkedNext
<1>. QED
  BY <1>1, <1>2, <1>4, <1>7, <1>8
  DEF OrderInv, Idle, History, NoReset, InOrderOnce, Tame

(* The first message for a destination: its queue is created.  A queue of
   length 1 loses its RESET at once. *)
LEMMA EmitFirstStep ==
  ASSUME OrderInv, NEW d \in DataTypes, EmitFirst(d)
  PROVE  OrderInv'
<1> DEFINE s == session + 1
           r == Reset(s)
           u == Push(r, d, s)
           m0 == ResetMsg(now, s)
<1>1. /\ TypeOK /\ Shape /\ History /\ NoReset
      /\ sync = {} /\ acks = <<>> /\ lastReset < now
      /\ now \in Nat /\ now > 0 /\ lastReset \in Nat
      /\ session \in Nat /\ s \in Sessions /\ s \in Nat /\ s > session
      /\ MaxSession <= 1 => lastReset = 0
  BY ConstantsAssumption DEF OrderInv, Idle, NoReset, EmitFirst, TypeOK, Sessions
<1>2. TypeOK' /\ Shape'
  BY <1>1, TypeShapeStep DEF Next, Writer
<1>3. /\ q' = Flush(u) /\ sync' = {m0} \cup FlushOut(u) /\ session' = s
      /\ live' /\ MaxSeq > 0 /\ UNCHANGED <<lastReset, now, accepted, expect, acks>>
  BY <1>1 DEF EmitFirst, destination
<1>4. /\ r \in Queue /\ Shaped(r, s) /\ Within(r)
      /\ r.currSeq = 0 /\ r.lastAck = now /\ r.notSent = 2
      /\ r.msgs = <<m0>> /\ Len(r.msgs) = 1 /\ ~r.isReset
  BY <1>1, ResetIs
<1>5. /\ m0.type = "RESET" /\ m0.seq = 0 /\ m0.time = now /\ m0.sess = s
      /\ ~IsData(m0)
  BY DEF ResetMsg, IsData
<1>. HIDE DEF r, s, m0
<1>6. BaseOf(r) = -1
  BY <1>4 DEF BaseOf
<1>7. /\ u \in Queue /\ u.currSeq = 1 /\ ~u.isReset /\ u.lastAck = now
      /\ ~Full(r) => /\ u.msgs = Append(r.msgs, DataMsg(d, r.currSeq + 1, s))
                     /\ Len(u.msgs) = 2 /\ u.notSent = 2
      /\ Full(r) => BaseOf(u) = 0
  <2>0. s \in Nat
    BY <1>1
  <2>1. /\ u \in Queue /\ u.currSeq = r.currSeq + 1 /\ u.isReset = r.isReset
        /\ u.lastAck = r.lastAck
    <3>1. u = Push(r, d, s)
      OBVIOUS
    <3>. HIDE DEF u
    <3>. QED BY <1>4, <2>0, <3>1, PushIs
  <2>2. ~Full(r) => /\ u.msgs = Append(r.msgs, DataMsg(d, r.currSeq + 1, s))
                    /\ Len(u.msgs) = Len(r.msgs) + 1
                    /\ u.notSent = r.notSent
    <3>. SUFFICES ASSUME ~Full(r)
                  PROVE  /\ u.msgs = Append(r.msgs, DataMsg(d, r.currSeq + 1, s))
                         /\ Len(u.msgs) = Len(r.msgs) + 1
                         /\ u.notSent = r.notSent
      OBVIOUS
    <3>1. u.msgs = Append(r.msgs, DataMsg(d, r.currSeq + 1, s))
      BY <1>4, <2>0, PushIs
    <3>2. Len(u.msgs) = Len(r.msgs) + 1
      BY <1>4, <2>0, PushIs
    <3>3. u.notSent = r.notSent
      BY <1>4, <2>0, PushIs
    <3>. QED BY <3>1, <3>2, <3>3
  <2>3. Full(r) => BaseOf(u) = BaseOf(r) + 1
    BY <1>4, <2>0, PushIs
  <2>. HIDE DEF u
  <2>. QED BY <1>4, <1>6, <2>1, <2>2, <2>3
<1>. HIDE DEF u
<1>8. /\ q' = u /\ sync' = {m0}
  BY <1>3, <1>7 DEF Flush, FlushOut, CanFlush
<1>9. Count' = 0 /\ Len(acks') = 0
  <2>1. accepted[s] = <<>>
    BY <1>1 DEF History
  <2>. QED BY <1>1, <1>3, <2>1 DEF Count
<1>10. Flight(q, sync)'
  BY <1>1, <1>3, <1>5, <1>7, <1>8, ConstantsAssumption DEF Flight
<1>11. Opening(q, sync, acks)' /\ Running(q, sync, acks)'
  <2>1. CASE ~Full(r)
    <3>1. u.msgs[1] = m0 /\ BaseOf(u) = -1
      <4>1. u.msgs[1] = r.msgs[1]
        BY <1>4, <1>7, <2>1, QueueFields
      <4>2. BaseOf(u) = 1 - 2
        BY <1>7, <2>1 DEF BaseOf
      <4>. QED BY <1>4, <4>1, <4>2
    <3>2. BaseOf(q)' = -1
      BY <1>8, <3>1 DEF BaseOf
    <3>3. Opening(q, sync, acks)'
      BY <1>1, <1>3, <1>5, <1>7, <1>8, <1>9, <2>1, <3>1 DEF Opening, IsData
    <3>. QED BY <3>2, <3>3 DEF Running
  <2>2. CASE Full(r)
    <3>1. BaseOf(q)' = 0
      BY <1>7, <1>8, <2>2 DEF BaseOf
    <3>2. Tame => lastReset = 0
      <4>1. ~(MaxSeq < MaxQueue)
        BY <1>3, <1>4, <2>2, ConstantsAssumption DEF Full
      <4>. QED BY <1>1, <4>1 DEF Tame
    <3>3. \A m, n \in sync' : m.time = n.time
      BY <1>8
    <3>4. (q.isReset \/ Tame)' => lastReset' = 0
      BY <1>3, <1>7, <1>8, <3>2 DEF Tame
    <3>5. Count' <= q'.currSeq
      BY <1>7, <1>8, <1>9
    <3>6. Running(q, sync, acks)'
      BY <1>9, <3>3, <3>4, <3>5 DEF Running
    <3>. QED BY <3>1, <3>6 DEF Opening
  <2>. QED BY <2>1, <2>2
<1>12. Pointer(q, sync)' /\ FrontSent(q)'
  BY <1>7, <1>8 DEF Pointer, FrontSent
<1>13. History' /\ NoReset'
  <2>1. (Tame => InOrderOnce)'
    BY <1>1, <1>3 DEF History, InOrderOnce, Tame
  <2>2. ASSUME NEW t \in Sessions, t > session' PROVE accepted'[t] = <<>>
    <3>1. t > session
      BY <1>1, <1>3, <2>2 DEF Sessions, s
    <3>. QED BY <1>1, <1>3, <3>1 DEF History
  <2>3. session' # 0
    BY <1>1, <1>3
  <2>. QED BY <1>1, <1>3, <2>1, <2>2, <2>3 DEF History, NoReset
<1>. QED
  BY <1>2, <1>3, <1>10, <1>11, <1>12, <1>13 DEF OrderInv, Linked, Idle

(* The timer resends the front message. *)
LEMMA RetryStep == ASSUME OrderInv, Retry PROVE OrderInv'
<1> DEFINE front == IF q.msgs # <<>> THEN {Head(q.msgs)} ELSE {}
<1>1. /\ TypeOK /\ Shape /\ History /\ NoReset /\ live
      /\ Linked(q, sync, acks) /\ FrontSent(q) /\ session \in Sessions
  BY LiveSession DEF OrderInv, Retry
<1>2. TypeOK' /\ Shape'
  BY <1>1, TypeShapeStep DEF Next, Writer
<1>3. /\ q \in Queue /\ Shaped(q, session) /\ q.notSent \in Nat
      /\ q.msgs \in Seq(SyncMsg) /\ Len(q.msgs) \in Nat /\ BaseOf(q) \in Int
      /\ q.currSeq = BaseOf(q) + Len(q.msgs) /\ BaseOf(q) >= -1 /\ q.lastAck \in Nat
  BY <1>1, Numbers DEF TypeOK, Shape, Shaped
<1>4. /\ sync' = sync \cup {PingMsg(session)} \cup front
      /\ live' /\ UNCHANGED <<lastReset, now, session, accepted, expect, acks, q>>
  BY <1>1 DEF Retry, source, destination
<1>5. /\ PingMsg(session).type = "PING" /\ PingMsg(session).seq = 0
      /\ PingMsg(session).time = 0 /\ PingMsg(session).sess = session
      /\ ~IsData(PingMsg(session))
  BY DEF PingMsg, IsData
<1>6. ASSUME NEW m \in front
      PROVE  /\ 1 \in 1..Len(q.msgs) /\ q.msgs # <<>>
             /\ m = q.msgs[1] /\ m.seq = BaseOf(q) + 1 /\ m.sess = session
  <2>1. q.msgs # <<>> /\ m = Head(q.msgs)
    OBVIOUS
  <2>2. 1 \in 1..Len(q.msgs) /\ m = q.msgs[1]
    BY <1>3, <2>1, EmptySeq, HeadTailProperties
  <2>. QED BY <1>3, <2>1, <2>2 DEF Shaped
<1>7. ASSUME NEW m \in front, BaseOf(q) >= 0
      PROVE  /\ IsData(m) /\ m.type # "RESET" /\ m.seq \in 1..q.currSeq /\ m.time = 0
  BY <1>3, <1>6, <1>7, QueuedIsData
<1>8. ASSUME NEW m \in front, BaseOf(q) = -1
      PROVE  ~IsData(m) /\ m.seq = 0 /\ m.time <= q.lastAck
  <2>1. m.seq = 0 /\ m.type = "RESET"
    BY <1>3, <1>6, <1>8 DEF Shaped
  <2>. QED BY <1>1, <1>6, <1>8, <2>1 DEF IsData, Linked, Opening
<1>9. BaseOf(q) = -1 \/ BaseOf(q) >= 0
  BY <1>3
<1>. HIDE DEF front
<1>10. Flight(q, sync')
  <2>1. ASSUME NEW m \in sync'
        PROVE  /\ m.sess = session /\ m.time <= q.lastAck
               /\ IsData(m) => m.seq \in 1..q.currSeq
               /\ ~IsData(m) => m.seq = 0
    <3>1. CASE m \in sync
      BY <1>1, <3>1 DEF Linked, Flight
    <3>2. CASE m = PingMsg(session)
      BY <1>3, <1>5, <3>2
    <3>3. CASE m \in front
      BY <1>3, <1>6, <1>7, <1>8, <1>9, <3>3
    <3>. QED BY <1>4, <3>1, <3>2, <3>3
  <2>. QED BY <1>1, <2>1 DEF Linked, Flight
<1>11. Opening(q, sync', acks)
  BY <1>1, <1>4, <1>5, <1>6, <1>8 DEF Linked, Opening
<1>12. Running(q, sync', acks)
  <2>. SUFFICES ASSUME BaseOf(q) >= 0, q.isReset \/ Tame PROVE Running(q, sync', acks)
    BY DEF Running
  <2>1. ASSUME NEW m \in sync', m.type = "RESET" PROVE m \in sync
    BY <1>4, <1>5, <1>7, <2>1
  <2>. QED BY <1>1, <2>1 DEF Linked, Running
<1>13. Pointer(q, sync')
  <2>1. ASSUME q.isReset, NEW m \in front PROVE m.seq < BaseOf(q) + q.notSent
    BY <1>1, <1>3, <1>6, <2>1 DEF FrontSent
  <2>. QED BY <1>1, <1>4, <1>5, <2>1 DEF Linked, Pointer
<1>14. Linked(q, sync, acks)'
  <2>1. Linked(q', sync', acks')
    BY <1>1, <1>4, <1>10, <1>11, <1>12, <1>13 DEF Linked
  <2>. QED BY <1>4, <2>1, LinkedNext
<1>15. FrontSent(q)' /\ History' /\ NoReset'
  BY <1>1, <1>4 DEF FrontSent, History, NoReset, InOrderOnce, Tame
<1>. QED BY <1>2, <1>4, <1>14, <1>15 DEF OrderInv, Idle

(* What is left is a part of what was in flight. *)
LEMMA RemoveAckIs ==
  ASSUME acks \in Seq(AckMsg), NEW i \in 1..Len(acks)
  PROVE  \A j \in 1..Len(RemoveAck(i)) :
           \E k \in 1..Len(acks) : RemoveAck(i)[j] = acks[k]
<1> DEFINE L == Len(acks)
           a == SubSeq(acks, 1, i - 1)
           b == SubSeq(acks, i + 1, L)
<1>1. L \in Nat /\ i \in Nat /\ i >= 1 /\ i <= L
  BY LenProperties
<1>2. /\ a \in Seq(AckMsg) /\ Len(a) = i - 1
      /\ \A j \in 1..Len(a) : a[j] = acks[j]
  <2>1. CASE i = 1
    <3>1. a = <<>>
      BY <2>1, SubSeqEmpty
    <3>. QED BY <2>1, <3>1
  <2>2. CASE i # 1
    BY <1>1, <2>2, SubSeqProperties
  <2>. QED BY <2>1, <2>2
<1>3. /\ b \in Seq(AckMsg) /\ Len(b) = L - i
      /\ \A j \in 1..Len(b) : b[j] = acks[j + i]
  <2>1. CASE i = L
    <3>1. b = <<>>
      BY <1>1, <2>1, SubSeqEmpty
    <3>. QED BY <1>1, <2>1, <3>1
  <2>2. CASE i # L
    BY <1>1, <2>2, SubSeqProperties, SMTT(30)
  <2>. QED BY <2>1, <2>2
<1>. HIDE DEF a, b
<1>4. /\ Len(a \o b) = Len(a) + Len(b)
      /\ \A j \in 1..(Len(a) + Len(b)) :
           (a \o b)[j] = IF j <= Len(a) THEN a[j] ELSE b[j - Len(a)]
  BY <1>2, <1>3, ConcatProperties
<1>5. ASSUME NEW j \in 1..Len(a \o b)
      PROVE  \E k \in 1..L : (a \o b)[j] = acks[k]
  <2>1. CASE j <= i - 1
    <3>1. j \in 1..L /\ (a \o b)[j] = acks[j]
      BY <1>1, <1>2, <1>3, <1>4, <2>1
    <3>. QED BY <3>1
  <2>2. CASE ~(j <= i - 1)
    <3>1. /\ j - Len(a) \in 1..Len(b) /\ (j - Len(a)) + i = j + 1
          /\ j + 1 \in 1..L
      BY <1>1, <1>2, <1>3, <1>4, <2>2
    <3>2. (a \o b)[j] = b[j - Len(a)]
      BY <1>1, <1>2, <1>3, <1>4, <2>2
    <3>3. (a \o b)[j] = acks[j + 1]
      BY <1>3, <3>1, <3>2
    <3>. QED BY <3>1, <3>3
  <2>. QED BY <2>1, <2>2
<1>. QED BY <1>5 DEF RemoveAck, a, b

(* The queue and what Erase sees of it when an acknowledgement arrives. *)
LEMMA HeardIs ==
  ASSUME TypeOK, Shape, live
  PROVE  LET v == [q EXCEPT !.lastAck = now] IN
         /\ v \in Queue /\ v.lastAck = now /\ v.msgs = q.msgs /\ v.currSeq = q.currSeq
         /\ v.isReset = q.isReset /\ v.urgent = q.urgent /\ v.notSent = q.notSent
         /\ BaseOf(v) = BaseOf(q) /\ End(v) = End(q)
         /\ Shaped(v, session) /\ Within(v)
         /\ FrontSent(q) => FrontSent(v)
         /\ \A sy, ac : Linked(q, sy, ac) /\ sy \subseteq SyncMsg => Linked(v, sy, ac)
<1> DEFINE v == [q EXCEPT !.lastAck = now]
<1>1. /\ v \in Queue /\ v.lastAck = now /\ v.msgs = q.msgs /\ v.currSeq = q.currSeq
      /\ v.isReset = q.isReset /\ v.urgent = q.urgent /\ v.notSent = q.notSent
  BY DEF TypeOK, Queue
<1>. HIDE DEF v
<1>2. BaseOf(v) = BaseOf(q) /\ End(v) = End(q)
  BY <1>1 DEF BaseOf, End
<1>3. Shaped(v, session) /\ Within(v)
  BY <1>1, <1>2 DEF Shape, Shaped, Within
<1>4. FrontSent(q) => FrontSent(v)
  BY <1>1 DEF FrontSent
<1>5. ASSUME NEW sy, NEW ac, Linked(q, sy, ac), sy \subseteq SyncMsg
      PROVE  Linked(v, sy, ac)
  <2>0. q \in Queue /\ session \in Sessions
        /\ q.lastAck \in Nat /\ now \in Nat /\ lastReset \in Nat
    BY LiveSession, Numbers DEF TypeOK
  <2>1. \A m \in sy : m.time \in Nat
    BY <1>5 DEF SyncMsg
  <2>2. Flight(v, sy)
    BY <1>1, <1>5, <2>0, <2>1 DEF Linked, Flight
  <2>3. Opening(v, sy, ac)
    <3>. SUFFICES ASSUME BaseOf(q) = -1 PROVE q.msgs[1].time <= now
      BY <1>1, <1>2, <1>5 DEF Linked, Opening
    <3>1. q.msgs \in Seq(SyncMsg) /\ 1 \in 1..Len(q.msgs)
      <4>1. q.currSeq \in Nat /\ Len(q.msgs) \in Nat /\ q.msgs \in Seq(SyncMsg)
            /\ q.currSeq = -1 + Len(q.msgs)
        BY <2>0, Numbers
      <4>. QED BY <4>1
    <3>2. q.msgs[1].time \in Nat
      <4>1. q.msgs[1] \in SyncMsg
        BY <3>1, ElementOfSeq
      <4>. QED BY <4>1 DEF SyncMsg
    <3>. QED BY <1>5, <2>0, <3>2 DEF Linked, Opening, Flight
  <2>4. Running(v, sy, ac) /\ Pointer(v, sy)
    BY <1>1, <1>2, <1>5 DEF Linked, Running, Pointer
  <2>. QED BY <2>2, <2>3, <2>4 DEF Linked
<1>. QED BY <1>1, <1>2, <1>3, <1>4, <1>5 DEF v

(* An acknowledgement, any of those in flight, finds its queue. *)
LEMMA OnAckRouterStep ==
  ASSUME OrderInv, NEW i \in 1..Len(acks), OnAckRouter(i)
  PROVE  OrderInv'
<1> DEFINE v == [q EXCEPT !.lastAck = now]
           u == Erase(v, acks[i])
<1>1. /\ TypeOK /\ Shape /\ History /\ NoReset /\ acks \in Seq(AckMsg)
      /\ live /\ Linked(q, sync, acks) /\ FrontSent(q) /\ session \in Sessions
  <2>1. TypeOK /\ acks \in Seq(AckMsg) /\ acks # <<>>
    BY DEF OrderInv, TypeOK
  <2>2. live
    BY <2>1 DEF OrderInv, Idle
  <2>. QED BY <2>1, <2>2, LiveSession DEF OrderInv
<1>2. TypeOK' /\ Shape'
  BY <1>1, TypeShapeStep DEF Next, Writer
<1>3. /\ q' = Flush(u) /\ sync' = sync \cup FlushOut(u) /\ acks' = RemoveAck(i)
      /\ live' /\ UNCHANGED <<lastReset, now, session, accepted, expect>>
  BY <1>1 DEF OnAckRouter, destination
<1>4. /\ v \in Queue /\ Shaped(v, session) /\ Within(v) /\ FrontSent(v)
      /\ Linked(v, sync, acks)
  BY <1>1, HeardIs DEF TypeOK
<1>. HIDE DEF v
<1>5. u \in Queue /\ Shaped(u, session) /\ Within(u)
  <2>1. acks[i] \in AckMsg
    BY <1>1, ElementOfSeq
  <2>. QED BY <1>4, <2>1, EraseKeepsShape
<1>6. Linked(u, sync, acks)
  BY <1>1, <1>4, EraseKeepsLinked
<1>. HIDE DEF u
<1>7. Linked(u, sync, RemoveAck(i))
  <2>1. sync \in SUBSET sync
    OBVIOUS
  <2>2. \A j \in 1..Len(RemoveAck(i)) :
          \E k \in 1..Len(acks) : RemoveAck(i)[j] = acks[k]
    BY <1>1, RemoveAckIs
  <2>. HIDE DEF RemoveAck
  <2>. QED BY <1>6, <2>1, <2>2, LossKeepsLinked
<1>8. Linked(q', sync', acks') /\ FrontSent(q)'
  <2>1. /\ Linked(Flush(u), sync \cup FlushOut(u), RemoveAck(i))
        /\ FrontSent(Flush(u))
    BY <1>1, <1>5, <1>7, FlushKeepsLinked
  <2>. QED BY <1>3, <2>1 DEF FrontSent
<1>9. Linked(q, sync, acks)'
  BY <1>3, <1>8, LinkedNext
<1>. QED
  BY <1>1, <1>2, <1>3, <1>8, <1>9
  DEF OrderInv, Idle, History, NoReset, InOrderOnce, Tame

(* With the queue, or the source, everything in flight is gone. *)
LEMMA SourceGoneStep ==
  ASSUME Drained, OrderInv, ExpireQueue \/ RestartSource
  PROVE  OrderInv'
<1>1. /\ TypeOK /\ Shape /\ History /\ NoReset /\ live /\ Linked(q, sync, acks)
  BY DEF OrderInv, ExpireQueue, RestartSource
<1>2. TypeOK' /\ Shape'
  BY <1>1, TypeShapeStep DEF Next, Writer
<1>3. lastReset <= q.lastAck /\ q.lastAck <= now /\ q.lastAck \in Nat
      /\ now \in Nat /\ lastReset \in Nat
  BY <1>1, QueueFields DEF Linked, Flight, TypeOK
<1>4. /\ ~live' /\ sync' = {} /\ acks' = <<>>
      /\ UNCHANGED <<lastReset, expect, session, accepted>>
  BY DEF Drained, ExpireQueue, RestartSource, DropConnections, destination
<1>5. lastReset < now'
  <2>1. CASE ExpireQueue
    BY <1>3, <2>1, ConstantsAssumption DEF ExpireQueue, Expired
  <2>2. CASE RestartSource
    BY <1>3, <2>2 DEF RestartSource, Drained
  <2>. QED BY <2>1, <2>2
<1>. QED
  BY <1>1, <1>2, <1>4, <1>5 DEF OrderInv, Idle, History, NoReset, InOrderOnce, Tame

-----------------------------------------------------------------------------
(* The steps of the destination. *)

(* An acknowledgement that tells the truth joins those in flight. *)
LEMMA AckKeepsLinked ==
  ASSUME NEW u, NEW sy, NEW ac \in Seq(AckMsg), Linked(u, sy, ac), NEW a \in AckMsg,
         BaseOf(u) = -1 =>
           \/ a.type = "PING"
           \/ /\ a.type = "RESET" /\ a.seq = 0 /\ a.expect = 0
              /\ lastReset = u.msgs[1].time,
         BaseOf(u) >= 0 /\ (u.isReset \/ Tame) /\ a.type # "PING" => a.expect <= Count
  PROVE  Linked(u, sy, Append(ac, a))
<1> DEFINE ac2 == Append(ac, a)
           L == Len(ac)
<1>1. /\ L \in Nat /\ Len(ac2) = L + 1 /\ ac2[L + 1] = a
      /\ \A i \in 1..L : ac2[i] = ac[i]
  BY LenProperties, AppendProperties
<1>. HIDE DEF ac2, L
<1>2. \A i \in 1..Len(ac2) : i \in 1..L \/ i = L + 1
  BY <1>1
<1>3. Flight(u, sy) /\ Pointer(u, sy)
  BY DEF Linked
<1>4. Opening(u, sy, ac2)
  <2>1. SUFFICES ASSUME BaseOf(u) = -1, NEW i \in 1..Len(ac2)
                 PROVE  \/ ac2[i].type = "PING"
                        \/ /\ ac2[i].type = "RESET" /\ ac2[i].seq = 0
                           /\ ac2[i].expect = 0 /\ lastReset = u.msgs[1].time
    BY DEF Linked, Opening
  <2>2. CASE i \in 1..L
    BY <1>1, <2>1, <2>2 DEF Linked, Opening, L
  <2>3. CASE i = L + 1
    BY <1>1, <2>1, <2>3
  <2>. QED BY <1>2, <2>2, <2>3
<1>5. Running(u, sy, ac2)
  <2>1. SUFFICES ASSUME BaseOf(u) >= 0, u.isReset \/ Tame,
                        NEW i \in 1..Len(ac2), ac2[i].type # "PING"
                 PROVE  ac2[i].expect <= Count
    BY DEF Linked, Running
  <2>2. CASE i \in 1..L
    BY <1>1, <2>1, <2>2 DEF Linked, Running, L
  <2>3. CASE i = L + 1
    BY <1>1, <2>1, <2>3
  <2>. QED BY <1>2, <2>2, <2>3
<1>. QED BY <1>3, <1>4, <1>5 DEF Linked, ac2

(* What a message in flight says, and what the destination makes of it. *)
LEMMA ReceivedIs ==
  ASSUME OrderInv, NEW m \in sync, OnSyncRouter(m)
  PROVE  LET kept == IF Len(acks) < MaxAcks THEN acks ELSE Tail(acks)
             a == RouteAck(m, expect') IN
         /\ live /\ TypeOK /\ Shape /\ TypeOK' /\ Shape' /\ session \in Sessions
         /\ m.sess = session /\ m.time <= q.lastAck
         /\ IsData(m) => m.seq \in 1..q.currSeq
         /\ ~IsData(m) => m.seq = 0
         /\ m.seq \in Nat /\ m.time \in Nat
         /\ m.type = "RESET" \/ m.type = "PING" \/ IsData(m)
         /\ IsData(m) => m.type # "RESET" /\ m.type # "PING" /\ m.type # "SHUTDOWN"
         /\ kept \in Seq(AckMsg) /\ acks' = Append(kept, a) /\ a \in AckMsg
         /\ \A i \in 1..Len(kept) : \E k \in 1..Len(acks) : kept[i] = acks[k]
         /\ Linked(q, sync, kept)
         /\ UNCHANGED <<q, live, session, sync, now>>
         /\ expect' = IF IsNewReset(m) \/ InSequence(m) THEN m.seq ELSE expect
         /\ lastReset' = IF IsNewReset(m) THEN m.time ELSE lastReset
         /\ accepted' = IF InSequence(m)
                        THEN [accepted EXCEPT ![m.sess] = Append(@, m.seq)]
                        ELSE accepted
         /\ a.type = IF IsData(m) /\ lastReset = 0 THEN "SHUTDOWN" ELSE m.type
         /\ a.seq = m.seq /\ a.expect = expect'
         /\ IsData(a) <=> IsData(m) /\ lastReset # 0
<1> DEFINE kept == IF Len(acks) < MaxAcks THEN acks ELSE Tail(acks)
           a == RouteAck(m, expect')
<1>1. live /\ TypeOK /\ Shape /\ session \in Sessions /\ Linked(q, sync, acks)
  <2>1. live
    BY DEF OrderInv, Idle
  <2>. QED BY <2>1, LiveSession DEF OrderInv
<1>2. TypeOK' /\ Shape'
  BY <1>1, TypeShapeStep DEF Next, Reader
<1>3. /\ m.sess = session /\ m.time <= q.lastAck
      /\ IsData(m) => m.seq \in 1..q.currSeq
      /\ ~IsData(m) => m.seq = 0
      /\ m.seq \in Nat /\ m.time \in Nat
      /\ m.type = "RESET" \/ m.type = "PING" \/ IsData(m)
      /\ IsData(m) => m.type # "RESET" /\ m.type # "PING" /\ m.type # "SHUTDOWN"
  <2>1. m \in SyncMsg
    BY <1>1 DEF TypeOK
  <2>2. m.type \in DataTypes \cup {"RESET", "PING"} /\ m.seq \in Nat /\ m.time \in Nat
    BY <2>1 DEF SyncMsg
  <2>. QED
    BY <1>1, <2>2, ConstantsAssumption DEF Linked, Flight, IsData
<1>4. acks \in Seq(AckMsg) /\ Len(acks) \in Nat /\ MaxAcks \in Nat \ {0}
  BY <1>1, LenProperties, ConstantsAssumption DEF TypeOK
<1>5. /\ kept \in Seq(AckMsg)
      /\ \A i \in 1..Len(kept) : \E k \in 1..Len(acks) : kept[i] = acks[k]
  <2>1. CASE Len(acks) < MaxAcks
    BY <1>4, <2>1
  <2>2. CASE ~(Len(acks) < MaxAcks)
    <3>1. acks # <<>>
      BY <1>4, <2>2, EmptySeq
    <3>2. /\ Tail(acks) \in Seq(AckMsg) /\ Len(Tail(acks)) = Len(acks) - 1
          /\ \A i \in 1..Len(Tail(acks)) : Tail(acks)[i] = acks[i + 1]
      BY <1>4, <3>1, HeadTailProperties
    <3>3. \A i \in 1..Len(Tail(acks)) : i + 1 \in 1..Len(acks)
      BY <1>4, <3>2
    <3>. QED BY <2>2, <3>2, <3>3
  <2>. QED BY <2>1, <2>2
<1>6. a \in AckMsg
  <2>1. m.type \in DataTypes \cup {"RESET", "PING"} /\ m.seq \in Nat /\ m.sess \in Nat
    BY <1>1 DEF TypeOK, SyncMsg
  <2>2. expect' \in Nat
    BY <1>2 DEF TypeOK
  <2>. QED BY <2>1, <2>2 DEF RouteAck, AckMsg
<1>7. /\ UNCHANGED <<q, live, session, sync, now>> /\ acks' = Append(kept, a)
      /\ expect' = IF IsNewReset(m) \/ InSequence(m) THEN m.seq ELSE expect
      /\ lastReset' = IF IsNewReset(m) THEN m.time ELSE lastReset
      /\ accepted' = IF InSequence(m)
                     THEN [accepted EXCEPT ![m.sess] = Append(@, m.seq)]
                     ELSE accepted
  BY DEF OnSyncRouter, source
<1>8. /\ a.type = IF IsData(m) /\ lastReset = 0 THEN "SHUTDOWN" ELSE m.type
      /\ a.seq = m.seq /\ a.expect = expect'
      /\ IsData(a) <=> IsData(m) /\ lastReset # 0
  BY <1>3 DEF RouteAck, IsData
<1>9. Linked(q, sync, kept)
  <2>1. sync \in SUBSET sync
    OBVIOUS
  <2>. HIDE DEF kept
  <2>. QED BY <1>1, <1>5, <2>1, LossKeepsLinked
<1>. HIDE DEF kept, a
<1>. QED BY <1>1, <1>2, <1>3, <1>5, <1>6, <1>7, <1>8, <1>9 DEF kept, a

(* What a session accepted, after one more number. *)
LEMMA AcceptedIs ==
  ASSUME TypeOK, session \in Sessions, NEW n \in Nat, session' = session,
         accepted' = [accepted EXCEPT ![session] = Append(@, n)]
  PROVE  /\ Count \in Nat /\ Count' = Count + 1
         /\ \A s \in Sessions : s # session => accepted'[s] = accepted[s]
         /\ n = Count + 1 /\ InOrderOnce => InOrderOnce'
<1>1. accepted \in [Sessions -> Seq(Nat)] /\ accepted[session] \in Seq(Nat)
  BY DEF TypeOK
<1>2. /\ accepted'[session] = Append(accepted[session], n)
      /\ \A s \in Sessions : s # session => accepted'[s] = accepted[s]
  BY <1>1
<1>3. /\ Append(accepted[session], n) \in Seq(Nat)
      /\ Count \in Nat /\ Len(Append(accepted[session], n)) = Count + 1
      /\ Append(accepted[session], n)[Count + 1] = n
      /\ \A j \in 1..Count : Append(accepted[session], n)[j] = accepted[session][j]
  BY <1>1, AppendProperties, LenProperties DEF Count
<1>4. Count' = Count + 1
  BY <1>2, <1>3 DEF Count
<1>5. ASSUME n = Count + 1, InOrderOnce,
             NEW s \in Sessions, NEW i \in 1..Len(accepted'[s])
      PROVE  accepted'[s][i] = i
  <2>1. CASE s # session
    BY <1>2, <1>5, <2>1 DEF InOrderOnce
  <2>2. CASE s = session
    <3>1. accepted'[s] = Append(accepted[session], n)
      BY <1>2, <2>2
    <3>2. i \in 1..Count \/ i = Count + 1
      BY <1>3, <1>5, <3>1
    <3>3. \A j \in 1..Count : accepted[session][j] = j
      BY <1>5 DEF InOrderOnce, Count
    <3>. HIDE DEF Count
    <3>. QED BY <1>3, <1>5, <3>1, <3>2, <3>3
  <2>. QED BY <2>1, <2>2
<1>6. n = Count + 1 /\ InOrderOnce => InOrderOnce'
  BY <1>5 DEF InOrderOnce, Sessions
<1>. QED BY <1>2, <1>3, <1>4, <1>6

(* The destination takes a message, and acknowledges it. *)
LEMMA OnSyncRouterStep ==
  ASSUME OrderInv, NEW m \in sync, OnSyncRouter(m)
  PROVE  OrderInv'
<1> DEFINE kept == IF Len(acks) < MaxAcks THEN acks ELSE Tail(acks)
           a == RouteAck(m, expect')
           base == BaseOf(q)
<1>1. /\ live /\ TypeOK /\ Shape /\ TypeOK' /\ Shape' /\ session \in Sessions
      /\ m.sess = session /\ m.time <= q.lastAck
      /\ IsData(m) => m.seq \in 1..q.currSeq
      /\ ~IsData(m) => m.seq = 0
      /\ m.seq \in Nat /\ m.time \in Nat
      /\ m.type = "RESET" \/ m.type = "PING" \/ IsData(m)
      /\ IsData(m) => m.type # "RESET" /\ m.type # "PING" /\ m.type # "SHUTDOWN"
  BY ReceivedIs
<1>2. /\ kept \in Seq(AckMsg) /\ acks' = Append(kept, a) /\ a \in AckMsg
      /\ Linked(q, sync, kept)
  BY ReceivedIs
<1>3. /\ UNCHANGED <<q, live, session, sync, now>>
      /\ expect' = IF IsNewReset(m) \/ InSequence(m) THEN m.seq ELSE expect
      /\ lastReset' = IF IsNewReset(m) THEN m.time ELSE lastReset
      /\ accepted' = IF InSequence(m)
                     THEN [accepted EXCEPT ![m.sess] = Append(@, m.seq)]
                     ELSE accepted
  BY DEF OnSyncRouter, source
<1>4. /\ a.type = IF IsData(m) /\ lastReset = 0 THEN "SHUTDOWN" ELSE m.type
      /\ a.seq = m.seq /\ a.expect = expect'
  BY ReceivedIs
<1>5. /\ History /\ NoReset /\ FrontSent(q)
      /\ Flight(q, sync) /\ Opening(q, sync, kept) /\ Running(q, sync, kept)
      /\ Pointer(q, sync)
  BY <1>1, <1>2 DEF OrderInv, Linked
<1>6. /\ q \in Queue /\ Count \in Nat /\ expect \in Nat /\ lastReset \in Nat
      /\ q.currSeq \in Nat /\ q.lastAck \in Nat
      /\ base \in Int /\ (base = -1 \/ base >= 0)
  <2>1. q \in Queue /\ Shaped(q, session)
    BY <1>1 DEF TypeOK, Shape
  <2>2. base \in Int /\ base >= -1
    BY <1>1, <2>1, Numbers DEF Shaped
  <2>3. /\ Count \in Nat /\ expect \in Nat /\ lastReset \in Nat
        /\ q.currSeq \in Nat /\ q.lastAck \in Nat
    BY <1>1, <2>1, Numbers
  <2>. HIDE DEF base
  <2>. QED BY <2>1, <2>2, <2>3
<1>. HIDE DEF kept, a, base
<1>7. FrontSent(q)'
  BY <1>3, <1>5 DEF FrontSent
<1>8. CASE ~IsNewReset(m) /\ ~InSequence(m)
  <2>1. UNCHANGED <<lastReset, now, session, accepted, expect>>
    BY <1>3, <1>8
  <2>2. base = -1 =>
          \/ a.type = "PING"
          \/ /\ a.type = "RESET" /\ a.seq = 0 /\ a.expect = 0
             /\ lastReset = q.msgs[1].time
    <3>. SUFFICES ASSUME base = -1, m.type # "PING"
                  PROVE  /\ a.type = "RESET" /\ a.seq = 0 /\ a.expect = 0
                         /\ lastReset = q.msgs[1].time
      BY <1>1, <1>4 DEF IsData
    <3>1. ~IsData(m) /\ m.type = "RESET" /\ m = q.msgs[1]
      BY <1>1, <1>5 DEF Opening, base
    <3>2. m.time > 0 /\ lastReset <= m.time /\ (lastReset = m.time => expect = 0)
      BY <1>5, <3>1 DEF Opening, base
    <3>3. lastReset = m.time
      BY <1>1, <1>6, <1>8, <3>1, <3>2 DEF IsNewReset
    <3>. QED BY <1>1, <1>4, <2>1, <3>1, <3>2, <3>3
  <2>3. base >= 0 /\ (q.isReset \/ Tame) => a.expect <= Count
    <3>. SUFFICES ASSUME base >= 0, q.isReset \/ Tame PROVE expect <= Count
      BY <1>4, <2>1
    <3>1. lastReset # 0 => expect = Count
      BY <1>5 DEF Running, base
    <3>. QED BY <1>5, <1>6, <3>1 DEF NoReset
  <2>4. Linked(q, sync, Append(kept, a))
    BY <1>2, <2>2, <2>3, AckKeepsLinked DEF base
  <2>5. Linked(q, sync, acks)'
    BY <1>2, <1>3, <2>1, <2>4, LinkedNext
  <2>. QED
    BY <1>1, <1>3, <1>5, <1>7, <2>1, <2>5
    DEF OrderInv, Idle, History, NoReset, InOrderOnce, Tame
<1>9. CASE IsNewReset(m)
  <2>1. m.type = "RESET" /\ m.time # 0 /\ lastReset < m.time /\ ~IsData(m) /\ m.seq = 0
    BY <1>1, <1>9 DEF IsNewReset, IsData
  <2>2. expect' = 0 /\ lastReset' = m.time /\ accepted' = accepted /\ Count' = Count
    <3>1. ~InSequence(m)
      BY <2>1 DEF InSequence
    <3>. QED BY <1>3, <1>9, <2>1, <3>1 DEF Count
  <2>3. BaseOf(q)' = base
    BY <1>3 DEF base, BaseOf
  <2>4. /\ a.type = "RESET" /\ a.seq = 0 /\ a.expect = 0
    BY <1>4, <2>1, <2>2
  <2>5. /\ Len(acks') = Len(kept) + 1 /\ Len(kept) \in Nat
        /\ acks'[Len(kept) + 1] = a
        /\ \A j \in 1..Len(kept) : acks'[j] = kept[j]
    BY <1>2, AppendProperties, LenProperties
  <2>6. Flight(q, sync)'
    BY <1>1, <1>3, <1>5, <2>2 DEF Flight, IsData
  <2>7. Opening(q, sync, acks)'
    <3>. SUFFICES ASSUME base = -1 PROVE Opening(q, sync, acks)'
      BY <2>3 DEF Opening
    <3>1. m = q.msgs[1]
      BY <1>5, <2>1 DEF Opening, base
    <3>2. /\ ~q.isReset /\ q.notSent = 2 /\ Count = 0
          /\ q.msgs[1].time > 0 /\ q.msgs[1].time <= q.lastAck
          /\ \A x \in sync : ~IsData(x) /\ (x.type = "RESET" => x = q.msgs[1])
      BY <1>5 DEF Opening, base
    <3>3. \A i \in 1..Len(kept) : kept[i].type = "PING"
      BY <1>1, <1>5, <1>6, <2>1, <3>1 DEF Opening, base
    <3>4. \A i \in 1..Len(acks') :
            \/ acks'[i].type = "PING"
            \/ acks'[i].type = "RESET" /\ acks'[i].seq = 0 /\ acks'[i].expect = 0
      <4>1. \A i \in 1..Len(acks') : i \in 1..Len(kept) \/ i = Len(kept) + 1
        BY <2>5
      <4>. QED BY <2>4, <2>5, <3>3, <4>1
    <3>5. lastReset' = q.msgs[1].time /\ lastReset' <= q.msgs[1].time
      BY <1>1, <2>2, <3>1
    <3>. QED BY <1>3, <2>2, <3>2, <3>4, <3>5 DEF Opening, IsData
  <2>8. Running(q, sync, acks)'
    <3>. SUFFICES ASSUME base >= 0, q.isReset \/ Tame PROVE Running(q, sync, acks)'
      BY <1>3, <2>3 DEF Running, Tame
    <3>1. lastReset = 0
      BY <1>1, <1>5, <1>6, <2>1 DEF Running, base
    <3>2. /\ Count = 0
          /\ \A x \in sync : x.type = "RESET" => x.time = m.time
      BY <1>5, <2>1, <3>1 DEF Running, base
    <3>3. \A i \in 1..Len(kept) : kept[i].type # "PING" => kept[i].expect <= 0
      BY <1>5, <3>2 DEF Running, base
    <3>4. \A i \in 1..Len(acks') : acks'[i].type # "PING" => acks'[i].expect <= 0
      <4>1. \A i \in 1..Len(acks') : i \in 1..Len(kept) \/ i = Len(kept) + 1
        BY <2>5
      <4>2. a.expect <= 0
        BY <2>4
      <4>. QED BY <2>5, <3>3, <4>1, <4>2
    <3>5. \A x \in sync : x.type = "RESET" => x.time <= m.time
      BY <1>1, <3>2
    <3>. QED BY <1>3, <1>6, <2>1, <2>2, <3>2, <3>4, <3>5 DEF Running
  <2>9. Pointer(q, sync)'
    BY <1>3, <1>5, <2>2, <2>3 DEF Pointer, End, IsData, base
  <2>10. History' /\ NoReset'
    <3>1. session # 0
      BY <1>1 DEF Sessions
    <3>. QED
      BY <1>3, <1>5, <2>1, <2>2, <3>1 DEF History, NoReset, InOrderOnce, Tame
  <2>. QED
    BY <1>1, <1>3, <1>7, <2>6, <2>7, <2>8, <2>9, <2>10 DEF OrderInv, Idle, Linked
<1>10. CASE InSequence(m)
  <2>1. IsData(m) /\ lastReset # 0 /\ m.seq = expect + 1 /\ m.seq \in 1..q.currSeq
    BY <1>1, <1>10 DEF InSequence
  <2>2. base >= 0
    BY <1>5, <1>6, <2>1 DEF Opening, base
  <2>3. /\ expect' = m.seq /\ lastReset' = lastReset
        /\ accepted' = [accepted EXCEPT ![session] = Append(@, m.seq)]
    <3>1. ~IsNewReset(m)
      BY <1>1, <2>1 DEF IsNewReset
    <3>. QED BY <1>1, <1>3, <1>10, <3>1
  <2>4. /\ Count' = Count + 1
        /\ \A s \in Sessions : s # session => accepted'[s] = accepted[s]
        /\ m.seq = Count + 1 /\ InOrderOnce => InOrderOnce'
    BY <1>1, <1>3, <2>3, AcceptedIs
  <2>5. BaseOf(q)' = base
    BY <1>3 DEF base, BaseOf
  <2>6. ASSUME q.isReset \/ Tame PROVE expect = Count /\ m.seq = Count + 1
    BY <1>5, <2>1, <2>2, <2>6 DEF Running, base
  <2>7. Flight(q, sync)'
    BY <1>1, <1>3, <1>5, <2>3 DEF Flight, IsData
  <2>8. Opening(q, sync, acks)'
    BY <1>6, <2>2, <2>5 DEF Opening
  <2>9. Running(q, sync, acks)'
    <3>. SUFFICES ASSUME q.isReset \/ Tame PROVE Running(q, sync, acks)'
      BY <1>3 DEF Running, Tame
    <3>1. /\ Len(acks') = Len(kept) + 1 /\ Len(kept) \in Nat
          /\ acks'[Len(kept) + 1] = a
          /\ \A j \in 1..Len(kept) : acks'[j] = kept[j]
      BY <1>2, AppendProperties, LenProperties
    <3>2. ASSUME NEW i \in 1..Len(acks'), acks'[i].type # "PING"
          PROVE  acks'[i].expect <= Count + 1
      <4>1. CASE i \in 1..Len(kept)
        <5>1. acks'[i] = kept[i] /\ kept[i] \in AckMsg
          BY <1>2, <3>1, <4>1, ElementOfSeq
        <5>2. kept[i].expect <= Count /\ kept[i].expect \in Nat
          BY <1>5, <2>2, <3>2, <4>1, <5>1 DEF Running, base, AckMsg
        <5>. QED BY <1>6, <5>1, <5>2
      <4>2. CASE i = Len(kept) + 1
        BY <1>4, <1>6, <2>3, <2>6, <3>1, <4>2
      <4>. QED BY <3>1, <4>1, <4>2
    <3>3. Count' <= q'.currSeq /\ expect' = Count'
      BY <1>3, <1>6, <2>1, <2>3, <2>4, <2>6
    <3>4. \A x \in sync' : x.type = "RESET" => x.time <= lastReset'
      BY <1>3, <1>5, <2>1, <2>2, <2>3 DEF Running, base
    <3>. QED BY <2>1, <2>3, <2>4, <3>2, <3>3, <3>4 DEF Running
  <2>10. Pointer(q, sync)'
    <3>. SUFFICES ASSUME q.isReset PROVE Pointer(q, sync)'
      BY <1>3 DEF Pointer
    <3>1. ~q.urgent => m.seq < base + q.notSent
      BY <1>5, <2>1 DEF Pointer, base
    <3>2. ~q.urgent => Count + 1 < base + q.notSent
      BY <2>6, <3>1
    <3>. QED BY <1>3, <1>5, <2>4, <2>5, <3>2 DEF Pointer, IsData, End, base
  <2>11. History' /\ NoReset'
    <3>1. ASSUME NEW s \in Sessions, s > session' PROVE accepted'[s] = <<>>
      <4>1. s > session /\ s # session
        BY <1>1, <1>3, <3>1 DEF Sessions
      <4>. QED BY <1>5, <2>4, <4>1 DEF History
    <3>2. Tame => InOrderOnce'
      BY <1>5, <2>4, <2>6 DEF History
    <3>3. session # 0
      BY <1>1 DEF Sessions
    <3>. QED BY <1>3, <2>1, <2>3, <3>1, <3>2, <3>3 DEF History, NoReset, Tame
  <2>. QED
    BY <1>1, <1>3, <1>7, <2>7, <2>8, <2>9, <2>10, <2>11 DEF OrderInv, Idle, Linked
<1>. QED BY <1>8, <1>9, <1>10

(* The destination forgets every writer, and the connections are gone. *)
LEMMA RestartDestinationStep ==
  ASSUME Drained, OrderInv, RestartDestination
  PROVE  OrderInv'
<1>1. /\ TypeOK /\ Shape /\ History /\ NoReset /\ sync' = {} /\ acks' = <<>>
      /\ lastReset' = 0 /\ expect' = 0
      /\ UNCHANGED <<live, q, session, now, accepted>>
  BY DEF OrderInv, RestartDestination, DropConnections, Drained, source
<1>2. TypeOK' /\ Shape'
  BY <1>1, TypeShapeStep DEF Next, Reader
<1>3. now \in Nat \ {0}
  BY <1>1 DEF TypeOK
<1>4. Idle' /\ History' /\ NoReset'
  BY <1>1, <1>3 DEF Idle, History, NoReset, InOrderOnce, Tame
<1>5. ASSUME live PROVE Linked(q, sync, acks)' /\ FrontSent(q)'
  <2>1. Linked(q, sync, acks) /\ FrontSent(q) /\ q.lastAck \in Nat
    BY <1>1, <1>5, QueueFields DEF OrderInv, TypeOK
  <2>2. /\ BaseOf(q)' = BaseOf(q) /\ Count' = Count /\ End(q)' = End(q)
        /\ Len(acks') = 0
    BY <1>1 DEF BaseOf, Count, End
  <2>3. Flight(q, sync)'
    BY <1>1, <2>1, <2>2 DEF Linked, Flight
  <2>4. Opening(q, sync, acks)'
    <3>. SUFFICES ASSUME BaseOf(q) = -1
                  PROVE  /\ ~q.isReset /\ q.notSent = 2 /\ Count = 0
                         /\ q.msgs[1].time > 0 /\ q.msgs[1].time <= q.lastAck
                         /\ 0 <= q.msgs[1].time
      BY <1>1, <2>2 DEF Opening
    <3>1. /\ ~q.isReset /\ q.notSent = 2 /\ Count = 0
          /\ q.msgs[1].time > 0 /\ q.msgs[1].time <= q.lastAck
      BY <2>1 DEF Linked, Opening
    <3>2. q.msgs[1].time \in Nat
      <4>1. q \in Queue /\ q.currSeq \in Nat /\ q.msgs \in Seq(SyncMsg)
            /\ Len(q.msgs) \in Nat
        BY <1>1, QueueFields, LenProperties DEF TypeOK
      <4>2. 1 \in 1..Len(q.msgs)
        BY <4>1 DEF BaseOf
      <4>3. q.msgs[1] \in SyncMsg
        BY <4>1, <4>2, ElementOfSeq
      <4>. QED BY <4>3 DEF SyncMsg
    <3>. QED BY <3>1, <3>2
  <2>5. Running(q, sync, acks)'
    BY <1>1, <2>1, <2>2 DEF Linked, Running, Tame
  <2>6. Pointer(q, sync)' /\ FrontSent(q)'
    BY <1>1, <2>1, <2>2 DEF Linked, Pointer, FrontSent
  <2>. QED BY <2>3, <2>4, <2>5, <2>6 DEF Linked
<1>. QED BY <1>1, <1>2, <1>4, <1>5 DEF OrderInv

-----------------------------------------------------------------------------
(* The steps of the environment. *)

LEMMA LossStep ==
  ASSUME OrderInv, (\E m \in sync : LoseSync(m)) \/ LoseAck
  PROVE  OrderInv'
<1>1. /\ TypeOK /\ Shape /\ History /\ NoReset
      /\ UNCHANGED <<live, q, session, now, accepted, lastReset, expect>>
      /\ sync' \subseteq sync
      /\ acks' = acks \/ (acks # <<>> /\ acks' = Tail(acks))
  BY DEF OrderInv, LoseSync, LoseAck, source, destination
<1>2. TypeOK' /\ Shape'
  BY <1>1, TypeShapeStep DEF Next, Environment
<1>3. Idle' /\ History' /\ NoReset' /\ (live => FrontSent(q)')
  <2>1. Idle'
    BY <1>1 DEF OrderInv, Idle
  <2>. QED BY <1>1, <2>1 DEF OrderInv, History, NoReset, InOrderOnce, Tame, FrontSent
<1>4. ASSUME live PROVE Linked(q, sync, acks)'
  <2>1. Linked(q, sync, acks) /\ acks \in Seq(AckMsg) /\ Len(acks) \in Nat
    BY <1>1, <1>4, LenProperties DEF OrderInv, TypeOK
  <2>2. \A i \in 1..Len(acks') : \E k \in 1..Len(acks) : acks'[i] = acks[k]
    <3>1. CASE acks' = acks
      BY <3>1
    <3>2. CASE acks # <<>> /\ acks' = Tail(acks)
      <4>1. /\ Len(Tail(acks)) = Len(acks) - 1
            /\ \A i \in 1..Len(Tail(acks)) : Tail(acks)[i] = acks[i + 1]
        BY <2>1, <3>2, HeadTailProperties
      <4>2. \A i \in 1..Len(Tail(acks)) : i + 1 \in 1..Len(acks)
        BY <2>1, <4>1
      <4>. QED BY <3>2, <4>1, <4>2
    <3>. QED BY <1>1, <3>1, <3>2
  <2>3. Linked(q, sync', acks')
    <3>. DEFINE sy2 == sync'
                ac2 == acks'
    <3>1. sy2 \in SUBSET sync /\ \A i \in 1..Len(ac2) : \E k \in 1..Len(acks) : ac2[i] = acks[k]
      BY <1>1, <2>2
    <3>. HIDE DEF sy2, ac2
    <3>2. Linked(q, sy2, ac2)
      BY <2>1, <3>1, LossKeepsLinked
    <3>. QED BY <3>2 DEF sy2, ac2
  <2>4. Linked(q', sync', acks')
    BY <1>1, <2>3
  <2>. QED BY <1>1, <2>4, LinkedNext
<1>. QED BY <1>1, <1>2, <1>3, <1>4 DEF OrderInv

LEMMA TickStep == ASSUME OrderInv, Tick PROVE OrderInv'
<1>1. /\ TypeOK /\ Shape /\ History /\ NoReset /\ now' = now + 1
      /\ UNCHANGED <<live, q, session, accepted, lastReset, expect, sync, acks>>
  BY DEF OrderInv, Tick, source, destination
<1>2. TypeOK' /\ Shape'
  BY <1>1, TypeShapeStep DEF Next, Environment
<1>3. now \in Nat /\ lastReset \in Nat
  BY <1>1 DEF TypeOK
<1>4. Idle' /\ History' /\ NoReset' /\ (live => FrontSent(q)')
  BY <1>1, <1>3 DEF OrderInv, Idle, History, NoReset, InOrderOnce, Tame, FrontSent
<1>5. ASSUME live PROVE Linked(q, sync, acks)'
  <2>1. Linked(q, sync, acks) /\ q.lastAck \in Nat
    BY <1>1, <1>5, QueueFields DEF OrderInv, TypeOK
  <2>2. /\ BaseOf(q)' = BaseOf(q) /\ Count' = Count /\ End(q)' = End(q)
    BY <1>1 DEF BaseOf, Count, End
  <2>3. Flight(q, sync)'
    BY <1>1, <1>3, <2>1, <2>2 DEF Linked, Flight, IsData
  <2>4. Opening(q, sync, acks)'
    BY <1>1, <2>1, <2>2 DEF Linked, Opening, IsData
  <2>5. Running(q, sync, acks)'
    BY <1>1, <2>1, <2>2 DEF Linked, Running, Tame
  <2>6. Pointer(q, sync)'
    BY <1>1, <2>1, <2>2 DEF Linked, Pointer, IsData
  <2>. QED BY <2>3, <2>4, <2>5, <2>6 DEF Linked
<1>. QED BY <1>1, <1>2, <1>4, <1>5 DEF OrderInv


-----------------------------------------------------------------------------
(* The theorems of delivery. *)

LEMMA OrderInit == Init => OrderInv
<1>. SUFFICES ASSUME Init PROVE OrderInv
  OBVIOUS
<1>1. TypeOK /\ Shape
  BY TypeShapeInit
<1>2. ~live /\ sync = {} /\ acks = <<>> /\ lastReset < now
      /\ lastReset = 0 /\ expect = 0
  BY DEF Init
<1>3. InOrderOnce /\ \A s \in Sessions : accepted[s] = <<>>
  BY DEF Init, InOrderOnce
<1>. QED BY <1>1, <1>2, <1>3 DEF OrderInv, Idle, History, NoReset

LEMMA OrderStep == ASSUME Drained, OrderInv, [Next]_vars PROVE OrderInv'
<1>1. CASE UNCHANGED vars
  <2>1. UNCHANGED <<live, q, sync, acks, expect, lastReset, now, session, accepted>>
    BY <1>1 DEF vars, source, destination
  <2>2. TypeOK' /\ Shape'
    BY TypeShapeStep DEF OrderInv
  <2>3. Idle' /\ History' /\ NoReset' /\ (live => FrontSent(q)')
    BY <2>1 DEF OrderInv, Idle, History, NoReset, InOrderOnce, Tame, FrontSent
  <2>4. live => Linked(q', sync', acks')
    BY <2>1 DEF OrderInv
  <2>5. live => Linked(q, sync, acks)'
    BY <2>1, <2>4, LinkedNext
  <2>. QED BY <2>1, <2>2, <2>3, <2>5 DEF OrderInv
<1>2. CASE Writer
  BY <1>2, EmitFirstStep, EmitNextStep, RetryStep, SourceGoneStep, OnAckRouterStep
  DEF Writer
<1>3. CASE Reader
  BY <1>3, OnSyncRouterStep, RestartDestinationStep DEF Reader
<1>4. CASE Environment
  BY <1>4, LossStep, TickStep DEF Environment
<1>. QED BY <1>1, <1>2, <1>3, <1>4 DEF Next

(* What the invariant says of the iterator and of the order. *)
LEMMA OrderImplies ==
  OrderInv => NotSentValid /\ (Tame => InOrderOnce)
<1>. SUFFICES ASSUME OrderInv PROVE NotSentValid
  BY DEF OrderInv, History
<1>. SUFFICES ASSUME live, q.isReset
              PROVE  /\ q.notSent # Dangling /\ q.notSent <= End(q)
                     /\ q.msgs # <<>> => q.notSent > 1
  BY DEF NotSentValid
<1>1. q.notSent \in 1..End(q) /\ FrontSent(q) /\ Len(q.msgs) \in Nat
  <2>1. q.msgs \in Seq(SyncMsg)
    BY QueueFields DEF OrderInv, TypeOK
  <2>. QED BY <2>1, LenProperties DEF OrderInv, Linked, Pointer
<1>. QED BY <1>1 DEF FrontSent, End, Dangling

(* The invariant needs only that a restart drains the connections and takes a
   second: no order of the acknowledgements, no bound on the queue. *)
THEOREM OrderInductive == ASSUME Drained PROVE Spec => []OrderInv
<1>1. OrderInv /\ [Next]_vars => OrderInv'
  BY OrderStep
<1>. QED BY <1>1, OrderInit, PTL DEF Spec

(* Flush never dereferences an iterator whose element Erase, or Push on a
   full queue, removed. *)
THEOREM IteratorValid == ASSUME Drained PROVE Spec => []NotSentValid
<1>1. OrderInv /\ [Next]_vars => OrderInv'
  BY OrderStep
<1>. QED BY <1>1, OrderInit, OrderImplies, PTL DEF Spec

(* DoAckRouter hands over 1, 2, 3, ... in every session: the comparison with
   m_uExpectSeqId + 1 and the reset time keep duplicates, stragglers and
   earlier sessions out, unless a full queue drops a RESET and a later
   session goes on under the numbers of the former. *)
THEOREM InOrder == ASSUME Drained, Tame PROVE Spec => []InOrderOnce
<1>1. OrderInv /\ [Next]_vars => OrderInv'
  BY OrderStep
<1>2. OrderInv => InOrderOnce
  BY OrderImplies
<1>. QED BY <1>1, <1>2, OrderInit, PTL DEF Spec

-----------------------------------------------------------------------------
(* Reliable routing implements OrderedDelivery. *)

(* What was emitted in a session: its first k numbers. *)
Numbers1To(k) == [n \in 1..k |-> n]

LEMMA NumbersIs ==
  ASSUME NEW k \in Nat
  PROVE  /\ Numbers1To(k) \in Seq(Nat) /\ Len(Numbers1To(k)) = k
         /\ \A n \in 1..k : Numbers1To(k)[n] = n
         /\ Numbers1To(k + 1) = Append(Numbers1To(k), k + 1)
         /\ k = 0 <=> Numbers1To(k) = <<>>
<1>1. ASSUME NEW i \in Nat
      PROVE  /\ Numbers1To(i) \in Seq(Nat) /\ Len(Numbers1To(i)) = i
             /\ \A n \in 1..i : Numbers1To(i)[n] = n
  BY DEF Numbers1To
<1>2. k + 1 \in Nat
  OBVIOUS
<1>. DEFINE a == Numbers1To(k + 1)
            b == Append(Numbers1To(k), k + 1)
<1>3. b \in Seq(Nat) /\ Len(b) = k + 1 /\ \A n \in 1..(k + 1) : b[n] = n
  <2>. DEFINE w == Numbers1To(k)
  <2>1. w \in Seq(Nat) /\ Len(w) = k /\ \A n \in 1..k : w[n] = n
    BY <1>1
  <2>. HIDE DEF w
  <2>2. /\ Append(w, k + 1) \in Seq(Nat) /\ Len(Append(w, k + 1)) = k + 1
        /\ \A n \in 1..k : Append(w, k + 1)[n] = w[n]
        /\ Append(w, k + 1)[k + 1] = k + 1
    BY <1>2, <2>1
  <2>3. \A n \in 1..(k + 1) : n \in 1..k \/ n = k + 1
    OBVIOUS
  <2>. QED BY <2>1, <2>2, <2>3 DEF w
<1>4. a \in Seq(Nat) /\ Len(a) = k + 1 /\ \A n \in 1..(k + 1) : a[n] = n
  BY <1>1, <1>2
<1>5. a = b
  <2>. HIDE DEF a, b
  <2>. QED BY <1>3, <1>4, SeqEqual
<1>. QED BY <1>1, <1>5, EmptySeq

(* The queue counts what was emitted, and no session is emitted to before
   its queue exists. *)
EmittedInv ==
  /\ live => emitted[session] = q.currSeq
  /\ \A s \in Sessions : s > session => emitted[s] = 0

LEMMA EmittedInit == Init => EmittedInv
  BY DEF Init, EmittedInv

(* What an emission does to the history, and to the queue's counter. *)
LEMMA EmitNextCounts ==
  ASSUME TypeOK, Shape, NEW d \in DataTypes, EmitNext(d)
  PROVE  /\ session \in Sessions /\ session' = session /\ live /\ live'
         /\ emitted' = [emitted EXCEPT ![session] = @ + 1]
         /\ q'.currSeq = q.currSeq + 1 /\ q.currSeq < MaxSeq
<1>1. live /\ session \in Sessions /\ session \in Nat
  BY LiveSession DEF EmitNext, TypeOK
<1>2. Push(q, d, session) \in Queue /\ Push(q, d, session).currSeq = q.currSeq + 1
  BY <1>1, PushIs DEF TypeOK, Shape
<1>3. Flush(Push(q, d, session)).currSeq = q.currSeq + 1
  BY <1>2, FlushIs
<1>. QED BY <1>1, <1>3 DEF EmitNext

LEMMA EmitFirstCounts ==
  ASSUME TypeOK, NEW d \in DataTypes, EmitFirst(d)
  PROVE  /\ session' \in Sessions /\ session' = session + 1 /\ live'
         /\ emitted' = [emitted EXCEPT ![session'] = 1]
         /\ q'.currSeq = 1 /\ MaxSeq > 0
<1>. DEFINE s == session + 1
            r == Reset(s)
            u == Push(r, d, s)
<1>1. s \in Sessions /\ s \in Nat /\ now \in Nat
  BY ConstantsAssumption DEF EmitFirst, TypeOK, Sessions
<1>2. r \in Queue /\ Shaped(r, s) /\ r.currSeq = 0
  BY <1>1, ResetIs
<1>3. u \in Queue /\ u.currSeq = 1
  <2>1. u \in Queue /\ u.currSeq = r.currSeq + 1
    <3>. HIDE DEF r, s
    <3>. QED BY <1>1, <1>2, PushIs
  <2>. HIDE DEF u, r
  <2>. QED BY <1>2, <2>1
<1>4. Flush(u).currSeq = 1
  BY <1>3, FlushIs
<1>. QED BY <1>1, <1>4 DEF EmitFirst

(* Every other step leaves the history of emissions alone, and the queue
   that stays keeps its counter. *)
Others == \/ Retry \/ ExpireQueue \/ RestartSource \/ Reader \/ Environment
          \/ \E i \in 1..Len(acks) : OnAckRouter(i)

LEMMA OthersCount ==
  ASSUME TypeOK, Shape, Others \/ UNCHANGED vars
  PROVE  /\ emitted' = emitted /\ session' = session
         /\ live' => live /\ q'.currSeq = q.currSeq
<1>1. CASE \E i \in 1..Len(acks) : OnAckRouter(i)
  <2>. PICK i \in 1..Len(acks) : OnAckRouter(i)
    BY <1>1
  <2>. DEFINE v == [q EXCEPT !.lastAck = now]
              u == Erase(v, acks[i])
  <2>1. v \in Queue /\ v.currSeq = q.currSeq /\ Shaped(v, session)
    <3>1. /\ v \in Queue /\ v.currSeq = q.currSeq /\ v.msgs = q.msgs
      BY DEF TypeOK, Queue
    <3>. HIDE DEF v
    <3>. QED BY <3>1 DEF Shape, Shaped, BaseOf
  <2>2. acks[i] \in AckMsg
    BY DEF TypeOK
  <2>3. u \in Queue /\ u.currSeq = q.currSeq
    <3>. HIDE DEF v
    <3>. QED BY <2>1, <2>2, EraseKeepsShape
  <2>4. Flush(u).currSeq = q.currSeq
    BY <2>3, FlushIs
  <2>. QED BY <2>4 DEF OnAckRouter
<1>2. CASE \/ Retry \/ ExpireQueue \/ RestartSource \/ UNCHANGED vars
  BY <1>2 DEF Retry, ExpireQueue, RestartSource, vars, source
<1>3. CASE Reader \/ Environment
  BY <1>3 DEF Reader, OnSyncRouter, RestartDestination, Environment, LoseSync,
              LoseAck, Tick, source
<1>. QED BY <1>1, <1>2, <1>3 DEF Others

LEMMA EmittedStep ==
  ASSUME TypeOK, Shape, EmittedInv, [Next]_vars
  PROVE  EmittedInv'
<1>1. ASSUME NEW d \in DataTypes, EmitNext(d) PROVE EmittedInv'
  <2>1. /\ session \in Sessions /\ session' = session /\ live
        /\ emitted' = [emitted EXCEPT ![session] = @ + 1]
        /\ q'.currSeq = q.currSeq + 1
    BY <1>1, EmitNextCounts
  <2>2. emitted'[session] = q.currSeq + 1
    BY <2>1 DEF EmittedInv, TypeOK
  <2>3. ASSUME NEW s \in Sessions, s > session PROVE emitted'[s] = 0
    BY <2>1, <2>3 DEF EmittedInv, TypeOK, Sessions
  <2>. QED BY <2>1, <2>2, <2>3 DEF EmittedInv
<1>2. ASSUME NEW d \in DataTypes, EmitFirst(d) PROVE EmittedInv'
  <2>1. /\ session' \in Sessions /\ session' = session + 1 /\ q'.currSeq = 1
        /\ emitted' = [emitted EXCEPT ![session'] = 1]
    BY <1>2, EmitFirstCounts
  <2>. QED BY <2>1 DEF EmittedInv, TypeOK, Sessions
<1>3. CASE Others \/ UNCHANGED vars
  BY <1>3, OthersCount DEF EmittedInv
<1>. QED BY <1>1, <1>2, <1>3 DEF Next, Writer, Others

(* The histories are what OrderedDelivery calls sent and got. *)
Sent == [s \in Sessions |-> Numbers1To(emitted[s])]

LEMMA SentIs ==
  Sent = [s \in Sessions |-> [n \in 1..emitted[s] |-> n]]
  BY DEF Sent, Numbers1To

(* No later session was emitted to. *)
LEMMA NotSuperseded ==
  ASSUME TypeOK, EmittedInv, NEW s \in Sessions, s >= session
  PROVE  ~Delivery!Superseded(s)
<1>. SUFFICES ASSUME NEW t \in Sessions, t > s PROVE Sent[t] = <<>>
  BY SentIs DEF Delivery!Superseded
<1>1. t > session
  BY DEF TypeOK, Sessions
<1>2. emitted[t] = 0
  BY <1>1 DEF EmittedInv
<1>. QED BY <1>2, NumbersIs DEF Sent

(* OnRouterEmit is Emit of the next number. *)
LEMMA EmitIsEmit ==
  ASSUME TypeOK, EmittedInv, NEW s \in Sessions, s >= session,
         emitted[s] < MaxSeq,
         emitted' = [emitted EXCEPT ![s] = @ + 1], accepted' = accepted
  PROVE  Delivery!Next
<1>. emitted[s] + 1 \in 1..MaxSeq /\ emitted[s] \in Nat
  BY ConstantsAssumption DEF TypeOK
<1>. PICK p \in 1..MaxSeq : p = emitted[s] + 1
  OBVIOUS
<1>1. Numbers1To(p) = Append(Numbers1To(emitted[s]), p)
  BY NumbersIs
<1>2. Sent' = [Sent EXCEPT ![s] = Append(@, p)]
  <2>1. Sent' = [t \in Sessions |-> Numbers1To(emitted'[t])]
    BY DEF Sent, Sessions
  <2>2. ASSUME NEW t \in Sessions
        PROVE  Numbers1To(emitted'[t])
               = IF t = s THEN Append(Numbers1To(emitted[s]), p)
                 ELSE Numbers1To(emitted[t])
    <3>1. CASE t = s
      <4>1. emitted'[t] = p
        BY <3>1 DEF TypeOK
      <4>2. Numbers1To(emitted'[t]) = Numbers1To(p)
        BY <4>1
      <4>. QED BY <1>1, <3>1, <4>2
    <3>2. CASE t # s
      <4>1. emitted'[t] = emitted[t]
        BY <3>2 DEF TypeOK
      <4>. QED BY <3>2, <4>1
    <3>. QED BY <3>1, <3>2
  <2>3. [Sent EXCEPT ![s] = Append(@, p)]
        = [t \in Sessions |-> IF t = s THEN Append(Numbers1To(emitted[s]), p)
                              ELSE Numbers1To(emitted[t])]
    BY DEF Sent
  <2>. QED BY <2>1, <2>2, <2>3
<1>3. Sent' = [t \in Sessions |-> [n \in 1..emitted'[t] |-> n]]
  BY DEF Sent, Numbers1To, Sessions
<1>4. ~Delivery!Superseded(s)
  BY NotSuperseded
<1>5. Delivery!Emit(s, p)
  BY <1>2, <1>3, <1>4, SentIs DEF Delivery!Emit
<1>. QED BY <1>5 DEF Delivery!Next

(* DoAckRouter is Deliver when it accepts, and nothing otherwise. *)
LEMMA AcceptIsDeliver ==
  ASSUME Tame, OrderInv, EmittedInv, NEW m \in sync, OnSyncRouter(m)
  PROVE  \/ Delivery!Next
         \/ emitted' = emitted /\ accepted' = accepted
<1>1. emitted' = emitted
  BY DEF OnSyncRouter, source
<1>2. CASE ~InSequence(m)
  BY <1>1, <1>2 DEF OnSyncRouter
<1>3. CASE InSequence(m)
  <2>1. live /\ TypeOK /\ session \in Sessions
    BY LiveSession DEF OrderInv, Idle
  <2>2. /\ m.sess = session /\ m.seq \in 1..q.currSeq /\ lastReset # 0
        /\ m.seq = expect + 1 /\ IsData(m)
    BY <1>3, <2>1 DEF OrderInv, Linked, Flight, InSequence
  <2>3. BaseOf(q) >= 0
    <3>. q \in Queue
      BY <2>1 DEF TypeOK
    <3>1. BaseOf(q) \in Int /\ BaseOf(q) >= -1
      <4>1. Shaped(q, session)
        BY DEF OrderInv, Shape
      <4>. QED BY <2>1, <4>1, Numbers DEF Shaped
    <3>2. BaseOf(q) # -1
      BY <2>1, <2>2 DEF OrderInv, Linked, Opening
    <3>. QED BY <3>1, <3>2
  <2>4. expect = Count
    BY <2>1, <2>2, <2>3 DEF OrderInv, Linked, Running
  <2>5. emitted[session] \in Nat /\ emitted[session] = q.currSeq
    BY <2>1 DEF EmittedInv, TypeOK
  <2>6. /\ Sent[session] = Numbers1To(emitted[session])
        /\ Count < Len(Sent[session])
        /\ Sent[session][Count + 1] = m.seq
    <3>1. Sent[session] = Numbers1To(emitted[session])
      BY <2>1 DEF Sent
    <3>2. Count = m.seq - 1 /\ Count + 1 = m.seq
      <4>. q \in Queue
        BY <2>1 DEF TypeOK
      <4>1. Count \in Nat /\ q.currSeq \in Nat
        BY <2>1, Numbers
      <4>. QED BY <2>2, <2>4, <4>1
    <3>3. /\ Len(Numbers1To(q.currSeq)) = q.currSeq
          /\ Numbers1To(q.currSeq)[m.seq] = m.seq
      BY <2>2, <2>5, NumbersIs
    <3>4. Sent[session] = Numbers1To(q.currSeq)
      BY <2>5, <3>1
    <3>5. Count < q.currSeq
      BY <2>2, <2>5, <3>2
    <3>. HIDE DEF Count
    <3>. QED BY <2>5, <3>1, <3>2, <3>3, <3>4, <3>5
  <2>7. accepted' = [accepted EXCEPT ![session] = Append(@, Sent[session][Len(@) + 1])]
    <3>1. accepted' = [accepted EXCEPT ![session] = Append(@, m.seq)]
      BY <1>3, <2>2 DEF OnSyncRouter
    <3>. QED BY <2>6, <3>1 DEF Count
  <2>8. ~Delivery!Superseded(session)
    BY <2>1, NotSuperseded DEF TypeOK
  <2>9. Delivery!Deliver(session)
    BY <1>1, <2>6, <2>7, <2>8, SentIs DEF Delivery!Deliver, Count
  <2>. QED BY <2>1, <2>9 DEF Delivery!Next
<1>. QED BY <1>2, <1>3

LEMMA DeliveryInit == Init => Delivery!Init
<1>. SUFFICES ASSUME Init PROVE Delivery!Init
  OBVIOUS
<1>1. \A s \in Sessions : Numbers1To(emitted[s]) = <<>>
  BY NumbersIs DEF Init
<1>2. Sent = [s \in Sessions |-> <<>>]
  BY <1>1 DEF Sent
<1>. QED BY <1>2, SentIs DEF Init, Delivery!Init

LEMMA DeliveryStep ==
  ASSUME Tame, OrderInv, EmittedInv, [Next]_vars
  PROVE  [Delivery!Next]_Delivery!vars
<1>0. TypeOK /\ Shape
  BY DEF OrderInv
<1>1. ASSUME emitted' = emitted, accepted' = accepted
      PROVE  UNCHANGED Delivery!vars
  BY <1>1 DEF Delivery!vars
<1>2. ASSUME NEW d \in DataTypes, EmitNext(d) PROVE Delivery!Next
  <2>1. /\ session \in Sessions /\ emitted[session] < MaxSeq
        /\ emitted' = [emitted EXCEPT ![session] = @ + 1]
    BY <1>0, <1>2, EmitNextCounts DEF EmittedInv
  <2>2. session >= session
    BY <1>0 DEF TypeOK
  <2>3. accepted' = accepted
    BY <1>2 DEF EmitNext, destination
  <2>. QED BY <1>0, <2>1, <2>2, <2>3, EmitIsEmit
<1>3. ASSUME NEW d \in DataTypes, EmitFirst(d) PROVE Delivery!Next
  <2>. DEFINE s == session + 1
  <2>1. /\ s \in Sessions /\ MaxSeq > 0
        /\ emitted' = [emitted EXCEPT ![s] = 1]
    BY <1>0, <1>3, EmitFirstCounts
  <2>2. s >= session /\ s > session
    BY <1>0 DEF TypeOK
  <2>3. emitted[s] = 0
    BY <2>1, <2>2 DEF EmittedInv
  <2>4. accepted' = accepted
    BY <1>3 DEF EmitFirst, destination
  <2>. HIDE DEF s
  <2>5. emitted' = [emitted EXCEPT ![s] = @ + 1]
    BY <2>1, <2>3
  <2>. QED BY <1>0, <2>1, <2>2, <2>3, <2>4, <2>5, EmitIsEmit
<1>4. CASE \E m \in sync : OnSyncRouter(m)
  BY <1>1, <1>4, AcceptIsDeliver
<1>5. CASE \/ Retry \/ ExpireQueue \/ RestartSource \/ RestartDestination
           \/ Environment \/ UNCHANGED vars
           \/ \E i \in 1..Len(acks) : OnAckRouter(i)
  <2>1. emitted' = emitted
    BY <1>0, <1>5, OthersCount DEF Others, Reader
  <2>2. accepted' = accepted
    BY <1>5 DEF Retry, ExpireQueue, RestartSource, RestartDestination,
                Environment, LoseSync, LoseAck, Tick, OnAckRouter, destination, vars
  <2>. QED BY <1>1, <2>1, <2>2
<1>. QED BY <1>2, <1>3, <1>4, <1>5 DEF Next, Writer, Reader

(* Whatever is lost, duplicated, reordered or restarted, the users of
   reliable routing see an ordered delivery: OnRouterEmit is Emit, an
   accepting DoAckRouter is Deliver, and all else is invisible. *)
THEOREM RoutingDelivers ==
  ASSUME Drained, Tame PROVE Spec => ImplementsOrderedDelivery
<1>1. OrderInv /\ [Next]_vars => OrderInv'
  BY OrderStep
<1>2. OrderInv /\ EmittedInv /\ [Next]_vars => EmittedInv'
  BY EmittedStep DEF OrderInv
<1>3. OrderInv /\ EmittedInv /\ [Next]_vars => [Delivery!Next]_Delivery!vars
  BY DeliveryStep
<1>. QED
  BY <1>1, <1>2, <1>3, OrderInit, EmittedInit, DeliveryInit, PTL
  DEF Spec, ImplementsOrderedDelivery, Delivery!Spec

=============================================================================
