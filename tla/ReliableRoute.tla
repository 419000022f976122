--------------------------- MODULE ReliableRoute ---------------------------
(***************************************************************************)
(* Reliable routing between one source server and one destination server:  *)
(* CReliableWriter with its CReliableSendQueue for that destination on the *)
(* source, CReliableAppContext with its CWriterInfo for that source on the *)
(* destination, and the bridges that carry PSS_SyncRouter one way and      *)
(* PSS_AckRouter the other.  Both servers are single-threaded reactors, so *)
(* a handler runs to completion: one handler is one action.  Queues to     *)
(* different destinations share no state.                                  *)
(***************************************************************************)
EXTENDS Integers, Sequences

CONSTANTS
  MaxQueue,           (* m_nMaxQueueSize (100000 in OnRouterEmit)          *)
  UrgentSize,         (* the length that starts urgent mode (10000)        *)
  BatchSize,          (* what Flush sends in normal mode (100)             *)
  ExpireTime,         (* silence after which handle drops a queue (7200 s) *)
  DataTypes,          (* the types of emitted messages: DATA, MULTI or both *)
  DrainOnRestart,     (* nothing stays in flight across a restart          *)
  RestartTakesSecond, (* a restarted source resumes in a later second      *)
  AckReorder,         (* acknowledgements may overtake one another         *)
  MaxSeq,             (* bound: messages emitted in one session            *)
  MaxSession,         (* bound: queues created for the destination         *)
  MaxTime,            (* bound: the clock                                  *)
  MaxRestart,         (* bound: restarts of the destination                *)
  MaxCrash,           (* bound: restarts of the source                     *)
  MaxAcks             (* bound: acknowledgements in flight; one more makes *)
                      (* the oldest get lost                               *)

ASSUME ConstantsAssumption ==
  /\ MaxQueue \in Nat \ {0} /\ UrgentSize \in Nat /\ BatchSize \in Nat \ {0}
  /\ ExpireTime \in Nat
  /\ DataTypes \subseteq {"DATA", "MULTI"}
  /\ {DrainOnRestart, RestartTakesSecond, AckReorder} \subseteq BOOLEAN
  /\ {MaxSeq, MaxSession, MaxTime, MaxRestart, MaxCrash} \subseteq Nat
  /\ MaxAcks \in Nat \ {0}

VARIABLES
  live,       (* the source holds a queue for the destination              *)
  q,          (* that queue (CReliableSendQueue)                           *)
  sync,       (* PSS_SyncRouter in flight; a set: they may be lost,        *)
              (* duplicated (Try resends) and reordered                    *)
  acks,       (* PSS_AckRouter in flight, oldest first                     *)
  expect,     (* m_uExpectSeqId of the destination's CWriterInfo           *)
  lastReset,  (* m_uLastRestTime of it                                     *)
  now,        (* the clock, in seconds                                     *)
  restarts,   (* restarts of the destination so far                        *)
  crashes,    (* restarts of the source so far                             *)
  session,    (* history: queues created so far                            *)
  emitted,    (* history: emitted[s] messages were emitted in session s    *)
  accepted,   (* history: accepted[s] was handed to the destination's      *)
              (* handler in session s                                      *)
  dropped     (* history: what a full queue discarded in this session      *)

source == <<live, q, session, emitted, dropped, crashes>>
destination == <<expect, lastReset, accepted, restarts>>
vars == <<source, destination, sync, acks, now>>

Sessions == 1..MaxSession

(***************************************************************************)
(* Messages.  The send time matters in a RESET only; "sess" is the session *)
(* a message belongs to, which the code does not transmit.                 *)
(***************************************************************************)
ResetMsg(t, s) == [type |-> "RESET", seq |-> 0, time |-> t, sess |-> s]
DataMsg(d, n, s) == [type |-> d, seq |-> n, time |-> 0, sess |-> s]
PingMsg(s) == [type |-> "PING", seq |-> 0, time |-> 0, sess |-> s]

SyncMsg == [type : DataTypes \cup {"RESET", "PING"}, seq : Nat,
            time : Nat, sess : Nat]
AckMsg == [type : DataTypes \cup {"RESET", "PING", "SHUTDOWN"}, seq : Nat,
           expect : Nat, sess : Nat]

(***************************************************************************)
(* The send queue.  m_iterNotSent is a position of msgs, Len(msgs) + 1 for *)
(* end(), or Dangling when the element it named has been erased.           *)
(***************************************************************************)
Dangling == 0

Queue == [isReset : BOOLEAN, urgent : BOOLEAN, currSeq : Nat, lastAck : Nat,
          msgs : Seq(SyncMsg), notSent : Nat]

End(u) == Len(u.msgs) + 1
NoQueue == [isReset |-> FALSE, urgent |-> FALSE, currSeq |-> 0, lastAck |-> 0,
            msgs |-> <<>>, notSent |-> 1]

(* The iterator after the first n elements were erased. *)
After(pos, n) == IF pos > n THEN pos - n ELSE Dangling

(* Constructor and Reset: the RESET is sent and heads the queue. *)
Reset(s) == [NoQueue EXCEPT !.lastAck = now, !.msgs = <<ResetMsg(now, s)>>,
                            !.notSent = 2]

(* Push: a full queue discards its eldest message.  An iterator at end()
   names the appended message, whose position is the old End. *)
Full(u) == Len(u.msgs) >= MaxQueue
Push(u, d, s) ==
  [u EXCEPT
    !.currSeq = @ + 1,
    !.urgent = @ \/ Len(u.msgs) > UrgentSize,
    !.msgs = Append(IF Full(u) THEN Tail(@) ELSE @, DataMsg(d, u.currSeq + 1, s)),
    !.notSent = IF Full(u) THEN After(@, 1) ELSE @]

(* Flush: the queue after it, and what it sends.  Dereferencing a dangling
   iterator is undefined; here it sends nothing (a crash there is
   RestartSource, and NotSentValid says when it cannot happen). *)
CanFlush(u) == u.isReset /\ u.notSent # End(u) /\ u.notSent # Dangling
Urgent(u) == u.urgent \/ Len(u.msgs) > UrgentSize
FlushTo(u) == IF Urgent(u) THEN u.notSent + 1
              ELSE IF u.notSent + BatchSize < End(u) THEN u.notSent + BatchSize
              ELSE End(u)
Flush(u) == IF CanFlush(u)
            THEN [u EXCEPT !.urgent = Urgent(u), !.notSent = FlushTo(u)]
            ELSE u
FlushOut(u) == IF CanFlush(u)
               THEN {u.msgs[i] : i \in u.notSent .. FlushTo(u) - 1}
               ELSE {}

(* Erase, new mode: everything up to the expected id is erased, and an
   acknowledgement ahead of the front starts urgent mode. *)
Behind(u, a) == Head(u.msgs).seq < a.seq
ErasedPrefixOneTooMany(u, e) ==       (* mutant: `<=` e + 1 *)
  CHOOSE n \in 0..Len(u.msgs) :
    /\ \A i \in 1..n : u.msgs[i].seq <= e + 1
    /\ n < Len(u.msgs) => u.msgs[n + 1].seq > e + 1
ErasedPrefix(u, e) ==
  CHOOSE n \in 0..Len(u.msgs) :
    /\ \A i \in 1..n : u.msgs[i].seq <= e
    /\ n < Len(u.msgs) => u.msgs[n + 1].seq > e
EraseExpectedKeepsIterator(u, a) ==   (* mutant: m_iterNotSent is not reset *)
  LET n == ErasedPrefix(u, a.expect)
      urgent == u.urgent \/ Behind(u, a)
      rest == SubSeq(u.msgs, n + 1, Len(u.msgs))
  IN  [u EXCEPT !.msgs = rest, !.urgent = urgent /\ rest # <<>>,
                !.notSent = After(@, n)]
EraseExpected(u, a) ==
  LET n == ErasedPrefix(u, a.expect)
      urgent == u.urgent \/ Behind(u, a)
      rest == SubSeq(u.msgs, n + 1, Len(u.msgs))
  IN  [u EXCEPT
        !.msgs = rest,
        !.urgent = urgent /\ rest # <<>>,
        !.notSent = IF (urgent /\ n > 0) \/ Behind(u, a) THEN 1 ELSE After(@, n)]

(* Erase, old mode (no expected id, or the reset is not acknowledged): only
   the front message can be erased, by an acknowledgement of its own. *)
Matches(u, a) == Head(u.msgs).seq = a.seq /\ Head(u.msgs).type = a.type
EraseFront(u, a) ==
  CASE Behind(u, a) -> [u EXCEPT !.urgent = TRUE, !.notSent = 1]
    [] Matches(u, a) -> [u EXCEPT !.msgs = Tail(@),
                                  !.notSent = After(@, 1),
                                  !.isReset = @ \/ a.type = "RESET",
                                  !.urgent = @ /\ Len(u.msgs) > 1]
    [] OTHER -> u

Erase(u, a) ==
  IF a.type = "SHUTDOWN" THEN [u EXCEPT !.isReset = FALSE]
  ELSE IF a.type = "PING" \/ u.msgs = <<>> THEN u
  ELSE IF a.expect # 0 /\ u.isReset THEN EraseExpected(u, a)
  ELSE EraseFront(u, a)

-----------------------------------------------------------------------------
(* The source: CReliableWriter. *)

(* Everything in flight dies with the connections, when DrainOnRestart; so
   does what is older than a queue that expired in silence. *)
DropConnections == IF DrainOnRestart THEN sync' = {} /\ acks' = <<>>
                   ELSE UNCHANGED <<sync, acks>>

(* OnRouterEmit, the queue exists. *)
EmitNextUnflushed(d) ==               (* mutant: Flush is not called *)
  /\ live
  /\ q.currSeq < MaxSeq
  /\ q' = Push(q, d, session)
  /\ emitted' = [emitted EXCEPT ![session] = @ + 1]
  /\ dropped' = dropped \cup (IF Full(q) THEN {Head(q.msgs).seq} ELSE {})
  /\ UNCHANGED <<live, session, crashes, destination, sync, acks, now>>
EmitNext(d) ==
  LET u == Push(q, d, session) IN
  /\ live
  /\ q.currSeq < MaxSeq
  /\ q' = Flush(u)
  /\ sync' = sync \cup FlushOut(u)
  /\ emitted' = [emitted EXCEPT ![session] = @ + 1]
  /\ dropped' = dropped \cup (IF Full(q) THEN {Head(q.msgs).seq} ELSE {})
  /\ UNCHANGED <<live, session, crashes, destination, acks, now>>

(* OnRouterEmit, the first message to this destination. *)
EmitFirst(d) ==
  LET s == session + 1
      r == Reset(s)
      u == Push(r, d, s)
  IN
  /\ ~live
  /\ session < MaxSession
  /\ MaxSeq > 0
  /\ live' = TRUE
  /\ q' = Flush(u)
  /\ sync' = sync \cup {ResetMsg(now, s)} \cup FlushOut(u)
  /\ session' = s
  /\ emitted' = [emitted EXCEPT ![s] = 1]
  /\ dropped' = IF Full(r) THEN {0} ELSE {}
  /\ UNCHANGED <<crashes, destination, acks, now>>

(* handle(SEL_TIMEOUT), every 60 s: Try resends the front message whatever
   the reset flag says, and Ping keeps the queue alive. *)
Expired == now - q.lastAck > ExpireTime
RetryPingOnly ==                      (* mutant: Try resends nothing *)
  /\ live
  /\ ~Expired
  /\ sync' = sync \cup {PingMsg(session)}
  /\ UNCHANGED <<source, destination, acks, now>>
Retry ==
  /\ live
  /\ ~Expired
  /\ sync' = sync \cup {PingMsg(session)}
                  \cup (IF q.msgs # <<>> THEN {Head(q.msgs)} ELSE {})
  /\ UNCHANGED <<source, destination, acks, now>>
ExpireQueue ==
  /\ live
  /\ Expired
  /\ live' = FALSE
  /\ q' = NoQueue
  /\ DropConnections
  /\ UNCHANGED <<session, emitted, dropped, crashes, destination, now>>

(* OnAckRouter: the i-th acknowledgement in flight arrives. *)
RemoveAck(i) == SubSeq(acks, 1, i - 1) \o SubSeq(acks, i + 1, Len(acks))
OnAckRouter(i) ==
  LET u == Erase([q EXCEPT !.lastAck = now], acks[i]) IN
  /\ i = 1 \/ AckReorder
  /\ acks' = RemoveAck(i)
  /\ IF live THEN /\ q' = Flush(u)
                  /\ sync' = sync \cup FlushOut(u)
             ELSE UNCHANGED <<q, sync>>
  /\ UNCHANGED <<live, session, emitted, dropped, crashes, destination, now>>

(* The source process restarts under the same server id. *)
RestartSource ==
  /\ live
  /\ crashes < MaxCrash
  /\ crashes' = crashes + 1
  /\ live' = FALSE
  /\ q' = NoQueue
  /\ DropConnections
  /\ IF RestartTakesSecond THEN now < MaxTime /\ now' = now + 1 ELSE now' = now
  /\ UNCHANGED <<session, emitted, dropped, destination>>

-----------------------------------------------------------------------------
(* The destination: CReliableAppContext. *)

IsAnyReset(m) ==                      (* mutant: `<=` for `<` *)
  m.type = "RESET" /\ m.time # 0 /\ lastReset <= m.time
IsNewReset(m) == m.type = "RESET" /\ m.time # 0 /\ lastReset < m.time
IsData(m) == m.type \in {"DATA", "MULTI"}
InSequenceUnreset(m) ==               (* mutant: the reset is not awaited *)
  IsData(m) /\ m.seq = expect + 1
InSequenceSkipping(m) ==              (* mutant: a gap is accepted *)
  IsData(m) /\ lastReset # 0 /\ m.seq > expect
InSequence(m) == IsData(m) /\ lastReset # 0 /\ m.seq = expect + 1

(* RouteAck echoes the message and tells what is expected; data that reaches
   a destination never reset is answered SHUTDOWN. *)
RouteAck(m, e) ==
  [type |-> IF IsData(m) /\ lastReset = 0 THEN "SHUTDOWN" ELSE m.type,
   seq |-> m.seq, expect |-> e, sess |-> m.sess]

(* OnSyncRouter with DoAckRouter: accept what is in sequence, and always
   acknowledge. *)
OnSyncRouter(m) ==
  /\ expect' = IF IsNewReset(m) \/ InSequence(m) THEN m.seq ELSE expect
  /\ lastReset' = IF IsNewReset(m) THEN m.time ELSE lastReset
  /\ accepted' = IF InSequence(m)
                 THEN [accepted EXCEPT ![m.sess] = Append(@, m.seq)]
                 ELSE accepted
  /\ acks' = Append(IF Len(acks) < MaxAcks THEN acks ELSE Tail(acks),
                    RouteAck(m, expect'))
  /\ UNCHANGED <<source, restarts, sync, now>>

(* The destination's server id passes to a process that knows no writer. *)
RestartDestination ==
  /\ restarts < MaxRestart
  /\ restarts' = restarts + 1
  /\ expect' = 0
  /\ lastReset' = 0
  /\ DropConnections
  /\ UNCHANGED <<source, accepted, now>>

-----------------------------------------------------------------------------
(* The bridges and the clock.  A sync message stays in flight when it is
   received, so LoseSync is both its loss and the end of its duplicates. *)
LoseSync(m) == sync' = sync \ {m} /\ UNCHANGED <<source, destination, acks, now>>
LoseAck == /\ acks # <<>>
           /\ acks' = Tail(acks)
           /\ UNCHANGED <<source, destination, sync, now>>
Tick == /\ now < MaxTime
        /\ now' = now + 1
        /\ UNCHANGED <<source, destination, sync, acks>>

-----------------------------------------------------------------------------
Init ==
  /\ live = FALSE /\ q = NoQueue /\ session = 0 /\ crashes = 0
  /\ emitted = [s \in Sessions |-> 0] /\ dropped = {}
  /\ expect = 0 /\ lastReset = 0 /\ restarts = 0
  /\ accepted = [s \in Sessions |-> <<>>]
  /\ sync = {} /\ acks = <<>> /\ now = 1

Writer == \/ \E d \in DataTypes : EmitFirst(d) \/ EmitNext(d)
          \/ Retry
          \/ ExpireQueue
          \/ \E i \in 1..Len(acks) : OnAckRouter(i)
          \/ RestartSource
Reader == \/ \E m \in sync : OnSyncRouter(m)
          \/ RestartDestination
Environment == \/ \E m \in sync : LoseSync(m)
               \/ LoseAck
               \/ Tick

Next == Writer \/ Reader \/ Environment

Spec == Init /\ [][Next]_vars

(***************************************************************************)
(* Fairness: the 60 s timer fires, and a message or an acknowledgement     *)
(* that is resent for ever gets through some day.                          *)
(***************************************************************************)
FrontArrives == \E m \in sync : /\ live /\ q.msgs # <<>> /\ m = Head(q.msgs)
                               /\ OnSyncRouter(m)
HeadAckArrives == /\ acks # <<>> /\ live /\ q.msgs # <<>>
                  /\ Head(acks).type # "PING"
                  /\ Head(acks).seq = Head(q.msgs).seq
                  /\ OnAckRouter(1)
FairSpec == /\ Spec
            /\ WF_vars(Retry)
            /\ WF_vars(\E i \in 1..Len(acks) : OnAckRouter(i))
            /\ SF_vars(FrontArrives)
            /\ SF_vars(HeadAckArrives)

-----------------------------------------------------------------------------
(* Types of the variables. *)
TypeOK ==
  /\ live \in BOOLEAN
  /\ q \in Queue
  /\ sync \subseteq SyncMsg
  /\ acks \in Seq(AckMsg)
  /\ expect \in Nat /\ lastReset \in Nat
  /\ now \in Nat \ {0}
  /\ restarts \in Nat /\ crashes \in Nat
  /\ session \in 0..MaxSession
  /\ live => session > 0
  /\ emitted \in [Sessions -> Nat]
  /\ accepted \in [Sessions -> Seq(Nat)]
  /\ dropped \subseteq Nat

Queued == {q.msgs[i].seq : i \in 1..Len(q.msgs)}
Accepted(s) == {accepted[s][i] : i \in 1..Len(accepted[s])}

(* Of the messages OnRouterEmit took for the present session, each is still
   in the send queue, or was handed to the destination's handler, or was
   discarded because the queue was full: Erase never takes away a message
   that the destination did not accept. *)
NothingLostSilently ==
  live => \A n \in 1..q.currSeq :
            n \in Queued \/ n \in Accepted(session) \/ n \in dropped

(* DoAckRouter hands over, in each session, the messages 1, 2, 3, ... with
   no gap, no repetition and nothing out of order, whatever was lost,
   duplicated or reordered on the way and whoever restarted. *)
InOrderOnce ==
  \A s \in Sessions : \A i \in 1..Len(accepted[s]) : accepted[s][i] = i

(* Whenever Flush may send, m_iterNotSent names a message of the queue or
   its end, and the front message has been sent: Erase and Push never leave
   Flush an iterator to a message they erased. *)
NotSentValid ==
  live /\ q.isReset =>
    /\ q.notSent # Dangling
    /\ q.notSent <= End(q)
    /\ q.msgs # <<>> => q.notSent > 1

(* While neither side restarts, a queue that holds messages is emptied some
   day: everything emitted is accepted and acknowledged, and urgent mode is
   left. *)
QueueDrains == (live /\ q.msgs # <<>>) ~> (q.msgs = <<>> /\ ~q.urgent)

(* What the users of reliable routing see is an ordered delivery. *)
Delivery == INSTANCE OrderedDelivery WITH
  Payloads <- 1..MaxSeq,
  sent <- [s \in Sessions |-> [n \in 1..emitted[s] |-> n]],
  got <- accepted

(* Reliable routing implements OrderedDelivery: sessions deliver prefixes of
   what was emitted, and a superseded session delivers nothing more. *)
ImplementsOrderedDelivery == Delivery!Spec

=============================================================================
