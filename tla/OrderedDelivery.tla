-------------------------- MODULE OrderedDelivery --------------------------
(***************************************************************************)
(* What reliable routing promises its users, with no queue, no             *)
(* acknowledgement and no network: one server emits numbered messages to   *)
(* another, in sessions (a session is the life of one send queue), and the *)
(* peer is handed, for each session, a prefix of what was emitted, in      *)
(* order and each message once.  A session that has been superseded hands  *)
(* nothing more to the peer.                                               *)
(***************************************************************************)
EXTENDS Naturals, Sequences

CONSTANTS
  Sessions,     (* session numbers (naturals), in the order they are opened *)
  Payloads      (* what is emitted                                         *)

VARIABLES
  sent,         (* sent[s]: the messages emitted in session s, in order    *)
  got           (* got[s]: the messages handed to the peer in session s    *)

vars == <<sent, got>>

Superseded(s) == \E t \in Sessions : t > s /\ sent[t] # <<>>

TypeOK == /\ sent \in [Sessions -> Seq(Payloads)]
          /\ got \in [Sessions -> Seq(Payloads)]

Init == /\ sent = [s \in Sessions |-> <<>>]
        /\ got = [s \in Sessions |-> <<>>]

Emit(s, p) == /\ ~Superseded(s)
              /\ sent' = [sent EXCEPT ![s] = Append(@, p)]
              /\ UNCHANGED got

Deliver(s) == /\ ~Superseded(s)
              /\ Len(got[s]) < Len(sent[s])
              /\ got' = [got EXCEPT ![s] = Append(@, sent[s][Len(@) + 1])]
              /\ UNCHANGED sent

Next == \E s \in Sessions : Deliver(s) \/ \E p \in Payloads : Emit(s, p)

Spec == Init /\ [][Next]_vars

=============================================================================
