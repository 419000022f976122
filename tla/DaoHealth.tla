----------------------------- MODULE DaoHealth -----------------------------
(***************************************************************************)
(* What dao_proxy knows of the addresses of its DAO servers                *)
(* (src/service/dao_proxy/dao_connection_manager.cpp).  Every address has  *)
(* a bad level: a timer of 5 seconds counts down to the next ping, the     *)
(* more slowly the worse the level is; a ping still unanswered when the    *)
(* next one is sent makes the level worse, and so does a dead connection   *)
(* or a request that timed out; a prompt answer to the last ping makes it  *)
(* better.  All handlers run in one thread, so each is one action.         *)
(*                                                                         *)
(* A tick is one firing of the timer.  Times are counted in ticks.         *)
(***************************************************************************)
EXTENDS Naturals

CONSTANTS
    Addresses,    \* the ip:port pairs a configuration may name
    MaxBad,       \* the worst bad level: 6 in the code
    LateTicks,    \* an answer this old is late: 10 (50 s) in the code
    Unreliable    \* the addresses whose servers die, lose connections and
                  \* repeat themselves

ASSUME HealthAssumption ==
    /\ MaxBad \in 3..6
    /\ LateTicks \in Nat /\ LateTicks >= 4
    /\ Unreliable \subseteq Addresses

VARIABLES
    m_ipinfo,     \* what is known of each configured address
    pings,        \* the pings of each address that may still be answered
    alive         \* the addresses whose server answers

vars == <<m_ipinfo, pings, alive>>

GoodBad == 2
TinyBad == 3

Known == DOMAIN m_ipinfo

(* "none" is connection id 0; "down" an id the factory no longer knows.    *)
Connection == {"none", "up", "down"}

(* age: ticks since last_ping_time, counted up to LateTicks.  m_state: the *)
(* answer to the last ping is being waited for.                            *)
Info == [connectid : Connection, bad_level : 0..MaxBad, ping_counter : Nat,
         m_state : BOOLEAN, age : 0..LateTicks]

(* badlevel2time / 5: ticks from one ping to the next.                     *)
IntervalShifted(level) ==        \* mutant: shifted by one level too many
    <<2, 4, 8, 16, 32, 64, 64>>[level + 1]
Interval(level) == <<1, 2, 4, 8, 16, 32, 64>>[level + 1]

tinyaddbadlevel(level) == IF level < TinyBad THEN level + 1 ELSE level
addbadlevelUnbounded(level) == level + 1      \* mutant: no worst level
addbadlevel(level) == IF level < MaxBad THEN level + 1 ELSE level
okrespbadlevel(level) ==
    IF level > GoodBad THEN GoodBad ELSE IF level > 0 THEN level - 1 ELSE level

NewInfo == [connectid |-> "none", bad_level |-> 1, ping_counter |-> Interval(1),
            m_state |-> FALSE, age |-> 0]

AtMost(n, bound) == IF n > bound THEN bound ELSE n

---------------------------------------------------------------------------
(* get_connection: a dead connection counts against the address and, like  *)
(* a missing one, is created again, which the factory may fail to do.      *)
GetConnection(i, created) ==
    IF i.connectid = "up" THEN i
    ELSE [i EXCEPT
            !.bad_level = IF i.connectid = "down" THEN addbadlevel(@) ELSE @,
            !.connectid = IF created THEN "up" ELSE @]

(* A handler may ask for the connection of an address twice: to poll its   *)
(* server at once and to send the request.  The second call finds the      *)
(* connection the first one made, unless that failed.                      *)
Attempts == {"none", "made", "failed", "failed_then_made", "failed_twice"}

GetConnections(i, made) ==
    CASE made = "none"             -> i
      [] made = "made"             -> GetConnection(i, TRUE)
      [] made = "failed"           -> GetConnection(i, FALSE)
      [] made = "failed_then_made" -> GetConnection(GetConnection(i, FALSE), TRUE)
      [] made = "failed_twice"     -> GetConnection(GetConnection(i, FALSE), FALSE)

(* The countdown of one address, and the ping it sends at zero.            *)
CountDown(i) == [i EXCEPT !.ping_counter = @ - 1, !.age = AtMost(@ + 1, LateTicks)]

PingForgetsAnswer(i) ==          \* mutant: m_state is not set
    LET level == IF i.m_state THEN addbadlevel(i.bad_level) ELSE i.bad_level
    IN  [i EXCEPT !.bad_level = level, !.ping_counter = Interval(level), !.age = 0]
PingIgnoresSilence(i) ==         \* mutant: an unanswered ping does not count
    [i EXCEPT !.m_state = TRUE, !.ping_counter = Interval(i.bad_level), !.age = 0]
Ping(i) ==
    LET level == IF i.m_state THEN addbadlevel(i.bad_level) ELSE i.bad_level
    IN  [i EXCEPT !.bad_level = level, !.m_state = TRUE,
                  !.ping_counter = Interval(level), !.age = 0]

Due(i) == CountDown(i).ping_counter = 0

OnTimer(i, created) ==
    IF Due(i) THEN GetConnection(Ping(CountDown(i)), created) ELSE CountDown(i)

(* When no address was good at the start of the tick, none waits longer    *)
(* than two ticks for its next ping.                                       *)
AllBad == \A a \in Known : m_ipinfo[a].bad_level > GoodBad

Hurry(i) == [i EXCEPT !.ping_counter = AtMost(@, 2)]

(* ping_resp, for the answer to the last ping.                             *)
LastAnsweredSlowly(i) ==         \* mutant: the countdown is not shortened
    IF ~ i.m_state THEN i
    ELSE IF i.age >= LateTicks THEN [i EXCEPT !.m_state = FALSE]
    ELSE [i EXCEPT !.m_state = FALSE, !.bad_level = okrespbadlevel(@)]
LastAnsweredTwice(i) ==          \* mutant: m_state is not tested
    IF i.age >= LateTicks THEN [i EXCEPT !.m_state = FALSE]
    ELSE [i EXCEPT !.m_state = FALSE, !.bad_level = okrespbadlevel(@),
                   !.ping_counter = AtMost(@, Interval(okrespbadlevel(i.bad_level)))]
LastAnswered(i) ==
    LET level == okrespbadlevel(i.bad_level)
    IN  IF ~ i.m_state THEN i
        ELSE IF i.age >= LateTicks THEN [i EXCEPT !.m_state = FALSE]
        ELSE [i EXCEPT !.m_state = FALSE, !.bad_level = level,
                       !.ping_counter = AtMost(@, Interval(level))]

---------------------------------------------------------------------------
Init ==
    /\ m_ipinfo = [a \in Addresses |-> NewInfo]
    /\ pings = [a \in Addresses |-> {}]
    /\ alive = Addresses

(* DaoConnectionTimer::handle_timeout: the ping is sent if there is a      *)
(* connection to send it on; those under way are no longer the last.       *)
Tick(created) ==
    LET after == [a \in Known |-> OnTimer(m_ipinfo[a], created[a])]
    IN  /\ m_ipinfo' = [a \in Known |-> IF AllBad THEN Hurry(after[a]) ELSE after[a]]
        /\ pings' = [a \in Addresses |->
               IF a \in Known /\ Due(m_ipinfo[a])
               THEN {"older" : p \in pings[a]}
                    \cup (IF after[a].connectid = "up" THEN {"last"} ELSE {})
               ELSE pings[a]]
        /\ UNCHANGED alive

HandleTimeout == \E created \in [Known -> BOOLEAN] : Tick(created)

(* An answer arrives and is handed to ping_resp.  The server may repeat it.*)
PingResp(a, ping, again) ==
    /\ a \in Known \cap alive
    /\ ping \in pings[a]
    /\ again => a \in Unreliable
    /\ pings' = [pings EXCEPT ![a] = IF again THEN @ ELSE @ \ {ping}]
    /\ m_ipinfo' = IF ping = "last"
                   THEN [m_ipinfo EXCEPT ![a] = LastAnswered(@)]
                   ELSE m_ipinfo
    /\ UNCHANGED alive

(* Polls and requests ask for connections (file_gl_send_poll_packet,       *)
(* ReqFSM::start).                                                         *)
UseConnections ==
    \E made \in [Known -> Attempts] :
        /\ m_ipinfo' = [a \in Known |-> GetConnections(m_ipinfo[a], made[a])]
        /\ UNCHANGED <<pings, alive>>

(* A request timed out: all addresses of its server are a little worse.    *)
RequestTimedOut ==
    \E ipports \in (SUBSET Known) \ {{}} :
        /\ m_ipinfo' = [a \in Known |-> IF a \in ipports
               THEN [m_ipinfo[a] EXCEPT !.bad_level = tinyaddbadlevel(@)]
               ELSE m_ipinfo[a]]
        /\ UNCHANGED <<pings, alive>>

(* init_from_conf: an address that stays keeps what is known of it, the    *)
(* connection of one that goes is closed.  send_all_empty_dao then polls   *)
(* the servers of which no DAO is known.                                   *)
Reload ==
    \E named \in SUBSET Addresses : \E made \in [named -> {"none", "made", "failed"}] :
        /\ m_ipinfo' = [a \in named |->
               GetConnections(IF a \in Known THEN m_ipinfo[a] ELSE NewInfo, made[a])]
        /\ pings' = [a \in Addresses |-> IF a \in named THEN pings[a] ELSE {}]
        /\ UNCHANGED alive

---------------------------------------------------------------------------
(* The servers and the network.                                            *)
ConnectionLost(a) ==
    /\ a \in Known \cap Unreliable
    /\ m_ipinfo[a].connectid = "up"
    /\ m_ipinfo' = [m_ipinfo EXCEPT ![a].connectid = "down"]
    /\ pings' = [pings EXCEPT ![a] = {}]
    /\ UNCHANGED alive

Die(a) ==
    /\ a \in alive \cap Unreliable
    /\ alive' = alive \ {a}
    /\ UNCHANGED <<m_ipinfo, pings>>

Revive(a) ==
    /\ a \in Addresses \ alive
    /\ alive' = alive \cup {a}
    /\ UNCHANGED <<m_ipinfo, pings>>

Next ==
    \/ HandleTimeout
    \/ \E a \in Addresses, ping \in {"last", "older"}, again \in BOOLEAN :
           PingResp(a, ping, again)
    \/ UseConnections
    \/ RequestTimedOut
    \/ Reload
    \/ \E a \in Addresses : ConnectionLost(a) \/ Die(a) \/ Revive(a)

Spec == Init /\ [][Next]_vars

(* The timer goes on, every ping finds a connection again and again, and   *)
(* the prompt answer of a living server is not held up for ever.           *)
PingSent(a) ==
    \E created \in [Known -> BOOLEAN] :
        /\ a \in Known
        /\ Due(m_ipinfo[a])
        /\ m_ipinfo[a].connectid = "up" \/ created[a]
        /\ Tick(created)

PromptAnswer(a) ==
    /\ a \in Known
    /\ m_ipinfo[a].m_state
    /\ m_ipinfo[a].age < LateTicks
    /\ PingResp(a, "last", FALSE)

Fairness ==
    /\ WF_vars(HandleTimeout)
    /\ \A a \in Addresses : SF_vars(PingSent(a)) /\ SF_vars(PromptAnswer(a))

FairSpec == Spec /\ Fairness

---------------------------------------------------------------------------
(* Every variable keeps its type.                                          *)
TypeOK ==
    /\ Known \subseteq Addresses
    /\ m_ipinfo \in [Known -> Info]
    /\ pings \in [Addresses -> SUBSET {"last", "older"}]
    /\ alive \subseteq Addresses

(* The countdown of an address always runs, and is never longer than the   *)
(* interval of its level: the timer tests the counter for zero after       *)
(* decrementing it, so that a counter set to zero would never ping again,  *)
(* and an address that is good again must not wait as long as a bad one.   *)
PingScheduled ==
    \A a \in Known : m_ipinfo[a].ping_counter \in 1..Interval(m_ipinfo[a].bad_level)

(* ping_resp throws away an answer that took more than 50 s.  That can     *)
(* only happen to an address that is bad already: a good one is pinged     *)
(* again, and the answer ignored as not the last, long before.             *)
LateMeansBad ==
    \A a \in Known : m_ipinfo[a].m_state /\ m_ipinfo[a].age >= LateTicks
                        => m_ipinfo[a].bad_level > GoodBad

(* An address gets better only by a prompt answer to its last ping, while  *)
(* that ping is being waited for: not by a late, repeated or overtaken     *)
(* answer, nor by requests, reconnects or a new configuration.             *)
OnlyPromptAnswersHelp ==
    [][\A a \in Known \cap Known' :
          m_ipinfo'[a].bad_level < m_ipinfo[a].bad_level =>
              /\ a \in alive
              /\ "last" \in pings[a]
              /\ m_ipinfo[a].m_state
              /\ m_ipinfo[a].age < LateTicks]_vars

(* A server that stays dead is found out: in the end its address is bad    *)
(* for good, whatever requests and reconnects do to its level.             *)
DeadIsFoundOut ==
    \A a \in Addresses :
        <>[](a \in Known /\ a \notin alive) =>
            <>[](a \in Known => m_ipinfo[a].bad_level > GoodBad)

(* A server that stays alive is taken back again and again, however bad    *)
(* its address had become.                                                 *)
AliveIsTakenBack ==
    \A a \in Addresses :
        <>[](a \in Known /\ a \in alive) =>
            []<>(a \in Known => m_ipinfo[a].bad_level <= GoodBad)
=============================================================================
