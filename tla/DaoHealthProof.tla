-------------------------- MODULE DaoHealthProof --------------------------
(***************************************************************************)
(* Proofs about DaoHealth, for any set of addresses and every value of the *)
(* constants.  The invariant is a conjunction over the addresses of a      *)
(* property of one m_ipinfo entry, Sound; each handler is a function from  *)
(* entries to entries, so there is one lemma per handler that it preserves *)
(* Sound.                                                                  *)
(***************************************************************************)
EXTENDS DaoHealth, TLAPS

(* While the answer to a ping is being waited for, the time since the ping *)
(* and the time to the next one add up to no more than the interval of the *)
(* present level.                                                          *)
Paced(i) == i.m_state => i.age + i.ping_counter <= Interval(i.bad_level)

Sound(i) ==
    /\ i \in Info
    /\ i.ping_counter \in 1..Interval(i.bad_level)
    /\ Paced(i)

IInv ==
    /\ TypeOK
    /\ \A a \in Known : Sound(m_ipinfo[a])

---------------------------------------------------------------------------
(* The intervals of badlevel2time grow with the level, and only those of   *)
(* the bad levels exceed 4 ticks.                                          *)
LEMMA Intervals ==
    /\ \A l \in 0..MaxBad : Interval(l) \in Nat /\ Interval(l) >= 1
    /\ \A l, k \in 0..MaxBad : l <= k => Interval(l) <= Interval(k)
    /\ \A l \in 0..MaxBad : Interval(l) > 4 => l > GoodBad
  <1>1. \A l \in 0..6 : Interval(l) = IF l = 0 THEN 1 ELSE IF l = 1 THEN 2
            ELSE IF l = 2 THEN 4 ELSE IF l = 3 THEN 8 ELSE IF l = 4 THEN 16
            ELSE IF l = 5 THEN 32 ELSE 64
    BY DEF Interval
  <1>2. MaxBad \in 3..6
    BY HealthAssumption
  <1> QED
    BY <1>1, <1>2 DEF GoodBad

(* addbadlevel and tinyaddbadlevel never lower a level.                    *)
LEMMA Worse ==
    ASSUME NEW l \in 0..MaxBad
    PROVE  /\ addbadlevel(l) \in 0..MaxBad /\ l <= addbadlevel(l)
           /\ tinyaddbadlevel(l) \in 0..MaxBad /\ l <= tinyaddbadlevel(l)
           /\ okrespbadlevel(l) \in 0..MaxBad
  BY HealthAssumption DEF addbadlevel, tinyaddbadlevel, okrespbadlevel, TinyBad, GoodBad

(* An entry whose level gets worse while everything the pacing depends on  *)
(* stays is still sound.                                                   *)
LEMMA WorseIsSound ==
    ASSUME NEW i, Sound(i), NEW j \in Info,
           j.bad_level >= i.bad_level, j.ping_counter = i.ping_counter,
           j.m_state = i.m_state, j.age = i.age
    PROVE  Sound(j)
  <1>1. /\ i.bad_level \in 0..MaxBad /\ j.bad_level \in 0..MaxBad
        /\ i.age \in Nat /\ i.ping_counter \in Nat
    BY HealthAssumption DEF Sound, Info
  <1>2. /\ Interval(i.bad_level) <= Interval(j.bad_level)
        /\ Interval(i.bad_level) \in Nat /\ Interval(j.bad_level) \in Nat
    BY <1>1, Intervals
  <1> QED
    BY <1>1, <1>2 DEF Sound, Paced

(* get_connection keeps an entry sound.                                    *)
LEMMA GetConnectionSound ==
    ASSUME NEW i, Sound(i), NEW created \in BOOLEAN
    PROVE  Sound(GetConnection(i, created))
  <1> DEFINE j == GetConnection(i, created)
  <1>1. CASE i.connectid = "up"
    BY <1>1 DEF GetConnection
  <1>2. CASE i.connectid # "up"
    <2>1. i \in Info /\ i.bad_level \in 0..MaxBad
      BY DEF Sound, Info
    <2>2. /\ addbadlevel(i.bad_level) \in 0..MaxBad
          /\ i.bad_level <= addbadlevel(i.bad_level)
      BY <2>1, Worse
    <2> DEFINE level == IF i.connectid = "down" THEN addbadlevel(i.bad_level)
                        ELSE i.bad_level
               conn == IF created THEN "up" ELSE i.connectid
    <2>3. level \in 0..MaxBad /\ level >= i.bad_level /\ conn \in Connection
      BY <2>1, <2>2, HealthAssumption DEF Info, Connection
    <2>4. j = [i EXCEPT !.bad_level = level, !.connectid = conn]
      BY <1>2 DEF GetConnection
    <2> HIDE DEF level, conn, j
    <2>5. /\ j \in Info /\ j.bad_level >= i.bad_level
          /\ j.ping_counter = i.ping_counter /\ j.m_state = i.m_state /\ j.age = i.age
      BY <2>1, <2>3, <2>4 DEF Info
    <2>6. Sound(j)
      BY <2>5, WorseIsSound
    <2> QED
      BY <2>6 DEF j
  <1> QED
    BY <1>1, <1>2

LEMMA GetConnectionsSound ==
    ASSUME NEW i, Sound(i), NEW made \in Attempts
    PROVE  Sound(GetConnections(i, made))
  <1>1. \A created \in BOOLEAN : Sound(GetConnection(i, created))
    BY GetConnectionSound
  <1>2. \A created \in BOOLEAN : Sound(GetConnection(GetConnection(i, FALSE), created))
    BY <1>1, GetConnectionSound
  <1> QED
    BY <1>1, <1>2 DEF Attempts, GetConnections

(* The timer keeps an entry sound: the counter it resets is the interval   *)
(* of the level it has just set.                                           *)
LEMMA OnTimerSound ==
    ASSUME NEW i, Sound(i), NEW created \in BOOLEAN
    PROVE  Sound(OnTimer(i, created))
  <1> DEFINE c == CountDown(i)
  <1>1. /\ i \in Info /\ i.bad_level \in 0..MaxBad /\ i.ping_counter \in Nat
        /\ i.ping_counter >= 1 /\ i.age \in 0..LateTicks /\ LateTicks \in Nat
        /\ i.m_state \in BOOLEAN /\ i.connectid \in Connection
    BY HealthAssumption, Intervals DEF Sound, Info
  <1> DEFINE n == i.ping_counter - 1
             t == AtMost(i.age + 1, LateTicks)
  <1>a. n \in Nat /\ n = i.ping_counter - 1
    BY <1>1
  <1>b. t \in 0..LateTicks /\ t <= i.age + 1
    BY <1>1 DEF AtMost
  <1>c. c = [i EXCEPT !.ping_counter = n, !.age = t]
    BY DEF CountDown
  <1> HIDE DEF c, n, t
  <1>2. /\ c \in Info /\ c.bad_level = i.bad_level /\ c.m_state = i.m_state
        /\ c.ping_counter = i.ping_counter - 1
        /\ c.age \in 0..LateTicks /\ c.age <= i.age + 1
    BY <1>1, <1>a, <1>b, <1>c DEF Info
  <1>3. Interval(i.bad_level) \in Nat
    BY <1>1, Intervals
  <1>4. CASE Due(i)
    <2>1. /\ addbadlevel(c.bad_level) \in 0..MaxBad /\ c.bad_level \in 0..MaxBad
      BY <1>1, <1>2, Worse
    <2> DEFINE level == IF c.m_state THEN addbadlevel(c.bad_level) ELSE c.bad_level
    <2>2. level \in 0..MaxBad /\ Interval(level) \in Nat /\ Interval(level) >= 1
      BY <2>1, Intervals
    <2>3. Ping(c) = [c EXCEPT !.bad_level = level, !.m_state = TRUE,
                              !.ping_counter = Interval(level), !.age = 0]
      BY DEF Ping
    <2> HIDE DEF level
    <2> DEFINE p == Ping(c)
               n0 == Interval(level)
    <2>a. n0 \in Nat /\ 0 \in 0..LateTicks
      BY <1>1, <2>2
    <2>b. p = [c EXCEPT !.bad_level = level, !.m_state = TRUE,
                        !.ping_counter = n0, !.age = 0]
      BY <2>3
    <2> HIDE DEF n0, p
    <2>c. /\ p \in Info /\ p.bad_level = level /\ p.age = 0 /\ p.ping_counter = n0
      BY <1>2, <2>2, <2>a, <2>b DEF Info
    <2>4. /\ p \in Info /\ p.bad_level = level /\ p.age = 0
          /\ p.ping_counter = Interval(level)
      BY <2>c DEF n0
    <2>5. Sound(Ping(c))
      BY <2>2, <2>4 DEF Sound, Paced, p
    <2>6. OnTimer(i, created) = GetConnection(Ping(c), created)
      BY <1>4 DEF OnTimer, c
    <2> QED
      BY <2>5, <2>6, GetConnectionSound
  <1>5. CASE ~ Due(i)
    <2>1. OnTimer(i, created) = c /\ c.ping_counter # 0
      BY <1>5 DEF OnTimer, Due, c
    <2>2. c.ping_counter \in 1..Interval(c.bad_level)
      BY <1>1, <1>2, <1>3, <2>1 DEF Sound
    <2>3. Paced(c)
      BY <1>1, <1>2, <1>3 DEF Sound, Paced
    <2> QED
      BY <1>2, <2>1, <2>2, <2>3 DEF Sound
  <1> QED
    BY <1>4, <1>5

LEMMA HurrySound ==
    ASSUME NEW i, Sound(i)
    PROVE  Sound(Hurry(i))
  <1>1. i \in Info /\ i.bad_level \in 0..MaxBad /\ i.ping_counter \in Nat /\ i.age \in Nat
    BY HealthAssumption DEF Sound, Info
  <1>2. Interval(i.bad_level) \in Nat
    BY <1>1, Intervals
  <1>3. /\ Hurry(i) \in Info /\ Hurry(i).bad_level = i.bad_level
        /\ Hurry(i).m_state = i.m_state /\ Hurry(i).age = i.age
        /\ Hurry(i).ping_counter = IF i.ping_counter > 2 THEN 2 ELSE i.ping_counter
    BY <1>1 DEF Hurry, AtMost, Info
  <1> QED
    BY <1>1, <1>2, <1>3 DEF Sound, Paced

(* ping_resp keeps an entry sound: a better level comes with a countdown   *)
(* no longer than its interval.                                            *)
LEMMA LastAnsweredSound ==
    ASSUME NEW i, Sound(i)
    PROVE  Sound(LastAnswered(i))
  <1> DEFINE level == okrespbadlevel(i.bad_level)
  <1>1. /\ i \in Info /\ i.bad_level \in 0..MaxBad /\ i.ping_counter \in Nat
        /\ i.ping_counter >= 1 /\ i.m_state \in BOOLEAN /\ i.age \in Nat
    BY HealthAssumption, Intervals DEF Sound, Info
  <1>2. level \in 0..MaxBad /\ Interval(level) \in Nat /\ Interval(level) >= 1
    BY <1>1, Worse, Intervals
  <1>3. CASE ~ i.m_state
    BY <1>3 DEF LastAnswered
  <1>4. CASE i.m_state /\ i.age >= LateTicks
    <2>1. LastAnswered(i) = [i EXCEPT !.m_state = FALSE]
      BY <1>4 DEF LastAnswered
    <2> QED
      BY <1>1, <2>1 DEF Sound, Paced, Info
  <1>5. CASE i.m_state /\ ~ (i.age >= LateTicks)
    <2>1. LastAnswered(i) = [i EXCEPT !.m_state = FALSE, !.bad_level = level,
                                      !.ping_counter = AtMost(@, Interval(level))]
      BY <1>5 DEF LastAnswered
    <2> HIDE DEF level
    <2> DEFINE n == AtMost(i.ping_counter, Interval(level))
               r == LastAnswered(i)
    <2>2. n \in Nat /\ n \in 1..Interval(level)
      BY <1>1, <1>2 DEF AtMost
    <2>3. r = [i EXCEPT !.m_state = FALSE, !.bad_level = level, !.ping_counter = n]
      BY <2>1
    <2> HIDE DEF n, r
    <2>4. /\ r \in Info /\ ~ r.m_state /\ r.bad_level = level /\ r.ping_counter = n
      BY <1>1, <1>2, <2>2, <2>3 DEF Info
    <2>5. Sound(r)
      BY <2>2, <2>4 DEF Sound, Paced
    <2> QED
      BY <2>5 DEF r
  <1> QED
    BY <1>3, <1>4, <1>5

LEMMA NewInfoSound == Sound(NewInfo)
  <1>1. Interval(1) = 2
    BY DEF Interval
  <1> QED
    BY <1>1, HealthAssumption DEF Sound, Paced, NewInfo, Info, Connection

---------------------------------------------------------------------------
(* Every entry stays sound: the inductive invariant.                       *)
THEOREM Inductive == Spec => []IInv
  <1>1. Init => IInv
    <2> SUFFICES ASSUME Init PROVE IInv
      OBVIOUS
    <2>1. Known = Addresses /\ \A a \in Known : m_ipinfo[a] = NewInfo
      BY DEF Init, Known
    <2>2. \A a \in Known : Sound(m_ipinfo[a])
      BY <2>1, NewInfoSound
    <2>3. m_ipinfo \in [Known -> Info]
      BY <2>1, NewInfoSound DEF Init, Sound
    <2> QED
      BY <2>1, <2>2, <2>3, HealthAssumption DEF Init, IInv, TypeOK
  <1>2. IInv /\ [Next]_vars => IInv'
    <2> SUFFICES ASSUME IInv, [Next]_vars PROVE IInv'
      OBVIOUS
    <2> USE DEF Known
    <2>0. /\ TypeOK /\ \A a \in Known : Sound(m_ipinfo[a])
          /\ m_ipinfo \in [Known -> Info] /\ Known \subseteq Addresses
      BY DEF IInv, TypeOK
    <2>1. ASSUME HandleTimeout PROVE IInv'
      <3>1. PICK created \in [Known -> BOOLEAN] : Tick(created)
        BY <2>1 DEF HandleTimeout
      <3> DEFINE after == [a \in Known |-> OnTimer(m_ipinfo[a], created[a])]
      <3>2. \A a \in Known : Sound(after[a])
        BY <2>0, <3>1, OnTimerSound
      <3>3. m_ipinfo' = [a \in Known |-> IF AllBad THEN Hurry(after[a]) ELSE after[a]]
        BY <3>1 DEF Tick
      <3>4. Known' = Known /\ \A a \in Known : Sound(m_ipinfo'[a])
        <4> HIDE DEF after
        <4> QED
          BY <3>2, <3>3, HurrySound
      <3>5. m_ipinfo' \in [Known' -> Info]
        BY <3>3, <3>4 DEF Sound
      <3>6. pings' \in [Addresses -> SUBSET {"last", "older"}]
        <4>1. pings' = [a \in Addresses |->
               IF a \in Known /\ Due(m_ipinfo[a])
               THEN {"older" : p \in pings[a]}
                    \cup (IF after[a].connectid = "up" THEN {"last"} ELSE {})
               ELSE pings[a]]
          BY <3>1 DEF Tick
        <4> HIDE DEF after
        <4> QED
          BY <2>0, <4>1 DEF TypeOK
      <3>7. UNCHANGED alive
        BY <3>1 DEF Tick
      <3> QED
        BY <2>0, <3>4, <3>5, <3>6, <3>7 DEF IInv, TypeOK
    <2>2. ASSUME NEW a \in Addresses, NEW ping \in {"last", "older"},
                 NEW again \in BOOLEAN, PingResp(a, ping, again)
          PROVE  IInv'
      <3>1. a \in Known /\ Sound(LastAnswered(m_ipinfo[a]))
        BY <2>0, <2>2, LastAnsweredSound DEF PingResp
      <3>2. /\ Known' = Known /\ \A b \in Known : Sound(m_ipinfo'[b])
            /\ m_ipinfo' \in [Known -> Info]
        <4>1. CASE ping = "last"
          <5>1. m_ipinfo' = [m_ipinfo EXCEPT ![a] = LastAnswered(@)]
            BY <2>2, <4>1 DEF PingResp
          <5>2. LastAnswered(m_ipinfo[a]) \in Info
            BY <3>1 DEF Sound
          <5> QED
            BY <2>0, <3>1, <5>1, <5>2
        <4>2. CASE ping # "last"
          BY <2>0, <2>2, <4>2 DEF PingResp
        <4> QED
          BY <4>1, <4>2
      <3>3. pings' \in [Addresses -> SUBSET {"last", "older"}]
        BY <2>0, <2>2 DEF PingResp, TypeOK
      <3> QED
        BY <2>0, <2>2, <3>2, <3>3 DEF PingResp, IInv, TypeOK
    <2>3. ASSUME UseConnections PROVE IInv'
      <3>1. PICK made \in [Known -> Attempts] :
              m_ipinfo' = [a \in Known |-> GetConnections(m_ipinfo[a], made[a])]
        BY <2>3 DEF UseConnections
      <3>2. \A a \in Known : Sound(GetConnections(m_ipinfo[a], made[a]))
        BY <2>0, <3>1, GetConnectionsSound
      <3>3. /\ Known' = Known /\ \A b \in Known : Sound(m_ipinfo'[b])
            /\ m_ipinfo' \in [Known -> Info]
        BY <3>1, <3>2 DEF Sound
      <3> QED
        BY <2>0, <2>3, <3>3 DEF UseConnections, IInv, TypeOK
    <2>4. ASSUME RequestTimedOut PROVE IInv'
      <3>1. PICK ipports \in (SUBSET Known) \ {{}} :
              m_ipinfo' = [a \in Known |-> IF a \in ipports
                  THEN [m_ipinfo[a] EXCEPT !.bad_level = tinyaddbadlevel(@)]
                  ELSE m_ipinfo[a]]
        BY <2>4 DEF RequestTimedOut
      <3>2. ASSUME NEW a \in Known
            PROVE  Sound([m_ipinfo[a] EXCEPT !.bad_level = tinyaddbadlevel(@)])
        <4> DEFINE i == m_ipinfo[a]
                   j == [i EXCEPT !.bad_level = tinyaddbadlevel(@)]
        <4>1. Sound(i) /\ i \in Info /\ i.bad_level \in 0..MaxBad
          BY <2>0, <3>2 DEF Sound, Info
        <4>2. /\ tinyaddbadlevel(i.bad_level) \in 0..MaxBad
              /\ i.bad_level <= tinyaddbadlevel(i.bad_level)
          BY <4>1, Worse
        <4>3. /\ j \in Info /\ j.bad_level = tinyaddbadlevel(i.bad_level)
              /\ j.ping_counter = i.ping_counter /\ j.m_state = i.m_state /\ j.age = i.age
          BY <4>1, <4>2 DEF Info
        <4>4. j.bad_level >= i.bad_level
          BY <4>1, <4>2, <4>3, HealthAssumption
        <4> HIDE DEF i, j
        <4>5. Sound(j)
          BY <4>1, <4>3, <4>4, WorseIsSound
        <4> QED
          BY <4>5 DEF i, j
      <3>3. /\ Known' = Known /\ \A b \in Known : Sound(m_ipinfo'[b])
            /\ m_ipinfo' \in [Known -> Info]
        BY <2>0, <3>1, <3>2 DEF Sound
      <3> QED
        BY <2>0, <2>4, <3>3 DEF RequestTimedOut, IInv, TypeOK
    <2>5. ASSUME Reload PROVE IInv'
      <3>0. PICK named \in SUBSET Addresses :
              \E made \in [named -> {"none", "made", "failed"}] :
                  /\ m_ipinfo' = [a \in named |->
                         GetConnections(IF a \in Known THEN m_ipinfo[a] ELSE NewInfo, made[a])]
                  /\ pings' = [a \in Addresses |-> IF a \in named THEN pings[a] ELSE {}]
        BY <2>5 DEF Reload
      <3>1. PICK made \in [named -> {"none", "made", "failed"}] :
              /\ m_ipinfo' = [a \in named |->
                     GetConnections(IF a \in Known THEN m_ipinfo[a] ELSE NewInfo, made[a])]
              /\ pings' = [a \in Addresses |-> IF a \in named THEN pings[a] ELSE {}]
        BY <3>0
      <3>2. ASSUME NEW a \in named
            PROVE  Sound(GetConnections(IF a \in Known THEN m_ipinfo[a] ELSE NewInfo, made[a]))
        <4>1. Sound(IF a \in Known THEN m_ipinfo[a] ELSE NewInfo)
          BY <2>0, NewInfoSound
        <4>2. made[a] \in Attempts
          BY <3>1, <3>2 DEF Attempts
        <4> QED
          BY <4>1, <4>2, GetConnectionsSound
      <3>3. /\ Known' = named /\ named \subseteq Addresses /\ \A b \in Known' : Sound(m_ipinfo'[b])
            /\ m_ipinfo' \in [Known' -> Info]
        BY <3>1, <3>2 DEF Sound
      <3>4. pings' \in [Addresses -> SUBSET {"last", "older"}]
        BY <2>0, <3>1 DEF TypeOK
      <3> QED
        BY <2>0, <2>5, <3>1, <3>3, <3>4 DEF Reload, IInv, TypeOK
    <2>6. ASSUME NEW a \in Addresses, ConnectionLost(a) PROVE IInv'
      <3> DEFINE i == m_ipinfo[a]
                 j == [i EXCEPT !.connectid = "down"]
      <3>1. a \in Known /\ m_ipinfo' = [m_ipinfo EXCEPT ![a] = j]
        BY <2>0, <2>6 DEF ConnectionLost
      <3>2. Sound(i) /\ i \in Info /\ i.bad_level \in Nat
        BY <2>0, <3>1, HealthAssumption DEF Sound, Info
      <3>3. /\ j \in Info /\ j.bad_level = i.bad_level
            /\ j.ping_counter = i.ping_counter /\ j.m_state = i.m_state /\ j.age = i.age
        BY <3>2 DEF Info, Connection
      <3> HIDE DEF i, j
      <3>4. Sound(j)
        BY <3>2, <3>3, WorseIsSound
      <3>5. /\ Known' = Known /\ \A b \in Known : Sound(m_ipinfo'[b])
            /\ m_ipinfo' \in [Known -> Info]
        BY <2>0, <3>1, <3>3, <3>4
      <3> QED
        BY <2>0, <2>6, <3>5 DEF ConnectionLost, IInv, TypeOK
    <2>7. ASSUME NEW a \in Addresses, Die(a) \/ Revive(a) PROVE IInv'
      BY <2>0, <2>7 DEF Die, Revive, IInv, TypeOK
    <2>8. CASE UNCHANGED vars
      BY <2>0, <2>8 DEF vars, IInv, TypeOK
    <2> QED
      BY <2>1, <2>2, <2>3, <2>4, <2>5, <2>6, <2>7, <2>8 DEF Next
  <1> QED
    BY <1>1, <1>2, PTL DEF Spec

(* Every variable keeps its type.                                          *)
THEOREM TypeCorrect == Spec => []TypeOK
  <1>1. IInv => TypeOK
    BY DEF IInv
  <1> QED
    BY <1>1, Inductive, PTL

(* The countdown of every address runs, and runs no longer than the        *)
(* interval of its level, whatever pings, requests, reconnects and         *)
(* configurations do.                                                      *)
THEOREM AlwaysScheduled == Spec => []PingScheduled
  <1>1. IInv => PingScheduled
    BY DEF IInv, PingScheduled, Sound
  <1> QED
    BY <1>1, Inductive, PTL

(* An answer to the last ping can be too late only for a bad address.      *)
THEOREM LateOnlyWhenBad == Spec => []LateMeansBad
  <1>1. ASSUME IInv PROVE LateMeansBad
    <2> SUFFICES ASSUME NEW a \in Known, m_ipinfo[a].m_state,
                        m_ipinfo[a].age >= LateTicks
                 PROVE  m_ipinfo[a].bad_level > GoodBad
      BY DEF LateMeansBad
    <2> DEFINE i == m_ipinfo[a]
    <2>1. /\ i.bad_level \in 0..MaxBad /\ i.age \in Nat
          /\ i.ping_counter \in 1..Interval(i.bad_level) /\ Paced(i)
      BY <1>1, HealthAssumption DEF IInv, Sound, Info
    <2>2. Interval(i.bad_level) \in Nat
      BY <2>1, Intervals
    <2>3. Interval(i.bad_level) > 4
      BY <2>1, <2>2, HealthAssumption DEF Paced
    <2> QED
      BY <2>1, <2>3, Intervals
  <1> QED
    BY <1>1, Inductive, PTL

---------------------------------------------------------------------------
(* No handler but ping_resp lowers a level.                                *)
LEMMA GetConnectionNoBetter ==
    ASSUME NEW i \in Info, NEW created \in BOOLEAN
    PROVE  GetConnection(i, created) \in Info
           /\ GetConnection(i, created).bad_level >= i.bad_level
  <1>1. /\ i.bad_level \in 0..MaxBad /\ i.bad_level \in Nat /\ i.connectid \in Connection
        /\ addbadlevel(i.bad_level) \in 0..MaxBad /\ i.bad_level <= addbadlevel(i.bad_level)
    BY Worse, HealthAssumption DEF Info
  <1> DEFINE level == IF i.connectid = "down" THEN addbadlevel(i.bad_level) ELSE i.bad_level
             conn == IF created THEN "up" ELSE i.connectid
  <1>2. level \in 0..MaxBad /\ level >= i.bad_level /\ conn \in Connection
    BY <1>1 DEF Connection
  <1>3. CASE i.connectid = "up"
    BY <1>1, <1>3 DEF GetConnection
  <1>4. CASE i.connectid # "up"
    <2>1. GetConnection(i, created) = [i EXCEPT !.bad_level = level, !.connectid = conn]
      BY <1>4 DEF GetConnection
    <2> HIDE DEF level, conn
    <2> QED
      BY <1>2, <2>1 DEF Info
  <1> QED
    BY <1>3, <1>4

LEMMA GetConnectionsNoBetter ==
    ASSUME NEW i \in Info, NEW made \in Attempts
    PROVE  GetConnections(i, made).bad_level >= i.bad_level
  <1>1. i.bad_level \in Nat
    BY HealthAssumption DEF Info
  <1> DEFINE j == GetConnection(i, FALSE)
  <1>2. /\ j \in Info /\ j.bad_level >= i.bad_level /\ j.bad_level \in Nat
        /\ GetConnection(i, TRUE).bad_level >= i.bad_level
    <2>0. \A created \in BOOLEAN : GetConnection(i, created) \in Info
                                   /\ GetConnection(i, created).bad_level >= i.bad_level
      BY GetConnectionNoBetter
    <2>f. FALSE \in BOOLEAN /\ TRUE \in BOOLEAN
      OBVIOUS
    <2>1. j \in Info /\ j.bad_level >= i.bad_level
      <3>1. GetConnection(i, FALSE) \in Info /\ GetConnection(i, FALSE).bad_level >= i.bad_level
        BY <2>0, <2>f
      <3> QED
        BY <3>1
    <2>2. GetConnection(i, TRUE).bad_level >= i.bad_level
      BY <2>0, <2>f
    <2>3. j.bad_level \in Nat
      <3> HIDE DEF j
      <3> QED
        BY <2>1, HealthAssumption DEF Info
    <2> QED
      BY <2>1, <2>2, <2>3
  <1> HIDE DEF j
  <1>3. \A created \in BOOLEAN : /\ GetConnection(j, created).bad_level >= j.bad_level
                                 /\ GetConnection(j, created).bad_level \in Nat
    BY <1>2, GetConnectionNoBetter, HealthAssumption DEF Info
  <1>4. \A created \in BOOLEAN : GetConnection(j, created).bad_level >= i.bad_level
    BY <1>1, <1>2, <1>3
  <1>5. CASE made = "none"
    BY <1>1, <1>5 DEF GetConnections
  <1>6. CASE made = "made"
    BY <1>2, <1>6 DEF GetConnections
  <1>7. CASE made = "failed"
    BY <1>2, <1>7 DEF GetConnections, j
  <1>8. CASE made = "failed_then_made"
    BY <1>4, <1>8 DEF GetConnections, j
  <1>9. CASE made = "failed_twice"
    BY <1>4, <1>9 DEF GetConnections, j
  <1> QED
    BY <1>5, <1>6, <1>7, <1>8, <1>9 DEF Attempts

LEMMA OnTimerNoBetter ==
    ASSUME NEW i, Sound(i), NEW created \in BOOLEAN
    PROVE  OnTimer(i, created).bad_level >= i.bad_level
  <1> DEFINE c == CountDown(i)
             level == IF c.m_state THEN addbadlevel(c.bad_level) ELSE c.bad_level
  <1>1. /\ i \in Info /\ i.bad_level \in 0..MaxBad /\ i.bad_level \in Nat
        /\ i.ping_counter - 1 \in Nat /\ AtMost(i.age + 1, LateTicks) \in 0..LateTicks
    <2>1. i \in Info /\ i.bad_level \in 0..MaxBad /\ i.age \in 0..LateTicks /\ LateTicks \in Nat
          /\ i.ping_counter \in 1..Interval(i.bad_level) /\ Interval(i.bad_level) \in Nat
      BY Intervals, HealthAssumption DEF Sound, Info
    <2> QED
      BY <2>1, HealthAssumption DEF AtMost
  <1>2. c \in Info /\ c.bad_level = i.bad_level
    BY <1>1 DEF CountDown, Info
  <1>3. level \in 0..MaxBad /\ level >= i.bad_level /\ Interval(level) \in Nat
    BY <1>1, <1>2, Worse, Intervals
  <1>4. CASE ~ Due(i)
    BY <1>1, <1>2, <1>4 DEF OnTimer
  <1>5. CASE Due(i)
    <2> DEFINE p == Ping(c)
    <2>1. OnTimer(i, created) = GetConnection(p, created)
      BY <1>5 DEF OnTimer
    <2>2. p = [c EXCEPT !.bad_level = level, !.m_state = TRUE,
                        !.ping_counter = Interval(level), !.age = 0]
      BY DEF Ping
    <2>3. 0 \in 0..LateTicks
      BY HealthAssumption
    <2> HIDE DEF p, level, c
    <2>4. p \in Info /\ p.bad_level = level
      BY <1>2, <1>3, <2>2, <2>3 DEF Info
    <2>5. OnTimer(i, created).bad_level >= level /\ OnTimer(i, created).bad_level \in Nat
      BY <2>1, <2>4, GetConnectionNoBetter, HealthAssumption DEF Info
    <2> QED
      BY <1>1, <1>3, <2>5
  <1> QED
    BY <1>4, <1>5

(* An address gets better only by a prompt answer to its last ping.        *)
THEOREM OnlyPromptAnswers == Spec => OnlyPromptAnswersHelp
  <1> DEFINE Prompt(a) == /\ a \in alive
                          /\ "last" \in pings[a]
                          /\ m_ipinfo[a].m_state
                          /\ m_ipinfo[a].age < LateTicks
  <1>1. IInv /\ [Next]_vars => [\A a \in Known \cap Known' :
           m_ipinfo'[a].bad_level < m_ipinfo[a].bad_level =>
               /\ a \in alive
               /\ "last" \in pings[a]
               /\ m_ipinfo[a].m_state
               /\ m_ipinfo[a].age < LateTicks]_vars
    <2> SUFFICES ASSUME IInv, Next, NEW a \in Known \cap Known',
                        m_ipinfo'[a].bad_level < m_ipinfo[a].bad_level
                 PROVE  Prompt(a)
      OBVIOUS
    <2> DEFINE i == m_ipinfo[a]
    <2>0. /\ Sound(i) /\ i \in Info /\ i.bad_level \in Nat /\ i.age \in Nat /\ LateTicks \in Nat
          /\ i.m_state \in BOOLEAN
      BY HealthAssumption DEF IInv, Sound, Info
    <2>1. ASSUME HandleTimeout PROVE FALSE
      <3>1. PICK created \in [Known -> BOOLEAN] : Tick(created)
        BY <2>1 DEF HandleTimeout
      <3> DEFINE t == OnTimer(i, created[a])
      <3>2. m_ipinfo'[a] = t \/ m_ipinfo'[a] = Hurry(t)
        BY <3>1 DEF Tick
      <3>3. t \in Info /\ t.bad_level >= i.bad_level /\ t.bad_level \in Nat
        BY <2>0, <3>1, OnTimerNoBetter, OnTimerSound, HealthAssumption DEF Sound, Info
      <3> HIDE DEF t
      <3>4. Hurry(t).bad_level = t.bad_level
        BY <3>3 DEF Hurry, Info
      <3> QED
        BY <2>0, <3>2, <3>3, <3>4
    <2>2. ASSUME NEW b \in Addresses, NEW ping \in {"last", "older"},
                 NEW again \in BOOLEAN, PingResp(b, ping, again)
          PROVE  Prompt(a)
      <3>1. ping = "last" /\ a = b
        BY <2>0, <2>2 DEF PingResp, Known, IInv, TypeOK
      <3>2. m_ipinfo'[a] = LastAnswered(i)
        BY <2>2, <3>1 DEF PingResp, Known, IInv, TypeOK
      <3>3. i.m_state /\ ~ (i.age >= LateTicks)
        <4>1. CASE ~ i.m_state
          BY <2>0, <3>2, <4>1 DEF LastAnswered
        <4>2. CASE i.age >= LateTicks /\ i.m_state
          <5>1. LastAnswered(i) = [i EXCEPT !.m_state = FALSE]
            BY <4>2 DEF LastAnswered
          <5>2. LastAnswered(i).bad_level = i.bad_level
            BY <2>0, <5>1 DEF Info
          <5> QED
            BY <2>0, <3>2, <5>2
        <4> QED
          BY <2>0, <4>1, <4>2
      <3> QED
        BY <2>0, <2>2, <3>1, <3>3 DEF PingResp
    <2>3. ASSUME UseConnections PROVE FALSE
      <3>1. PICK made \in [Known -> Attempts] :
              m_ipinfo' = [b \in Known |-> GetConnections(m_ipinfo[b], made[b])]
        BY <2>3 DEF UseConnections
      <3>2. m_ipinfo'[a].bad_level >= i.bad_level /\ m_ipinfo'[a].bad_level \in Nat
        BY <2>0, <3>1, GetConnectionsNoBetter, GetConnectionsSound, HealthAssumption
        DEF Sound, Info
      <3> QED
        BY <2>0, <3>2
    <2>4. ASSUME RequestTimedOut PROVE FALSE
      <3>1. PICK ipports \in (SUBSET Known) \ {{}} :
              m_ipinfo' = [b \in Known |-> IF b \in ipports
                  THEN [m_ipinfo[b] EXCEPT !.bad_level = tinyaddbadlevel(@)]
                  ELSE m_ipinfo[b]]
        BY <2>4 DEF RequestTimedOut
      <3>2. m_ipinfo'[a].bad_level \in {tinyaddbadlevel(i.bad_level), i.bad_level}
        BY <2>0, <3>1 DEF Info
      <3>3. tinyaddbadlevel(i.bad_level) \in Nat /\ i.bad_level <= tinyaddbadlevel(i.bad_level)
        BY <2>0 DEF tinyaddbadlevel, TinyBad
      <3> QED
        BY <2>0, <3>2, <3>3
    <2>5. ASSUME Reload PROVE FALSE
      <3>1. PICK named \in SUBSET Addresses :
              \E made \in [named -> {"none", "made", "failed"}] :
                  m_ipinfo' = [b \in named |->
                      GetConnections(IF b \in Known THEN m_ipinfo[b] ELSE NewInfo, made[b])]
        BY <2>5 DEF Reload
      <3>2. PICK made \in [named -> {"none", "made", "failed"}] :
              m_ipinfo' = [b \in named |->
                  GetConnections(IF b \in Known THEN m_ipinfo[b] ELSE NewInfo, made[b])]
        BY <3>1
      <3>3. a \in named /\ made[a] \in Attempts
        BY <3>2 DEF Known, Attempts
      <3>4. m_ipinfo'[a] = GetConnections(i, made[a])
        BY <3>2, <3>3
      <3>5. m_ipinfo'[a].bad_level >= i.bad_level /\ m_ipinfo'[a].bad_level \in Nat
        BY <2>0, <3>3, <3>4, GetConnectionsNoBetter, GetConnectionsSound, HealthAssumption
        DEF Sound, Info
      <3> QED
        BY <2>0, <3>5
    <2>6. ASSUME NEW b \in Addresses, ConnectionLost(b) PROVE FALSE
      <3>1. m_ipinfo'[a].bad_level = i.bad_level
        BY <2>0, <2>6 DEF ConnectionLost, Known, Info, IInv, TypeOK
      <3> QED
        BY <2>0, <3>1
    <2>7. ASSUME NEW b \in Addresses, Die(b) \/ Revive(b) PROVE FALSE
      BY <2>0, <2>7 DEF Die, Revive
    <2> QED
      BY <2>1, <2>2, <2>3, <2>4, <2>5, <2>6, <2>7 DEF Next
  <1> QED
    BY <1>1, Inductive, PTL DEF Spec, OnlyPromptAnswersHelp

---------------------------------------------------------------------------
(* How long a server may be silent.  An unanswered ping counts against an  *)
(* address only when the next one is sent, and timer, requests, reconnects *)
(* and configurations all touch its countdown or its level in between.     *)
(* silent counts, beside the specification, the ticks since an address     *)
(* was configured or last gave the prompt answer that ping_resp rewards.   *)
VARIABLE silent

Rewarded(a) ==
    /\ m_ipinfo[a].m_state
    /\ m_ipinfo[a].age < LateTicks
    /\ \E again \in BOOLEAN : PingResp(a, "last", again)

SilenceInit == Init /\ silent = [a \in Addresses |-> 0]

SilenceNext ==
    /\ Next
    /\ silent' = [a \in Addresses |->
           IF a \notin Known \cap Known' \/ Rewarded(a) THEN 0
           ELSE IF HandleTimeout THEN silent[a] + 1
           ELSE silent[a]]

SilenceSpec == SilenceInit /\ [][SilenceNext]_<<vars, silent>>

(* The ticks of silence that suffice: the interval of the first bad level, *)
(* which is the sum of those before it and one.                            *)
Patience == Interval(GoodBad + 1)

(* The ticks of silence a good address has left.                           *)
TicksLeft(i) ==
    i.ping_counter + Patience
        - Interval(IF i.m_state THEN i.bad_level + 1 ELSE i.bad_level)

SilenceInv ==
    \A a \in Known :
        /\ silent[a] \in Nat
        /\ m_ipinfo[a].bad_level <= GoodBad => silent[a] + TicksLeft(m_ipinfo[a]) <= Patience

(* An address silent for as long as that is bad.                           *)
SilentIsBad ==
    \A a \in Known : silent[a] >= Patience => m_ipinfo[a].bad_level > GoodBad

(* Up to the first bad level each interval is twice the one before.        *)
LEMMA Doubles ==
    /\ Patience = 8
    /\ \A l \in 0..3 : Interval(l) \in 1..8
    /\ \A l \in 0..2 : Interval(l) <= 4 /\ Interval(l + 1) = 2 * Interval(l)
    /\ \A l, k \in 0..3 : l <= k => Interval(l) <= Interval(k)
  <1>1. \A l \in 0..3 : Interval(l) = IF l = 0 THEN 1 ELSE IF l = 1 THEN 2
            ELSE IF l = 2 THEN 4 ELSE 8
    BY DEF Interval
  <1>2. Patience = 8
    BY <1>1 DEF Patience, GoodBad
  <1>3. \A l \in 0..2 : Interval(l) <= 4 /\ Interval(l + 1) = 2 * Interval(l)
    BY <1>1
  <1> QED
    BY <1>1, <1>2, <1>3

(* A good address always has between one tick left and all of them.        *)
LEMMA TicksLeftBounds ==
    ASSUME NEW i, Sound(i), i.bad_level <= GoodBad
    PROVE  TicksLeft(i) \in 1..Patience
  <1> DEFINE l == i.bad_level
  <1>1. /\ l \in 0..2 /\ i.m_state \in BOOLEAN /\ i.ping_counter \in 1..Interval(l)
    BY HealthAssumption DEF Sound, Info, GoodBad
  <1>2. /\ Interval(l) \in 1..8 /\ Interval(l + 1) \in 1..8 /\ Interval(l) <= Interval(l + 1)
    BY <1>1, Doubles
  <1> HIDE DEF l
  <1>3. CASE i.m_state
    <2>1. TicksLeft(i) = i.ping_counter + 8 - Interval(l + 1)
      BY <1>3, Doubles DEF TicksLeft, l
    <2> QED
      BY <1>1, <1>2, <2>1, Doubles
  <1>4. CASE ~ i.m_state
    <2>1. TicksLeft(i) = i.ping_counter + 8 - Interval(l)
      BY <1>4, Doubles DEF TicksLeft, l
    <2> QED
      BY <1>1, <1>2, <2>1, Doubles
  <1> QED
    BY <1>3, <1>4

(* What a handler that is neither the timer nor an answer may do to an     *)
(* entry, as far as silence goes.                                          *)
Worsens(i, j) ==
    /\ j \in Info
    /\ j.bad_level >= i.bad_level
    /\ j.ping_counter <= i.ping_counter
    /\ j.m_state = i.m_state

LEMMA WorseIsNearer ==
    ASSUME NEW i \in Info, NEW j, Worsens(i, j), j.bad_level <= GoodBad
    PROVE  /\ i.bad_level <= GoodBad
           /\ TicksLeft(j) <= TicksLeft(i)
  <1> DEFINE l == i.bad_level
             k == j.bad_level
  <1>1. /\ l \in 0..2 /\ k \in 0..2 /\ l <= k /\ i.m_state \in BOOLEAN
        /\ j.m_state = i.m_state
        /\ i.ping_counter \in Nat /\ j.ping_counter \in Nat
        /\ j.ping_counter <= i.ping_counter
    BY HealthAssumption DEF Worsens, Info, GoodBad
  <1>2. /\ Interval(l) \in Nat /\ Interval(l + 1) \in Nat
        /\ Interval(k) \in Nat /\ Interval(k + 1) \in Nat
        /\ Interval(l) <= Interval(k) /\ Interval(l + 1) <= Interval(k + 1)
    BY <1>1, Doubles
  <1> HIDE DEF l, k
  <1>3. /\ TicksLeft(i) = i.ping_counter + 8 - (IF i.m_state THEN Interval(l + 1) ELSE Interval(l))
        /\ TicksLeft(j) = j.ping_counter + 8 - (IF i.m_state THEN Interval(k + 1) ELSE Interval(k))
    BY <1>1, Doubles DEF TicksLeft, l, k
  <1>4. TicksLeft(j) <= TicksLeft(i)
    BY <1>1, <1>2, <1>3
  <1> QED
    BY <1>1, <1>4 DEF l, GoodBad

LEMMA WorsensTwice ==
    ASSUME NEW i \in Info, NEW j \in Info, NEW k, Worsens(i, j), Worsens(j, k)
    PROVE  Worsens(i, k)
  BY HealthAssumption DEF Worsens, Info

LEMMA GetConnectionWorsens ==
    ASSUME NEW i \in Info, NEW created \in BOOLEAN
    PROVE  Worsens(i, GetConnection(i, created))
  <1> DEFINE j == GetConnection(i, created)
             level == IF i.connectid = "down" THEN addbadlevel(i.bad_level) ELSE i.bad_level
             conn == IF created THEN "up" ELSE i.connectid
  <1>1. /\ j \in Info /\ j.bad_level >= i.bad_level /\ i.ping_counter \in Nat
    BY GetConnectionNoBetter DEF Info
  <1>2. CASE i.connectid = "up"
    BY <1>1, <1>2 DEF GetConnection, Worsens
  <1>3. CASE i.connectid # "up"
    <2>1. j = [i EXCEPT !.bad_level = level, !.connectid = conn]
      BY <1>3 DEF GetConnection
    <2> HIDE DEF level, conn, j
    <2>2. j.ping_counter = i.ping_counter /\ j.m_state = i.m_state
      BY <2>1 DEF Info
    <2>3. Worsens(i, j)
      BY <1>1, <2>2 DEF Worsens
    <2> QED
      BY <2>3 DEF j
  <1> QED
    BY <1>2, <1>3

LEMMA GetConnectionsWorsens ==
    ASSUME NEW i \in Info, NEW made \in Attempts
    PROVE  Worsens(i, GetConnections(i, made))
  <1> DEFINE j == GetConnection(i, FALSE)
  <1>1. j \in Info /\ Worsens(i, j) /\ Worsens(i, GetConnection(i, TRUE))
    BY GetConnectionWorsens DEF Worsens
  <1>2. Worsens(i, i)
    BY HealthAssumption DEF Worsens, Info
  <1> HIDE DEF j
  <1>3. Worsens(j, GetConnection(j, TRUE)) /\ Worsens(j, GetConnection(j, FALSE))
    BY <1>1, GetConnectionWorsens
  <1>4. Worsens(i, GetConnection(j, TRUE)) /\ Worsens(i, GetConnection(j, FALSE))
    BY <1>1, <1>3, WorsensTwice
  <1>5. CASE made = "none"
    BY <1>2, <1>5 DEF GetConnections
  <1>6. CASE made = "made"
    BY <1>1, <1>6 DEF GetConnections
  <1>7. CASE made = "failed"
    BY <1>1, <1>7 DEF GetConnections, j
  <1>8. CASE made = "failed_then_made"
    BY <1>4, <1>8 DEF GetConnections, j
  <1>9. CASE made = "failed_twice"
    BY <1>4, <1>9 DEF GetConnections, j
  <1> QED
    BY <1>5, <1>6, <1>7, <1>8, <1>9 DEF Attempts

LEMMA HurryWorsens ==
    ASSUME NEW i \in Info
    PROVE  Worsens(i, Hurry(i))
  <1> DEFINE n == AtMost(i.ping_counter, 2)
  <1>1. i.ping_counter \in Nat /\ n \in Nat /\ n <= i.ping_counter /\ i.bad_level \in Nat
    BY HealthAssumption DEF Info, AtMost
  <1>2. Hurry(i) = [i EXCEPT !.ping_counter = n]
    BY DEF Hurry
  <1> HIDE DEF n
  <1> QED
    BY <1>1, <1>2 DEF Worsens, Info

(* A tick takes one from what is left, whether it sends a ping or not.     *)
LEMMA TimerIsNearer ==
    ASSUME NEW i, Sound(i), NEW created \in BOOLEAN,
           OnTimer(i, created).bad_level <= GoodBad
    PROVE  /\ i.bad_level <= GoodBad
           /\ TicksLeft(OnTimer(i, created)) < TicksLeft(i)
  <1> DEFINE c == CountDown(i)
             l == i.bad_level
  <1>1. /\ i \in Info /\ l \in 0..MaxBad /\ l \in Nat /\ i.ping_counter \in Nat
        /\ i.ping_counter >= 1 /\ i.age \in 0..LateTicks /\ LateTicks \in Nat
        /\ i.m_state \in BOOLEAN
    BY HealthAssumption, Intervals DEF Sound, Info
  <1> DEFINE n == i.ping_counter - 1
             t == AtMost(i.age + 1, LateTicks)
  <1>2. n \in Nat /\ t \in 0..LateTicks
    BY <1>1 DEF AtMost
  <1>3. c = [i EXCEPT !.ping_counter = n, !.age = t]
    BY DEF CountDown
  <1>4. /\ c \in Info /\ c.bad_level = l /\ c.m_state = i.m_state /\ c.ping_counter = n
    <2> HIDE DEF c, n, t
    <2> QED
      BY <1>1, <1>2, <1>3 DEF Info
  <1>5. OnTimer(i, created).bad_level >= l /\ OnTimer(i, created).bad_level \in Nat
    BY OnTimerNoBetter, OnTimerSound, HealthAssumption DEF Sound, Info
  <1>6. l \in 0..2 /\ l <= GoodBad
    BY <1>1, <1>5 DEF GoodBad
  <1>7. /\ Interval(l) \in Nat /\ Interval(l + 1) \in Nat
        /\ Interval(l + 1) = 2 * Interval(l) /\ Patience = 8
    BY <1>6, Doubles
  <1>8. TicksLeft(i) = i.ping_counter + 8 - (IF i.m_state THEN Interval(l + 1) ELSE Interval(l))
    BY <1>1, <1>7 DEF TicksLeft
  <1>9. CASE ~ Due(i)
    <2>1. OnTimer(i, created) = c
      BY <1>9 DEF OnTimer
    <2>2. TicksLeft(c) = n + 8 - (IF i.m_state THEN Interval(l + 1) ELSE Interval(l))
      BY <1>1, <1>4, <1>7 DEF TicksLeft
    <2>3. n + 1 = i.ping_counter
      BY <1>1
    <2> HIDE DEF c, l, n
    <2>4. TicksLeft(c) < TicksLeft(i)
      BY <1>1, <1>2, <1>7, <1>8, <2>2, <2>3
    <2> QED
      BY <1>6, <2>1, <2>4 DEF l
  <1>10. CASE Due(i)
    <2> DEFINE p == Ping(c)
               level == IF i.m_state THEN addbadlevel(l) ELSE l
               n0 == Interval(level)
    <2>1. OnTimer(i, created) = GetConnection(p, created)
      BY <1>10 DEF OnTimer
    <2>2. i.ping_counter = 1
      BY <1>1, <1>4, <1>10 DEF Due
    <2>3. /\ level \in 0..MaxBad /\ level \in Nat /\ n0 \in Nat /\ 0 \in 0..LateTicks
          /\ level = IF i.m_state THEN l + 1 ELSE l
      BY <1>1, <1>6, Intervals, HealthAssumption DEF addbadlevel
    <2>4. p = [c EXCEPT !.bad_level = level, !.m_state = TRUE, !.ping_counter = n0, !.age = 0]
      BY <1>4 DEF Ping
    <2> HIDE DEF c, p, level, n0
    <2>5. /\ p \in Info /\ p.bad_level = level /\ p.m_state /\ p.ping_counter = n0
      BY <1>4, <2>3, <2>4 DEF Info
    <2>6. Worsens(p, OnTimer(i, created))
      BY <2>1, <2>5, GetConnectionWorsens
    <2>7. level <= GoodBad /\ TicksLeft(OnTimer(i, created)) <= TicksLeft(p)
      BY <2>5, <2>6, WorseIsNearer
    <2>8. level \in 0..2
      BY <2>3, <2>7 DEF GoodBad
    <2>9. TicksLeft(p) = 8 - Interval(level)
      <3>1. Interval(level + 1) = 2 * Interval(level) /\ Interval(level) \in Nat
        BY <2>8, Doubles
      <3>2. TicksLeft(p) = n0 + 8 - Interval(level + 1)
        BY <1>7, <2>5 DEF TicksLeft
      <3> QED
        BY <3>1, <3>2 DEF n0
    <2>10. TicksLeft(i) = 9 - Interval(level)
      BY <1>1, <1>7, <1>8, <2>2, <2>3
    <2>11. Interval(level) \in Nat /\ TicksLeft(OnTimer(i, created)) \in Nat
      <3>1. TicksLeft(OnTimer(i, created)) \in 1..Patience
        BY OnTimerSound, TicksLeftBounds
      <3> QED
        BY <1>7, <2>8, <3>1, Doubles
    <2> QED
      BY <1>6, <2>7, <2>9, <2>10, <2>11
  <1> QED
    BY <1>9, <1>10

(* What a step does to an address it keeps: the timer takes one of its     *)
(* ticks, and only a rewarded answer gives any back.                       *)
LEMMA StepIsNearer ==
    ASSUME IInv, Next, NEW a \in Known \cap Known',
           m_ipinfo'[a].bad_level <= GoodBad, ~ Rewarded(a)
    PROVE  /\ m_ipinfo[a].bad_level <= GoodBad
           /\ TicksLeft(m_ipinfo'[a]) <= TicksLeft(m_ipinfo[a])
           /\ HandleTimeout => TicksLeft(m_ipinfo'[a]) < TicksLeft(m_ipinfo[a])
  <1> DEFINE i == m_ipinfo[a]
             j == m_ipinfo'[a]
             Nearer == /\ i.bad_level <= GoodBad
                       /\ TicksLeft(j) <= TicksLeft(i)
             Sooner == /\ i.bad_level <= GoodBad
                       /\ TicksLeft(j) < TicksLeft(i)
  <1>0. /\ Sound(i) /\ i \in Info /\ i.bad_level \in Nat /\ i.m_state \in BOOLEAN
        /\ i.age \in Nat /\ LateTicks \in Nat /\ i.ping_counter \in Nat
        /\ m_ipinfo \in [Known -> Info] /\ Known \subseteq Addresses
        /\ pings \in [Addresses -> SUBSET {"last", "older"}]
    BY HealthAssumption DEF IInv, TypeOK, Sound, Info
  <1>w. Worsens(i, j) => Nearer
    BY <1>0, WorseIsNearer
  <1>s. Worsens(i, i)
    BY <1>0 DEF Worsens
  <1>1. ASSUME HandleTimeout PROVE Nearer /\ Sooner
    <2>1. PICK created \in [Known -> BOOLEAN] : Tick(created)
      BY <1>1 DEF HandleTimeout
    <2> DEFINE t == OnTimer(i, created[a])
    <2>2. j = t \/ j = Hurry(t)
      BY <2>1 DEF Tick
    <2>3. Sound(t) /\ t \in Info /\ Sound(Hurry(t))
      BY <1>0, <2>1, OnTimerSound, HurrySound DEF Sound
    <2>4. Worsens(t, j)
      <3> HIDE DEF t, j
      <3> QED
        BY <2>2, <2>3, HurryWorsens, HealthAssumption DEF Worsens, Info
    <2>5. t.bad_level <= GoodBad /\ TicksLeft(j) <= TicksLeft(t)
      <3> HIDE DEF t
      <3> QED
        BY <2>3, <2>4, WorseIsNearer
    <2>6. i.bad_level <= GoodBad /\ TicksLeft(t) < TicksLeft(i)
      BY <1>0, <2>1, <2>5, TimerIsNearer
    <2>7. TicksLeft(t) \in Nat /\ TicksLeft(j) \in Nat /\ TicksLeft(i) \in Nat
      <3>1. Sound(j)
        BY <2>2, <2>3
      <3> HIDE DEF t, i, j
      <3>2. /\ TicksLeft(t) \in 1..Patience /\ TicksLeft(j) \in 1..Patience
            /\ TicksLeft(i) \in 1..Patience
        BY <1>0, <2>3, <2>5, <2>6, <3>1, TicksLeftBounds DEF j
      <3> QED
        BY <3>2, Doubles
    <2> HIDE DEF t, i, j
    <2> QED
      BY <2>5, <2>6, <2>7
  <1>2. ASSUME NEW b \in Addresses, NEW ping \in {"last", "older"},
               NEW again \in BOOLEAN, PingResp(b, ping, again)
        PROVE  Nearer
    <2>1. CASE ping = "last" /\ a = b
      <3>1. j = LastAnswered(i)
        BY <1>0, <1>2, <2>1 DEF PingResp, Known
      <3>2. ~ (i.m_state /\ i.age < LateTicks)
        BY <1>2, <2>1 DEF Rewarded
      <3>3. CASE ~ i.m_state
        <4>1. j = i
          BY <3>1, <3>3 DEF LastAnswered
        <4> QED
          BY <1>s, <1>w, <4>1
      <3>4. CASE i.m_state /\ i.age >= LateTicks
        <4>1. LastAnswered(i) = [i EXCEPT !.m_state = FALSE]
          BY <3>4 DEF LastAnswered
        <4>2. LastAnswered(i).bad_level = i.bad_level
          <5> HIDE DEF i
          <5> QED
            BY <1>0, <4>1 DEF Info
        <4>3. i.bad_level <= GoodBad
          BY <3>1, <4>2
        <4>4. Interval(i.bad_level) \in Nat /\ Interval(i.bad_level) <= 4
          <5>1. i.bad_level \in 0..2
            BY <1>0, <4>3 DEF GoodBad
          <5> QED
            BY <5>1, Doubles
        <4>5. i.age + i.ping_counter <= Interval(i.bad_level) /\ i.ping_counter >= 1
          BY <1>0, <3>4, <4>4 DEF Sound, Paced
        <4> QED
          BY <1>0, <3>4, <4>4, <4>5, HealthAssumption
      <3> QED
        BY <1>0, <3>2, <3>3, <3>4
    <2>2. CASE ~ (ping = "last" /\ a = b)
      <3>1. j = i
        BY <1>0, <1>2, <2>2 DEF PingResp, Known
      <3> QED
        BY <1>s, <1>w, <3>1
    <2> QED
      BY <2>1, <2>2
  <1>3. ASSUME UseConnections PROVE Nearer
    <2>1. PICK made \in [Known -> Attempts] :
            m_ipinfo' = [b \in Known |-> GetConnections(m_ipinfo[b], made[b])]
      BY <1>3 DEF UseConnections
    <2>2. Worsens(i, j)
      BY <1>0, <2>1, GetConnectionsWorsens
    <2> QED
      BY <1>w, <2>2
  <1>4. ASSUME RequestTimedOut PROVE Nearer
    <2>1. PICK ipports \in (SUBSET Known) \ {{}} :
            m_ipinfo' = [b \in Known |-> IF b \in ipports
                THEN [m_ipinfo[b] EXCEPT !.bad_level = tinyaddbadlevel(@)]
                ELSE m_ipinfo[b]]
      BY <1>4 DEF RequestTimedOut
    <2> DEFINE k == [i EXCEPT !.bad_level = tinyaddbadlevel(@)]
    <2>2. j = k \/ j = i
      BY <2>1
    <2>3. /\ tinyaddbadlevel(i.bad_level) \in 0..MaxBad
          /\ i.bad_level <= tinyaddbadlevel(i.bad_level)
      BY <1>0, Worse DEF Info
    <2>4. Worsens(i, k)
      <3> HIDE DEF i
      <3>1. /\ k \in Info /\ k.bad_level = tinyaddbadlevel(i.bad_level)
            /\ k.ping_counter = i.ping_counter /\ k.m_state = i.m_state
        BY <1>0, <2>3 DEF Info
      <3>2. tinyaddbadlevel(i.bad_level) \in Nat
        BY <2>3, HealthAssumption
      <3> QED
        BY <1>0, <2>3, <3>1, <3>2 DEF Worsens
    <2> QED
      BY <1>s, <1>w, <2>2, <2>4
  <1>5. ASSUME Reload PROVE Nearer
    <2>1. PICK named \in SUBSET Addresses :
            \E made \in [named -> {"none", "made", "failed"}] :
                m_ipinfo' = [b \in named |->
                    GetConnections(IF b \in Known THEN m_ipinfo[b] ELSE NewInfo, made[b])]
      BY <1>5 DEF Reload
    <2>2. PICK made \in [named -> {"none", "made", "failed"}] :
            m_ipinfo' = [b \in named |->
                GetConnections(IF b \in Known THEN m_ipinfo[b] ELSE NewInfo, made[b])]
      BY <2>1
    <2>3. a \in named /\ made[a] \in Attempts
      BY <2>2 DEF Known, Attempts
    <2>4. j = GetConnections(i, made[a])
      BY <2>2, <2>3
    <2>5. Worsens(i, j)
      BY <1>0, <2>3, <2>4, GetConnectionsWorsens
    <2> QED
      BY <1>w, <2>5
  <1>6. ASSUME NEW b \in Addresses, ConnectionLost(b) PROVE Nearer
    <2>1. j = i \/ j = [i EXCEPT !.connectid = "down"]
      BY <1>0, <1>6 DEF ConnectionLost, Known
    <2>2. Worsens(i, [i EXCEPT !.connectid = "down"])
      <3> HIDE DEF i
      <3> QED
        BY <1>0 DEF Worsens, Info, Connection
    <2> QED
      BY <1>s, <1>w, <2>1, <2>2
  <1>7. ASSUME NEW b \in Addresses, Die(b) \/ Revive(b) PROVE Nearer
    <2>1. j = i
      BY <1>7 DEF Die, Revive
    <2> QED
      BY <1>s, <1>w, <2>1
  <1>8. Nearer
    BY <1>1, <1>2, <1>3, <1>4, <1>5, <1>6, <1>7 DEF Next
  <1> QED
    BY <1>1, <1>8

(* Silence is found out in bounded time: eight firings of the timer, 40 s, *)
(* without an answer that ping_resp rewards make any address bad, whatever *)
(* requests, reconnects, late or repeated answers and configurations do to *)
(* its countdown and its level meanwhile.                                  *)
THEOREM FoundOutInTime == SilenceSpec => []SilentIsBad
  <1>1. SilenceInit => SilenceInv
    <2> SUFFICES ASSUME SilenceInit, NEW a \in Known
                 PROVE  /\ silent[a] = 0
                        /\ TicksLeft(m_ipinfo[a]) \in Nat
                        /\ TicksLeft(m_ipinfo[a]) <= Patience
      BY Doubles DEF SilenceInv
    <2>1. silent[a] = 0 /\ m_ipinfo[a] = NewInfo
      BY DEF SilenceInit, Init, Known
    <2>2. NewInfo.bad_level <= GoodBad
      BY DEF NewInfo, GoodBad
    <2>3. TicksLeft(NewInfo) \in 1..Patience
      BY <2>2, NewInfoSound, TicksLeftBounds
    <2> QED
      BY <2>1, <2>3, Doubles
  <1>2. IInv /\ IInv' /\ SilenceInv /\ [SilenceNext]_<<vars, silent>> => SilenceInv'
    <2> SUFFICES ASSUME IInv, IInv', SilenceInv, [SilenceNext]_<<vars, silent>>,
                        NEW a \in Known'
                 PROVE  /\ silent'[a] \in Nat
                        /\ m_ipinfo'[a].bad_level <= GoodBad =>
                               silent'[a] + TicksLeft(m_ipinfo'[a]) <= Patience
      BY DEF SilenceInv, TicksLeft, Patience, Interval
    <2> DEFINE i == m_ipinfo[a]
               j == m_ipinfo'[a]
    <2>1. CASE UNCHANGED <<vars, silent>>
      BY <2>1 DEF SilenceInv, vars, Known
    <2>2. CASE SilenceNext
      <3>1. a \in Addresses /\ Sound(j)
        <4>1. Known' \subseteq Addresses /\ \A b \in Known' : Sound(m_ipinfo'[b])
          BY DEF IInv, TypeOK, Known, Sound, Paced, Info, Connection, Interval
        <4> QED
          BY <4>1
      <3>2. silent'[a] = IF a \notin Known \cap Known' \/ Rewarded(a) THEN 0
                         ELSE IF HandleTimeout THEN silent[a] + 1
                         ELSE silent[a]
        BY <2>2, <3>1 DEF SilenceNext
      <3>3. Patience = 8 /\ (j.bad_level <= GoodBad => TicksLeft(j) \in 1..Patience)
        BY <3>1, TicksLeftBounds, Doubles
      <3>4. CASE a \notin Known \cap Known' \/ Rewarded(a)
        <4> HIDE DEF j
        <4>1. silent'[a] = 0
          BY <3>2, <3>4
        <4>2. j.bad_level <= GoodBad => TicksLeft(j) \in Nat /\ TicksLeft(j) <= Patience
          BY <3>3
        <4>3. j.bad_level <= GoodBad => silent'[a] + TicksLeft(j) <= Patience
          BY <3>3, <4>1, <4>2
        <4> QED
          BY <4>1, <4>3 DEF j
      <3>5. CASE a \in Known \cap Known' /\ ~ Rewarded(a)
        <4>1. /\ silent[a] \in Nat
              /\ i.bad_level <= GoodBad => silent[a] + TicksLeft(i) <= Patience
          BY <3>5 DEF SilenceInv
        <4>2. silent'[a] = IF HandleTimeout THEN silent[a] + 1 ELSE silent[a]
          BY <3>2, <3>5
        <4>3. silent'[a] \in Nat
          BY <4>1, <4>2
        <4>4. ASSUME j.bad_level <= GoodBad
              PROVE  silent'[a] + TicksLeft(j) <= Patience
          <5>1. /\ i.bad_level <= GoodBad
                /\ TicksLeft(j) <= TicksLeft(i)
                /\ HandleTimeout => TicksLeft(j) < TicksLeft(i)
            BY <2>2, <3>5, <4>4, StepIsNearer DEF SilenceNext
          <5>2. Sound(i)
            BY <3>5 DEF IInv
          <5>3. TicksLeft(i) \in Nat /\ TicksLeft(j) \in Nat
            BY <3>3, <4>4, <5>1, <5>2, TicksLeftBounds
          <5> HIDE DEF i, j
          <5> QED
            BY <3>3, <4>1, <4>2, <5>1, <5>3
        <4> QED
          BY <4>3, <4>4
      <3> QED
        BY <3>4, <3>5
    <2> QED
      BY <2>1, <2>2
  <1>3. IInv /\ SilenceInv => SilentIsBad
    <2> SUFFICES ASSUME IInv, SilenceInv, NEW a \in Known, silent[a] >= Patience,
                        m_ipinfo[a].bad_level <= GoodBad
                 PROVE  FALSE
      <3>1. ASSUME IInv, NEW a \in Known
            PROVE  m_ipinfo[a].bad_level <= GoodBad \/ m_ipinfo[a].bad_level > GoodBad
        BY <3>1, HealthAssumption DEF IInv, Sound, Info, GoodBad
      <3> QED
        BY <3>1 DEF SilentIsBad
    <2>1. TicksLeft(m_ipinfo[a]) \in 1..Patience
      BY TicksLeftBounds DEF IInv
    <2>2. silent[a] \in Nat /\ silent[a] + TicksLeft(m_ipinfo[a]) <= Patience
      BY DEF SilenceInv
    <2> QED
      BY <2>1, <2>2, Doubles
  <1>4. SilenceInit => Init
    BY DEF SilenceInit
  <1>5. [SilenceNext]_<<vars, silent>> => [Next]_vars
    BY DEF SilenceNext
  <1>6. SilenceSpec => Spec
    BY <1>4, <1>5, PTL DEF SilenceSpec, Spec
  <1>7. SilenceSpec => []IInv
    BY <1>6, Inductive, PTL
  <1>8. SilenceSpec => []SilenceInv
    BY <1>1, <1>2, <1>7, PTL DEF SilenceSpec
  <1> QED
    BY <1>3, <1>7, <1>8, PTL
=============================================================================
