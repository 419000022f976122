-------------------------- MODULE DaoProxyProof --------------------------
(***************************************************************************)
(* Proofs about DaoProxy, for any servers, DAOs, requests and any set of   *)
(* configurations that validate_conf_para accepts.  The invariant has      *)
(* three parts: the directory agrees with itself (Directory), the requests *)
(* with their timers and answers (Life), and the counts of the directory   *)
(* with the requests (NotOvercounted).  Two last sections show what more   *)
(* the code achieves: exact counts while no DAO is forgotten, and the      *)
(* choice of good addresses when servers have one address each.            *)
(***************************************************************************)
EXTENDS DaoProxy, FiniteSetTheorems, TLAPS

Directory ==
    /\ DOMAIN serv_infos \subseteq Servers
    /\ serv_infos = [s \in DOMAIN serv_infos |-> serv_infos[s]]
    /\ \A s \in DOMAIN serv_infos : IsServInfo(serv_infos[s])
    /\ DOMAIN dao_index \subseteq Daos
    /\ dao_index \in [DOMAIN dao_index -> SUBSET Servers]
    /\ bad \in [DOMAIN bad -> BOOLEAN]
    /\ IndexAgrees
    /\ AddressesKnown

Life ==
    /\ fsm \in [Requests -> {NewFsm, EndedFsm} \cup SentFsm]
    /\ timers \subseteq Requests
    /\ answered \in [Requests -> Nat]
    /\ TimerIffWaiting
    /\ OneAnswer

IInv == Directory /\ Life /\ NotOvercounted

---------------------------------------------------------------------------
(* A step that changes only the free places and counts of the directory.   *)
Counting ==
    /\ DOMAIN serv_infos' = DOMAIN serv_infos
    /\ serv_infos' = [s \in DOMAIN serv_infos |-> serv_infos'[s]]
    /\ \A s \in DOMAIN serv_infos :
          /\ IsServInfo(serv_infos'[s])
          /\ serv_infos'[s].ipports = serv_infos[s].ipports
          /\ DOMAIN serv_infos'[s].daos = DOMAIN serv_infos[s].daos
    /\ UNCHANGED dao_index
    /\ DOMAIN bad' = DOMAIN bad
    /\ bad' \in [DOMAIN bad -> BOOLEAN]

LEMMA CountingKeepsDirectory ==
    ASSUME Directory, Counting
    PROVE  Directory'
  <1>1. \A s \in DOMAIN serv_infos : Named(serv_infos'[s]) = Named(serv_infos[s])
    BY DEF Counting, Named
  <1>2. AddressesKnown'
    BY <1>1 DEF Counting, Directory, AddressesKnown
  <1>3. IndexAgrees'
    BY DEF Counting, Directory, IndexAgrees, Knows
  <1> QED
    BY <1>2, <1>3 DEF Counting, Directory

(* What Change does to the entries of the directory.                       *)
Changed(s, d, info) ==
    /\ DOMAIN serv_infos' = DOMAIN serv_infos
    /\ serv_infos' = [t \in DOMAIN serv_infos |-> serv_infos'[t]]
    /\ \A t \in DOMAIN serv_infos :
          /\ IsServInfo(serv_infos'[t])
          /\ serv_infos'[t].ipports = serv_infos[t].ipports
          /\ DOMAIN serv_infos'[t].daos = DOMAIN serv_infos[t].daos
          /\ \A e \in DOMAIN serv_infos[t].daos :
                serv_infos'[t].daos[e] =
                    IF t = s /\ e = d THEN info ELSE serv_infos[t].daos[e]

LEMMA ChangeEntries ==
    ASSUME Directory, NEW s, NEW d, NEW info,
           Knows(s, d) => info \in DaoInfo,
           serv_infos' = Change(s, d, info)
    PROVE  Changed(s, d, info)
  <1>1. CASE ~ Knows(s, d)
    <2>1. serv_infos' = serv_infos
      BY <1>1 DEF Change
    <2> QED
      BY <1>1, <2>1 DEF Directory, Knows, Changed
  <1>2. CASE Knows(s, d)
    <2> DEFINE old == serv_infos[s]
               daos == [old.daos EXCEPT ![d] = info]
               new == [old EXCEPT !.daos = daos]
    <2>1. s \in DOMAIN serv_infos /\ d \in DOMAIN old.daos /\ info \in DaoInfo
      BY <1>2 DEF Knows
    <2>2. IsServInfo(old)
      BY <2>1 DEF Directory
    <2>3. /\ DOMAIN daos = DOMAIN old.daos
          /\ daos \in [DOMAIN daos -> DaoInfo]
          /\ \A e \in DOMAIN old.daos : daos[e] = IF e = d THEN info ELSE old.daos[e]
      BY <2>1, <2>2 DEF IsServInfo
    <2>4. serv_infos' = [serv_infos EXCEPT ![s] = new]
      BY <1>2 DEF Change
    <2> HIDE DEF daos
    <2>5. /\ new.ipports = old.ipports /\ new.daos = daos
          /\ new \in [ipports : Seq(Addresses) \ {<<>>}, groupid : Groups, daos : {daos}]
      BY <2>2 DEF IsServInfo
    <2> HIDE DEF new, old
    <2>6. IsServInfo(new)
      BY <2>2, <2>3, <2>5 DEF IsServInfo
    <2>7. \A t \in DOMAIN serv_infos :
             serv_infos'[t] = IF t = s THEN new ELSE serv_infos[t]
      BY <2>1, <2>4 DEF Directory
    <2>8. /\ DOMAIN serv_infos' = DOMAIN serv_infos
          /\ serv_infos' = [t \in DOMAIN serv_infos |-> serv_infos'[t]]
      BY <2>4 DEF Directory
    <2>9. ASSUME NEW t \in DOMAIN serv_infos
          PROVE  /\ IsServInfo(serv_infos'[t])
                 /\ serv_infos'[t].ipports = serv_infos[t].ipports
                 /\ DOMAIN serv_infos'[t].daos = DOMAIN serv_infos[t].daos
                 /\ \A e \in DOMAIN serv_infos[t].daos :
                       serv_infos'[t].daos[e] =
                           IF t = s /\ e = d THEN info ELSE serv_infos[t].daos[e]
      <3>1. CASE t = s
        BY <2>3, <2>5, <2>6, <2>7, <3>1 DEF old
      <3>2. CASE t # s
        BY <2>7, <3>2 DEF Directory
      <3> QED
        BY <3>1, <3>2
    <2> QED
      BY <2>8, <2>9 DEF Changed
  <1> QED
    BY <1>1, <1>2

LEMMA MayGetWorseKeepsType ==
    ASSUME Directory, NEW addresses, MayGetWorse(addresses)
    PROVE  DOMAIN bad' = DOMAIN bad /\ bad' \in [DOMAIN bad -> BOOLEAN]
  BY DEF MayGetWorse, Directory

(* Counts stay free places and numbers.                                    *)
LEMMA InfoOperators ==
    ASSUME NEW info \in DaoInfo
    PROVE  /\ PredictSendOne(info) \in DaoInfo
           /\ PredictSendOne(info).sending = info.sending
           /\ StartSendOne(PredictSendOne(info)) \in DaoInfo
           /\ StartSendOne(PredictSendOne(info)).sending = info.sending + 1
           /\ EndRecvOne(info) \in DaoInfo
           /\ EndRecvOne(info).sending
                 = IF info.sending > 0 THEN info.sending - 1 ELSE 0
           /\ \A free \in 0..MaxFree :
                 /\ [EndRecvOne(info) EXCEPT !.free = free] \in DaoInfo
                 /\ [EndRecvOne(info) EXCEPT !.free = free].sending
                       = EndRecvOne(info).sending
  <1> DEFINE less == IF info.free > 0 THEN info.free - 1 ELSE 0
             fewer == IF info.sending > 0 THEN info.sending - 1 ELSE 0
  <1>1. /\ info.free \in 0..MaxFree /\ info.sending \in Nat
        /\ less \in 0..MaxFree /\ fewer \in Nat /\ info.sending + 1 \in Nat
    BY ProxyAssumption DEF DaoInfo
  <1>2. /\ PredictSendOne(info) = [info EXCEPT !.free = less]
        /\ EndRecvOne(info) = [info EXCEPT !.sending = fewer]
    BY DEF PredictSendOne, EndRecvOne
  <1>3. fewer = IF info.sending > 0 THEN info.sending - 1 ELSE 0
    OBVIOUS
  <1> HIDE DEF less, fewer
  <1>4. /\ PredictSendOne(info) \in DaoInfo /\ PredictSendOne(info).sending = info.sending
        /\ EndRecvOne(info) \in DaoInfo /\ EndRecvOne(info).sending = fewer
    BY <1>1, <1>2 DEF DaoInfo
  <1> DEFINE p == PredictSendOne(info)
             e == EndRecvOne(info)
  <1>5. StartSendOne(p) = [p EXCEPT !.sending = p.sending + 1]
    BY DEF StartSendOne
  <1> HIDE DEF p, e
  <1>6. p \in DaoInfo /\ p.sending = info.sending /\ e \in DaoInfo
    BY <1>4 DEF p, e
  <1>7. StartSendOne(p) \in DaoInfo /\ StartSendOne(p).sending = info.sending + 1
    BY <1>1, <1>5, <1>6 DEF DaoInfo
  <1>8. \A free \in 0..MaxFree : /\ [e EXCEPT !.free = free] \in DaoInfo
                                 /\ [e EXCEPT !.free = free].sending = e.sending
    BY <1>6 DEF DaoInfo
  <1> QED
    BY <1>3, <1>4, <1>7, <1>8 DEF p, e

LEMMA KnownInfo ==
    ASSUME Directory, NEW s, NEW d, Knows(s, d)
    PROVE  At(s, d) \in DaoInfo
  BY DEF Directory, Knows, At, IsServInfo

---------------------------------------------------------------------------
(* The steps of a request only count.                                      *)
LEMMA ChangeCounts ==
    ASSUME Directory, NEW s, NEW d, NEW info,
           Knows(s, d) => info \in DaoInfo,
           serv_infos' = Change(s, d, info),
           UNCHANGED dao_index,
           DOMAIN bad' = DOMAIN bad, bad' \in [DOMAIN bad -> BOOLEAN]
    PROVE  Counting
  BY ChangeEntries DEF Changed, Counting

LEMMA UnchangedCounts ==
    ASSUME Directory, UNCHANGED directory, bad' \in [DOMAIN bad -> BOOLEAN]
    PROVE  Counting
  BY DEF Directory, directory, Counting

LEMMA SelectedFacts ==
    ASSUME Directory, NEW r, NEW d, NEW s, Selected(r, d, s)
    PROVE  /\ Knows(s, d) /\ s \in Servers /\ d \in Daos
           /\ BestAddress(s) \in Addresses
           /\ UNCHANGED dao_index
           /\ DOMAIN bad' = DOMAIN bad /\ bad' \in [DOMAIN bad -> BOOLEAN]
  <1>1. d \in DOMAIN dao_index /\ s \in dao_index[d] /\ UNCHANGED dao_index
    BY DEF Selected
  <1>2. s \in DOMAIN serv_infos /\ Knows(s, d)
    BY <1>1 DEF Directory, IndexAgrees
  <1>3. serv_infos[s].ipports \in Seq(Addresses) /\ serv_infos[s].ipports # <<>>
    BY <1>2 DEF Directory, IsServInfo
  <1>4. BestAddress(s) \in Addresses
    BY <1>3 DEF BestAddress
  <1>5. DOMAIN bad' = DOMAIN bad /\ bad' \in [DOMAIN bad -> BOOLEAN]
    BY MayGetWorseKeepsType DEF Selected
  <1> QED
    BY <1>1, <1>2, <1>4, <1>5 DEF Directory

LEMMA StartCounts ==
    ASSUME Directory, NEW r, NEW d, NEW s,
           NoConnection(r, d, s) \/ SendFails(r, d, s) \/ Sent(r, d, s)
    PROVE  Counting
  <1>1. Selected(r, d, s)
    BY DEF NoConnection, SendFails, Sent
  <1>2. At(s, d) \in DaoInfo
    BY <1>1, SelectedFacts, KnownInfo
  <1>3. \/ serv_infos' = Change(s, d, PredictSendOne(At(s, d)))
        \/ serv_infos' = Change(s, d, StartSendOne(PredictSendOne(At(s, d))))
    BY DEF NoConnection, SendFails, Sent
  <1> QED
    BY <1>1, <1>2, <1>3, SelectedFacts, InfoOperators, ChangeCounts

LEMMA EndCounts ==
    ASSUME Directory, NEW r,
           HandleTimeout(r) \/ \E free \in 0..MaxFree : OnResponse(r, free)
    PROVE  Counting
  <1> DEFINE s == fsm[r].server
             d == fsm[r].dao
  <1>1. Knows(s, d) => At(s, d) \in DaoInfo
    BY KnownInfo
  <1>2. CASE HandleTimeout(r)
    <2>1. /\ serv_infos' = Change(s, d, EndRecvOne(At(s, d)))
          /\ UNCHANGED dao_index /\ MayGetWorse(TimedOutServer(r))
      BY <1>2 DEF HandleTimeout, AtRequest
    <2>2. Knows(s, d) => EndRecvOne(At(s, d)) \in DaoInfo
      BY <1>1, InfoOperators
    <2>3. DOMAIN bad' = DOMAIN bad /\ bad' \in [DOMAIN bad -> BOOLEAN]
      BY <2>1, MayGetWorseKeepsType
    <2> HIDE DEF s, d
    <2> QED
      BY <2>1, <2>2, <2>3, ChangeCounts
  <1>3. ASSUME NEW free \in 0..MaxFree, OnResponse(r, free) PROVE Counting
    <2>1. /\ serv_infos' = Change(s, d, [EndRecvOne(At(s, d)) EXCEPT !.free = free])
          /\ UNCHANGED <<dao_index, bad>>
      BY <1>3 DEF OnResponse, AtRequest
    <2>2. Knows(s, d) => [EndRecvOne(At(s, d)) EXCEPT !.free = free] \in DaoInfo
      BY <1>1, InfoOperators
    <2>3. DOMAIN bad' = DOMAIN bad /\ bad' \in [DOMAIN bad -> BOOLEAN]
      BY <2>1 DEF Directory
    <2> HIDE DEF s, d
    <2> QED
      BY <2>1, <2>2, <2>3, ChangeCounts
  <1> QED
    BY <1>2, <1>3

---------------------------------------------------------------------------
(* inner_del_server for a set of servers leaves the index of the others.   *)
IsIndexOf(index, rest) ==
    /\ DOMAIN index = {d \in Daos : \E t \in rest : Knows(t, d)}
    /\ index = [d \in DOMAIN index |-> {t \in rest : Knows(t, d)}]

LEMMA RemovedAgrees ==
    ASSUME Directory, NEW gone \in SUBSET DOMAIN serv_infos
    PROVE  IsIndexOf(Removed(dao_index, gone), DOMAIN serv_infos \ gone)
  <1> DEFINE rest == DOMAIN serv_infos \ gone
             of(d) == {s \in gone : Knows(s, d)}
             dom == {d \in DOMAIN dao_index : of(d) = {} \/ dao_index[d] \ of(d) # {}}
             index == Removed(dao_index, gone)
  <1>1. index = [d \in dom |-> dao_index[d] \ of(d)]
    BY DEF Removed
  <1>2. DOMAIN index = dom
    BY <1>1
  <1>3. \A d \in DOMAIN dao_index : dao_index[d] \ of(d) = {t \in rest : Knows(t, d)}
    BY DEF Directory, IndexAgrees
  <1>4. ASSUME NEW d PROVE d \in dom <=> d \in Daos /\ \E t \in rest : Knows(t, d)
    <2>1. ASSUME d \in dom PROVE d \in Daos /\ \E t \in rest : Knows(t, d)
      <3>1. d \in DOMAIN dao_index /\ d \in Daos
        BY <2>1 DEF Directory
      <3>2. PICK t \in DOMAIN serv_infos : Knows(t, d)
        BY <3>1 DEF Directory, IndexAgrees, Knows
      <3>3. CASE of(d) = {}
        BY <3>1, <3>2, <3>3
      <3>4. CASE dao_index[d] \ of(d) # {}
        BY <1>3, <3>1, <3>4
      <3> QED
        BY <2>1, <3>3, <3>4
    <2>2. ASSUME d \in Daos, NEW t \in rest, Knows(t, d) PROVE d \in dom
      <3>1. d \in DOMAIN dao_index
        BY <2>2 DEF Directory, IndexAgrees, Knows
      <3> QED
        BY <1>3, <2>2, <3>1
    <2> QED
      BY <2>1, <2>2
  <1>5. dom = {d \in Daos : \E t \in rest : Knows(t, d)}
    <2> HIDE DEF dom, rest
    <2> QED
      BY <1>4
  <1>6. \A d \in dom : dao_index[d] \ of(d) = {t \in rest : Knows(t, d)}
    BY <1>3
  <1>7. index = [d \in DOMAIN index |-> {t \in rest : Knows(t, d)}]
    <2> HIDE DEF index, rest, of, dom
    <2> QED
      BY <1>1, <1>2, <1>6
  <1> QED
    BY <1>2, <1>5, <1>7 DEF IsIndexOf

(* The directory after any change agrees with its index if the index is    *)
(* the inverse of what the servers have.                                   *)
LEMMA InverseAgrees ==
    ASSUME \A s \in DOMAIN serv_infos : DOMAIN serv_infos[s].daos \subseteq Daos,
           DOMAIN dao_index = {d \in Daos : \E t \in DOMAIN serv_infos : Knows(t, d)},
           \A d \in DOMAIN dao_index : dao_index[d] = {t \in DOMAIN serv_infos : Knows(t, d)}
    PROVE  IndexAgrees
  BY DEF IndexAgrees, Knows

LEMMA PollKeepsDirectory ==
    ASSUME Directory, NEW s, NEW known \in SUBSET Daos,
           NEW free \in [known -> 0..MaxFree], PollAnswer(s, free)
    PROVE  Directory'
  <1> DEFINE daos == [d \in known |->
                        [free |-> free[d],
                         sending |-> IF Knows(s, d) THEN At(s, d).sending ELSE 0]]
             old == serv_infos[s]
             new == [old EXCEPT !.daos = daos]
             rest == DOMAIN serv_infos \ {s}
             kept == Removed(dao_index, {s})
             K(t, d) == t \in DOMAIN serv_infos' /\ d \in DOMAIN serv_infos'[t].daos
  <1>1. /\ s \in DOMAIN serv_infos
        /\ serv_infos' = [serv_infos EXCEPT ![s] = new]
        /\ dao_index' = Entered(kept, s, known)
        /\ UNCHANGED bad
    BY DEF PollAnswer
  <1>2. DOMAIN daos = known /\ daos \in [known -> DaoInfo]
    <2>1. \A d \in known : Knows(s, d) => At(s, d).sending \in Nat
      BY KnownInfo DEF DaoInfo
    <2> QED
      BY <2>1 DEF DaoInfo
  <1>3. IsServInfo(old)
    BY <1>1 DEF Directory
  <1> HIDE DEF daos
  <1>4. /\ new.ipports = old.ipports /\ new.daos = daos
        /\ new \in [ipports : Seq(Addresses) \ {<<>>}, groupid : Groups, daos : {daos}]
    BY <1>3 DEF IsServInfo
  <1> HIDE DEF old, new
  <1>5. IsServInfo(new)
    BY <1>2, <1>4 DEF IsServInfo
  <1>6. /\ DOMAIN serv_infos' = DOMAIN serv_infos
        /\ serv_infos' = [t \in DOMAIN serv_infos |-> serv_infos'[t]]
        /\ \A t \in DOMAIN serv_infos :
              serv_infos'[t] = IF t = s THEN new ELSE serv_infos[t]
    BY <1>1 DEF Directory
  <1>7. \A t \in DOMAIN serv_infos : IsServInfo(serv_infos'[t])
    BY <1>5, <1>6 DEF Directory
  <1>8. \A t, d : K(t, d) <=> \/ (t = s /\ d \in known)
                             \/ (t \in rest /\ Knows(t, d))
    <2>1. \A d : K(s, d) <=> d \in known
      BY <1>1, <1>2, <1>4, <1>6
    <2>2. \A t : t # s => \A d : K(t, d) <=> t \in rest /\ Knows(t, d)
      BY <1>6 DEF Knows
    <2>3. s \notin rest
      OBVIOUS
    <2> HIDE DEF K, rest
    <2> QED
      BY <2>1, <2>2, <2>3
  <1> HIDE DEF K
  <1>9. /\ DOMAIN kept = {d \in Daos : \E t \in rest : Knows(t, d)}
        /\ \A d \in DOMAIN kept : kept[d] = {t \in rest : Knows(t, d)}
    <2>1. {s} \in SUBSET DOMAIN serv_infos
      BY <1>1
    <2>2. IsIndexOf(kept, rest)
      BY <2>1, RemovedAgrees
    <2> HIDE DEF kept, rest
    <2> QED
      BY <2>2 DEF IsIndexOf
  <1> HIDE DEF kept
  <1>10. /\ DOMAIN dao_index' = DOMAIN kept \cup known
         /\ dao_index' = [d \in DOMAIN dao_index' |-> dao_index'[d]]
         /\ \A d \in DOMAIN dao_index' :
               dao_index'[d] = (IF d \in DOMAIN kept THEN kept[d] ELSE {})
                                   \cup (IF d \in known THEN {s} ELSE {})
    BY <1>1 DEF Entered
  <1>11. \A d \in DOMAIN dao_index' :
            dao_index'[d] = {t \in DOMAIN serv_infos : K(t, d)}
    <2>1. TAKE d \in DOMAIN dao_index'
    <2>2. d \in Daos
      BY <1>9, <1>10
    <2>3. (IF d \in DOMAIN kept THEN kept[d] ELSE {}) = {t \in rest : Knows(t, d)}
      BY <1>9, <2>2
    <2>4. dao_index'[d] = {t \in rest : Knows(t, d)} \cup (IF d \in known THEN {s} ELSE {})
      BY <1>10, <2>3
    <2>5. \A t : t \in DOMAIN serv_infos /\ K(t, d)
                  <=> (t \in rest /\ Knows(t, d)) \/ (t = s /\ d \in known)
      BY <1>1, <1>8
    <2> HIDE DEF rest
    <2>6. {t \in DOMAIN serv_infos : K(t, d)}
              = {t \in rest : Knows(t, d)} \cup (IF d \in known THEN {s} ELSE {})
      BY <2>5
    <2> QED
      BY <2>4, <2>6
  <1>12. DOMAIN dao_index' = {d \in Daos : \E t \in DOMAIN serv_infos : K(t, d)}
    <2>1. ASSUME NEW d \in Daos
          PROVE  (\E t \in DOMAIN serv_infos : K(t, d))
                     <=> d \in known \/ \E t \in rest : Knows(t, d)
      BY <1>1, <1>8
    <2> HIDE DEF rest
    <2>2. {d \in Daos : \E t \in DOMAIN serv_infos : K(t, d)}
              = {d \in Daos : d \in known \/ \E t \in rest : Knows(t, d)}
      BY <2>1
    <2> QED
      BY <1>9, <1>10, <2>2
  <1>13. IndexAgrees'
    <2>1. \A t \in DOMAIN serv_infos' : DOMAIN serv_infos'[t].daos \subseteq Daos
      BY <1>6, <1>7 DEF IsServInfo
    <2> QED
      BY <1>6, <1>11, <1>12, <2>1 DEF IndexAgrees, Knows, K
  <1>14. AddressesKnown'
    <2>1. \A t \in DOMAIN serv_infos : Named(serv_infos'[t]) = Named(serv_infos[t])
      BY <1>4, <1>6 DEF Named, old
    <2> QED
      BY <1>1, <1>6, <2>1 DEF Directory, AddressesKnown
  <1>15. dao_index' \in [DOMAIN dao_index' -> SUBSET Servers]
    BY <1>10, <1>11 DEF Directory
  <1> QED
    BY <1>1, <1>6, <1>7, <1>12, <1>13, <1>14, <1>15 DEF Directory

(* The record of a server that is configured anew.                         *)
LEMMA ConfiguredInfo ==
    ASSUME NEW c \in Confs, NEW s \in DOMAIN c
    PROVE  LET new == [ipports |-> c[s].ipports, groupid |-> c[s].groupid, daos |-> NoDaos]
           IN  /\ IsServInfo(new)
               /\ DOMAIN new.daos = {}
               /\ Named(new) = Named(c[s])
               /\ c[s].ipports \in Seq(Addresses)
               /\ c[s].ipports # <<>>
  <1> DEFINE new == [ipports |-> c[s].ipports, groupid |-> c[s].groupid, daos |-> NoDaos]
  <1>1. c[s].ipports \in Seq(Addresses) \ {<<>>} /\ c[s].groupid \in Groups
    BY ProxyAssumption DEF ServerConf
  <1>2. DOMAIN NoDaos = {} /\ NoDaos \in [DOMAIN NoDaos -> DaoInfo]
    BY DEF NoDaos
  <1>3. new \in [ipports : Seq(Addresses) \ {<<>>}, groupid : Groups, daos : {new.daos}]
    BY <1>1
  <1>4. IsServInfo(new)
    BY <1>2, <1>3 DEF IsServInfo
  <1>5. Named(new) = Named(c[s])
    BY DEF Named
  <1> QED
    BY <1>1, <1>2, <1>4, <1>5

LEMMA ReconfigureKeepsDirectory ==
    ASSUME Directory, NEW c \in Confs, Reconfigure(c)
    PROVE  Directory'
  <1> DEFINE fresh(s) == [ipports |-> c[s].ipports, groupid |-> c[s].groupid,
                          daos |-> NoDaos]
             rest == Kept(c)
             gone == DOMAIN serv_infos \ Kept(c)
             K(t, d) == t \in DOMAIN serv_infos' /\ d \in DOMAIN serv_infos'[t].daos
  <1>1. /\ serv_infos' = [s \in DOMAIN c |-> IF s \in rest THEN serv_infos[s] ELSE fresh(s)]
        /\ dao_index' = Removed(dao_index, gone)
    BY DEF Reconfigure
  <1>2. /\ DOMAIN bad' = UNION {Named(c[s]) : s \in DOMAIN c}
        /\ bad' \in [DOMAIN bad' -> BOOLEAN]
    <2>1. PICK worse : bad' = [a \in UNION {Named(c[s]) : s \in DOMAIN c} |->
                                  a \in worse \/ (a \in DOMAIN bad /\ bad[a])]
      BY DEF Reconfigure
    <2> QED
      BY <2>1
  <1>3. rest \subseteq DOMAIN c /\ rest \subseteq DOMAIN serv_infos
    BY DEF Kept
  <1>4. \A s \in rest : serv_infos[s].ipports = c[s].ipports
    BY DEF Kept
  <1>5. \A s \in DOMAIN c : /\ IsServInfo(fresh(s))
                            /\ DOMAIN fresh(s).daos = {}
                            /\ Named(fresh(s)) = Named(c[s])
    BY ConfiguredInfo
  <1> HIDE DEF fresh, rest
  <1>6. /\ DOMAIN serv_infos' = DOMAIN c
        /\ serv_infos' = [s \in DOMAIN c |-> serv_infos'[s]]
        /\ \A s \in rest : serv_infos'[s] = serv_infos[s]
        /\ \A s \in DOMAIN c : s \notin rest => serv_infos'[s] = fresh(s)
    BY <1>1, <1>3
  <1>7. \A s \in DOMAIN c : IsServInfo(serv_infos'[s])
    BY <1>3, <1>5, <1>6 DEF Directory
  <1>8. \A t, d : K(t, d) <=> t \in rest /\ Knows(t, d)
    BY <1>3, <1>5, <1>6 DEF Knows
  <1> HIDE DEF K
  <1>9. DOMAIN serv_infos \ gone = rest
    BY <1>3 DEF rest
  <1>10. /\ DOMAIN dao_index' = {d \in Daos : \E t \in rest : Knows(t, d)}
         /\ dao_index' = [d \in DOMAIN dao_index' |-> {t \in rest : Knows(t, d)}]
    <2>1. gone \in SUBSET DOMAIN serv_infos
      OBVIOUS
    <2> HIDE DEF gone
    <2>2. IsIndexOf(dao_index', rest)
      BY <1>1, <1>9, <2>1, RemovedAgrees
    <2> QED
      BY <2>2 DEF IsIndexOf
  <1>11. \A d : {t \in rest : Knows(t, d)} = {t \in DOMAIN c : K(t, d)}
    BY <1>3, <1>8
  <1>12. {d \in Daos : \E t \in rest : Knows(t, d)}
            = {d \in Daos : \E t \in DOMAIN c : K(t, d)}
    BY <1>3, <1>8
  <1>13. /\ DOMAIN dao_index' = {d \in Daos : \E t \in DOMAIN c : K(t, d)}
         /\ \A d \in DOMAIN dao_index' : dao_index'[d] = {t \in DOMAIN c : K(t, d)}
    BY <1>10, <1>11, <1>12
  <1>14. IndexAgrees'
    <2>1. \A t \in DOMAIN serv_infos' : DOMAIN serv_infos'[t].daos \subseteq Daos
      BY <1>6, <1>7 DEF IsServInfo
    <2> QED
      BY <1>6, <1>13, <2>1 DEF IndexAgrees, Knows, K
  <1>15. AddressesKnown'
    <2>1. \A s \in DOMAIN c : Named(serv_infos'[s]) = Named(c[s])
      BY <1>3, <1>4, <1>5, <1>6 DEF Named
    <2> QED
      BY <1>2, <1>6, <2>1 DEF AddressesKnown
  <1>16. DOMAIN c \subseteq Servers
    BY ProxyAssumption
  <1>17. dao_index' \in [DOMAIN dao_index' -> SUBSET Servers]
    BY <1>10, <1>11, <1>16
  <1> QED
    BY <1>2, <1>6, <1>7, <1>13, <1>14, <1>15, <1>16, <1>17 DEF Directory

LEMMA InitDirectory == Init => Directory
  <1> SUFFICES ASSUME Init PROVE Directory
    OBVIOUS
  <1> DEFINE fresh(c, s) == [ipports |-> c[s].ipports, groupid |-> c[s].groupid,
                             daos |-> NoDaos]
  <1>1. PICK c \in Confs :
           /\ serv_infos = [s \in DOMAIN c |-> fresh(c, s)]
           /\ bad = [a \in UNION {Named(c[s]) : s \in DOMAIN c} |-> FALSE]
    BY DEF Init
  <1>2. \A s \in DOMAIN c : /\ IsServInfo(fresh(c, s))
                            /\ DOMAIN fresh(c, s).daos = {}
                            /\ Named(fresh(c, s)) = Named(c[s])
    BY ConfiguredInfo
  <1> HIDE DEF fresh
  <1>3. dao_index = NoDaos /\ DOMAIN NoDaos = {} /\ NoDaos \in [DOMAIN NoDaos -> SUBSET Servers]
    BY DEF Init, NoDaos
  <1>4. /\ DOMAIN serv_infos = DOMAIN c /\ DOMAIN c \subseteq Servers
        /\ serv_infos = [s \in DOMAIN serv_infos |-> serv_infos[s]]
        /\ \A s \in DOMAIN serv_infos : IsServInfo(serv_infos[s])
    BY <1>1, <1>2, ProxyAssumption
  <1>5. IndexAgrees
    BY <1>1, <1>2, <1>3, <1>4 DEF IndexAgrees, Knows
  <1>6. AddressesKnown /\ bad \in [DOMAIN bad -> BOOLEAN]
    BY <1>1, <1>2, <1>4 DEF AddressesKnown
  <1> QED
    BY <1>3, <1>4, <1>5, <1>6 DEF Directory

LEMMA DirectoryStep ==
    ASSUME Directory, [Next]_vars
    PROVE  Directory'
  <1>1. CASE UNCHANGED vars
    <2>1. UNCHANGED directory /\ bad' \in [DOMAIN bad -> BOOLEAN]
      BY <1>1 DEF vars, directory, Directory
    <2> QED
      BY <2>1, UnchangedCounts, CountingKeepsDirectory
  <1>2. ASSUME NEW r, Throttled(r) \/ HandleTimeoutFreed(r) \/ NoServer(r)
        PROVE  Directory'
    <2>1. UNCHANGED directory /\ bad' \in [DOMAIN bad -> BOOLEAN]
      BY <1>2 DEF Throttled, NoServer, HandleTimeoutFreed, directory, Directory
    <2> QED
      BY <2>1, UnchangedCounts, CountingKeepsDirectory
  <1>3. ASSUME NEW r, NEW d, NEW s,
               NoConnection(r, d, s) \/ SendFails(r, d, s) \/ Sent(r, d, s)
        PROVE  Directory'
    BY <1>3, StartCounts, CountingKeepsDirectory
  <1>4. ASSUME NEW r, HandleTimeout(r) \/ \E free \in 0..MaxFree : OnResponse(r, free)
        PROVE  Directory'
    BY <1>4, EndCounts, CountingKeepsDirectory
  <1>5. ASSUME NEW s, NEW known \in SUBSET Daos, NEW free \in [known -> 0..MaxFree],
               PollAnswer(s, free)
        PROVE  Directory'
    BY <1>5, PollKeepsDirectory
  <1>6. ASSUME NEW c \in Confs, Reconfigure(c)
        PROVE  Directory'
    BY <1>6, ReconfigureKeepsDirectory
  <1>7. CASE HealthChanges
    <2>1. UNCHANGED directory /\ bad' \in [DOMAIN bad -> BOOLEAN]
      BY <1>7 DEF HealthChanges, directory
    <2> QED
      BY <2>1, UnchangedCounts, CountingKeepsDirectory
  <1> QED
    BY <1>1, <1>2, <1>3, <1>4, <1>5, <1>6, <1>7 DEF Next, Timeout

---------------------------------------------------------------------------
(* The requests, their timers and their answers.                           *)
LEMMA EndKeepsLife ==
    ASSUME Life, NEW r \in Requests, Is(r, "new") \/ Is(r, "waiting"),
           End(r), SendResp(r) \/ UNCHANGED answered
    PROVE  Life'
  <1>1. /\ fsm' \in [Requests -> {NewFsm, EndedFsm} \cup SentFsm]
        /\ fsm'[r].state = "ended"
        /\ \A q \in Requests : q # r => fsm'[q] = fsm[q]
    BY DEF Life, End, EndedFsm
  <1>2. timers' = timers \ {r}
    BY DEF End
  <1>3. answered[r] = 0 /\ answered \in [Requests -> Nat]
    BY DEF Life, OneAnswer
  <1>4. /\ answered' \in [Requests -> Nat]
        /\ answered'[r] \in {0, 1}
        /\ \A q \in Requests : q # r => answered'[q] = answered[q]
    <2>1. CASE SendResp(r)
      <3>1. PICK took \in {0, 1} : answered' = [answered EXCEPT ![r] = @ + took]
        BY <2>1 DEF SendResp
      <3> QED
        BY <1>3, <3>1
    <2>2. CASE UNCHANGED answered
      BY <1>3, <2>2
    <2> QED
      BY <2>1, <2>2
  <1>5. TimerIffWaiting'
    BY <1>1, <1>2 DEF Life, TimerIffWaiting, Is
  <1>6. OneAnswer'
    BY <1>1, <1>4 DEF Life, OneAnswer, Is
  <1> QED
    BY <1>1, <1>2, <1>4, <1>5, <1>6 DEF Life

LEMMA SentKeepsLife ==
    ASSUME Directory, Life, NEW r \in Requests, NEW d, NEW s, Sent(r, d, s)
    PROVE  Life'
  <1>1. Is(r, "new") /\ Selected(r, d, s)
    BY DEF Sent, Selected
  <1>2. s \in Servers /\ d \in Daos /\ BestAddress(s) \in Addresses
    BY <1>1, SelectedFacts
  <1> DEFINE sent == [state |-> "waiting", server |-> s, dao |-> d, to |-> BestAddress(s)]
  <1>3. /\ fsm' = [fsm EXCEPT ![r] = sent]
        /\ timers' = timers \cup {r} /\ UNCHANGED answered
    BY DEF Sent
  <1>4. sent \in SentFsm /\ sent.state = "waiting"
    BY <1>2 DEF SentFsm
  <1> HIDE DEF sent
  <1>5. /\ fsm' \in [Requests -> {NewFsm, EndedFsm} \cup SentFsm]
        /\ fsm'[r].state = "waiting"
        /\ \A q \in Requests : q # r => fsm'[q] = fsm[q]
    BY <1>3, <1>4 DEF Life
  <1> QED
    BY <1>1, <1>3, <1>5 DEF Life, TimerIffWaiting, OneAnswer, Is

LEMMA FreedKeepsLife ==
    ASSUME Life, NEW r \in Requests, HandleTimeoutFreed(r)
    PROVE  Life'
  <1>1. /\ fsm' = [fsm EXCEPT ![r].state = "leaked"]
        /\ timers' = timers \ {r} /\ UNCHANGED answered /\ Is(r, "waiting")
    BY DEF HandleTimeoutFreed, Life, TimerIffWaiting
  <1>2. fsm[r] \in SentFsm
    BY <1>1 DEF Life, Is, NewFsm, EndedFsm
  <1> DEFINE old == fsm[r]
             leaked == [old EXCEPT !.state = "leaked"]
  <1>3. leaked \in SentFsm /\ leaked.state = "leaked"
    BY <1>2 DEF SentFsm
  <1>4. fsm' = [fsm EXCEPT ![r] = leaked]
    BY <1>1
  <1> HIDE DEF leaked, old
  <1>5. /\ fsm' \in [Requests -> {NewFsm, EndedFsm} \cup SentFsm]
        /\ fsm'[r].state = "leaked"
        /\ \A q \in Requests : q # r => fsm'[q] = fsm[q]
    BY <1>3, <1>4 DEF Life
  <1> QED
    BY <1>1, <1>5 DEF Life, TimerIffWaiting, OneAnswer, Is

LEMMA LifeStep ==
    ASSUME Directory, Life, [Next]_vars
    PROVE  Life'
  <1>1. ASSUME UNCHANGED <<fsm, timers, answered>> PROVE Life'
    BY <1>1 DEF Life, TimerIffWaiting, OneAnswer, Is
  <1>2. ASSUME NEW r \in Requests,
               \/ Throttled(r)
               \/ NoServer(r)
               \/ \E d \in Daos, s \in Servers : NoConnection(r, d, s) \/ SendFails(r, d, s)
        PROVE  Life'
    <2>1. Is(r, "new") /\ End(r) /\ (SendResp(r) \/ UNCHANGED answered)
      BY <1>2 DEF Throttled, NoServer, NoConnection, SendFails, Selected
    <2> QED
      BY <2>1, EndKeepsLife
  <1>3. ASSUME NEW r \in Requests,
               HandleTimeout(r) \/ \E free \in 0..MaxFree : OnResponse(r, free)
        PROVE  Life'
    <2>1. Is(r, "waiting") /\ End(r) /\ SendResp(r)
      BY <1>3 DEF HandleTimeout, OnResponse, Life, TimerIffWaiting
    <2> QED
      BY <2>1, EndKeepsLife
  <1>4. ASSUME NEW r \in Requests, NEW d, NEW s, Sent(r, d, s) PROVE Life'
    BY <1>4, SentKeepsLife
  <1>5. ASSUME NEW r \in Requests, HandleTimeoutFreed(r) PROVE Life'
    BY <1>5, FreedKeepsLife
  <1>6. ASSUME \/ UNCHANGED vars
               \/ HealthChanges
               \/ \E c \in Confs : Reconfigure(c)
               \/ \E s \in Servers, known \in SUBSET Daos :
                     \E free \in [known -> 0..MaxFree] : PollAnswer(s, free)
        PROVE  UNCHANGED <<fsm, timers, answered>>
    BY <1>6 DEF vars, HealthChanges, Reconfigure, PollAnswer
  <1> QED
    BY <1>1, <1>2, <1>3, <1>4, <1>5, <1>6 DEF Next, Timeout

---------------------------------------------------------------------------
(* The counts of the directory and the requests.                           *)
LEMMA OutstandingFinite ==
    ASSUME NEW s, NEW d
    PROVE  /\ IsFiniteSet(Outstanding(s, d))
           /\ Cardinality(Outstanding(s, d)) \in Nat
           /\ IsFiniteSet(Outstanding(s, d)')
           /\ Cardinality(Outstanding(s, d)') \in Nat
  <1>1. Outstanding(s, d) \subseteq Requests /\ Outstanding(s, d)' \subseteq Requests
    BY DEF Outstanding
  <1> QED
    BY <1>1, ProxyAssumption, FS_Subset, FS_CardinalityType

(* What a step does to the count of a DAO it leaves in the directory: the  *)
(* count follows the requests under way, but is not counted below 0; a DAO *)
(* that is new starts at 0.                                                *)
Follows(s, d) ==
    \/ /\ Outstanding(s, d)' = Outstanding(s, d)
       /\ At(s, d)'.sending = IF Knows(s, d) THEN At(s, d).sending ELSE 0
    \/ /\ Knows(s, d)
       /\ \E r \in Requests \ Outstanding(s, d) :
             Outstanding(s, d)' = Outstanding(s, d) \cup {r}
       /\ At(s, d)'.sending = At(s, d).sending + 1
    \/ /\ Knows(s, d)
       /\ \E r \in Outstanding(s, d) :
             Outstanding(s, d)' = Outstanding(s, d) \ {r}
       /\ At(s, d)'.sending = IF At(s, d).sending > 0 THEN At(s, d).sending - 1 ELSE 0

CountsFollow == \A s, d : Knows(s, d)' => Follows(s, d)

LEMMA SameRequests ==
    ASSUME \A s, d : Outstanding(s, d)' = Outstanding(s, d),
           \A s, d : Knows(s, d)' =>
               At(s, d)'.sending = IF Knows(s, d) THEN At(s, d).sending ELSE 0
    PROVE  CountsFollow
  BY DEF CountsFollow, Follows

(* A request that ends before it was sent was not counted.                 *)
LEMMA NewEnds ==
    ASSUME Life, NEW r \in Requests, Is(r, "new"), End(r)
    PROVE  \A s, d : Outstanding(s, d)' = Outstanding(s, d)
  <1>1. /\ fsm'[r].state = "ended"
        /\ \A q \in Requests : q # r => fsm'[q] = fsm[q]
    BY DEF Life, End, EndedFsm
  <1> QED
    BY <1>1 DEF Outstanding, Is

LEMMA WaitingEnds ==
    ASSUME Life, NEW r \in Requests, Is(r, "waiting"), End(r)
    PROVE  /\ r \in Outstanding(fsm[r].server, fsm[r].dao)
           /\ \A s, d : Outstanding(s, d)' = Outstanding(s, d) \ {r}
           /\ \A s, d : ~ (s = fsm[r].server /\ d = fsm[r].dao)
                            => Outstanding(s, d)' = Outstanding(s, d)
  <1>1. /\ fsm'[r].state = "ended"
        /\ \A q \in Requests : q # r => fsm'[q] = fsm[q]
    BY DEF Life, End, EndedFsm
  <1> QED
    BY <1>1 DEF Outstanding, Is

(* The count follows a request that ends with its answer or its timer.     *)
LEMMA EndIsCounted ==
    ASSUME Directory, Life, NEW r \in Requests, Is(r, "waiting"), End(r),
           NEW s, NEW d, s = fsm[r].server, d = fsm[r].dao,
           NEW info,
           Knows(s, d) => /\ info \in DaoInfo
                          /\ info.sending = IF At(s, d).sending > 0
                                            THEN At(s, d).sending - 1 ELSE 0,
           serv_infos' = Change(s, d, info)
    PROVE  CountsFollow
  <1>1. Changed(s, d, info)
    BY ChangeEntries
  <1>2. /\ r \in Outstanding(s, d)
        /\ \A t, e : Outstanding(t, e)' = Outstanding(t, e) \ {r}
        /\ \A t, e : ~ (t = s /\ e = d) => Outstanding(t, e)' = Outstanding(t, e)
    BY WaitingEnds
  <1> SUFFICES ASSUME NEW t, NEW e, Knows(t, e)' PROVE Follows(t, e)
    BY DEF CountsFollow
  <1>3. Knows(t, e)
    BY <1>1 DEF Changed, Knows
  <1>4. CASE ~ (t = s /\ e = d)
    BY <1>1, <1>2, <1>3, <1>4 DEF Follows, At, Changed, Knows
  <1>5. CASE t = s /\ e = d
    <2>1. At(t, e)' = info
      BY <1>1, <1>3, <1>5 DEF At, Changed, Knows
    <2> QED
      BY <1>2, <1>3, <1>5, <2>1, SMTT(30) DEF Follows
  <1> QED
    BY <1>4, <1>5

LEMMA ResponseIsCounted ==
    ASSUME Directory, Life, NEW r \in Requests,
           HandleTimeout(r) \/ \E free \in 0..MaxFree : OnResponse(r, free)
    PROVE  CountsFollow
  <1>1. Is(r, "waiting") /\ End(r)
    BY DEF HandleTimeout, OnResponse, Life, TimerIffWaiting
  <1>2. PICK s, d : s = fsm[r].server /\ d = fsm[r].dao
    OBVIOUS
  <1>3. AtRequest(r) = At(s, d)
    BY <1>2 DEF AtRequest
  <1>4. Knows(s, d) => At(s, d) \in DaoInfo
    BY KnownInfo
  <1>5. PICK info : /\ serv_infos' = Change(s, d, info)
                    /\ \/ info = EndRecvOne(At(s, d))
                       \/ \E free \in 0..MaxFree :
                             info = [EndRecvOne(At(s, d)) EXCEPT !.free = free]
    BY <1>2, <1>3 DEF HandleTimeout, OnResponse
  <1>6. Knows(s, d) => /\ info \in DaoInfo
                       /\ info.sending = IF At(s, d).sending > 0
                                         THEN At(s, d).sending - 1 ELSE 0
    <2>1. SUFFICES ASSUME Knows(s, d)
                   PROVE  /\ info \in DaoInfo
                          /\ info.sending = IF At(s, d).sending > 0
                                            THEN At(s, d).sending - 1 ELSE 0
      OBVIOUS
    <2>2. /\ EndRecvOne(At(s, d)) \in DaoInfo
          /\ EndRecvOne(At(s, d)).sending = IF At(s, d).sending > 0
                                            THEN At(s, d).sending - 1 ELSE 0
      BY <1>4, <2>1, InfoOperators
    <2>3. CASE info = EndRecvOne(At(s, d))
      BY <2>2, <2>3
    <2>4. ASSUME NEW free \in 0..MaxFree, info = [EndRecvOne(At(s, d)) EXCEPT !.free = free]
          PROVE  info \in DaoInfo /\ info.sending = EndRecvOne(At(s, d)).sending
      BY <1>4, <2>1, <2>4, InfoOperators
    <2> QED
      BY <1>5, <2>2, <2>3, <2>4
  <1> QED
    BY <1>1, <1>2, <1>5, <1>6, EndIsCounted

(* A request that is sent is counted once more, and is one more.           *)
LEMMA SentIsCounted ==
    ASSUME Directory, Life, NEW r \in Requests, NEW d, NEW s, Sent(r, d, s)
    PROVE  CountsFollow
  <1> DEFINE info == StartSendOne(PredictSendOne(At(s, d)))
  <1>1. Is(r, "new") /\ Selected(r, d, s)
    BY DEF Sent, Selected
  <1>2. Knows(s, d) /\ At(s, d) \in DaoInfo
    BY <1>1, SelectedFacts, KnownInfo
  <1>3. info \in DaoInfo /\ info.sending = At(s, d).sending + 1 /\ At(s, d).sending \in Nat
    BY <1>2, InfoOperators DEF DaoInfo
  <1>4. serv_infos' = Change(s, d, info)
    BY DEF Sent
  <1>5. /\ fsm'[r].state = "waiting" /\ fsm'[r].server = s /\ fsm'[r].dao = d
        /\ \A q \in Requests : q # r => fsm'[q] = fsm[q]
    BY DEF Sent, Life
  <1> HIDE DEF info
  <1>6. PICK new : new = info
    OBVIOUS
  <1>7. Changed(s, d, new)
    BY <1>3, <1>4, <1>6, ChangeEntries
  <1>8. /\ r \notin Outstanding(s, d)
        /\ Outstanding(s, d)' = Outstanding(s, d) \cup {r}
        /\ \A t, e : t # s \/ e # d => Outstanding(t, e)' = Outstanding(t, e)
    BY <1>1, <1>5 DEF Outstanding, Is
  <1> SUFFICES ASSUME NEW t, NEW e, Knows(t, e)' PROVE Follows(t, e)
    BY DEF CountsFollow
  <1>9. Knows(t, e)
    BY <1>7 DEF Changed, Knows
  <1>10. CASE t # s \/ e # d
    BY <1>7, <1>8, <1>9, <1>10 DEF Follows, At, Changed, Knows
  <1>11. CASE t = s /\ e = d
    <2>1. At(t, e)' = new
      BY <1>7, <1>9, <1>11 DEF At, Changed, Knows
    <2> QED
      BY <1>3, <1>6, <1>8, <1>9, <1>11, <2>1 DEF Follows
  <1> QED
    BY <1>10, <1>11

(* A request that fails before it was sent took a free place at most.      *)
LEMMA FailedIsNotCounted ==
    ASSUME Directory, Life, NEW r \in Requests, NEW d, NEW s,
           NoConnection(r, d, s) \/ SendFails(r, d, s)
    PROVE  CountsFollow
  <1> DEFINE info == PredictSendOne(At(s, d))
  <1>1. Is(r, "new") /\ Selected(r, d, s) /\ End(r)
    BY DEF NoConnection, SendFails, Selected
  <1>2. Knows(s, d) /\ At(s, d) \in DaoInfo
    BY <1>1, SelectedFacts, KnownInfo
  <1>3. info \in DaoInfo /\ info.sending = At(s, d).sending
    BY <1>2, InfoOperators
  <1>4. serv_infos' = Change(s, d, info)
    BY DEF NoConnection, SendFails
  <1> HIDE DEF info
  <1>5. PICK new : new = info
    OBVIOUS
  <1>6. Changed(s, d, new)
    BY <1>3, <1>4, <1>5, ChangeEntries
  <1>7. \A t, e : Outstanding(t, e)' = Outstanding(t, e)
    BY <1>1, NewEnds
  <1> SUFFICES ASSUME NEW t, NEW e, Knows(t, e)' PROVE Follows(t, e)
    BY DEF CountsFollow
  <1>8. Knows(t, e) /\ At(t, e)'.sending = At(t, e).sending
    BY <1>3, <1>5, <1>6 DEF At, Changed, Knows
  <1> QED
    BY <1>7, <1>8 DEF Follows

LEMMA StepIsCounted ==
    ASSUME Directory, Life, [Next]_vars
    PROVE  CountsFollow
  <1>1. ASSUME NEW r \in Requests, Throttled(r) \/ NoServer(r)
        PROVE  CountsFollow
    <2>1. Is(r, "new") /\ End(r) /\ UNCHANGED serv_infos
      BY <1>1 DEF Throttled, NoServer
    <2>2. \A s, d : Outstanding(s, d)' = Outstanding(s, d)
      BY <2>1, NewEnds
    <2> QED
      BY <2>1, <2>2, SameRequests DEF Knows, At
  <1>2. ASSUME NEW r \in Requests, NEW d, NEW s, NoConnection(r, d, s) \/ SendFails(r, d, s)
        PROVE  CountsFollow
    BY <1>2, FailedIsNotCounted
  <1>3. ASSUME NEW r \in Requests, NEW d, NEW s, Sent(r, d, s)
        PROVE  CountsFollow
    BY <1>3, SentIsCounted
  <1>4. ASSUME NEW r \in Requests,
               HandleTimeout(r) \/ \E free \in 0..MaxFree : OnResponse(r, free)
        PROVE  CountsFollow
    BY <1>4, ResponseIsCounted
  <1>5. ASSUME NEW r \in Requests, HandleTimeoutFreed(r)
        PROVE  CountsFollow
    <2>1. Is(r, "waiting") /\ UNCHANGED serv_infos
      BY <1>5 DEF HandleTimeoutFreed, Life, TimerIffWaiting
    <2>2. fsm[r] \in SentFsm
      BY <2>1 DEF Life, Is, NewFsm, EndedFsm
    <2>3. /\ fsm'[r].state = "leaked"
          /\ fsm'[r].server = fsm[r].server /\ fsm'[r].dao = fsm[r].dao
          /\ \A q \in Requests : q # r => fsm'[q] = fsm[q]
      BY <1>5, <2>2 DEF HandleTimeoutFreed, Life, SentFsm
    <2>4. \A s, d : Outstanding(s, d)' = Outstanding(s, d)
      BY <2>1, <2>3 DEF Outstanding, Is
    <2> QED
      BY <2>1, <2>4, SameRequests DEF Knows, At
  <1>6. ASSUME UNCHANGED <<serv_infos, fsm>>
        PROVE  CountsFollow
    BY <1>6, SameRequests DEF Outstanding, Is, At, Knows
  <1>7. ASSUME NEW c \in Confs, Reconfigure(c)
        PROVE  CountsFollow
    <2>1. /\ UNCHANGED fsm
          /\ serv_infos' = [s \in DOMAIN c |->
                IF s \in Kept(c) THEN serv_infos[s]
                ELSE [ipports |-> c[s].ipports, groupid |-> c[s].groupid, daos |-> NoDaos]]
      BY <1>7 DEF Reconfigure
    <2>2. \A s, d : Outstanding(s, d)' = Outstanding(s, d)
      BY <2>1 DEF Outstanding, Is
    <2>3. Kept(c) \subseteq DOMAIN serv_infos
      BY DEF Kept
    <2>4. ASSUME NEW s, NEW d, s \in DOMAIN serv_infos', d \in DOMAIN serv_infos'[s].daos
          PROVE  /\ Knows(s, d)
                 /\ serv_infos'[s].daos[d] = serv_infos[s].daos[d]
      <3>1. CASE s \in Kept(c)
        BY <2>1, <2>3, <2>4, <3>1 DEF Knows
      <3>2. CASE s \notin Kept(c)
        BY <2>1, <2>4, <3>2 DEF NoDaos
      <3> QED
        BY <3>1, <3>2
    <2> QED
      BY <2>2, <2>4, SameRequests DEF Knows, At
  <1>8. ASSUME NEW s, NEW known \in SUBSET Daos, NEW free \in [known -> 0..MaxFree],
               PollAnswer(s, free)
        PROVE  CountsFollow
    <2> DEFINE daos == [d \in known |->
                          [free |-> free[d],
                           sending |-> IF Knows(s, d) THEN At(s, d).sending ELSE 0]]
    <2>1. /\ s \in DOMAIN serv_infos /\ UNCHANGED fsm
          /\ serv_infos' = [serv_infos EXCEPT ![s].daos = daos]
      BY <1>8 DEF PollAnswer
    <2>2. \A t, d : Outstanding(t, d)' = Outstanding(t, d)
      BY <2>1 DEF Outstanding, Is
    <2>3. /\ DOMAIN daos = known
          /\ \A d \in known :
                daos[d].sending = IF Knows(s, d) THEN At(s, d).sending ELSE 0
      OBVIOUS
    <2> DEFINE new == [serv_infos[s] EXCEPT !.daos = daos]
    <2>4. serv_infos' = [serv_infos EXCEPT ![s] = new]
      BY <2>1
    <2>5. IsServInfo(serv_infos[s])
      BY <2>1 DEF Directory
    <2> HIDE DEF daos
    <2>6. new.daos = daos
      BY <2>5 DEF IsServInfo
    <2> HIDE DEF new
    <2>7. /\ DOMAIN serv_infos' = DOMAIN serv_infos
          /\ \A t \in DOMAIN serv_infos :
                serv_infos'[t] = IF t = s THEN new ELSE serv_infos[t]
      BY <2>1, <2>4 DEF Directory
    <2>8. ASSUME NEW t, NEW d, t \in DOMAIN serv_infos', d \in DOMAIN serv_infos'[t].daos
          PROVE  serv_infos'[t].daos[d].sending =
                     IF Knows(t, d) THEN At(t, d).sending ELSE 0
      <3>1. CASE t = s
        BY <2>3, <2>6, <2>7, <2>8, <3>1
      <3>2. CASE t # s
        BY <2>7, <2>8, <3>2 DEF Knows, At
      <3> QED
        BY <3>1, <3>2
    <2> QED
      BY <2>2, <2>8, SameRequests DEF Knows, At
  <1>9. CASE UNCHANGED vars \/ HealthChanges
    BY <1>6, <1>9 DEF vars, HealthChanges
  <1> QED
    BY <1>1, <1>2, <1>3, <1>4, <1>5, <1>7, <1>8, <1>9 DEF Next, Timeout

(* What the step did to the counts keeps them from being too high.         *)
LEMMA CountsStep ==
    ASSUME Directory, NotOvercounted, CountsFollow
    PROVE  NotOvercounted'
  <1> SUFFICES ASSUME NEW s \in DOMAIN serv_infos', NEW d \in DOMAIN serv_infos'[s].daos
               PROVE  At(s, d)'.sending <= Cardinality(Outstanding(s, d)')
    BY DEF NotOvercounted
  <1>1. Follows(s, d)
    BY DEF CountsFollow, Knows
  <1>2. Knows(s, d) => /\ At(s, d).sending \in Nat
                       /\ At(s, d).sending <= Cardinality(Outstanding(s, d))
    BY KnownInfo DEF DaoInfo, NotOvercounted, Knows
  <1>3. /\ Cardinality(Outstanding(s, d)) \in Nat
        /\ Cardinality(Outstanding(s, d)') \in Nat
    BY OutstandingFinite
  <1>4. \A r : /\ r \notin Outstanding(s, d)
               /\ Outstanding(s, d)' = Outstanding(s, d) \cup {r}
               => Cardinality(Outstanding(s, d)') = Cardinality(Outstanding(s, d)) + 1
    BY OutstandingFinite, FS_AddElement
  <1>5. \A r : /\ r \in Outstanding(s, d)
               /\ Outstanding(s, d)' = Outstanding(s, d) \ {r}
               => Cardinality(Outstanding(s, d)') = Cardinality(Outstanding(s, d)) - 1
    BY OutstandingFinite, FS_RemoveElement
  <1> QED
    BY <1>1, <1>2, <1>3, <1>4, <1>5 DEF Follows

---------------------------------------------------------------------------
LEMMA InitInvariant == Init => IInv
  <1> SUFFICES ASSUME Init PROVE IInv
    OBVIOUS
  <1>1. Directory
    BY InitDirectory
  <1>2. /\ fsm = [r \in Requests |-> NewFsm] /\ timers = {}
        /\ answered = [r \in Requests |-> 0]
    BY DEF Init
  <1>3. Life
    BY <1>2 DEF Life, TimerIffWaiting, OneAnswer, Is, NewFsm
  <1>4. \A s \in DOMAIN serv_infos : DOMAIN serv_infos[s].daos = {}
    BY DEF Init, NoDaos
  <1>5. NotOvercounted
    BY <1>4 DEF NotOvercounted
  <1> QED
    BY <1>1, <1>3, <1>5 DEF IInv

(* The three parts of IInv hold together in every state: counts need the   *)
(* requests and timers (Life), these the directory they choose from.       *)
THEOREM Inductive == Spec => []IInv
  <1>1. IInv /\ [Next]_vars => IInv'
    BY DirectoryStep, LifeStep, StepIsCounted, CountsStep DEF IInv
  <1> QED
    BY <1>1, InitInvariant, PTL DEF Spec

(* Every variable keeps its type.                                          *)
THEOREM TypeCorrect == Spec => []TypeOK
  <1>1. IInv => TypeOK
    BY DEF IInv, Directory, Life, TypeOK
  <1> QED
    BY <1>1, Inductive, PTL

(* The index of DAOs is always the inverse of the directory of servers,    *)
(* whatever poll answers and configurations come in whatever order.        *)
THEOREM DirectoryAgrees == Spec => []IndexAgrees
  <1>1. IInv => IndexAgrees
    BY DEF IInv, Directory
  <1> QED
    BY <1>1, Inductive, PTL

(* The two managers always know the same addresses.                        *)
THEOREM ManagersAgree == Spec => []AddressesKnown
  <1>1. IInv => AddressesKnown
    BY DEF IInv, Directory
  <1> QED
    BY <1>1, Inductive, PTL

(* A client gets at most one answer to a request, and none while it waits. *)
THEOREM AnsweredOnce == Spec => []OneAnswer
  <1>1. IInv => OneAnswer
    BY DEF IInv, Life
  <1> QED
    BY <1>1, Inductive, PTL

(* No timer outlives its request, and no request waits without one.        *)
THEOREM TimersOfWaiting == Spec => []TimerIffWaiting
  <1>1. IInv => TimerIffWaiting
    BY DEF IInv, Life
  <1> QED
    BY <1>1, Inductive, PTL

(* The count of a DAO never exceeds the requests under way to it.          *)
THEOREM NeverOvercounted == Spec => []NotOvercounted
  <1>1. IInv => NotOvercounted
    BY DEF IInv
  <1> QED
    BY <1>1, Inductive, PTL
---------------------------------------------------------------------------
(* A directory that forgets no DAO.  A report that leaves a DAO out or a   *)
(* configuration that drops its server loses the count, and the requests   *)
(* still under way are then taken off the count of those that come later.  *)
Forgets == \E s \in Servers, d \in Daos : Knows(s, d) /\ ~ Knows(s, d)'

CountedExactly ==
    \A s \in DOMAIN serv_infos : \A d \in DOMAIN serv_infos[s].daos :
        At(s, d).sending = Cardinality(Outstanding(s, d))

(* Who was sent, was sent to a DAO that is still known.                    *)
SentKnown == \A s, d : Outstanding(s, d) # {} => Knows(s, d)

ExactInv == CountedExactly /\ SentKnown

LEMMA ExactInit == Init => ExactInv
  <1> SUFFICES ASSUME Init PROVE ExactInv
    OBVIOUS
  <1>1. \A s \in DOMAIN serv_infos : DOMAIN serv_infos[s].daos = {}
    BY DEF Init, NoDaos
  <1>2. \A s, d : Outstanding(s, d) = {}
    BY DEF Init, Outstanding, Is, NewFsm
  <1> QED
    BY <1>1, <1>2 DEF ExactInv, CountedExactly, SentKnown

(* Only sending a request makes one more, and that to a known DAO.         *)
LEMMA OnlySentAdds ==
    ASSUME Directory, Life, [Next]_vars, NEW s, NEW d
    PROVE  \/ Outstanding(s, d)' \subseteq Outstanding(s, d)
           \/ Knows(s, d) /\ s \in Servers /\ d \in Daos
  <1>1. ASSUME NEW r \in Requests, End(r)
        PROVE  Outstanding(s, d)' \subseteq Outstanding(s, d)
    <2>1. /\ fsm'[r].state = "ended"
          /\ \A q \in Requests : q # r => fsm'[q] = fsm[q]
      BY <1>1 DEF Life, End, EndedFsm
    <2> QED
      BY <2>1 DEF Outstanding, Is
  <1>2. ASSUME NEW r \in Requests, NEW e, NEW t, Sent(r, e, t)
        PROVE  \/ Outstanding(s, d)' \subseteq Outstanding(s, d)
               \/ Knows(s, d) /\ s \in Servers /\ d \in Daos
    <2>1. Knows(t, e) /\ t \in Servers /\ e \in Daos
      BY <1>2, SelectedFacts DEF Sent
    <2>2. /\ fsm'[r].server = t /\ fsm'[r].dao = e
          /\ \A q \in Requests : q # r => fsm'[q] = fsm[q]
      BY <1>2 DEF Sent, Life
    <2>3. CASE s = t /\ d = e
      BY <2>1, <2>3
    <2>4. CASE ~ (s = t /\ d = e)
      BY <2>2, <2>4 DEF Outstanding, Is
    <2> QED
      BY <2>3, <2>4
  <1>3. ASSUME NEW r \in Requests, HandleTimeoutFreed(r)
        PROVE  Outstanding(s, d)' \subseteq Outstanding(s, d)
    <2>1. Is(r, "waiting") /\ fsm[r] \in SentFsm
      BY <1>3 DEF HandleTimeoutFreed, Life, TimerIffWaiting, Is, NewFsm, EndedFsm
    <2>2. /\ fsm'[r].server = fsm[r].server /\ fsm'[r].dao = fsm[r].dao
          /\ \A q \in Requests : q # r => fsm'[q] = fsm[q]
      BY <1>3, <2>1 DEF HandleTimeoutFreed, Life, SentFsm
    <2> QED
      BY <2>1, <2>2 DEF Outstanding, Is
  <1>4. ASSUME UNCHANGED fsm
        PROVE  Outstanding(s, d)' \subseteq Outstanding(s, d)
    BY <1>4 DEF Outstanding, Is
  <1>5. \/ \E r \in Requests : End(r) \/ HandleTimeoutFreed(r)
        \/ \E r \in Requests, e \in Daos, t \in Servers : Sent(r, e, t)
        \/ UNCHANGED fsm
    BY DEF Next, vars, Throttled, NoServer, NoConnection, SendFails, OnResponse, Timeout,
       HandleTimeout, PollAnswer, Reconfigure, HealthChanges
  <1> QED
    BY <1>1, <1>2, <1>3, <1>4, <1>5

LEMMA ExactStep ==
    ASSUME Directory, Life, ExactInv, [Next]_vars, ~ Forgets
    PROVE  ExactInv'
  <1>1. SentKnown'
    <2> SUFFICES ASSUME NEW s, NEW d, Outstanding(s, d)' # {} PROVE Knows(s, d)'
      BY DEF SentKnown
    <2>1. Knows(s, d)
      BY OnlySentAdds DEF ExactInv, SentKnown
    <2>2. s \in Servers /\ d \in Daos
      BY <2>1 DEF Directory, Knows, IsServInfo
    <2> QED
      BY <2>1, <2>2 DEF Forgets
  <1>2. CountedExactly'
    <2> SUFFICES ASSUME NEW s \in DOMAIN serv_infos', NEW d \in DOMAIN serv_infos'[s].daos
                 PROVE  At(s, d)'.sending = Cardinality(Outstanding(s, d)')
      BY DEF CountedExactly
    <2>1. Follows(s, d)
      BY StepIsCounted DEF CountsFollow, Knows
    <2>2. Knows(s, d) => At(s, d).sending = Cardinality(Outstanding(s, d))
      BY DEF ExactInv, CountedExactly, Knows
    <2>3. ~ Knows(s, d) => Cardinality(Outstanding(s, d)) = 0
      BY FS_EmptySet DEF ExactInv, SentKnown
    <2>4. /\ IsFiniteSet(Outstanding(s, d))
          /\ Cardinality(Outstanding(s, d)) \in Nat
          /\ Cardinality(Outstanding(s, d)') \in Nat
      BY OutstandingFinite
    <2>5. \A r : /\ r \notin Outstanding(s, d)
                 /\ Outstanding(s, d)' = Outstanding(s, d) \cup {r}
                 => Cardinality(Outstanding(s, d)') = Cardinality(Outstanding(s, d)) + 1
      BY <2>4, FS_AddElement
    <2>6. \A r : /\ r \in Outstanding(s, d)
                 /\ Outstanding(s, d)' = Outstanding(s, d) \ {r}
                 => Cardinality(Outstanding(s, d)') = Cardinality(Outstanding(s, d)) - 1
      BY <2>4, FS_RemoveElement
    <2> QED
      BY <2>1, <2>2, <2>3, <2>4, <2>5, <2>6 DEF Follows
  <1> QED
    BY <1>1, <1>2 DEF ExactInv

(* As long as no DAO is forgotten, the count of each is the number of the  *)
(* requests that wait for it and of those deleted half way through their   *)
(* timeout (start_send_one, end_recv_one).                                 *)
THEOREM ExactUnlessForgotten == Spec /\ [][~ Forgets]_vars => []CountedExactly
  <1>1. IInv /\ ExactInv /\ [Next]_vars /\ [~ Forgets]_vars => ExactInv'
    <2>1. IInv /\ ExactInv /\ UNCHANGED vars => ExactInv'
      <3> SUFFICES ASSUME ExactInv, UNCHANGED vars PROVE ExactInv'
        OBVIOUS
      <3>1. UNCHANGED <<serv_infos, fsm>>
        BY DEF vars
      <3>2. \A s, d : /\ Outstanding(s, d)' = Outstanding(s, d)
                      /\ Knows(s, d)' <=> Knows(s, d)
        BY <3>1 DEF Outstanding, Is, Knows
      <3>3. SentKnown'
        BY <3>2 DEF ExactInv, SentKnown
      <3>4. CountedExactly'
        <4> SUFFICES ASSUME NEW s \in DOMAIN serv_infos, NEW d \in DOMAIN serv_infos[s].daos
                     PROVE  At(s, d)'.sending = Cardinality(Outstanding(s, d)')
          BY <3>1 DEF CountedExactly
        <4>1. At(s, d)'.sending = At(s, d).sending
          BY <3>1 DEF At
        <4> QED
          BY <3>2, <4>1 DEF ExactInv, CountedExactly
      <3> QED
        BY <3>3, <3>4 DEF ExactInv
    <2>2. IInv /\ ExactInv /\ [Next]_vars /\ ~ Forgets => ExactInv'
      BY ExactStep DEF IInv
    <2> QED
      BY <2>1, <2>2
  <1>2. ExactInv => CountedExactly
    BY DEF ExactInv
  <1> QED
    BY <1>1, <1>2, ExactInit, Inductive, PTL DEF Spec

---------------------------------------------------------------------------
(* Servers of one address.                                                 *)
OneAddress == \A s \in DOMAIN serv_infos : Len(serv_infos[s].ipports) = 1

LEMMA OneAddressStep ==
    ASSUME IInv, OneAddress, [Next]_vars,
           \A c \in Confs : \A s \in DOMAIN c : Len(c[s].ipports) = 1
    PROVE  OneAddress'
  <1>1. ASSUME Counting PROVE OneAddress'
    BY <1>1 DEF Counting, OneAddress
  <1>2. ASSUME UNCHANGED serv_infos PROVE OneAddress'
    BY <1>2 DEF OneAddress
  <1>3. ASSUME NEW c \in Confs, Reconfigure(c) PROVE OneAddress'
    <2>1. serv_infos' = [s \in DOMAIN c |->
              IF s \in Kept(c) THEN serv_infos[s]
              ELSE [ipports |-> c[s].ipports, groupid |-> c[s].groupid, daos |-> NoDaos]]
      BY <1>3 DEF Reconfigure
    <2> QED
      BY <2>1 DEF OneAddress, Kept
  <1>4. ASSUME NEW s, NEW known, NEW free \in [known -> 0..MaxFree], PollAnswer(s, free)
        PROVE  OneAddress'
    <2>1. PICK daos : s \in DOMAIN serv_infos /\ serv_infos' = [serv_infos EXCEPT ![s].daos = daos]
      BY <1>4 DEF PollAnswer
    <2>2. DOMAIN serv_infos' = DOMAIN serv_infos
      BY <2>1 DEF IInv, Directory
    <2>3. \A t \in DOMAIN serv_infos : serv_infos'[t].ipports = serv_infos[t].ipports
      BY <2>1 DEF IInv, Directory, IsServInfo
    <2> QED
      BY <2>2, <2>3 DEF OneAddress
  <1>5. ASSUME NEW r, NEW d, NEW s, NoConnection(r, d, s) \/ SendFails(r, d, s) \/ Sent(r, d, s)
        PROVE  OneAddress'
    BY <1>1, <1>5, StartCounts DEF IInv
  <1>6. ASSUME NEW r, HandleTimeout(r) \/ \E free \in 0..MaxFree : OnResponse(r, free)
        PROVE  OneAddress'
    BY <1>1, <1>6, EndCounts DEF IInv
  <1>7. ASSUME \/ UNCHANGED vars \/ HealthChanges
               \/ \E r \in Requests : Throttled(r) \/ NoServer(r) \/ HandleTimeoutFreed(r)
        PROVE  UNCHANGED serv_infos
    BY <1>7 DEF vars, HealthChanges, Throttled, NoServer, HandleTimeoutFreed
  <1> QED
    BY <1>2, <1>3, <1>4, <1>5, <1>6, <1>7 DEF Next, Timeout

(* The filter by level (dao_manager.cpp:609) does what its comment says    *)
(* when every server has one address: select_best_connection               *)
(* (dao_connection_manager.cpp:423) then returns the address it rated.     *)
THEOREM GoodIfOneAddress ==
    ASSUME \A c \in Confs : \A s \in DOMAIN c : Len(c[s].ipports) = 1
    PROVE  Spec => SentToGoodAddress
  <1> DEFINE Good == \A r \in Requests : fsm'[r].state = "waiting" /\ Is(r, "new")
                                              => ~ bad[fsm'[r].to]
  <1>1. Init => OneAddress
    BY DEF Init, OneAddress
  <1>2. IInv /\ OneAddress /\ [Next]_vars => OneAddress'
    BY OneAddressStep
  <1>3. IInv /\ OneAddress /\ [Next]_vars => [Good]_vars
    <2> SUFFICES ASSUME IInv, OneAddress, Next, NEW r \in Requests,
                        fsm'[r].state = "waiting", Is(r, "new")
                 PROVE  ~ bad[fsm'[r].to]
      OBVIOUS
    <2>1. PICK d \in Daos, s \in Servers : Sent(r, d, s)
      <3>1. fsm'[r] # fsm[r]
        BY DEF Is
      <3>2. \A q : End(q) => fsm'[r] = fsm[r] \/ fsm'[r] = EndedFsm
        BY DEF End, IInv, Life
      <3>3. \A q \in Requests : HandleTimeoutFreed(q) => q # r
        BY DEF HandleTimeoutFreed, IInv, Life, TimerIffWaiting, Is
      <3>4. \A q \in Requests : HandleTimeoutFreed(q) => fsm'[r] = fsm[r]
        BY <3>3 DEF HandleTimeoutFreed, IInv, Life
      <3>5. \A q \in Requests : \A e, t : Sent(q, e, t) => q = r
        BY <3>1 DEF Sent, IInv, Life
      <3>6. \/ \E q \in Requests : End(q) \/ HandleTimeoutFreed(q)
            \/ \E q \in Requests, e \in Daos, t \in Servers : Sent(q, e, t)
            \/ UNCHANGED fsm
        BY DEF Next, Throttled, NoServer, NoConnection, SendFails, OnResponse, Timeout,
           HandleTimeout, PollAnswer, Reconfigure, HealthChanges
      <3> QED
        BY <3>1, <3>2, <3>4, <3>5, <3>6 DEF EndedFsm
    <2>2. s \in DOMAIN serv_infos /\ BestIsGood(s) /\ fsm'[r].to = BestAddress(s)
      <3>1. Selected(r, d, s) /\ fsm' = [fsm EXCEPT ![r] =
                [state |-> "waiting", server |-> s, dao |-> d, to |-> BestAddress(s)]]
        BY <2>1 DEF Sent
      <3>2. Knows(s, d) /\ BestIsGood(s)
        BY <3>1, SelectedFacts DEF Selected, Usable, IInv
      <3> QED
        BY <3>1, <3>2 DEF IInv, Life, Knows
    <2>3. serv_infos[s].ipports \in Seq(Addresses) /\ Len(serv_infos[s].ipports) = 1
      BY <2>2 DEF IInv, Directory, IsServInfo, OneAddress
    <2>4. Named(serv_infos[s]) = {BestAddress(s)}
      BY <2>3 DEF Named, BestAddress
    <2> QED
      BY <2>2, <2>4 DEF BestIsGood
  <1> QED
    BY <1>1, <1>2, <1>3, Inductive, PTL DEF Spec, SentToGoodAddress
=============================================================================
