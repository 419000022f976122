------------------------------ MODULE DaoProxy ------------------------------
(***************************************************************************)
(* A request through dao_proxy: ReqFSM (src/service/dao_proxy/             *)
(* request_fsm.cpp) chooses a DAO server from the directory of             *)
(* DaoStatManager (dao_manager.cpp), sends the request, and ends with the  *)
(* answer or with its timer, while poll answers and new configurations     *)
(* rewrite the directory under the requests that wait.                     *)
(*                                                                         *)
(* All handlers run in one thread, so each is one action.  Of the bad      *)
(* level of an address (module DaoHealth) only what the choice of a server *)
(* tells apart is kept: whether it is above 2.  The route rule of a        *)
(* request, the load and the response times are left out: any usable       *)
(* server may be chosen.                                                   *)
(***************************************************************************)
EXTENDS Naturals, Sequences, FiniteSets

CONSTANTS
    Servers,      \* names of DAO servers
    Daos,         \* names of DAOs, the functions clients call
    Addresses,    \* ip:port pairs
    Groups,       \* group ids
    Requests,     \* the requests of the clients, each arriving once
    Confs,        \* the configurations the proxy may be given
    MaxFree       \* bound: the most free places a server reports

(* What validate_conf_para (PxGlobalConf.cpp) accepts: no server without   *)
(* an address, no address named twice.                                     *)
ServerConf == [ipports : Seq(Addresses) \ {<<>>}, groupid : Groups]

Named(server) == {server.ipports[i] : i \in DOMAIN server.ipports}

ASSUME ProxyAssumption ==
    /\ MaxFree \in Nat
    /\ IsFiniteSet(Requests)
    /\ Confs # {}
    /\ \A c \in Confs :
          /\ DOMAIN c \subseteq Servers
          /\ c = [s \in DOMAIN c |-> c[s]]
          /\ \A s \in DOMAIN c : c[s] \in ServerConf
          /\ \A s, t \in DOMAIN c : s # t => Named(c[s]) \cap Named(c[t]) = {}

VARIABLES
    serv_infos,   \* DaoStatManager: what is known of each server
    dao_index,    \* DaoStatManager: the servers of each DAO
    bad,          \* DaoConnectionManager: is the bad level above 2?
    fsm,          \* the ReqFSM of each request
    timers,       \* the requests whose timer is scheduled
    answered      \* how many answers the client's connection took

directory == <<serv_infos, dao_index>>
vars == <<serv_infos, dao_index, bad, fsm, timers, answered>>

DaoInfo == [free : 0..MaxFree, sending : Nat]
IsServInfo(info) ==
    /\ info \in [ipports : Seq(Addresses) \ {<<>>}, groupid : Groups, daos : {info.daos}]
    /\ DOMAIN info.daos \subseteq Daos
    /\ info.daos \in [DOMAIN info.daos -> DaoInfo]

NewFsm == [state |-> "new"]
EndedFsm == [state |-> "ended"]
(* "leaked": the object is deleted, its sending_request still counted.     *)
SentFsm == [state : {"waiting", "leaked"}, server : Servers, dao : Daos, to : Addresses]

Is(r, state) == fsm[r].state = state

NoDaos == [d \in {} |-> 0]
Knows(s, d) == s \in DOMAIN serv_infos /\ d \in DOMAIN serv_infos[s].daos

---------------------------------------------------------------------------
(* inner_del_server: the servers leave the index of their DAOs, and a DAO  *)
(* left without a server leaves the index.                                 *)
RemovedKeepsEmpty(index, gone) ==      \* mutant: empty entries stay
    [d \in DOMAIN index |-> index[d] \ {s \in gone : Knows(s, d)}]
Removed(index, gone) ==
    LET of(d) == {s \in gone : Knows(s, d)}
    IN  [d \in {d \in DOMAIN index : of(d) = {} \/ index[d] \ of(d) # {}}
            |-> index[d] \ of(d)]

(* inner_set_server: the server enters the index of its DAOs.              *)
Entered(index, s, daos) ==
    [d \in DOMAIN index \cup daos |->
        (IF d \in DOMAIN index THEN index[d] ELSE {})
            \cup (IF d \in daos THEN {s} ELSE {})]

(* A change to one entry of dao_infos, if server and DAO are still there.  *)
At(s, d) == serv_infos[s].daos[d]
Change(s, d, info) ==
    IF Knows(s, d) THEN [serv_infos EXCEPT ![s].daos[d] = info] ELSE serv_infos

AtRequest(r) == At(fsm[r].server, fsm[r].dao)

PredictSendOne(info) == [info EXCEPT !.free = IF @ > 0 THEN @ - 1 ELSE 0]
StartSendOne(info) == [info EXCEPT !.sending = @ + 1]
EndRecvOneUnguarded(info) ==     \* mutant: zero is counted down as well
    [info EXCEPT !.sending = @ - 1]
EndRecvOne(info) == [info EXCEPT !.sending = IF @ > 0 THEN @ - 1 ELSE 0]

(* select_best_connection: the level is that of the best address of the    *)
(* server, the address returned is always the first.                       *)
BestIsGood(s) == \E a \in Named(serv_infos[s]) : ~ bad[a]
BestAddress(s) == serv_infos[s].ipports[1]

(* dao_select: the last filter, whatever the strategy, leaves out servers  *)
(* without free places and servers whose level is above 2.                 *)
Usable(s, d) == At(s, d).free # 0 /\ BestIsGood(s)

(* send_resp_thrift_packet: the client's connection may be gone, or its    *)
(* send may throw.                                                         *)
SendResp(r) == \E took \in {0, 1} : answered' = [answered EXCEPT ![r] = @ + took]

(* end(): the object is deleted, and its destructor cancels the timer.     *)
EndWithoutCancel(r) ==           \* mutant: the timer is left scheduled
    /\ fsm' = [fsm EXCEPT ![r] = EndedFsm]
    /\ UNCHANGED timers
End(r) ==
    /\ fsm' = [fsm EXCEPT ![r] = EndedFsm]
    /\ timers' = timers \ {r}

(* get_connection: a dead connection makes the level of the address worse. *)
MayGetWorse(addresses) ==
    \E worse \in SUBSET addresses :
        bad' = [a \in DOMAIN bad |-> bad[a] \/ a \in worse]

---------------------------------------------------------------------------
Init ==
    /\ \E c \in Confs :
          /\ serv_infos = [s \in DOMAIN c |->
                 [ipports |-> c[s].ipports, groupid |-> c[s].groupid, daos |-> NoDaos]]
          /\ bad = [a \in UNION {Named(c[s]) : s \in DOMAIN c} |-> FALSE]
    /\ dao_index = NoDaos
    /\ fsm = [r \in Requests |-> NewFsm]
    /\ timers = {}
    /\ answered = [r \in Requests |-> 0]

(* ReqFSM::start, in the order of its outcomes.  No licence or throttled:  *)
(* the request ends without an answer.                                     *)
Throttled(r) ==
    /\ Is(r, "new")
    /\ End(r)
    /\ UNCHANGED <<serv_infos, dao_index, bad, answered>>

(* "no_dao", and "dao busy" when no server passes the route rule and the   *)
(* last filter.                                                            *)
NoServer(r) ==
    /\ Is(r, "new")
    /\ SendResp(r)
    /\ End(r)
    /\ UNCHANGED <<serv_infos, dao_index, bad>>

(* A server is selected: it is predicted to have one free place less, and  *)
(* asked for its present state if few are left (predict_send_one).         *)
Selected(r, d, s) ==
    /\ Is(r, "new")
    /\ d \in DOMAIN dao_index
    /\ s \in dao_index[d]
    /\ Usable(s, d)
    /\ MayGetWorse({BestAddress(s)})
    /\ UNCHANGED dao_index

(* get_connection failed: the request ends without an answer.              *)
NoConnection(r, d, s) ==
    /\ Selected(r, d, s)
    /\ serv_infos' = Change(s, d, PredictSendOne(At(s, d)))
    /\ End(r)
    /\ UNCHANGED answered

(* send_pack failed.                                                       *)
SendFails(r, d, s) ==
    /\ Selected(r, d, s)
    /\ serv_infos' = Change(s, d, PredictSendOne(At(s, d)))
    /\ SendResp(r)
    /\ End(r)

(* The request is sent, and the timer of 5 or 13 s started.                *)
SentWithoutTimer(r, d, s) ==     \* mutant: start_timer is not called
    /\ Selected(r, d, s)
    /\ serv_infos' = Change(s, d, StartSendOne(PredictSendOne(At(s, d))))
    /\ fsm' = [fsm EXCEPT ![r] = [state |-> "waiting", server |-> s, dao |-> d,
                                  to |-> BestAddress(s)]]
    /\ UNCHANGED <<timers, answered>>
Sent(r, d, s) ==
    /\ Selected(r, d, s)
    /\ serv_infos' = Change(s, d, StartSendOne(PredictSendOne(At(s, d))))
    /\ fsm' = [fsm EXCEPT ![r] = [state |-> "waiting", server |-> s, dao |-> d,
                                  to |-> BestAddress(s)]]
    /\ timers' = timers \cup {r}
    /\ UNCHANGED answered

(* daoheadresponse, onResponse: an answer whose request findFSM no longer  *)
(* finds changes nothing.                                                  *)
OnResponseStays(r, free) ==      \* mutant: end() is not called
    /\ Is(r, "waiting")
    /\ serv_infos' = Change(fsm[r].server, fsm[r].dao,
                            [EndRecvOne(AtRequest(r)) EXCEPT !.free = free])
    /\ SendResp(r)
    /\ UNCHANGED <<dao_index, bad, fsm, timers>>
OnResponse(r, free) ==
    /\ Is(r, "waiting")
    /\ serv_infos' = Change(fsm[r].server, fsm[r].dao,
                            [EndRecvOne(AtRequest(r)) EXCEPT !.free = free])
    /\ SendResp(r)
    /\ End(r)
    /\ UNCHANGED <<dao_index, bad>>

(* ReqFSM::handle_timeout: the client gets a timeout, and the addresses of *)
(* the server, if it is still configured, a slightly worse level.          *)
TimedOutServer(r) ==
    IF fsm[r].server \in DOMAIN serv_infos THEN Named(serv_infos[fsm[r].server]) ELSE {}

HandleTimeoutUncounted(r) ==     \* mutant: end_recv_one is not called
    /\ r \in timers
    /\ SendResp(r)
    /\ MayGetWorse(TimedOutServer(r))
    /\ End(r)
    /\ UNCHANGED <<serv_infos, dao_index>>
HandleTimeout(r) ==
    /\ r \in timers
    /\ SendResp(r)
    /\ serv_infos' = Change(fsm[r].server, fsm[r].dao, EndRecvOne(AtRequest(r)))
    /\ MayGetWorse(TimedOutServer(r))
    /\ End(r)
    /\ UNCHANGED dao_index

(* When sending that answer throws, send_resp_thrift_packet has deleted    *)
(* the object, and the rest of handle_timeout works with a freed server    *)
(* and DAO name: it may find the entry to count down, which is a           *)
(* HandleTimeout without an answer, or not.                                *)
HandleTimeoutFreed(r) ==
    /\ r \in timers
    /\ fsm' = [fsm EXCEPT ![r].state = "leaked"]
    /\ timers' = timers \ {r}
    /\ UNCHANGED <<serv_infos, dao_index, bad, answered>>

Timeout(r) == HandleTimeout(r) \/ HandleTimeoutFreed(r)

(* update_dao_info: a server reports its DAOs; what is known of the same   *)
(* DAO but its free places is kept.                                        *)
PollAnswer(s, free) ==
    /\ s \in DOMAIN serv_infos
    /\ LET daos == [d \in DOMAIN free |->
                      [free |-> free[d],
                       sending |-> IF Knows(s, d) THEN At(s, d).sending ELSE 0]]
       IN  serv_infos' = [serv_infos EXCEPT ![s].daos = daos]
    /\ dao_index' = Entered(Removed(dao_index, {s}), s, DOMAIN free)
    /\ UNCHANGED <<bad, fsm, timers, answered>>

(* adminRequest 109: DaoStatManager::init_from_conf drops what is known of *)
(* servers that changed or are gone, DaoConnectionManager::init_from_conf  *)
(* the addresses that are gone; servers without DAOs are polled at once.   *)
Kept(c) == {s \in DOMAIN c \cap DOMAIN serv_infos :
               /\ serv_infos[s].ipports = c[s].ipports
               /\ serv_infos[s].groupid = c[s].groupid}

ReconfigureDirectoryOnly(c) ==   \* mutant: DaoConnectionManager is not told
    /\ serv_infos' = [s \in DOMAIN c |->
           IF s \in Kept(c) THEN serv_infos[s]
           ELSE [ipports |-> c[s].ipports, groupid |-> c[s].groupid, daos |-> NoDaos]]
    /\ dao_index' = Removed(dao_index, DOMAIN serv_infos \ Kept(c))
    /\ UNCHANGED <<bad, fsm, timers, answered>>
Reconfigure(c) ==
    /\ serv_infos' = [s \in DOMAIN c |->
           IF s \in Kept(c) THEN serv_infos[s]
           ELSE [ipports |-> c[s].ipports, groupid |-> c[s].groupid, daos |-> NoDaos]]
    /\ dao_index' = Removed(dao_index, DOMAIN serv_infos \ Kept(c))
    /\ \E worse \in SUBSET {c[s].ipports[1] : s \in {t \in DOMAIN c :
                                t \in Kept(c) => serv_infos[t].daos = NoDaos}} :
          bad' = [a \in UNION {Named(c[s]) : s \in DOMAIN c} |->
                     a \in worse \/ (a \in DOMAIN bad /\ bad[a])]
    /\ UNCHANGED <<fsm, timers, answered>>

(* Pings, their answers, polls and lost connections (module DaoHealth).    *)
HealthChanges ==
    /\ bad' \in [DOMAIN bad -> BOOLEAN]
    /\ UNCHANGED <<serv_infos, dao_index, fsm, timers, answered>>

Next ==
    \/ \E r \in Requests :
          \/ Throttled(r)
          \/ NoServer(r)
          \/ \E d \in Daos, s \in Servers :
                NoConnection(r, d, s) \/ SendFails(r, d, s) \/ Sent(r, d, s)
          \/ \E free \in 0..MaxFree : OnResponse(r, free)
          \/ Timeout(r)
    \/ \E s \in Servers, known \in SUBSET Daos :
          \E free \in [known -> 0..MaxFree] : PollAnswer(s, free)
    \/ \E c \in Confs : Reconfigure(c)
    \/ HealthChanges

Spec == Init /\ [][Next]_vars

(* The timer container fires what is scheduled.                            *)
FairSpec == Spec /\ \A r \in Requests : WF_vars(Timeout(r))

---------------------------------------------------------------------------
(* Every variable keeps its type.                                          *)
TypeOK ==
    /\ DOMAIN serv_infos \subseteq Servers
    /\ serv_infos = [s \in DOMAIN serv_infos |-> serv_infos[s]]
    /\ \A s \in DOMAIN serv_infos : IsServInfo(serv_infos[s])
    /\ DOMAIN dao_index \subseteq Daos
    /\ dao_index \in [DOMAIN dao_index -> SUBSET Servers]
    /\ bad \in [DOMAIN bad -> BOOLEAN]
    /\ fsm \in [Requests -> {NewFsm, EndedFsm} \cup SentFsm]
    /\ timers \subseteq Requests
    /\ answered \in [Requests -> Nat]

(* The index is the inverse of the directory, with no empty entry: what    *)
(* inner_del_server, dao_select and the filters assert(false) about.       *)
IndexAgrees ==
    /\ DOMAIN dao_index = UNION {DOMAIN serv_infos[s].daos : s \in DOMAIN serv_infos}
    /\ \A d \in DOMAIN dao_index : dao_index[d] = {s \in DOMAIN serv_infos : Knows(s, d)}

(* The connection manager knows exactly the addresses of the directory, so *)
(* that the paths of start() that drop a request because its address is    *)
(* unknown are never taken.                                                *)
AddressesKnown == DOMAIN bad = UNION {Named(serv_infos[s]) : s \in DOMAIN serv_infos}

(* No more requests are counted as under way to a DAO of a server than     *)
(* there are, but for those whose object was deleted half way through      *)
(* their timeout: responses, timeouts, polls and configurations in any     *)
(* order never make the count too high for good.                           *)
Outstanding(s, d) ==
    {r \in Requests : /\ Is(r, "waiting") \/ Is(r, "leaked")
                      /\ fsm[r].server = s
                      /\ fsm[r].dao = d}

NotOvercounted ==
    \A s \in DOMAIN serv_infos : \A d \in DOMAIN serv_infos[s].daos :
        At(s, d).sending <= Cardinality(Outstanding(s, d))

(* A client gets at most one answer to a request, and none while the       *)
(* request waits: the DAO's answer and the timer race, and the later one   *)
(* must find the request gone.                                             *)
OneAnswer ==
    \A r \in Requests : /\ answered[r] <= 1
                        /\ Is(r, "new") \/ Is(r, "waiting") => answered[r] = 0

(* A timer is scheduled for exactly the requests that wait: a timer that   *)
(* outlives its request would run on a deleted object.                     *)
TimerIffWaiting == timers = {r \in Requests : Is(r, "waiting")}

(* Every request that was sent ends, whatever becomes of the server.       *)
EveryRequestEnds == \A r \in Requests : Is(r, "waiting") ~> ~ Is(r, "waiting")

(* dao_manager.cpp:609 "filter out by level": no request is sent to an     *)
(* address known to be bad.                                                *)
SentToGoodAddress ==
    [][\A r \in Requests : fsm'[r].state = "waiting" /\ Is(r, "new")
                              => ~ bad[fsm'[r].to]]_vars
=============================================================================
