-------------------------- MODULE ServerDirectory --------------------------
(***************************************************************************)
(* The directory of servers that every server of the frame keeps:          *)
(* DaemonClient and the part of DaemonServer that joins the daemon         *)
(* (src/server_common/server-lib).                                         *)
(*                                                                         *)
(* The daemon, a process that is not in the repository, tells who joins    *)
(* it which servers there are and what becomes of them, in order, on one   *)
(* connection.  The client keeps the servers by id, the running ones by    *)
(* name, the number of imrouters of each group, the routes the imrouters   *)
(* announce, and a connection to each server it has sent something to.     *)
(* When the connection to the daemon breaks, all that it told is stale     *)
(* until the client has joined again.                                      *)
(***************************************************************************)
EXTENDS Integers, FiniteSets, Sequences

CONSTANTS
    Servers,         \* the ids of the servers
    DAEMON_SERVERID, \* that of the daemon
    Names,           \* what servers are called
    SUFFIX_IMROUTER, \* the name of the imrouters
    Groups,          \* the groups of servers
    MyGroup,         \* the group of this server
    Name, Group,     \* the name and group of each server
    Cids,            \* bound: ids of connections
    MaxQueued,       \* bound: messages of the daemon under way
    MaxFaults        \* bound: broken connections and repeated messages

Everyone == Servers \cup {DAEMON_SERVERID}

ASSUME DirectoryAssumption ==
    /\ DAEMON_SERVERID \notin Servers /\ IsFiniteSet(Servers)
    /\ Name \in [Servers -> Names] /\ Group \in [Servers -> Groups]
    /\ SUFFIX_IMROUTER \in Names /\ MyGroup \in Groups
    /\ MaxQueued \in Nat /\ MaxFaults \in Nat

VARIABLES
    sid2FavorSV,     \* the status of each server the client knows
    daemonListed,    \* whether sid2FavorSV has the daemon's entry
    m_mapSuffix2Srvs,\* by name, how often the id of each server is listed
    m_mapImrouterCount, \* the number of imrouters of each group
    m_mapGid2Route,  \* the server a group is reached through
    sid2cid,         \* the connection to each server that has one
    connects,        \* the connections
    toDelete,        \* those that are disabled and will be erased
    dStart,          \* connected, pinging or broken
    link,            \* whether the daemon is at the other end of its connection
    servers,         \* of the daemon: the status of each server
    isRecord,        \* of the daemon: whether the client has joined it
    told,            \* messages from the daemon under way
    faults           \* how often something went wrong

directory == <<sid2FavorSV, m_mapSuffix2Srvs, m_mapImrouterCount, m_mapGid2Route>>
sockets == <<sid2cid, connects, toDelete>>
vars == <<directory, daemonListed, sockets, dStart, link, servers, isRecord, told, faults>>

(* Only a RUNNING server is treated otherwise than one of another status.  *)
Statuses == {"WAITING", "RUNNING"}

Add(sid, status)    == [type |-> "add", sid |-> sid, status |-> status]
Remove(sid)         == [type |-> "remove", sid |-> sid]
Change(sid, status) == [type |-> "change", sid |-> sid, status |-> status]
List(favors)        == [type |-> "list", favors |-> favors]
PingRes(record)     == [type |-> "ping", isRecord |-> record]

With(f, x, y) == [z \in DOMAIN f \cup {x} |-> IF z = x THEN y ELSE f[z]]
Without(f, S) == [z \in DOMAIN f \ S |-> f[z]]
Empty == [z \in {} |-> 0]

Imrouters(favors, gid) ==
    {s \in DOMAIN favors : Name[s] = SUFFIX_IMROUTER /\ Group[s] = gid}
Running(favors, name) ==
    {s \in DOMAIN favors : Name[s] = name /\ favors[s] = "RUNNING"}

(* A list of ids, its order left out, that holds those of S once.          *)
Once(S) == [s \in Servers |-> IF s \in S THEN 1 ELSE 0]

Init ==
    /\ sid2FavorSV = Empty /\ daemonListed = FALSE
    /\ m_mapSuffix2Srvs = [n \in Names |-> Once({})]
    /\ m_mapImrouterCount = [g \in Groups |-> 0]
    /\ m_mapGid2Route = Empty
    /\ sid2cid = Empty /\ connects = {} /\ toDelete = {}
    /\ dStart = "broken" /\ link = FALSE
    /\ servers = Empty /\ isRecord = FALSE /\ told = <<>>
    /\ faults = 0

(* Something goes wrong if trouble holds.                                  *)
Trouble(trouble) ==
    IF trouble THEN faults < MaxFaults /\ faults' = faults + 1 ELSE UNCHANGED faults

---------------------------------------------------------------------------
(* __SuffixMapDel takes the first entry of sid, __SuffixMapAdd makes one.  *)
SuffixMapDel(index, sid) == [index EXCEPT ![Name[sid]][sid] = IF @ = 0 THEN 0 ELSE @ - 1]
SuffixMapAdd(index, sid, status) ==
    IF status = "RUNNING" THEN [index EXCEPT ![Name[sid]][sid] = @ + 1] ELSE index

(* eraseConnect of each of cids.  With the daemon's connection goes what   *)
(* the daemon has sent on it; otherwise rest of it is left.                *)
EraseConnectSilently(cids, rest) ==         \* mutant: dStart is left as it is
    LET sids == {s \in DOMAIN sid2cid : sid2cid[s] \in cids} IN
    /\ sid2cid' = Without(sid2cid, sids)
    /\ connects' = connects \ cids /\ toDelete' = toDelete \ cids
    /\ UNCHANGED dStart
    /\ IF DAEMON_SERVERID \in sids
       THEN link' = FALSE /\ isRecord' = FALSE /\ told' = <<>>
       ELSE told' = rest /\ UNCHANGED <<link, isRecord>>
EraseConnect(cids, rest) ==
    LET sids == {s \in DOMAIN sid2cid : sid2cid[s] \in cids} IN
    /\ sid2cid' = Without(sid2cid, sids)
    /\ connects' = connects \ cids /\ toDelete' = toDelete \ cids
    /\ IF DAEMON_SERVERID \in sids
       THEN dStart' = "broken" /\ link' = FALSE /\ isRecord' = FALSE /\ told' = <<>>
       ELSE told' = rest /\ UNCHANGED <<dStart, link, isRecord>>

(* connectServerIdSV.  The code never takes an id twice; here one may be   *)
(* taken again when its connection is gone.  The daemon may not be there.  *)
Connect(sid) ==
    LET cid == CHOOSE c \in Cids : c \notin connects IN
    /\ connects # Cids
    /\ sid2cid' = With(sid2cid, sid, cid)
    /\ connects' = connects \cup {cid}
    /\ UNCHANGED toDelete
    /\ IF sid = DAEMON_SERVERID THEN link' \in BOOLEAN ELSE UNCHANGED link

(* dispatchByServerIdSV returns true, or false: a send may throw, and a    *)
(* connection may not come about.                                          *)
Dispatched(sid, known) ==
    \/ /\ sid \in DOMAIN sid2cid /\ sid2cid[sid] \in connects
       /\ UNCHANGED <<sockets, link>>
    \/ sid \notin DOMAIN sid2cid /\ known /\ Connect(sid)
NotDispatched(sid) ==
    /\ toDelete' = toDelete \cup {cid \in connects : sid \in DOMAIN sid2cid /\ cid = sid2cid[sid]}
    /\ UNCHANGED <<sid2cid, connects, link>>

LeadsNowhere(sid) == sid = DAEMON_SERVERID /\ sid \notin DOMAIN sid2cid /\ ~ link'

(* What the daemon has to say to what is sent to it comes last.            *)
DaemonAnswers(rest, answer) == told' = IF link' THEN Append(rest, answer) ELSE rest
---------------------------------------------------------------------------
(* onServerAddSV                                                           *)
OnServerAddUncounted(sid, status) ==        \* mutant: a group is counted once
    /\ m_mapImrouterCount' =
          IF Name[sid] = SUFFIX_IMROUTER
          THEN [m_mapImrouterCount EXCEPT ![Group[sid]] = 1] ELSE m_mapImrouterCount
    /\ m_mapSuffix2Srvs' = SuffixMapAdd(SuffixMapDel(m_mapSuffix2Srvs, sid), sid, status)
    /\ sid2FavorSV' = With(sid2FavorSV, sid, status)
    /\ UNCHANGED m_mapGid2Route
OnServerAddListsAgain(sid, status) ==       \* mutant: a repeated add lists twice
    /\ m_mapImrouterCount' =
          IF Name[sid] = SUFFIX_IMROUTER
          THEN [m_mapImrouterCount EXCEPT ![Group[sid]] = @ + 1] ELSE m_mapImrouterCount
    /\ m_mapSuffix2Srvs' = SuffixMapAdd(m_mapSuffix2Srvs, sid, status)
    /\ sid2FavorSV' = With(sid2FavorSV, sid, status)
    /\ UNCHANGED m_mapGid2Route
OnServerAdd(sid, status) ==
    /\ m_mapImrouterCount' =
          IF Name[sid] = SUFFIX_IMROUTER
          THEN [m_mapImrouterCount EXCEPT ![Group[sid]] = @ + 1] ELSE m_mapImrouterCount
    /\ m_mapSuffix2Srvs' = SuffixMapAdd(SuffixMapDel(m_mapSuffix2Srvs, sid), sid, status)
    /\ sid2FavorSV' = With(sid2FavorSV, sid, status)
    /\ UNCHANGED m_mapGid2Route

(* onServerRemoveSV, but for the connection                                *)
OnServerRemove(sid) ==
    LET gid == Group[sid]
        counted == Name[sid] = SUFFIX_IMROUTER /\ m_mapImrouterCount[gid] > 0
    IN
    /\ sid2FavorSV' = Without(sid2FavorSV, {sid})
    /\ m_mapSuffix2Srvs' = SuffixMapDel(m_mapSuffix2Srvs, sid)
    /\ m_mapImrouterCount' =
          IF counted THEN [m_mapImrouterCount EXCEPT ![gid] = @ - 1] ELSE m_mapImrouterCount
    /\ m_mapGid2Route' =
          IF counted /\ m_mapImrouterCount'[gid] = 0 /\ gid = MyGroup THEN Empty
                                                                     ELSE m_mapGid2Route

(* onServersStatusChangeSV                                                 *)
OnServersStatusChange(sid, status) ==
    /\ sid2FavorSV' = With(sid2FavorSV, sid, status)
    /\ m_mapSuffix2Srvs' = SuffixMapAdd(SuffixMapDel(m_mapSuffix2Srvs, sid), sid, status)
    /\ UNCHANGED <<m_mapImrouterCount, m_mapGid2Route>>

(* onServerRegisteredSV                                                    *)
OnServerRegisteredMerges(favors) ==         \* mutant: the old servers stay
    /\ sid2FavorSV' = [s \in DOMAIN favors \cup DOMAIN sid2FavorSV |->
                          IF s \in DOMAIN favors THEN favors[s] ELSE sid2FavorSV[s]]
    /\ m_mapSuffix2Srvs' = [n \in Names |-> Once(Running(favors, n))]
    /\ m_mapImrouterCount' = [g \in Groups |-> Cardinality(Imrouters(favors, g))]
    /\ m_mapGid2Route' = Empty
    /\ daemonListed' = FALSE
OnServerRegistered(favors) ==
    /\ sid2FavorSV' = favors
    /\ m_mapSuffix2Srvs' = [n \in Names |-> Once(Running(favors, n))]
    /\ m_mapImrouterCount' = [g \in Groups |-> Cardinality(Imrouters(favors, g))]
    /\ m_mapGid2Route' = Empty
    /\ daemonListed' = FALSE

(* Of what the daemon has told, the next is read.                          *)
Comes(type) == told # <<>> /\ Head(told).type = type
Read == told' = Tail(told) /\ UNCHANGED <<sockets, dStart, link, isRecord>>

ReceiveAdd ==
    /\ Comes("add") /\ Read
    /\ OnServerAdd(Head(told).sid, Head(told).status)
    /\ UNCHANGED <<daemonListed, servers, faults>>

ReceiveRemove ==
    LET sid == Head(told).sid
        cids == {cid \in connects : sid \in DOMAIN sid2cid /\ cid = sid2cid[sid]}
    IN
    /\ Comes("remove")
    /\ IF sid \in DOMAIN sid2FavorSV THEN OnServerRemove(sid) ELSE UNCHANGED directory
    /\ EraseConnect(cids, Tail(told))
    /\ UNCHANGED <<daemonListed, servers, faults>>

ReceiveChange ==
    LET sid == Head(told).sid IN
    /\ Comes("change") /\ Read
    /\ IF sid \in DOMAIN sid2FavorSV THEN OnServersStatusChange(sid, Head(told).status)
                                     ELSE UNCHANGED directory
    /\ UNCHANGED <<daemonListed, servers, faults>>

ReceiveList ==
    /\ Comes("list") /\ Read
    /\ OnServerRegistered(Head(told).favors)
    /\ UNCHANGED <<servers, faults>>

(* onPing and onConnect: who is not recorded joins, or joins again.  The   *)
(* daemon records it and sends it the list.                                *)
ReceivePing ==
    /\ Comes("ping") /\ dStart' = "connected"
    /\ IF Head(told).isRecord
       THEN told' = Tail(told) /\ UNCHANGED <<sockets, link, isRecord, faults>>
       ELSE \/ /\ Dispatched(DAEMON_SERVERID, daemonListed)
               /\ DaemonAnswers(Tail(told), List(servers))
               /\ isRecord' = link'
               /\ Trouble(LeadsNowhere(DAEMON_SERVERID))
            \/ /\ NotDispatched(DAEMON_SERVERID)
               /\ told' = Tail(told)
               /\ UNCHANGED isRecord /\ Trouble(TRUE)
    /\ UNCHANGED <<directory, daemonListed, servers>>

---------------------------------------------------------------------------
(* pingSV, every 10 s, with startSV                                        *)
PingStartsOnce ==                           \* mutant: startSV is for who knows nobody
    /\ Len(told) < MaxQueued
    /\ daemonListed' = (daemonListed \/ sid2FavorSV = Empty)
    /\ \/ /\ Dispatched(DAEMON_SERVERID, daemonListed')
          /\ DaemonAnswers(told, PingRes(isRecord))
          /\ Trouble(LeadsNowhere(DAEMON_SERVERID))
          /\ UNCHANGED dStart
       \/ /\ NotDispatched(DAEMON_SERVERID)
          /\ dStart' = "broken"
          /\ Trouble(TRUE) /\ UNCHANGED told
    /\ UNCHANGED <<directory, servers, isRecord>>
Ping ==
    /\ Len(told) < MaxQueued
    /\ daemonListed' = (daemonListed \/ dStart = "broken")
    /\ \/ /\ Dispatched(DAEMON_SERVERID, daemonListed')
          /\ DaemonAnswers(told, PingRes(isRecord))
          /\ Trouble(LeadsNowhere(DAEMON_SERVERID))
          /\ UNCHANGED dStart
       \/ /\ NotDispatched(DAEMON_SERVERID)
          /\ dStart' = "broken"
          /\ Trouble(TRUE) /\ UNCHANGED told
    /\ UNCHANGED <<directory, servers, isRecord>>

(* checkDaemon, every 50 s                                                 *)
CheckDaemon ==
    /\ dStart' = (CASE dStart = "pinging" -> "broken"
                    [] dStart = "connected" -> "pinging"
                    [] OTHER -> dStart)
    /\ UNCHANGED <<directory, daemonListed, sockets, link, servers, isRecord, told, faults>>

(* dispatchByServerIdSV for the application, to a server it names, all of  *)
(* a name, or the next one in turn, and for reports to the daemon.         *)
Dispatch(sid) ==
    /\ \/ /\ Dispatched(sid, IF sid = DAEMON_SERVERID THEN daemonListed
                                                     ELSE sid \in DOMAIN sid2FavorSV)
          /\ Trouble(LeadsNowhere(sid))
       \/ NotDispatched(sid) /\ Trouble(sid = DAEMON_SERVERID)
    /\ UNCHANGED <<directory, daemonListed, dStart, servers, isRecord, told>>

(* onRouteNotify, for one of the groups in it: an imbridge, if it and the  *)
(* imrouters of the group are known, or no imbridge any more.              *)
RouteAdded(gid, imbridge) ==
    /\ imbridge \in DOMAIN sid2FavorSV /\ m_mapImrouterCount[gid] > 0
    /\ m_mapGid2Route' = With(m_mapGid2Route, gid, imbridge)
RouteErased(gid) == m_mapGid2Route' = Without(m_mapGid2Route, {gid})
OnRouteNotify(gid) ==
    /\ RouteErased(gid) \/ \E imbridge \in Servers : RouteAdded(gid, imbridge)
    /\ UNCHANGED <<sid2FavorSV, m_mapSuffix2Srvs, m_mapImrouterCount, daemonListed, sockets,
                   dStart, link, servers, isRecord, told, faults>>

(* onClose, onError or onTimeout of a connection                           *)
ConnectionLost(cid) ==
    /\ cid \in connects
    /\ EraseConnect({cid}, told)
    /\ Trouble(link # link')
    /\ UNCHANGED <<directory, daemonListed, servers>>

(* LazyDelConnManager::handle                                              *)
LazyDelete ==
    /\ toDelete # {}
    /\ EraseConnect(toDelete, told)
    /\ UNCHANGED <<directory, daemonListed, servers, faults>>
---------------------------------------------------------------------------
(* The daemon.  It tells a client that has joined what happens to the      *)
(* servers, and may tell what it has told before (DaemonClient.cpp:151).   *)
Tells(message) ==
    /\ Len(told) < MaxQueued
    /\ told' = IF isRecord THEN Append(told, message) ELSE told
    /\ UNCHANGED <<directory, daemonListed, sockets, dStart, link, isRecord>>

ServerStarts(sid, status) ==
    /\ sid \notin DOMAIN servers
    /\ servers' = With(servers, sid, status)
    /\ Tells(Add(sid, status)) /\ UNCHANGED faults
ServerStops(sid) ==
    /\ sid \in DOMAIN servers
    /\ servers' = Without(servers, {sid})
    /\ Tells(Remove(sid)) /\ UNCHANGED faults
ServerChanges(sid, status) ==
    /\ sid \in DOMAIN servers /\ servers[sid] # status
    /\ servers' = With(servers, sid, status)
    /\ Tells(Change(sid, status)) /\ UNCHANGED faults
TellsAgain(sid) ==
    /\ sid \in DOMAIN servers /\ isRecord
    /\ Tells(Add(sid, servers[sid])) /\ Trouble(TRUE) /\ UNCHANGED servers

(* The daemon, its host or the way to it fails; the client is not told.    *)
LinkFails ==
    /\ link /\ link' = FALSE
    /\ isRecord' = FALSE /\ told' = <<>>
    /\ Trouble(TRUE)
    /\ UNCHANGED <<directory, daemonListed, sockets, dStart, servers>>

Daemon ==
    \/ \E sid \in Servers :
          \/ ServerStops(sid) \/ TellsAgain(sid)
          \/ \E status \in Statuses : ServerStarts(sid, status) \/ ServerChanges(sid, status)
    \/ LinkFails

Receive == ReceiveAdd \/ ReceiveRemove \/ ReceiveChange \/ ReceiveList \/ ReceivePing

Next ==
    \/ Receive \/ Ping \/ CheckDaemon \/ LazyDelete
    \/ \E sid \in Everyone : Dispatch(sid)
    \/ \E cid \in Cids : ConnectionLost(cid)
    \/ \E gid \in Groups : OnRouteNotify(gid)
    \/ Daemon

Spec == Init /\ [][Next]_vars

(* The loop reads, the timers run, and a connection with nobody at its     *)
(* other end is closed in the end.                                         *)
FairSpec ==
    /\ Spec
    /\ WF_vars(Receive) /\ WF_vars(Ping) /\ WF_vars(LazyDelete)
    /\ WF_vars(~ link /\ \E cid \in Cids :
                  /\ DAEMON_SERVERID \in DOMAIN sid2cid /\ cid = sid2cid[DAEMON_SERVERID]
                  /\ ConnectionLost(cid))
---------------------------------------------------------------------------
Favors == UNION {[S -> Statuses] : S \in SUBSET Servers}
Messages ==
    [type : {"add", "change"}, sid : Servers, status : Statuses]
    \cup [type : {"remove"}, sid : Servers] \cup [type : {"list"}, favors : Favors]
    \cup [type : {"ping"}, isRecord : BOOLEAN]

(* Types; a server's connection is one of the connections, and the daemon  *)
(* is heard, and records the client, on its connection only                *)
(* (DaemonClient.cpp:227-248, 532-559).                                    *)
TypeOK ==
    /\ sid2FavorSV \in Favors /\ servers \in Favors
    /\ daemonListed \in BOOLEAN /\ link \in BOOLEAN /\ isRecord \in BOOLEAN
    /\ m_mapSuffix2Srvs \in [Names -> [Servers -> Nat]]
    /\ m_mapImrouterCount \in [Groups -> Nat]
    /\ DOMAIN m_mapGid2Route \subseteq Groups
    /\ m_mapGid2Route \in [DOMAIN m_mapGid2Route -> Servers]
    /\ connects \subseteq Cids /\ toDelete \subseteq connects
    /\ DOMAIN sid2cid \subseteq Everyone /\ sid2cid \in [DOMAIN sid2cid -> connects]
    /\ dStart \in {"connected", "pinging", "broken"}
    /\ told \in Seq(Messages) /\ faults \in 0..MaxFaults
    /\ link => DAEMON_SERVERID \in DOMAIN sid2cid
    /\ isRecord \/ told # <<>> => link

(* Every connection is that of one server, and as long as the daemon is    *)
(* not found broken there is a connection to it (DaemonClient.cpp:227-248, *)
(* 509-559, 603-625): otherwise a send would find an id without            *)
(* connection for ever, or a connection would stay that nobody uses.       *)
NamedConnections ==
    /\ \A cid \in connects : \E sid \in DOMAIN sid2cid : sid2cid[sid] = cid
    /\ \A s, t \in DOMAIN sid2cid : sid2cid[s] = sid2cid[t] => s = t
    /\ dStart # "broken" => DAEMON_SERVERID \in DOMAIN sid2cid

(* The index from which DispatchToServerRoundRobin takes its server holds  *)
(* each running server once and nobody else, whatever the daemon repeats:  *)
(* an entry too many gives a server more than its share, and outlives its  *)
(* removal (DaemonClient.cpp:146-157, 171-177, 250-264, 319-329, 433-455). *)
IndexAgrees == \A n \in Names : m_mapSuffix2Srvs[n] = Once(Running(sid2FavorSV, n))

(* No group has more imrouters than are counted, whatever the daemon       *)
(* repeats: the count does not reach 0, and the routes are not cleared,    *)
(* while there is one left (DaemonClient.cpp:130-144, 179-203, 267-281).   *)
CountsCover ==
    \A g \in Groups : m_mapImrouterCount[g] >= Cardinality(Imrouters(sid2FavorSV, g))

(* What a message says of a server: its status, or that it is gone.        *)
StatusOf(favors, sid) == IF sid \in DOMAIN favors THEN favors[sid] ELSE "gone"
About(message, sid) ==
    \/ message.type = "list"
    \/ message.type \in {"add", "remove", "change"} /\ message.sid = sid
Says(message, sid) ==
    CASE message.type = "list" -> StatusOf(message.favors, sid)
      [] message.type = "remove" -> "gone"
      [] OTHER -> message.status

(* The last of the first n messages that is about a server says status, or *)
(* there is none and status is what the client has.                        *)
LastWord(favors, messages, n, sid, status) ==
    \/ /\ \A i \in 1..n : ~ About(messages[i], sid)
       /\ StatusOf(favors, sid) = status
    \/ \E i \in 1..n :
          /\ About(messages[i], sid) /\ Says(messages[i], sid) = status
          /\ \A j \in (i + 1)..n : ~ About(messages[j], sid)

(* Once a client has joined the daemon, what it knows and what is under    *)
(* way to it amount to what the daemon knows, however often it was cut off *)
(* before and however many servers came and went meanwhile                 *)
(* (DaemonClient.cpp:123-297, DaemonServer.cpp:227-234, 266-287).          *)
KnowsWhatDaemonKnows ==
    isRecord => \A s \in Servers :
        LastWord(sid2FavorSV, told, Len(told), s, StatusOf(servers, s))

(* When servers neither come nor go any more, the client's directory is    *)
(* the daemon's in the end: it finds out that its connection is dead, gets *)
(* another, joins, and is told (DaemonClient.cpp:227-297, 613-625,         *)
(* 681-698).                                                               *)
CatchesUp == <>[][UNCHANGED servers]_servers => <>[](sid2FavorSV = servers)
=============================================================================
