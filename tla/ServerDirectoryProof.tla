------------------------ MODULE ServerDirectoryProof ------------------------
(***************************************************************************)
(* Proofs about the directory of servers.  The invariant has three parts,  *)
(* one for each group of variables: the maps derived from what the daemon  *)
(* told, the connections, and what is under way from the daemon.  The last *)
(* needs more than what is to be shown: a message that changes a server    *)
(* comes after one that made the server known, for the code ignores it     *)
(* otherwise, and who has not joined is sent nothing but ping answers.     *)
(* A last section assumes that the daemon says nothing twice, and shows    *)
(* what the code then achieves with the counts of imrouters.               *)
(***************************************************************************)
EXTENDS ServerDirectory, FiniteSetTheorems, TLAPS

DirectoryInv ==
    /\ sid2FavorSV \in Favors
    /\ m_mapSuffix2Srvs \in [Names -> [Servers -> Nat]]
    /\ m_mapImrouterCount \in [Groups -> Nat]
    /\ DOMAIN m_mapGid2Route \subseteq Groups
    /\ m_mapGid2Route \in [DOMAIN m_mapGid2Route -> Servers]
    /\ IndexAgrees /\ CountsCover

SocketsInv ==
    /\ connects \subseteq Cids /\ toDelete \subseteq connects
    /\ DOMAIN sid2cid \subseteq Everyone /\ sid2cid \in [DOMAIN sid2cid -> connects]
    /\ dStart \in {"connected", "pinging", "broken"}
    /\ link \in BOOLEAN
    /\ link => DAEMON_SERVERID \in DOMAIN sid2cid
    /\ NamedConnections

(* What favors and the messages amount to is what was said.                *)
AmountTo(favors, messages, said) ==
    \A s \in Servers : LastWord(favors, messages, Len(messages), s, StatusOf(said, s))

(* A change is about a server that is known by then.                       *)
ChangesKnown(favors, messages) ==
    \A i \in 1..Len(messages) : messages[i].type = "change" =>
        \E status \in Statuses : LastWord(favors, messages, i - 1, messages[i].sid, status)
OnlyPings == ~ isRecord => \A i \in 1..Len(told) : told[i].type = "ping"

ToldInv ==
    /\ servers \in Favors /\ isRecord \in BOOLEAN /\ told \in Seq(Messages)
    /\ isRecord \/ told # <<>> => link
    /\ KnowsWhatDaemonKnows /\ ChangesKnown(sid2FavorSV, told) /\ OnlyPings

IInv ==
    /\ DirectoryInv /\ SocketsInv /\ ToldInv
    /\ daemonListed \in BOOLEAN /\ faults \in 0..MaxFaults
---------------------------------------------------------------------------
(* Maps from servers to statuses                                           *)
LEMMA FavorsAre ==
    ASSUME NEW f PROVE f \in Favors <=> /\ f \in [DOMAIN f -> Statuses]
                                        /\ DOMAIN f \subseteq Servers
  BY DEF Favors

LEMMA WithIsFavors ==
    ASSUME NEW f \in Favors, NEW s \in Servers, NEW status \in Statuses
    PROVE  /\ With(f, s, status) \in Favors
           /\ DOMAIN With(f, s, status) = DOMAIN f \cup {s}
  <1>1. f \in [DOMAIN f -> Statuses] /\ DOMAIN f \subseteq Servers
    BY FavorsAre
  <1> DEFINE w == With(f, s, status)
  <1>2. w \in [DOMAIN f \cup {s} -> Statuses]
    BY <1>1 DEF With
  <1>3. DOMAIN w = DOMAIN f \cup {s}
    BY DEF With
  <1>4. w \in Favors
    BY <1>1, <1>2, <1>3, FavorsAre
  <1> QED
    BY <1>3, <1>4

LEMMA WithoutIsFavors ==
    ASSUME NEW f \in Favors, NEW s \in Servers
    PROVE  /\ Without(f, {s}) \in Favors
           /\ DOMAIN Without(f, {s}) = DOMAIN f \ {s}
           /\ \A t \in Servers :
                 StatusOf(Without(f, {s}), t) = IF t = s THEN "gone" ELSE StatusOf(f, t)
  <1>1. f \in [DOMAIN f -> Statuses] /\ DOMAIN f \subseteq Servers
    BY FavorsAre
  <1> DEFINE w == Without(f, {s})
  <1>2. w \in [DOMAIN f \ {s} -> Statuses]
    BY <1>1 DEF Without
  <1>3. DOMAIN w = DOMAIN f \ {s}
    BY DEF Without
  <1>4. w \in Favors
    BY <1>1, <1>2, <1>3, FavorsAre
  <1>5. \A t \in DOMAIN w : w[t] = f[t]
    BY DEF Without
  <1> QED
    BY <1>3, <1>4, <1>5 DEF StatusOf

LEMMA WithStatus ==
    ASSUME NEW f \in Favors, NEW s \in Servers, NEW status \in Statuses, NEW w,
           w = With(f, s, status)
    PROVE  \A t \in Servers : StatusOf(w, t) = IF t = s THEN status ELSE StatusOf(f, t)
  <1>1. DOMAIN w = DOMAIN f \cup {s} /\ \A t \in DOMAIN w : w[t] = IF t = s THEN status ELSE f[t]
    BY DEF With
  <1> QED
    BY <1>1 DEF StatusOf

LEMMA StatusIsStatus ==
    ASSUME NEW f \in Favors, NEW s \in Servers
    PROVE  /\ StatusOf(f, s) \in Statuses <=> s \in DOMAIN f
           /\ s \in DOMAIN f => StatusOf(f, s) = f[s]
  BY FavorsAre DEF StatusOf, Statuses

LEMMA ImroutersFinite ==
    ASSUME NEW f \in Favors, NEW gid
    PROVE  /\ IsFiniteSet(Imrouters(f, gid))
           /\ Cardinality(Imrouters(f, gid)) \in Nat
  <1>1. Imrouters(f, gid) \subseteq Servers
    BY FavorsAre DEF Imrouters
  <1>2. IsFiniteSet(Imrouters(f, gid))
    BY <1>1, DirectoryAssumption, FS_Subset
  <1> QED
    BY <1>2, FS_CardinalityType
---------------------------------------------------------------------------
(* The maps                                                                *)
(* Of an id listed once or not at all, __SuffixMapDel leaves nothing, and  *)
(* __SuffixMapAdd then makes one entry.                                    *)
LEMMA OnceIs ==
    ASSUME NEW S
    PROVE  /\ Once(S) \in [Servers -> Nat]
           /\ \A t \in Servers : Once(S)[t] = IF t \in S THEN 1 ELSE 0
  BY DEF Once

LEMMA OnceLess ==
    ASSUME NEW S, NEW s \in Servers
    PROVE  [Once(S) EXCEPT ![s] = IF @ = 0 THEN 0 ELSE @ - 1] = Once(S \ {s})
  <1>1. [Once(S) EXCEPT ![s] = 0] = Once(S \ {s})
    BY DEF Once
  <1>2. (IF Once(S)[s] = 0 THEN 0 ELSE Once(S)[s] - 1) = 0
    BY DEF Once
  <1> QED
    BY <1>1, <1>2, Zenon

LEMMA OnceMore ==
    ASSUME NEW S, NEW s \in Servers, s \notin S
    PROVE  [Once(S) EXCEPT ![s] = @ + 1] = Once(S \cup {s})
  <1>1. Once(S)[s] = 0
    BY DEF Once
  <1>2. Once(S)[s] + 1 = 1
    BY <1>1
  <1>3. [Once(S) EXCEPT ![s] = 1] = Once(S \cup {s})
    BY DEF Once
  <1> QED
    BY <1>2, <1>3, Zenon

(* The index after is the one before but for the list of one name.         *)
Relisted(before, after, name, list) ==
    /\ after \in [Names -> [Servers -> Nat]]
    /\ after[name] = list
    /\ \A n \in Names \ {name} : after[n] = before[n]

LEMMA IndexChanged ==
    ASSUME NEW index \in [Names -> [Servers -> Nat]], NEW name \in Names,
           NEW list \in [Servers -> Nat]
    PROVE  Relisted(index, [index EXCEPT ![name] = list], name, list)
  BY DEF Relisted

LEMMA SuffixMapDelOnce ==
    ASSUME NEW index \in [Names -> [Servers -> Nat]], NEW s \in Servers, NEW S,
           index[Name[s]] = Once(S)
    PROVE  Relisted(index, SuffixMapDel(index, s), Name[s], Once(S \ {s}))
  <1>1. Name[s] \in Names /\ Once(S \ {s}) \in [Servers -> Nat]
    BY DirectoryAssumption, OnceIs
  <1>2. SuffixMapDel(index, s) =
           [index EXCEPT ![Name[s]] =
               [index[Name[s]] EXCEPT ![s] = IF @ = 0 THEN 0 ELSE @ - 1]]
    BY DEF SuffixMapDel
  <1>3. [index[Name[s]] EXCEPT ![s] = IF @ = 0 THEN 0 ELSE @ - 1] = Once(S \ {s})
    BY OnceLess, Zenon
  <1>4. SuffixMapDel(index, s) = [index EXCEPT ![Name[s]] = Once(S \ {s})]
    BY <1>2, <1>3, Zenon
  <1>5. Relisted(index, [index EXCEPT ![Name[s]] = Once(S \ {s})], Name[s], Once(S \ {s}))
    BY <1>1, IndexChanged, Zenon
  <1> QED
    BY <1>4, <1>5, Zenon

LEMMA SuffixMapAddOnce ==
    ASSUME NEW index \in [Names -> [Servers -> Nat]], NEW s \in Servers, NEW S,
           index[Name[s]] = Once(S), s \notin S, NEW status
    PROVE  Relisted(index, SuffixMapAdd(index, s, status), Name[s],
                    Once(IF status = "RUNNING" THEN S \cup {s} ELSE S))
  <1>1. Name[s] \in Names /\ Once(S \cup {s}) \in [Servers -> Nat]
    BY DirectoryAssumption, OnceIs
  <1>2. CASE status = "RUNNING"
    <2>1. SuffixMapAdd(index, s, status) =
             [index EXCEPT ![Name[s]] = [index[Name[s]] EXCEPT ![s] = @ + 1]]
      BY <1>2 DEF SuffixMapAdd
    <2>2. [index[Name[s]] EXCEPT ![s] = @ + 1] = Once(S \cup {s})
      BY OnceMore, Zenon
    <2>3. SuffixMapAdd(index, s, status) = [index EXCEPT ![Name[s]] = Once(S \cup {s})]
      BY <2>1, <2>2, Zenon
    <2>4. Relisted(index, [index EXCEPT ![Name[s]] = Once(S \cup {s})], Name[s],
                   Once(S \cup {s}))
      BY <1>1, IndexChanged, ZenonT(60)
    <2> QED
      BY <1>2, <2>3, <2>4, Zenon
  <1>3. CASE status # "RUNNING"
    BY <1>3 DEF SuffixMapAdd, Relisted
  <1> QED
    BY <1>2, <1>3

LEMMA SuffixMapMoved ==
    ASSUME NEW index \in [Names -> [Servers -> Nat]], NEW s \in Servers, NEW S,
           index[Name[s]] = Once(S), NEW status
    PROVE  Relisted(index, SuffixMapAdd(SuffixMapDel(index, s), s, status), Name[s],
                    Once(IF status = "RUNNING" THEN (S \ {s}) \cup {s} ELSE S \ {s}))
  <1> DEFINE deleted == SuffixMapDel(index, s)
             others == S \ {s}
             moved == SuffixMapAdd(deleted, s, status)
             list == Once(IF status = "RUNNING" THEN others \cup {s} ELSE others)
  <1>1. Relisted(index, deleted, Name[s], Once(others))
    BY SuffixMapDelOnce
  <1>2. s \notin others
    OBVIOUS
  <1> HIDE DEF deleted, others
  <1>3. Relisted(deleted, moved, Name[s], list)
    <2>1. deleted \in [Names -> [Servers -> Nat]] /\ deleted[Name[s]] = Once(others)
      BY <1>1 DEF Relisted
    <2> QED
      BY <1>2, <2>1, SuffixMapAddOnce, Zenon
  <1> HIDE DEF moved, list
  <1>4. Relisted(index, moved, Name[s], list)
    BY <1>1, <1>3 DEF Relisted
  <1> QED
    BY <1>4 DEF deleted, others, moved, list

LEMMA AddKeeps ==
    ASSUME DirectoryInv, NEW s \in Servers, NEW status \in Statuses, OnServerAdd(s, status)
    PROVE  DirectoryInv'
  <1> DEFINE f == sid2FavorSV
             w == With(f, s, status)
  <1>0. f \in Favors /\ Name \in [Servers -> Names] /\ Group \in [Servers -> Groups]
    BY DirectoryAssumption DEF DirectoryInv
  <1>1. sid2FavorSV' = w /\ w \in Favors /\ DOMAIN w = DOMAIN f \cup {s}
    BY <1>0, WithIsFavors DEF OnServerAdd
  <1>2. \A t \in DOMAIN w : w[t] = IF t = s THEN status ELSE f[t]
    BY DEF With
  <1>3. DOMAIN f \subseteq Servers /\ DOMAIN w \subseteq Servers
    BY <1>0, <1>1, FavorsAre
  <1>relisted. Relisted(m_mapSuffix2Srvs, m_mapSuffix2Srvs', Name[s],
                   Once(IF status = "RUNNING" THEN (Running(f, Name[s]) \ {s}) \cup {s}
                                              ELSE Running(f, Name[s]) \ {s}))
    <2>1. /\ Name[s] \in Names /\ m_mapSuffix2Srvs \in [Names -> [Servers -> Nat]]
          /\ m_mapSuffix2Srvs[Name[s]] = Once(Running(f, Name[s]))
      BY <1>0 DEF DirectoryInv, IndexAgrees
    <2>2. m_mapSuffix2Srvs' = SuffixMapAdd(SuffixMapDel(m_mapSuffix2Srvs, s), s, status)
      BY DEF OnServerAdd
    <2>3. Relisted(m_mapSuffix2Srvs,
                   SuffixMapAdd(SuffixMapDel(m_mapSuffix2Srvs, s), s, status), Name[s],
                   Once(IF status = "RUNNING" THEN (Running(f, Name[s]) \ {s}) \cup {s}
                                              ELSE Running(f, Name[s]) \ {s}))
      BY <1>0, <2>1, SuffixMapMoved, Zenon
    <2> QED
      BY <2>2, <2>3, Zenon
  <1>4. ASSUME NEW n \in Names
        PROVE  m_mapSuffix2Srvs'[n] = Once(Running(w, n))
    <2>1. m_mapSuffix2Srvs'[n] = Once(IF n = Name[s]
             THEN IF status = "RUNNING" THEN (Running(f, n) \ {s}) \cup {s} ELSE Running(f, n) \ {s}
             ELSE Running(f, n))
      BY <1>relisted, <1>0 DEF Relisted, DirectoryInv, IndexAgrees
    <2>2. Running(w, n) = IF n = Name[s]
             THEN IF status = "RUNNING" THEN (Running(f, n) \ {s}) \cup {s} ELSE Running(f, n) \ {s}
             ELSE Running(f, n)
      BY <1>1, <1>2 DEF Running
    <2> QED
      BY <2>1, <2>2, <1>3 DEF Running
  <1>5. m_mapSuffix2Srvs' \in [Names -> [Servers -> Nat]]
    BY <1>relisted DEF Relisted
  <1>6. m_mapImrouterCount' \in [Groups -> Nat]
    BY <1>0 DEF OnServerAdd, DirectoryInv
  <1>7. ASSUME NEW g \in Groups
        PROVE  m_mapImrouterCount'[g] >= Cardinality(Imrouters(w, g))
    <2>1. /\ m_mapImrouterCount[g] >= Cardinality(Imrouters(f, g))
          /\ m_mapImrouterCount[g] \in Nat /\ m_mapImrouterCount'[g] \in Nat
          /\ IsFiniteSet(Imrouters(f, g)) /\ Cardinality(Imrouters(f, g)) \in Nat
      BY <1>0, <1>6, ImroutersFinite DEF DirectoryInv, CountsCover
    <2>2. CASE Name[s] = SUFFIX_IMROUTER /\ Group[s] = g
      <3>1. m_mapImrouterCount'[g] = m_mapImrouterCount[g] + 1
        BY <2>2 DEF OnServerAdd, DirectoryInv
      <3>2. Imrouters(w, g) = Imrouters(f, g) \cup {s}
        BY <2>2, <1>1 DEF Imrouters
      <3>3. Cardinality(Imrouters(w, g)) = IF s \in Imrouters(f, g)
               THEN Cardinality(Imrouters(f, g)) ELSE Cardinality(Imrouters(f, g)) + 1
        BY <3>2, <2>1, FS_AddElement
      <3> QED
        BY <3>1, <3>3, <2>1
    <2>3. CASE ~ (Name[s] = SUFFIX_IMROUTER /\ Group[s] = g)
      <3>1. m_mapImrouterCount'[g] = m_mapImrouterCount[g]
        BY <2>3, <1>0 DEF OnServerAdd, DirectoryInv
      <3>2. Imrouters(w, g) = Imrouters(f, g)
        BY <2>3, <1>1 DEF Imrouters
      <3> QED
        BY <3>1, <3>2, <2>1
    <2> QED
      BY <2>2, <2>3
  <1> QED
    BY <1>1, <1>4, <1>5, <1>6, <1>7 DEF OnServerAdd, DirectoryInv, IndexAgrees, CountsCover

LEMMA RemoveKeeps ==
    ASSUME DirectoryInv, NEW s \in DOMAIN sid2FavorSV, OnServerRemove(s)
    PROVE  DirectoryInv'
  <1> DEFINE f == sid2FavorSV
             w == Without(f, {s})
  <1>0. f \in Favors /\ Name \in [Servers -> Names] /\ Group \in [Servers -> Groups]
        /\ s \in Servers
    BY DirectoryAssumption, FavorsAre DEF DirectoryInv
  <1>1. sid2FavorSV' = w /\ w \in Favors /\ DOMAIN w = DOMAIN f \ {s}
    BY <1>0, WithoutIsFavors DEF OnServerRemove
  <1>2. \A t \in DOMAIN w : w[t] = f[t]
    BY DEF Without
  <1>3. DOMAIN f \subseteq Servers /\ DOMAIN w \subseteq Servers
    BY <1>0, <1>1, FavorsAre
  <1>relisted. Relisted(m_mapSuffix2Srvs, m_mapSuffix2Srvs', Name[s],
                   Once(Running(f, Name[s]) \ {s}))
    <2>1. /\ Name[s] \in Names /\ m_mapSuffix2Srvs \in [Names -> [Servers -> Nat]]
          /\ m_mapSuffix2Srvs[Name[s]] = Once(Running(f, Name[s]))
      BY <1>0 DEF DirectoryInv, IndexAgrees
    <2> QED
      BY <1>0, <2>1, SuffixMapDelOnce, Zenon DEF OnServerRemove
  <1>4. ASSUME NEW n \in Names
        PROVE  m_mapSuffix2Srvs'[n] = Once(Running(w, n))
    <2>1. m_mapSuffix2Srvs'[n] = Once(IF n = Name[s] THEN Running(f, n) \ {s} ELSE Running(f, n))
      BY <1>relisted, <1>0 DEF Relisted, DirectoryInv, IndexAgrees
    <2>2. Running(w, n) = IF n = Name[s] THEN Running(f, n) \ {s} ELSE Running(f, n)
      BY <1>1, <1>2 DEF Running
    <2> QED
      BY <2>1, <2>2, <1>3 DEF Running
  <1>5. m_mapSuffix2Srvs' \in [Names -> [Servers -> Nat]]
    BY <1>relisted DEF Relisted
  <1>6. m_mapImrouterCount' \in [Groups -> Nat]
    BY <1>0 DEF OnServerRemove, DirectoryInv
  <1>7. ASSUME NEW g \in Groups
        PROVE  m_mapImrouterCount'[g] >= Cardinality(Imrouters(w, g))
    <2>1. /\ m_mapImrouterCount[g] >= Cardinality(Imrouters(f, g))
          /\ m_mapImrouterCount[g] \in Nat
          /\ IsFiniteSet(Imrouters(f, g)) /\ Cardinality(Imrouters(f, g)) \in Nat
      BY <1>0, ImroutersFinite DEF DirectoryInv, CountsCover
    <2>2. CASE Name[s] = SUFFIX_IMROUTER /\ Group[s] = g
      <3>1. s \in Imrouters(f, g) /\ Imrouters(w, g) = Imrouters(f, g) \ {s}
        BY <2>2, <1>1 DEF Imrouters
      <3>2. Cardinality(Imrouters(w, g)) = Cardinality(Imrouters(f, g)) - 1
        BY <3>1, <2>1, FS_RemoveElement, ZenonT(60)
      <3>3. Cardinality(Imrouters(w, g)) \in Nat
        BY <1>1, ImroutersFinite
      <3>4. m_mapImrouterCount'[g] = m_mapImrouterCount[g] - 1
        BY <2>2, <2>1, <3>2, <3>3 DEF OnServerRemove, DirectoryInv
      <3> QED
        BY <3>2, <3>4, <2>1
    <2>3. CASE ~ (Name[s] = SUFFIX_IMROUTER /\ Group[s] = g)
      <3>1. m_mapImrouterCount'[g] = m_mapImrouterCount[g]
        BY <2>3, <1>0 DEF OnServerRemove, DirectoryInv
      <3>2. Imrouters(w, g) = Imrouters(f, g)
        BY <2>3, <1>1 DEF Imrouters
      <3> QED
        BY <3>1, <3>2, <2>1
    <2> QED
      BY <2>2, <2>3
  <1>8. DOMAIN m_mapGid2Route' \subseteq Groups
        /\ m_mapGid2Route' \in [DOMAIN m_mapGid2Route' -> Servers]
    <2>1. CASE m_mapGid2Route' = Empty
      BY <2>1 DEF Empty
    <2>2. CASE m_mapGid2Route' = m_mapGid2Route
      BY <2>2 DEF DirectoryInv
    <2> QED
      BY <2>1, <2>2 DEF OnServerRemove
  <1> QED
    BY <1>1, <1>4, <1>5, <1>6, <1>7, <1>8 DEF DirectoryInv, IndexAgrees, CountsCover

LEMMA ChangeKeeps ==
    ASSUME DirectoryInv, NEW s \in DOMAIN sid2FavorSV, NEW status \in Statuses,
           OnServersStatusChange(s, status)
    PROVE  DirectoryInv'
  <1> DEFINE f == sid2FavorSV
             w == With(f, s, status)
  <1>0. f \in Favors /\ Name \in [Servers -> Names] /\ Group \in [Servers -> Groups]
        /\ s \in Servers
    BY DirectoryAssumption, FavorsAre DEF DirectoryInv
  <1>1. sid2FavorSV' = w /\ w \in Favors /\ DOMAIN w = DOMAIN f
    <2>1. sid2FavorSV' = w /\ w \in Favors /\ DOMAIN w = DOMAIN f \cup {s}
      BY <1>0, WithIsFavors DEF OnServersStatusChange
    <2>2. DOMAIN f \cup {s} = DOMAIN f
      OBVIOUS
    <2> QED
      BY <2>1, <2>2
  <1>2. \A t \in DOMAIN w : w[t] = IF t = s THEN status ELSE f[t]
    BY DEF With
  <1>3. DOMAIN f \subseteq Servers
    BY <1>0, FavorsAre
  <1>relisted. Relisted(m_mapSuffix2Srvs, m_mapSuffix2Srvs', Name[s],
                   Once(IF status = "RUNNING" THEN (Running(f, Name[s]) \ {s}) \cup {s}
                                              ELSE Running(f, Name[s]) \ {s}))
    <2>1. /\ Name[s] \in Names /\ m_mapSuffix2Srvs \in [Names -> [Servers -> Nat]]
          /\ m_mapSuffix2Srvs[Name[s]] = Once(Running(f, Name[s]))
      BY <1>0 DEF DirectoryInv, IndexAgrees
    <2>2. m_mapSuffix2Srvs' = SuffixMapAdd(SuffixMapDel(m_mapSuffix2Srvs, s), s, status)
      BY DEF OnServersStatusChange
    <2>3. Relisted(m_mapSuffix2Srvs,
                   SuffixMapAdd(SuffixMapDel(m_mapSuffix2Srvs, s), s, status), Name[s],
                   Once(IF status = "RUNNING" THEN (Running(f, Name[s]) \ {s}) \cup {s}
                                              ELSE Running(f, Name[s]) \ {s}))
      BY <1>0, <2>1, SuffixMapMoved, Zenon
    <2> QED
      BY <2>2, <2>3, Zenon
  <1>4. ASSUME NEW n \in Names
        PROVE  m_mapSuffix2Srvs'[n] = Once(Running(w, n))
    <2>1. m_mapSuffix2Srvs'[n] = Once(IF n = Name[s]
             THEN IF status = "RUNNING" THEN (Running(f, n) \ {s}) \cup {s} ELSE Running(f, n) \ {s}
             ELSE Running(f, n))
      BY <1>relisted, <1>0 DEF Relisted, DirectoryInv, IndexAgrees
    <2>2. Running(w, n) = IF n = Name[s]
             THEN IF status = "RUNNING" THEN (Running(f, n) \ {s}) \cup {s} ELSE Running(f, n) \ {s}
             ELSE Running(f, n)
      BY <1>1, <1>2 DEF Running
    <2> QED
      BY <2>1, <2>2, <1>1, <1>3 DEF Running
  <1>5. m_mapSuffix2Srvs' \in [Names -> [Servers -> Nat]]
    BY <1>relisted DEF Relisted
  <1>6. \A g \in Groups : Imrouters(w, g) = Imrouters(f, g)
    BY <1>1 DEF Imrouters
  <1> QED
    BY <1>1, <1>4, <1>5, <1>6
    DEF OnServersStatusChange, DirectoryInv, IndexAgrees, CountsCover

LEMMA RegisteredEstablishes ==
    ASSUME NEW f \in Favors, OnServerRegistered(f)
    PROVE  DirectoryInv'
  <1>1. f \in [DOMAIN f -> Statuses] /\ DOMAIN f \subseteq Servers
    BY FavorsAre
  <1>3. ASSUME NEW g \in Groups
        PROVE  /\ Cardinality(Imrouters(f, g)) \in Nat
               /\ m_mapImrouterCount'[g] = Cardinality(Imrouters(f, g))
    BY ImroutersFinite DEF OnServerRegistered
  <1>4. m_mapImrouterCount' \in [Groups -> Nat]
    BY <1>3 DEF OnServerRegistered
  <1>5. CountsCover'
    BY <1>3 DEF OnServerRegistered, CountsCover
  <1>6. IndexAgrees' /\ m_mapSuffix2Srvs' \in [Names -> [Servers -> Nat]]
    BY OnceIs DEF OnServerRegistered, IndexAgrees
  <1>7. DOMAIN m_mapGid2Route' \subseteq Groups
        /\ m_mapGid2Route' \in [DOMAIN m_mapGid2Route' -> Servers]
    BY DEF OnServerRegistered, Empty
  <1> QED
    BY <1>4, <1>5, <1>6, <1>7 DEF OnServerRegistered, DirectoryInv
---------------------------------------------------------------------------
(* The connections                                                         *)
LEMMA ConnectKeeps ==
    ASSUME SocketsInv, NEW sid \in Everyone, sid \notin DOMAIN sid2cid, Connect(sid),
           UNCHANGED dStart
    PROVE  SocketsInv' /\ sid \in DOMAIN sid2cid'
  <1> DEFINE cid == CHOOSE c \in Cids : c \notin connects
  <1>1. cid \in Cids /\ cid \notin connects
    BY DEF Connect, SocketsInv
  <1>2. /\ DOMAIN sid2cid' = DOMAIN sid2cid \cup {sid}
        /\ \A s \in DOMAIN sid2cid' : sid2cid'[s] = IF s = sid THEN cid ELSE sid2cid[s]
        /\ sid2cid' = [s \in DOMAIN sid2cid \cup {sid} |-> IF s = sid THEN cid ELSE sid2cid[s]]
        /\ connects' = connects \cup {cid} /\ toDelete' = toDelete
    BY DEF Connect, With
  <1>3. sid2cid' \in [DOMAIN sid2cid' -> connects']
    BY <1>2 DEF SocketsInv
  <1>4. \A c \in connects' : \E s \in DOMAIN sid2cid' : sid2cid'[s] = c
    BY <1>2 DEF SocketsInv, NamedConnections
  <1>5. \A s \in DOMAIN sid2cid : sid2cid[s] # cid
    BY <1>1 DEF SocketsInv
  <1>6. \A s, t \in DOMAIN sid2cid' : sid2cid'[s] = sid2cid'[t] => s = t
    BY <1>2, <1>5 DEF SocketsInv, NamedConnections
  <1>7. link' \in BOOLEAN /\ (link' => DAEMON_SERVERID \in DOMAIN sid2cid')
    BY <1>2 DEF Connect, SocketsInv
  <1>8. connects' \subseteq Cids /\ toDelete' \subseteq connects' /\ DOMAIN sid2cid' \subseteq Everyone
    BY <1>1, <1>2 DEF SocketsInv
  <1> QED
    BY <1>2, <1>3, <1>4, <1>6, <1>7, <1>8 DEF SocketsInv, NamedConnections

LEMMA DispatchedKeeps ==
    ASSUME SocketsInv, NEW sid \in Everyone, NEW known, Dispatched(sid, known), UNCHANGED dStart
    PROVE  SocketsInv' /\ sid \in DOMAIN sid2cid' /\ (link => link')
  <1>1. CASE UNCHANGED <<sockets, link>> /\ sid \in DOMAIN sid2cid
    BY <1>1 DEF SocketsInv, NamedConnections, sockets
  <1>2. CASE sid \notin DOMAIN sid2cid /\ Connect(sid)
    BY <1>2, ConnectKeeps DEF Connect, SocketsInv
  <1> QED
    BY <1>1, <1>2 DEF Dispatched

(* What is disabled is put on the list                                     *)
LEMMA NotDispatchedKeeps ==
    ASSUME SocketsInv, NEW sid \in Everyone, NotDispatched(sid),
           dStart' \in {dStart, "broken"}
    PROVE  SocketsInv'
  <1>1. toDelete' \subseteq connects'
    BY DEF NotDispatched, SocketsInv
  <1> QED
    BY <1>1 DEF NotDispatched, SocketsInv, NamedConnections

(* The link with the daemon breaks when its connection is erased           *)
LEMMA EraseKeeps ==
    ASSUME SocketsInv, NEW cids \in SUBSET connects, NEW rest, EraseConnect(cids, rest)
    PROVE  /\ SocketsInv'
           /\ \/ ~ link' /\ ~ isRecord' /\ told' = <<>>
              \/ link' = link /\ isRecord' = isRecord /\ told' = rest
  <1> DEFINE sids == {s \in DOMAIN sid2cid : sid2cid[s] \in cids}
  <1>1. /\ DOMAIN sid2cid' = DOMAIN sid2cid \ sids
        /\ \A s \in DOMAIN sid2cid' : sid2cid'[s] = sid2cid[s]
        /\ sid2cid' = [s \in DOMAIN sid2cid \ sids |-> sid2cid[s]]
        /\ connects' = connects \ cids /\ toDelete' = toDelete \ cids
    BY DEF EraseConnect, Without
  <1>2. sid2cid' \in [DOMAIN sid2cid' -> connects']
    BY <1>1 DEF SocketsInv
  <1>3. \A c \in connects' : \E s \in DOMAIN sid2cid' : sid2cid'[s] = c
    BY <1>1 DEF SocketsInv, NamedConnections
  <1>4. \A s, t \in DOMAIN sid2cid' : sid2cid'[s] = sid2cid'[t] => s = t
    BY <1>1 DEF SocketsInv, NamedConnections
  <1>5. connects' \subseteq Cids /\ toDelete' \subseteq connects' /\ DOMAIN sid2cid' \subseteq Everyone
    BY <1>1 DEF SocketsInv
  <1>6. CASE DAEMON_SERVERID \in sids
    BY <1>1, <1>2, <1>3, <1>4, <1>5, <1>6 DEF EraseConnect, SocketsInv, NamedConnections
  <1>7. CASE DAEMON_SERVERID \notin sids
    BY <1>1, <1>2, <1>3, <1>4, <1>5, <1>7 DEF EraseConnect, SocketsInv, NamedConnections
  <1> QED
    BY <1>6, <1>7

(* What a removed server has is not the daemon's                           *)
LEMMA RemovedHasOwn ==
    ASSUME SocketsInv, NEW s \in Servers, NEW rest,
           EraseConnect({cid \in connects : s \in DOMAIN sid2cid /\ cid = sid2cid[s]}, rest)
    PROVE  SocketsInv' /\ told' = rest /\ UNCHANGED <<link, isRecord, dStart>>
  <1> DEFINE cids == {cid \in connects : s \in DOMAIN sid2cid /\ cid = sid2cid[s]}
  <1>1. cids \in SUBSET connects
    OBVIOUS
  <1>2. SocketsInv'
    BY <1>1, EraseKeeps
  <1>3. DAEMON_SERVERID \notin {t \in DOMAIN sid2cid : sid2cid[t] \in cids}
    BY DirectoryAssumption DEF SocketsInv, NamedConnections
  <1> QED
    BY <1>2, <1>3 DEF EraseConnect
---------------------------------------------------------------------------
(* What is under way                                                       *)
LEMMA MessagesAre ==
    /\ \A m \in Messages : m.type \in {"add", "change", "remove", "list", "ping"}
    /\ \A m \in Messages : m.type \in {"add", "change"} => m.sid \in Servers /\ m.status \in Statuses
    /\ \A m \in Messages : m.type = "remove" => m.sid \in Servers
    /\ \A m \in Messages : m.type = "list" => m.favors \in Favors
    /\ \A m \in Messages : m.type = "ping" => m.isRecord \in BOOLEAN
  BY DEF Messages

LEMMA MessagesMade ==
    /\ \A s \in Servers, status \in Statuses :
          Add(s, status) \in Messages /\ Change(s, status) \in Messages
    /\ \A s \in Servers : Remove(s) \in Messages
    /\ \A f \in Favors : List(f) \in Messages
    /\ \A b \in BOOLEAN : PingRes(b) \in Messages
  BY DEF Messages, Add, Change, Remove, List, PingRes

(* What is said first is known when it is read                             *)
LEMMA TailKeeps ==
    ASSUME NEW f, NEW w, NEW messages \in Seq(Messages), messages # <<>>, NEW s \in Servers,
           StatusOf(w, s) = IF About(Head(messages), s) THEN Says(Head(messages), s)
                                                       ELSE StatusOf(f, s),
           NEW n \in 1..Len(messages), NEW status, LastWord(f, messages, n, s, status)
    PROVE  LastWord(w, Tail(messages), n - 1, s, status)
  <1> DEFINE rest == Tail(messages)
  <1>1. /\ rest \in Seq(Messages) /\ Len(rest) = Len(messages) - 1
        /\ \A i \in 1..Len(rest) : rest[i] = messages[i + 1]
        /\ Head(messages) = messages[1] /\ Len(messages) \in Nat
    OBVIOUS
  <1>2. CASE /\ \A i \in 1..n : ~ About(messages[i], s)
             /\ StatusOf(f, s) = status
    <2>1. \A i \in 1..(n - 1) : i \in 1..Len(rest) /\ i + 1 \in 1..n
      BY <1>1
    <2>2. \A i \in 1..(n - 1) : ~ About(rest[i], s)
      BY <1>1, <1>2, <2>1
    <2>3. ~ About(Head(messages), s)
      BY <1>1, <1>2
    <2> QED
      BY <1>2, <2>2, <2>3 DEF LastWord
  <1>3. ASSUME NEW i \in 1..n, About(messages[i], s), Says(messages[i], s) = status,
               \A j \in (i + 1)..n : ~ About(messages[j], s)
        PROVE  LastWord(w, rest, n - 1, s, status)
    <2>1. \A j \in i..(n - 1) : j \in 1..Len(rest) /\ j + 1 \in (i + 1)..n
      BY <1>1
    <2>2. \A j \in i..(n - 1) : ~ About(rest[j], s)
      BY <1>1, <1>3, <2>1
    <2>3. CASE i = 1
      <3>1. \A j \in 1..(n - 1) : ~ About(rest[j], s)
        BY <2>2, <2>3
      <3>2. StatusOf(w, s) = status
        BY <1>1, <1>3, <2>3
      <3> QED
        BY <3>1, <3>2 DEF LastWord
    <2>4. CASE i # 1
      <3>1. i - 1 \in 1..(n - 1) /\ i - 1 \in 1..Len(rest) /\ (i - 1) + 1 = i
        BY <1>1, <2>4
      <3>2. rest[i - 1] = messages[i]
        BY <1>1, <3>1
      <3>3. \A j \in ((i - 1) + 1)..(n - 1) : ~ About(rest[j], s)
        BY <2>2, <3>1
      <3> QED
        BY <1>3, <3>1, <3>2, <3>3 DEF LastWord
    <2> QED
      BY <2>3, <2>4
  <1> QED
    BY <1>2, <1>3 DEF LastWord

LEMMA AppendKeeps ==
    ASSUME NEW f, NEW messages \in Seq(Messages), NEW m \in Messages, NEW s,
           NEW n \in 0..Len(messages), NEW status, LastWord(f, messages, n, s, status)
    PROVE  LastWord(f, Append(messages, m), n, s, status)
  <1>1. \A i \in 1..n : Append(messages, m)[i] = messages[i]
    OBVIOUS
  <1>2. CASE /\ \A i \in 1..n : ~ About(messages[i], s)
             /\ StatusOf(f, s) = status
    BY <1>1, <1>2 DEF LastWord
  <1>3. ASSUME NEW i \in 1..n, About(messages[i], s), Says(messages[i], s) = status,
               \A j \in (i + 1)..n : ~ About(messages[j], s)
        PROVE  LastWord(f, Append(messages, m), n, s, status)
    <2>1. \A j \in (i + 1)..n : j \in 1..n
      OBVIOUS
    <2>2. \A j \in (i + 1)..n : ~ About(Append(messages, m)[j], s)
      BY <1>1, <1>3, <2>1
    <2> QED
      BY <1>1, <1>3, <2>2 DEF LastWord
  <1> QED
    BY <1>2, <1>3 DEF LastWord

LEMMA AppendOther ==
    ASSUME NEW f, NEW messages \in Seq(Messages), NEW m \in Messages, NEW s, ~ About(m, s),
           NEW status, LastWord(f, messages, Len(messages), s, status)
    PROVE  LastWord(f, Append(messages, m), Len(messages) + 1, s, status)
  <1> DEFINE more == Append(messages, m)
             n == Len(messages)
  <1>1. n \in Nat /\ more[n + 1] = m /\ n \in 0..n
    OBVIOUS
  <1>2. LastWord(f, more, n, s, status)
    BY <1>1, AppendKeeps
  <1>3. CASE /\ \A i \in 1..n : ~ About(more[i], s)
             /\ StatusOf(f, s) = status
    <2>1. \A i \in 1..(n + 1) : i \in 1..n \/ i = n + 1
      BY <1>1
    <2> HIDE DEF more, n
    <2> QED
      BY <1>1, <1>3, <2>1 DEF LastWord
  <1>4. ASSUME NEW i \in 1..n, About(more[i], s), Says(more[i], s) = status,
               \A j \in (i + 1)..n : ~ About(more[j], s)
        PROVE  LastWord(f, more, n + 1, s, status)
    <2>1. i \in 1..(n + 1) /\ \A j \in (i + 1)..(n + 1) : j \in (i + 1)..n \/ j = n + 1
      BY <1>1
    <2> HIDE DEF more, n
    <2> QED
      BY <1>1, <1>4, <2>1 DEF LastWord
  <1> HIDE DEF more
  <1> QED
    BY <1>2, <1>3, <1>4, SMTT(30) DEF LastWord

LEMMA AppendSays ==
    ASSUME NEW f, NEW messages \in Seq(Messages), NEW m \in Messages, NEW s, About(m, s)
    PROVE  LastWord(f, Append(messages, m), Len(messages) + 1, s, Says(m, s))
  <1> DEFINE n == Len(messages) + 1
  <1>1. n \in 1..n /\ Append(messages, m)[n] = m /\ \A j \in (n + 1)..n : FALSE
    OBVIOUS
  <1> HIDE DEF n
  <1> QED
    BY <1>1 DEF LastWord, n

(* favors becomes w when the first message is read                         *)
Reads(f, w, message) ==
    \A s \in Servers : StatusOf(w, s) = IF About(message, s) THEN Says(message, s)
                                                            ELSE StatusOf(f, s)

LEMMA KnownTail ==
    ASSUME NEW f, NEW w, NEW messages \in Seq(Messages), messages # <<>>,
           Reads(f, w, Head(messages)), ChangesKnown(f, messages)
    PROVE  ChangesKnown(w, Tail(messages))
  <1> DEFINE rest == Tail(messages)
  <1>1. SUFFICES ASSUME NEW i \in 1..Len(rest), rest[i].type = "change"
                 PROVE  \E status \in Statuses : LastWord(w, rest, i - 1, rest[i].sid, status)
    BY DEF ChangesKnown
  <1>2. /\ i \in 1..Len(messages) /\ i + 1 \in 1..Len(messages) /\ (i + 1) - 1 = i
        /\ rest[i] = messages[i + 1] /\ messages[i + 1] \in Messages
    OBVIOUS
  <1>3. rest[i].sid \in Servers
    BY <1>1, <1>2, MessagesAre
  <1>4. PICK status \in Statuses : LastWord(f, messages, i, rest[i].sid, status)
    BY <1>1, <1>2 DEF ChangesKnown
  <1>5. LastWord(w, rest, i - 1, rest[i].sid, status)
    BY <1>2, <1>3, <1>4, TailKeeps DEF Reads
  <1> QED
    BY <1>5

LEMMA AmountTail ==
    ASSUME NEW f, NEW w, NEW messages \in Seq(Messages), messages # <<>>, NEW said,
           Reads(f, w, Head(messages)), AmountTo(f, messages, said)
    PROVE  AmountTo(w, Tail(messages), said)
  <1>1. SUFFICES ASSUME NEW s \in Servers
                 PROVE  LastWord(w, Tail(messages), Len(Tail(messages)), s, StatusOf(said, s))
    BY DEF AmountTo
  <1>2. Len(messages) \in 1..Len(messages) /\ Len(Tail(messages)) = Len(messages) - 1
    OBVIOUS
  <1>3. LastWord(f, messages, Len(messages), s, StatusOf(said, s))
    BY DEF AmountTo
  <1> QED
    BY <1>2, <1>3, TailKeeps DEF Reads

LEMMA KnownAppend ==
    ASSUME NEW f, NEW messages \in Seq(Messages), NEW m \in Messages,
           ChangesKnown(f, messages),
           m.type = "change" =>
              \E status \in Statuses : LastWord(f, messages, Len(messages), m.sid, status)
    PROVE  ChangesKnown(f, Append(messages, m))
  <1> DEFINE more == Append(messages, m)
  <1>1. SUFFICES ASSUME NEW i \in 1..Len(more), more[i].type = "change"
                 PROVE  \E status \in Statuses : LastWord(f, more, i - 1, more[i].sid, status)
    BY DEF ChangesKnown
  <1>2. CASE i \in 1..Len(messages)
    <2>1. more[i] = messages[i] /\ i - 1 \in 0..Len(messages)
      BY <1>2
    <2>2. PICK status \in Statuses : LastWord(f, messages, i - 1, more[i].sid, status)
      BY <1>1, <1>2, <2>1 DEF ChangesKnown
    <2>3. LastWord(f, more, i - 1, more[i].sid, status)
      BY <2>1, <2>2, AppendKeeps
    <2> QED
      BY <2>3
  <1>3. CASE i = Len(messages) + 1
    <2>1. more[i] = m /\ i - 1 = Len(messages) /\ Len(messages) \in 0..Len(messages)
      BY <1>3
    <2>2. PICK status \in Statuses : LastWord(f, messages, Len(messages), m.sid, status)
      BY <1>1, <2>1
    <2>3. LastWord(f, more, Len(messages), m.sid, status)
      BY <2>1, <2>2, AppendKeeps
    <2> QED
      BY <2>1, <2>3
  <1> QED
    BY <1>2, <1>3

LEMMA AmountAppend ==
    ASSUME NEW f, NEW messages \in Seq(Messages), NEW m \in Messages, NEW said, NEW now,
           AmountTo(f, messages, said), Reads(said, now, m)
    PROVE  AmountTo(f, Append(messages, m), now)
  <1>1. SUFFICES ASSUME NEW s \in Servers
                 PROVE  LastWord(f, Append(messages, m), Len(Append(messages, m)), s,
                                 StatusOf(now, s))
    BY DEF AmountTo
  <1>2. Len(Append(messages, m)) = Len(messages) + 1
    OBVIOUS
  <1>3. CASE About(m, s)
    BY <1>2, <1>3, AppendSays DEF Reads
  <1>4. CASE ~ About(m, s)
    <2>1. LastWord(f, messages, Len(messages), s, StatusOf(now, s))
      BY <1>4 DEF AmountTo, Reads
    <2> QED
      BY <1>2, <1>4, <2>1, AppendOther
  <1> QED
    BY <1>3, <1>4

(* Ping answers are about no server, a list is about all                   *)
LEMMA PingReads ==
    ASSUME NEW f, NEW m \in Messages, m.type = "ping"
    PROVE  Reads(f, f, m)
  BY DEF Reads, About

LEMMA ListAmounts ==
    ASSUME NEW f, NEW messages \in Seq(Messages), NEW said \in Favors
    PROVE  AmountTo(f, Append(messages, List(said)), said)
  <1>1. SUFFICES ASSUME NEW s \in Servers
                 PROVE  LastWord(f, Append(messages, List(said)),
                                 Len(Append(messages, List(said))), s, StatusOf(said, s))
    BY DEF AmountTo
  <1>2. Len(Append(messages, List(said))) = Len(messages) + 1 /\ List(said) \in Messages
    BY MessagesMade
  <1>3. About(List(said), s) /\ Says(List(said), s) = StatusOf(said, s)
    BY DEF About, Says, List
  <1> QED
    BY <1>2, <1>3, AppendSays
---------------------------------------------------------------------------
(* A message is read                                                       *)
LEMMA ReadKeeps ==
    ASSUME ToldInv, told # <<>>, told' = Tail(told), UNCHANGED <<link, isRecord, servers>>,
           Reads(sid2FavorSV, sid2FavorSV', Head(told))
    PROVE  ToldInv'
  <1>1. told \in Seq(Messages) /\ told' \in Seq(Messages) /\ Len(told') = Len(told) - 1
        /\ \A i \in 1..Len(told') : told'[i] = told[i + 1] /\ i + 1 \in 1..Len(told)
    BY DEF ToldInv
  <1>2. ChangesKnown(sid2FavorSV', told')
    BY <1>1, KnownTail DEF ToldInv
  <1>3. KnowsWhatDaemonKnows'
    <2>1. isRecord => AmountTo(sid2FavorSV', Tail(told), servers)
      BY <1>1, AmountTail DEF ToldInv, KnowsWhatDaemonKnows, AmountTo
    <2> QED
      BY <2>1 DEF KnowsWhatDaemonKnows, AmountTo
  <1>4. OnlyPings'
    BY <1>1 DEF ToldInv, OnlyPings
  <1> QED
    BY <1>1, <1>2, <1>3, <1>4 DEF ToldInv

(* The daemon says more                                                    *)
LEMMA SayingKeeps ==
    ASSUME ToldInv, NEW m \in Messages, told' = Append(told, m), link', isRecord' = isRecord,
           UNCHANGED sid2FavorSV, servers' \in Favors,
           isRecord \/ m.type = "ping",
           Reads(servers, servers', m), m.type = "change" => m.sid \in DOMAIN servers
    PROVE  ToldInv'
  <1>1. /\ told \in Seq(Messages) /\ told' \in Seq(Messages) /\ Len(told') = Len(told) + 1
        /\ \A i \in 1..Len(told') : \/ told'[i] = told[i] /\ i \in 1..Len(told)
                                    \/ told'[i] = m
    BY DEF ToldInv
  <1>2. m.type = "change" =>
           \E status \in Statuses : LastWord(sid2FavorSV, told, Len(told), m.sid, status)
    <2>1. SUFFICES ASSUME m.type = "change"
                   PROVE  LastWord(sid2FavorSV, told, Len(told), m.sid, StatusOf(servers, m.sid))
                          /\ StatusOf(servers, m.sid) \in Statuses
      OBVIOUS
    <2>2. isRecord /\ m.sid \in Servers
      BY <2>1, MessagesAre
    <2> QED
      BY <2>1, <2>2, StatusIsStatus DEF ToldInv, KnowsWhatDaemonKnows
  <1>3. ChangesKnown(sid2FavorSV', told')
    BY <1>1, <1>2, KnownAppend DEF ToldInv
  <1>4. KnowsWhatDaemonKnows'
    <2>1. isRecord => AmountTo(sid2FavorSV, Append(told, m), servers')
      BY <1>1, AmountAppend DEF ToldInv, KnowsWhatDaemonKnows, AmountTo
    <2> QED
      BY <2>1 DEF KnowsWhatDaemonKnows, AmountTo
  <1>5. OnlyPings'
    BY <1>1 DEF ToldInv, OnlyPings
  <1> QED
    BY <1>1, <1>3, <1>4, <1>5 DEF ToldInv

(* Nobody is at the other end                                              *)
LEMMA CutOffKeeps ==
    ASSUME ToldInv, ~ isRecord', told' = <<>>, isRecord' \in BOOLEAN, UNCHANGED servers
    PROVE  ToldInv'
  BY DEF ToldInv, KnowsWhatDaemonKnows, ChangesKnown, OnlyPings

LEMMA UntouchedKeeps ==
    ASSUME ToldInv, UNCHANGED <<told, servers, isRecord, sid2FavorSV>>, link => link'
    PROVE  ToldInv'
  BY DEF ToldInv, KnowsWhatDaemonKnows, OnlyPings

LEMMA DirectoryUnchanged ==
    ASSUME DirectoryInv, UNCHANGED directory
    PROVE  DirectoryInv'
  BY DEF DirectoryInv, directory, IndexAgrees, CountsCover
LEMMA SocketsUnchanged ==
    ASSUME SocketsInv, UNCHANGED <<sockets, link>>, dStart' \in {"connected", "pinging", "broken"},
           dStart' # "broken" => dStart # "broken" \/ DAEMON_SERVERID \in DOMAIN sid2cid
    PROVE  SocketsInv'
  BY DEF SocketsInv, sockets, NamedConnections

LEMMA TroubleKeeps ==
    ASSUME faults \in 0..MaxFaults, NEW trouble, Trouble(trouble)
    PROVE  faults' \in 0..MaxFaults
  <1>1. CASE trouble
    BY <1>1, DirectoryAssumption DEF Trouble
  <1>2. CASE ~ trouble
    BY <1>2 DEF Trouble
  <1> QED
    BY <1>1, <1>2
---------------------------------------------------------------------------
LEMMA InitEstablishes == Init => IInv
  <1> SUFFICES ASSUME Init PROVE IInv
    OBVIOUS
  <1>1. Empty \in Favors /\ DOMAIN Empty = {}
    BY FavorsAre DEF Empty
  <1>2. \A g \in Groups : Imrouters(Empty, g) = {}
    BY <1>1 DEF Imrouters
  <1>3. \A n \in Names : Running(Empty, n) = {}
    BY <1>1 DEF Running
  <1>4. DirectoryInv
    <2>1. /\ sid2FavorSV = Empty /\ m_mapSuffix2Srvs = [n \in Names |-> Once({})]
          /\ m_mapImrouterCount = [g \in Groups |-> 0] /\ m_mapGid2Route = Empty
      BY DEF Init
    <2>2. IndexAgrees
      BY <1>3, <2>1 DEF IndexAgrees
    <2>3. \A g \in Groups : Cardinality(Imrouters(sid2FavorSV, g)) = 0
      BY <1>2, <2>1, FS_EmptySet
    <2>4. CountsCover
      BY <2>1, <2>3 DEF CountsCover
    <2>5. /\ DOMAIN m_mapGid2Route \subseteq Groups
          /\ m_mapGid2Route \in [DOMAIN m_mapGid2Route -> Servers]
      BY <2>1 DEF Empty
    <2> QED
      BY <1>1, <2>1, <2>2, <2>4, <2>5, OnceIs DEF DirectoryInv
  <1>5. SocketsInv
    BY <1>1 DEF Init, SocketsInv, NamedConnections, Empty
  <1>6. ToldInv
    <2>1. servers = Empty /\ ~ isRecord /\ isRecord \in BOOLEAN /\ told = <<>>
      BY DEF Init
    <2> QED
      BY <1>1, <2>1 DEF ToldInv, KnowsWhatDaemonKnows, ChangesKnown, OnlyPings
  <1>7. daemonListed \in BOOLEAN
    BY DEF Init
  <1>8. faults \in 0..MaxFaults
    BY DirectoryAssumption DEF Init
  <1> QED
    BY <1>4, <1>5, <1>6, <1>7, <1>8 DEF IInv

(* The first message, and what it does to what is known                    *)
LEMMA HeadIs ==
    ASSUME ToldInv, told # <<>>
    PROVE  Head(told) \in Messages
  BY DEF ToldInv

(* What is known afterwards is what the message says.                      *)
LEMMA AddReads ==
    ASSUME IInv, ReceiveAdd
    PROVE  LET m == Head(told) IN
           /\ told # <<>> /\ m \in Messages /\ m.type = "add"
           /\ m.sid \in Servers /\ m.status \in Statuses
           /\ Reads(sid2FavorSV, sid2FavorSV', m)
  <1> DEFINE m == Head(told)
  <1>1. told # <<>> /\ m \in Messages /\ m.type = "add"
    BY HeadIs DEF ReceiveAdd, Comes, IInv
  <1>2. m.sid \in Servers /\ m.status \in Statuses
    BY <1>1, MessagesAre
  <1>3. Reads(sid2FavorSV, sid2FavorSV', m)
    <2>1. sid2FavorSV' = With(sid2FavorSV, m.sid, m.status) /\ sid2FavorSV \in Favors
      BY DEF IInv, DirectoryInv, ReceiveAdd, OnServerAdd
    <2>2. \A t \in Servers : StatusOf(With(sid2FavorSV, m.sid, m.status), t) =
                                IF t = m.sid THEN m.status ELSE StatusOf(sid2FavorSV, t)
      <3> HIDE DEF m
      <3> QED
        BY <1>2, <2>1, WithStatus
    <2> QED
      BY <1>1, <2>1, <2>2 DEF Reads, About, Says
  <1> QED
    BY <1>1, <1>2, <1>3

LEMMA ReceiveAddKeeps == ASSUME IInv, ReceiveAdd PROVE IInv'
  <1> DEFINE m == Head(told)
  <1>1. /\ told # <<>> /\ m.sid \in Servers /\ m.status \in Statuses
        /\ Reads(sid2FavorSV, sid2FavorSV', m)
    BY AddReads
  <1>2. DirectoryInv'
    BY <1>1, AddKeeps DEF IInv, ReceiveAdd
  <1>3. SocketsInv'
    BY SocketsUnchanged DEF IInv, SocketsInv, ReceiveAdd, Read
  <1>4. ToldInv'
    BY <1>1, ReadKeeps DEF IInv, ReceiveAdd, Read
  <1> QED
    BY <1>2, <1>3, <1>4 DEF IInv, ReceiveAdd

LEMMA RemoveReads ==
    ASSUME IInv, ReceiveRemove
    PROVE  LET m == Head(told) IN
           /\ told # <<>> /\ m \in Messages /\ m.type = "remove" /\ m.sid \in Servers
           /\ SocketsInv' /\ told' = Tail(told) /\ UNCHANGED <<link, isRecord, dStart>>
           /\ Reads(sid2FavorSV, sid2FavorSV', m)
  <1> DEFINE m == Head(told)
  <1>1. told # <<>> /\ m \in Messages /\ m.type = "remove"
    BY HeadIs DEF ReceiveRemove, Comes, IInv
  <1>2. m.sid \in Servers
    BY <1>1, MessagesAre
  <1>3. SocketsInv' /\ told' = Tail(told) /\ UNCHANGED <<link, isRecord, dStart>>
    BY <1>2, RemovedHasOwn DEF IInv, ReceiveRemove
  <1>4. Reads(sid2FavorSV, sid2FavorSV', m)
    <2>0. sid2FavorSV \in Favors
      BY DEF IInv, DirectoryInv
    <2>1. CASE m.sid \in DOMAIN sid2FavorSV
      <3>1. sid2FavorSV' = Without(sid2FavorSV, {m.sid})
        BY <2>1 DEF ReceiveRemove, OnServerRemove
      <3>2. \A t \in Servers : StatusOf(sid2FavorSV', t) =
                                  IF t = m.sid THEN "gone" ELSE StatusOf(sid2FavorSV, t)
        BY <1>2, <2>0, <3>1, WithoutIsFavors
      <3> QED
        BY <1>1, <3>2 DEF Reads, About, Says
    <2>2. CASE m.sid \notin DOMAIN sid2FavorSV
      <3>1. sid2FavorSV' = sid2FavorSV
        BY <2>2 DEF ReceiveRemove, directory
      <3>2. StatusOf(sid2FavorSV, m.sid) = "gone"
        BY <2>2 DEF StatusOf
      <3> QED
        BY <1>1, <3>1, <3>2 DEF Reads, About, Says
    <2> QED
      BY <2>1, <2>2
  <1> QED
    BY <1>1, <1>2, <1>3, <1>4

LEMMA ReceiveRemoveKeeps == ASSUME IInv, ReceiveRemove PROVE IInv'
  <1> DEFINE m == Head(told)
  <1>1. /\ told # <<>> /\ m.sid \in Servers
        /\ SocketsInv' /\ told' = Tail(told) /\ UNCHANGED <<link, isRecord, dStart>>
        /\ Reads(sid2FavorSV, sid2FavorSV', m)
    BY RemoveReads
  <1>2. DirectoryInv'
    <2>1. CASE m.sid \in DOMAIN sid2FavorSV
      BY <2>1, RemoveKeeps DEF IInv, ReceiveRemove
    <2>2. CASE m.sid \notin DOMAIN sid2FavorSV
      BY <2>2, DirectoryUnchanged DEF IInv, ReceiveRemove
    <2> QED
      BY <2>1, <2>2
  <1>3. ToldInv'
    BY <1>1, ReadKeeps DEF IInv, ReceiveRemove
  <1> QED
    BY <1>1, <1>2, <1>3 DEF IInv, ReceiveRemove

LEMMA ChangeReads ==
    ASSUME IInv, ReceiveChange
    PROVE  LET m == Head(told) IN
           /\ told # <<>> /\ m \in Messages /\ m.type = "change"
           /\ m.status \in Statuses /\ m.sid \in DOMAIN sid2FavorSV
           /\ Reads(sid2FavorSV, sid2FavorSV', m)
  <1> DEFINE m == Head(told)
  <1>1. told # <<>> /\ m \in Messages /\ m.type = "change"
    BY HeadIs DEF ReceiveChange, Comes, IInv
  <1>2. m.sid \in Servers /\ m.status \in Statuses /\ sid2FavorSV \in Favors
    BY <1>1, MessagesAre DEF IInv, DirectoryInv
  <1>3. m.sid \in DOMAIN sid2FavorSV
    <2>1. 1 \in 1..Len(told) /\ m = told[1] /\ 1 - 1 = 0
      BY <1>1 DEF IInv, ToldInv
    <2>2. PICK status \in Statuses : LastWord(sid2FavorSV, told, 0, m.sid, status)
      BY <1>1, <2>1 DEF IInv, ToldInv, ChangesKnown
    <2>3. StatusOf(sid2FavorSV, m.sid) = status
      BY <2>2 DEF LastWord
    <2> QED
      BY <1>2, <2>3, StatusIsStatus
  <1>4. Reads(sid2FavorSV, sid2FavorSV', m)
    <2>1. sid2FavorSV' = With(sid2FavorSV, m.sid, m.status)
      BY <1>3 DEF ReceiveChange, OnServersStatusChange
    <2>2. \A t \in Servers : StatusOf(With(sid2FavorSV, m.sid, m.status), t) =
                                IF t = m.sid THEN m.status ELSE StatusOf(sid2FavorSV, t)
      <3> HIDE DEF m
      <3> QED
        BY <1>2, <2>1, WithStatus
    <2> QED
      BY <1>1, <2>1, <2>2 DEF Reads, About, Says
  <1> QED
    BY <1>1, <1>2, <1>3, <1>4

LEMMA ReceiveChangeKeeps == ASSUME IInv, ReceiveChange PROVE IInv'
  <1> DEFINE m == Head(told)
  <1>1. /\ told # <<>> /\ m.status \in Statuses /\ m.sid \in DOMAIN sid2FavorSV
        /\ Reads(sid2FavorSV, sid2FavorSV', m)
    BY ChangeReads
  <1>2. DirectoryInv'
    BY <1>1, ChangeKeeps DEF IInv, ReceiveChange
  <1>3. SocketsInv'
    BY SocketsUnchanged DEF IInv, SocketsInv, ReceiveChange, Read
  <1>4. ToldInv'
    BY <1>1, ReadKeeps DEF IInv, ReceiveChange, Read
  <1> QED
    BY <1>2, <1>3, <1>4 DEF IInv, ReceiveChange

LEMMA ListReads ==
    ASSUME IInv, ReceiveList
    PROVE  LET m == Head(told) IN
           /\ told # <<>> /\ m \in Messages /\ m.type = "list" /\ m.favors \in Favors
           /\ Reads(sid2FavorSV, sid2FavorSV', m)
  <1> DEFINE m == Head(told)
  <1>1. told # <<>> /\ m \in Messages /\ m.type = "list"
    BY HeadIs DEF ReceiveList, Comes, IInv
  <1>2. m.favors \in Favors
    BY <1>1, MessagesAre
  <1>3. Reads(sid2FavorSV, sid2FavorSV', m)
    BY <1>1 DEF Reads, About, Says, ReceiveList, OnServerRegistered
  <1> QED
    BY <1>1, <1>2, <1>3

LEMMA ReceiveListKeeps == ASSUME IInv, ReceiveList PROVE IInv'
  <1> DEFINE m == Head(told)
  <1>1. told # <<>> /\ m.favors \in Favors /\ Reads(sid2FavorSV, sid2FavorSV', m)
    BY ListReads
  <1>2. DirectoryInv'
    BY <1>1, RegisteredEstablishes DEF ReceiveList
  <1>3. SocketsInv'
    BY SocketsUnchanged DEF IInv, SocketsInv, ReceiveList, Read
  <1>4. ToldInv'
    BY <1>1, ReadKeeps DEF IInv, ReceiveList, Read
  <1> QED
    BY <1>2, <1>3, <1>4 DEF IInv, ReceiveList, OnServerRegistered

LEMMA ReceivePingKeeps == ASSUME IInv, ReceivePing PROVE IInv'
  <1> DEFINE m == Head(told)
  <1>1. told # <<>> /\ m \in Messages /\ m.type = "ping" /\ link
    BY HeadIs DEF ReceivePing, Comes, IInv, ToldInv
  <1>2. DirectoryInv' /\ sid2FavorSV' = sid2FavorSV /\ servers' = servers
    BY DirectoryUnchanged DEF IInv, ReceivePing, directory
  <1>3. Reads(sid2FavorSV, sid2FavorSV', m)
    BY <1>1, <1>2, PingReads
  <1>4. DAEMON_SERVERID \in DOMAIN sid2cid /\ DAEMON_SERVERID \in Everyone
    BY <1>1 DEF IInv, SocketsInv, Everyone
  <1>5. CASE m.isRecord
    <2>1. SocketsInv'
      BY <1>4, <1>5, SocketsUnchanged DEF IInv, ReceivePing
    <2>2. ToldInv'
      BY <1>1, <1>2, <1>3, <1>5, ReadKeeps DEF IInv, ReceivePing
    <2> QED
      BY <1>2, <1>5, <2>1, <2>2 DEF IInv, ReceivePing
  <1>6. CASE /\ Dispatched(DAEMON_SERVERID, daemonListed)
             /\ DaemonAnswers(Tail(told), List(servers))
             /\ isRecord' = link' /\ Trouble(LeadsNowhere(DAEMON_SERVERID))
    <2>1. UNCHANGED <<sockets, link>>
      BY <1>4, <1>6 DEF Dispatched
    <2>2. SocketsInv'
      BY <1>4, <2>1, SocketsUnchanged DEF IInv, ReceivePing
    <2>3. link' /\ isRecord' /\ isRecord' \in BOOLEAN /\ told' = Append(Tail(told), List(servers))
      BY <1>1, <1>6, <2>1 DEF DaemonAnswers, IInv, SocketsInv
    <2>4. /\ Tail(told) \in Seq(Messages) /\ List(servers) \in Messages
          /\ servers \in Favors /\ List(servers).type # "change"
      BY <1>1, MessagesMade DEF IInv, ToldInv, List
    <2>5. ChangesKnown(sid2FavorSV', Tail(told))
      BY <1>1, <1>3, KnownTail DEF IInv, ToldInv
    <2>6. ChangesKnown(sid2FavorSV', told')
      BY <2>3, <2>4, <2>5, KnownAppend
    <2>7. AmountTo(sid2FavorSV', told', servers')
      BY <1>2, <2>3, <2>4, ListAmounts
    <2>8. told' \in Seq(Messages)
      BY <2>3, <2>4
    <2>9. ToldInv'
      BY <1>2, <2>3, <2>4, <2>6, <2>7, <2>8
      DEF ToldInv, KnowsWhatDaemonKnows, OnlyPings, AmountTo
    <2>10. faults' \in 0..MaxFaults
      BY <1>6, TroubleKeeps DEF IInv
    <2> QED
      BY <1>2, <2>2, <2>9, <2>10 DEF IInv, ReceivePing
  <1>7. CASE /\ NotDispatched(DAEMON_SERVERID) /\ told' = Tail(told)
             /\ UNCHANGED isRecord /\ Trouble(TRUE)
    <2>1. SocketsInv'
      <3>1. toDelete' \subseteq connects'
        BY <1>7 DEF NotDispatched, IInv, SocketsInv
      <3> QED
        BY <1>4, <1>7, <3>1 DEF NotDispatched, ReceivePing, IInv, SocketsInv, NamedConnections
    <2>2. ToldInv'
      BY <1>1, <1>2, <1>3, <1>7, ReadKeeps DEF IInv, NotDispatched
    <2>3. faults' \in 0..MaxFaults
      BY <1>7, TroubleKeeps DEF IInv
    <2> QED
      BY <1>2, <2>1, <2>2, <2>3 DEF IInv, ReceivePing
  <1> QED
    BY <1>5, <1>6, <1>7 DEF ReceivePing

LEMMA PingKeeps == ASSUME IInv, Ping PROVE IInv'
  <1>1. DirectoryInv' /\ sid2FavorSV' = sid2FavorSV /\ servers' = servers /\ isRecord' = isRecord
    BY DirectoryUnchanged DEF IInv, Ping, directory
  <1>2. DAEMON_SERVERID \in Everyone
    BY DEF Everyone
  <1>3. daemonListed' \in BOOLEAN
    BY DEF Ping, IInv
  <1>4. CASE /\ Dispatched(DAEMON_SERVERID, daemonListed')
             /\ DaemonAnswers(told, PingRes(isRecord))
             /\ Trouble(LeadsNowhere(DAEMON_SERVERID)) /\ UNCHANGED dStart
    <2>1. SocketsInv' /\ (link => link')
      BY <1>2, <1>4, DispatchedKeeps DEF IInv
    <2>2. PingRes(isRecord) \in Messages /\ PingRes(isRecord).type = "ping"
      BY MessagesMade DEF IInv, ToldInv, PingRes
    <2>3. ToldInv'
      <3>1. CASE link'
        <4>1. told' = Append(told, PingRes(isRecord))
          BY <1>4, <3>1 DEF DaemonAnswers
        <4>2. Reads(servers, servers', PingRes(isRecord)) /\ servers' \in Favors
          BY <1>1, <2>2, PingReads DEF IInv, ToldInv
        <4> QED
          BY <1>1, <2>2, <3>1, <4>1, <4>2, SayingKeeps DEF IInv
      <3>2. CASE ~ link'
        <4>1. told' = told
          BY <1>4, <3>2 DEF DaemonAnswers
        <4> QED
          BY <1>1, <2>1, <4>1, UntouchedKeeps DEF IInv
      <3> QED
        BY <3>1, <3>2
    <2>4. faults' \in 0..MaxFaults
      BY <1>4, TroubleKeeps DEF IInv
    <2> QED
      BY <1>1, <1>3, <2>1, <2>3, <2>4 DEF IInv
  <1>5. CASE /\ NotDispatched(DAEMON_SERVERID) /\ dStart' = "broken"
             /\ Trouble(TRUE) /\ UNCHANGED told
    <2>1. SocketsInv'
      BY <1>2, <1>5, NotDispatchedKeeps DEF IInv
    <2>2. ToldInv'
      BY <1>1, <1>5, UntouchedKeeps DEF IInv, NotDispatched
    <2>3. faults' \in 0..MaxFaults
      BY <1>5, TroubleKeeps DEF IInv
    <2> QED
      BY <1>1, <1>3, <2>1, <2>2, <2>3 DEF IInv
  <1> QED
    BY <1>4, <1>5 DEF Ping

LEMMA CheckDaemonKeeps == ASSUME IInv, CheckDaemon PROVE IInv'
  <1>1. DirectoryInv'
    BY DirectoryUnchanged DEF IInv, CheckDaemon
  <1>2. SocketsInv'
    BY SocketsUnchanged DEF IInv, SocketsInv, CheckDaemon
  <1>3. ToldInv'
    BY UntouchedKeeps DEF IInv, CheckDaemon, directory
  <1> QED
    BY <1>1, <1>2, <1>3 DEF IInv, CheckDaemon

LEMMA DispatchKeeps ==
    ASSUME IInv, NEW sid \in Everyone, Dispatch(sid)
    PROVE  IInv'
  <1>1. DirectoryInv'
    BY DirectoryUnchanged DEF IInv, Dispatch
  <1>2. SocketsInv' /\ (link => link')
    <2>1. CASE NotDispatched(sid)
      BY <2>1, NotDispatchedKeeps DEF IInv, Dispatch, NotDispatched
    <2>2. CASE ~ NotDispatched(sid)
      BY <2>2, DispatchedKeeps DEF IInv, Dispatch
    <2> QED
      BY <2>1, <2>2
  <1>3. ToldInv'
    BY <1>2, UntouchedKeeps DEF IInv, Dispatch, directory
  <1>4. faults' \in 0..MaxFaults
    BY TroubleKeeps DEF IInv, Dispatch
  <1> QED
    BY <1>1, <1>2, <1>3, <1>4 DEF IInv, Dispatch

LEMMA RouteNotifyKeeps ==
    ASSUME IInv, NEW gid \in Groups, OnRouteNotify(gid)
    PROVE  IInv'
  <1>1. /\ DOMAIN m_mapGid2Route' \subseteq Groups
        /\ m_mapGid2Route' \in [DOMAIN m_mapGid2Route' -> Servers]
    <2>0. /\ DOMAIN m_mapGid2Route \subseteq Groups
          /\ m_mapGid2Route \in [DOMAIN m_mapGid2Route -> Servers]
      BY DEF IInv, DirectoryInv
    <2>1. CASE RouteErased(gid)
      BY <2>0, <2>1 DEF RouteErased, Without
    <2>2. ASSUME NEW imbridge \in Servers, RouteAdded(gid, imbridge)
          PROVE  <1>1!1 /\ <1>1!2
      BY <2>0, <2>2 DEF RouteAdded, With
    <2> QED
      BY <2>1, <2>2 DEF OnRouteNotify
  <1>2. DirectoryInv'
    BY <1>1 DEF IInv, DirectoryInv, OnRouteNotify, IndexAgrees, CountsCover
  <1>3. SocketsInv'
    BY SocketsUnchanged DEF IInv, SocketsInv, OnRouteNotify
  <1>4. ToldInv'
    BY UntouchedKeeps DEF IInv, OnRouteNotify
  <1> QED
    BY <1>2, <1>3, <1>4 DEF IInv, OnRouteNotify

LEMMA EraseStepKeeps ==
    ASSUME IInv, NEW cids \in SUBSET connects, EraseConnect(cids, told),
           UNCHANGED <<directory, daemonListed, servers>>, faults' \in 0..MaxFaults
    PROVE  IInv'
  <1>1. DirectoryInv' /\ sid2FavorSV' = sid2FavorSV
    BY DirectoryUnchanged DEF IInv, directory
  <1>2. /\ SocketsInv'
        /\ \/ ~ link' /\ ~ isRecord' /\ told' = <<>>
           \/ link' = link /\ isRecord' = isRecord /\ told' = told
    BY EraseKeeps DEF IInv
  <1>3. ToldInv'
    <2>1. isRecord' \in BOOLEAN
      BY DEF EraseConnect, IInv, ToldInv
    <2>2. CASE ~ link' /\ ~ isRecord' /\ told' = <<>>
      BY <2>1, <2>2, CutOffKeeps DEF IInv
    <2>3. CASE link' = link /\ isRecord' = isRecord /\ told' = told
      BY <1>1, <2>3, UntouchedKeeps DEF IInv
    <2> QED
      BY <1>2, <2>2, <2>3
  <1> QED
    BY <1>1, <1>2, <1>3 DEF IInv

LEMMA ConnectionLostKeeps ==
    ASSUME IInv, NEW cid \in Cids, ConnectionLost(cid)
    PROVE  IInv'
  <1>1. {cid} \in SUBSET connects /\ EraseConnect({cid}, told)
        /\ UNCHANGED <<directory, daemonListed, servers>>
    BY DEF ConnectionLost
  <1>2. faults' \in 0..MaxFaults
    BY TroubleKeeps DEF IInv, ConnectionLost
  <1> QED
    BY <1>1, <1>2, EraseStepKeeps

LEMMA LazyDeleteKeeps == ASSUME IInv, LazyDelete PROVE IInv'
  BY EraseStepKeeps DEF LazyDelete, IInv, SocketsInv

(* What the daemon tells agrees with what it knows                         *)
LEMMA TellsKeeps ==
    ASSUME IInv, NEW m \in Messages, Tells(m), servers' \in Favors, m.type # "ping",
           Reads(servers, servers', m), m.type = "change" => m.sid \in DOMAIN servers,
           faults' \in 0..MaxFaults
    PROVE  IInv'
  <1>1. DirectoryInv' /\ sid2FavorSV' = sid2FavorSV
    BY DirectoryUnchanged DEF IInv, Tells, directory
  <1>2. SocketsInv'
    BY SocketsUnchanged DEF IInv, SocketsInv, Tells
  <1>3. ToldInv'
    <2>1. CASE isRecord
      <3>1. link' /\ told' = Append(told, m)
        BY <2>1 DEF Tells, IInv, ToldInv
      <3> QED
        BY <1>1, <2>1, <3>1, SayingKeeps DEF IInv, Tells
    <2>2. CASE ~ isRecord
      BY <1>1, <2>2 DEF Tells, IInv, ToldInv, KnowsWhatDaemonKnows, OnlyPings
    <2> QED
      BY <2>1, <2>2
  <1> QED
    BY <1>1, <1>2, <1>3 DEF IInv, Tells

LEMMA DaemonKeeps == ASSUME IInv, Daemon PROVE IInv'
  <1>0. servers \in Favors /\ DOMAIN servers \subseteq Servers
    BY FavorsAre DEF IInv, ToldInv
  <1>1. ASSUME NEW sid \in Servers, NEW status \in Statuses,
               ServerStarts(sid, status) \/ ServerChanges(sid, status)
        PROVE  IInv'
    <2>1. /\ servers' = With(servers, sid, status) /\ servers' \in Favors
          /\ \A t \in Servers : StatusOf(servers', t) =
                                   IF t = sid THEN status ELSE StatusOf(servers, t)
      <3>1. servers' = With(servers, sid, status)
        BY <1>1 DEF ServerStarts, ServerChanges
      <3>2. /\ With(servers, sid, status) \in Favors
            /\ \A t \in Servers : StatusOf(With(servers, sid, status), t) =
                                     IF t = sid THEN status ELSE StatusOf(servers, t)
        <4>1. With(servers, sid, status) \in Favors
          BY <1>0, WithIsFavors
        <4> QED
          BY <1>0, <4>1, WithStatus
      <3> QED
        BY <3>1, <3>2
    <2>2. Add(sid, status) \in Messages /\ Change(sid, status) \in Messages
      BY MessagesMade
    <2>3. Reads(servers, servers', Add(sid, status)) /\ Reads(servers, servers', Change(sid, status))
      BY <2>1 DEF Reads, About, Says, Add, Change
    <2>4. faults' \in 0..MaxFaults
      BY <1>1 DEF ServerStarts, ServerChanges, IInv
    <2>5. CASE ServerStarts(sid, status)
      <3>1. Add(sid, status).type = "add"
        BY DEF Add
      <3>2. Tells(Add(sid, status))
        BY <2>5 DEF ServerStarts
      <3> QED
        BY <2>1, <2>2, <2>3, <2>4, <3>1, <3>2, TellsKeeps
    <2>6. CASE ServerChanges(sid, status)
      <3>1. Change(sid, status).type = "change" /\ Change(sid, status).sid = sid
        BY DEF Change
      <3>2. Tells(Change(sid, status)) /\ sid \in DOMAIN servers
        BY <2>6 DEF ServerChanges
      <3> QED
        BY <2>1, <2>2, <2>3, <2>4, <3>1, <3>2, TellsKeeps
    <2> QED
      BY <1>1, <2>5, <2>6
  <1>2. ASSUME NEW sid \in Servers, ServerStops(sid)
        PROVE  IInv'
    <2>1. /\ servers' \in Favors
          /\ \A t \in Servers : StatusOf(servers', t) =
                                   IF t = sid THEN "gone" ELSE StatusOf(servers, t)
      BY <1>0, <1>2, WithoutIsFavors DEF ServerStops
    <2>2. Remove(sid) \in Messages /\ Remove(sid).type = "remove"
      BY MessagesMade DEF Remove
    <2>3. Reads(servers, servers', Remove(sid))
      BY <2>1 DEF Reads, About, Says, Remove
    <2>4. faults' \in 0..MaxFaults /\ Tells(Remove(sid))
      BY <1>2 DEF ServerStops, IInv
    <2> QED
      BY <2>1, <2>2, <2>3, <2>4, TellsKeeps
  <1>3. ASSUME NEW sid \in Servers, TellsAgain(sid)
        PROVE  IInv'
    <2>1. servers' = servers /\ sid \in DOMAIN servers /\ Tells(Add(sid, servers[sid]))
      BY <1>3 DEF TellsAgain
    <2>2. servers[sid] \in Statuses /\ StatusOf(servers, sid) = servers[sid]
      BY <1>0, <2>1, StatusIsStatus
    <2>3. Add(sid, servers[sid]) \in Messages /\ Add(sid, servers[sid]).type = "add"
      BY <2>2, MessagesMade DEF Add
    <2>4. Reads(servers, servers', Add(sid, servers[sid]))
      BY <2>1, <2>2 DEF Reads, About, Says, Add
    <2>5. faults' \in 0..MaxFaults
      BY <1>3, TroubleKeeps DEF TellsAgain, IInv
    <2> QED
      BY <1>0, <2>1, <2>3, <2>4, <2>5, TellsKeeps
  <1>4. ASSUME LinkFails
        PROVE  IInv'
    <2>1. DirectoryInv'
      BY <1>4, DirectoryUnchanged DEF IInv, LinkFails
    <2>2. SocketsInv'
      BY <1>4 DEF IInv, LinkFails, SocketsInv, sockets, NamedConnections
    <2>3. ToldInv'
      BY <1>4, CutOffKeeps DEF IInv, LinkFails
    <2>4. faults' \in 0..MaxFaults
      BY <1>4, TroubleKeeps DEF IInv, LinkFails
    <2> QED
      BY <1>4, <2>1, <2>2, <2>3, <2>4 DEF IInv, LinkFails
  <1> QED
    BY <1>1, <1>2, <1>3, <1>4 DEF Daemon
---------------------------------------------------------------------------
LEMMA StepKeeps == IInv /\ [Next]_vars => IInv'
  <1> SUFFICES ASSUME IInv, [Next]_vars PROVE IInv'
    OBVIOUS
  <1>1. CASE Receive
    BY <1>1, ReceiveAddKeeps, ReceiveRemoveKeeps, ReceiveChangeKeeps, ReceiveListKeeps,
       ReceivePingKeeps DEF Receive
  <1>2. CASE Ping \/ CheckDaemon \/ LazyDelete
    BY <1>2, PingKeeps, CheckDaemonKeeps, LazyDeleteKeeps
  <1>3. CASE \E sid \in Everyone : Dispatch(sid)
    BY <1>3, DispatchKeeps
  <1>4. CASE \E cid \in Cids : ConnectionLost(cid)
    BY <1>4, ConnectionLostKeeps
  <1>5. CASE \E gid \in Groups : OnRouteNotify(gid)
    BY <1>5, RouteNotifyKeeps
  <1>6. CASE Daemon
    BY <1>6, DaemonKeeps
  <1>7. CASE UNCHANGED vars
    <2>1. DirectoryInv'
      BY <1>7, DirectoryUnchanged DEF IInv, vars
    <2>2. SocketsInv'
      BY <1>7, SocketsUnchanged DEF IInv, SocketsInv, vars
    <2>3. ToldInv'
      BY <1>7, UntouchedKeeps DEF IInv, vars, directory
    <2> QED
      BY <1>7, <2>1, <2>2, <2>3 DEF IInv, vars
  <1> QED
    BY <1>1, <1>2, <1>3, <1>4, <1>5, <1>6, <1>7 DEF Next

LEMMA Invariance == Spec => []IInv
  BY InitEstablishes, StepKeeps, PTL DEF Spec

(* The maps, connections and messages have their types, and the daemon is  *)
(* heard on its own connection only.                                       *)
THEOREM TypeCorrect == Spec => []TypeOK
  <1>1. IInv => TypeOK
    BY DEF IInv, DirectoryInv, SocketsInv, ToldInv, TypeOK
  <1> QED
    BY <1>1, Invariance, PTL

(* Every connection is that of one server, and a daemon that is not found  *)
(* broken has one (DaemonClient::eraseConnect, connectServerIdSV).         *)
THEOREM EachHasItsOwn == Spec => []NamedConnections
  <1>1. IInv => NamedConnections
    BY DEF IInv, SocketsInv
  <1> QED
    BY <1>1, Invariance, PTL

(* The index by name holds each running server once and nobody else,       *)
(* whatever the daemon repeats (__SuffixMapAdd, __SuffixMapDel and their   *)
(* callers).                                                               *)
THEOREM IndexIsRight == Spec => []IndexAgrees
  <1>1. IInv => IndexAgrees
    BY DEF IInv, DirectoryInv
  <1> QED
    BY <1>1, Invariance, PTL

(* A group's imrouters are never more than are counted (onServerAddSV,     *)
(* onServerRemoveSV, onServerRegisteredSV).                                *)
THEOREM NoneUncounted == Spec => []CountsCover
  <1>1. IInv => CountsCover
    BY DEF IInv, DirectoryInv
  <1> QED
    BY <1>1, Invariance, PTL

(* What a client that has joined knows, and what is under way to it,       *)
(* amounts to what the daemon knows (onServerRegisteredSV, onConnect).     *)
THEOREM NothingMissed == Spec => []KnowsWhatDaemonKnows
  <1>1. IInv => KnowsWhatDaemonKnows
    BY DEF IInv, ToldInv
  <1> QED
    BY <1>1, Invariance, PTL
---------------------------------------------------------------------------
(* A daemon that does not repeat itself.  The code expects repeated adds   *)
(* (DaemonClient.cpp:151), but they are counted, so that what it says at   *)
(* line 197 holds only without them.                                       *)
Repeats == \E sid \in Servers : TellsAgain(sid)

(* A server that is added is not known by then.                            *)
AddsAreNew(favors, messages) ==
    \A i \in 1..Len(messages) : messages[i].type = "add" =>
        LastWord(favors, messages, i - 1, messages[i].sid, "gone")

(* The count of a group is the number of its imrouters.                    *)
CountsExact ==
    \A g \in Groups : m_mapImrouterCount[g] = Cardinality(Imrouters(sid2FavorSV, g))

ExactInv == AddsAreNew(sid2FavorSV, told) /\ CountsExact

LEMMA NewTail ==
    ASSUME NEW f, NEW w, NEW messages \in Seq(Messages), messages # <<>>,
           Reads(f, w, Head(messages)), AddsAreNew(f, messages)
    PROVE  AddsAreNew(w, Tail(messages))
  <1> DEFINE rest == Tail(messages)
  <1>1. SUFFICES ASSUME NEW i \in 1..Len(rest), rest[i].type = "add"
                 PROVE  LastWord(w, rest, i - 1, rest[i].sid, "gone")
    BY DEF AddsAreNew
  <1>2. /\ i \in 1..Len(messages) /\ i + 1 \in 1..Len(messages) /\ (i + 1) - 1 = i
        /\ rest[i] = messages[i + 1] /\ messages[i + 1] \in Messages
    OBVIOUS
  <1>3. rest[i].sid \in Servers
    BY <1>1, <1>2, MessagesAre
  <1>4. LastWord(f, messages, i, rest[i].sid, "gone")
    BY <1>1, <1>2 DEF AddsAreNew
  <1> QED
    BY <1>2, <1>3, <1>4, TailKeeps DEF Reads

LEMMA NewAppend ==
    ASSUME NEW f, NEW messages \in Seq(Messages), NEW m \in Messages, AddsAreNew(f, messages),
           m.type = "add" => LastWord(f, messages, Len(messages), m.sid, "gone")
    PROVE  AddsAreNew(f, Append(messages, m))
  <1> DEFINE more == Append(messages, m)
  <1>1. SUFFICES ASSUME NEW i \in 1..Len(more), more[i].type = "add"
                 PROVE  LastWord(f, more, i - 1, more[i].sid, "gone")
    BY DEF AddsAreNew
  <1>2. CASE i \in 1..Len(messages)
    <2>1. more[i] = messages[i] /\ i - 1 \in 0..Len(messages)
      BY <1>2
    <2>2. LastWord(f, messages, i - 1, more[i].sid, "gone")
      BY <1>1, <1>2, <2>1 DEF AddsAreNew
    <2> QED
      BY <2>1, <2>2, AppendKeeps
  <1>3. CASE i = Len(messages) + 1
    <2>1. more[i] = m /\ i - 1 = Len(messages) /\ Len(messages) \in 0..Len(messages)
      BY <1>3
    <2>2. LastWord(f, messages, Len(messages), m.sid, "gone")
      BY <1>1, <2>1
    <2> QED
      BY <2>1, <2>2, AppendKeeps
  <1> QED
    BY <1>2, <1>3

(* The count follows the imrouters.                                        *)
LEMMA AddCountsExactly ==
    ASSUME DirectoryInv, CountsExact, NEW s \in Servers, s \notin DOMAIN sid2FavorSV,
           NEW status \in Statuses, OnServerAdd(s, status)
    PROVE  CountsExact'
  <1> DEFINE f == sid2FavorSV
             w == With(f, s, status)
  <1>1. /\ f \in Favors /\ sid2FavorSV' = w /\ DOMAIN w = DOMAIN f \cup {s}
        /\ Group \in [Servers -> Groups] /\ m_mapImrouterCount \in [Groups -> Nat]
    BY WithIsFavors, DirectoryAssumption DEF DirectoryInv, OnServerAdd
  <1>2. ASSUME NEW g \in Groups
        PROVE  m_mapImrouterCount'[g] = Cardinality(Imrouters(w, g))
    <2>1. m_mapImrouterCount[g] = Cardinality(Imrouters(f, g)) /\ IsFiniteSet(Imrouters(f, g))
      BY <1>1, ImroutersFinite DEF CountsExact
    <2>2. CASE Name[s] = SUFFIX_IMROUTER /\ Group[s] = g
      <3>1. Imrouters(w, g) = Imrouters(f, g) \cup {s} /\ s \notin Imrouters(f, g)
        BY <1>1, <2>2 DEF Imrouters
      <3>2. Cardinality(Imrouters(w, g)) = Cardinality(Imrouters(f, g)) + 1
        BY <2>1, <3>1, FS_AddElement
      <3>3. m_mapImrouterCount'[g] = m_mapImrouterCount[g] + 1
        BY <1>1, <2>2 DEF OnServerAdd
      <3> QED
        BY <2>1, <3>2, <3>3
    <2>3. CASE ~ (Name[s] = SUFFIX_IMROUTER /\ Group[s] = g)
      <3>1. Imrouters(w, g) = Imrouters(f, g)
        BY <1>1, <2>3 DEF Imrouters
      <3>2. m_mapImrouterCount'[g] = m_mapImrouterCount[g]
        BY <1>1, <2>3 DEF OnServerAdd
      <3> QED
        BY <2>1, <3>1, <3>2
    <2> QED
      BY <2>2, <2>3
  <1> QED
    BY <1>1, <1>2 DEF CountsExact

LEMMA RemoveCountsExactly ==
    ASSUME DirectoryInv, CountsExact, NEW s \in DOMAIN sid2FavorSV, OnServerRemove(s)
    PROVE  CountsExact'
  <1> DEFINE f == sid2FavorSV
             w == Without(f, {s})
  <1>1. /\ f \in Favors /\ s \in Servers /\ sid2FavorSV' = w /\ DOMAIN w = DOMAIN f \ {s}
        /\ Group \in [Servers -> Groups] /\ m_mapImrouterCount \in [Groups -> Nat]
    BY FavorsAre, WithoutIsFavors, DirectoryAssumption DEF DirectoryInv, OnServerRemove
  <1>2. ASSUME NEW g \in Groups
        PROVE  m_mapImrouterCount'[g] = Cardinality(Imrouters(w, g))
    <2>1. /\ m_mapImrouterCount[g] = Cardinality(Imrouters(f, g))
          /\ IsFiniteSet(Imrouters(f, g)) /\ m_mapImrouterCount[g] \in Nat
      BY <1>1, ImroutersFinite DEF CountsExact
    <2>2. CASE Name[s] = SUFFIX_IMROUTER /\ Group[s] = g
      <3>1. Imrouters(w, g) = Imrouters(f, g) \ {s} /\ s \in Imrouters(f, g)
        BY <1>1, <2>2 DEF Imrouters
      <3>2. Cardinality(Imrouters(w, g)) = Cardinality(Imrouters(f, g)) - 1
        BY <2>1, <3>1, FS_RemoveElement, ZenonT(60)
      <3>3. m_mapImrouterCount[g] # 0
        BY <2>1, <3>1, FS_EmptySet
      <3>4. m_mapImrouterCount'[g] = m_mapImrouterCount[g] - 1
        BY <1>1, <2>1, <2>2, <3>3 DEF OnServerRemove
      <3> QED
        BY <2>1, <3>2, <3>4
    <2>3. CASE ~ (Name[s] = SUFFIX_IMROUTER /\ Group[s] = g)
      <3>1. Imrouters(w, g) = Imrouters(f, g)
        BY <1>1, <2>3 DEF Imrouters
      <3>2. m_mapImrouterCount'[g] = m_mapImrouterCount[g]
        BY <1>1, <2>3 DEF OnServerRemove
      <3> QED
        BY <2>1, <3>1, <3>2
    <2> QED
      BY <2>2, <2>3
  <1> QED
    BY <1>1, <1>2 DEF CountsExact

(* Imrouters are told by the names of servers, not by their status.        *)
LEMMA SameImrouters ==
    ASSUME NEW f, NEW w, DOMAIN w = DOMAIN f, NEW g
    PROVE  Imrouters(w, g) = Imrouters(f, g)
  BY DEF Imrouters

LEMMA ExactUnchanged ==
    ASSUME CountsExact, UNCHANGED <<sid2FavorSV, m_mapImrouterCount>>
    PROVE  CountsExact'
  BY DEF CountsExact

LEMMA ExactInit == Init => ExactInv
  <1> SUFFICES ASSUME Init PROVE ExactInv
    OBVIOUS
  <1>1. /\ sid2FavorSV = Empty /\ m_mapImrouterCount = [g \in Groups |-> 0]
        /\ Len(told) = 0
    BY DEF Init
  <1>2. \A g : Imrouters(Empty, g) = {}
    BY DEF Imrouters, Empty
  <1>3. CountsExact
    BY <1>1, <1>2, FS_EmptySet DEF CountsExact
  <1> QED
    BY <1>1, <1>3 DEF ExactInv, AddsAreNew

(* What is told anew, if anything, is no add.                              *)
LEMMA QuietKeepsExact ==
    ASSUME IInv, ExactInv, UNCHANGED <<sid2FavorSV, m_mapImrouterCount>>,
           \/ told' = told \/ told' = <<>>
           \/ \E m \in Messages : told' = Append(told, m) /\ m.type # "add"
    PROVE  ExactInv'
  <1>1. told \in Seq(Messages) /\ AddsAreNew(sid2FavorSV, told)
    BY DEF IInv, ToldInv, ExactInv
  <1>2. CountsExact'
    BY ExactUnchanged DEF ExactInv
  <1>3. AddsAreNew(sid2FavorSV, told')
    <2>1. CASE told' = told
      BY <1>1, <2>1
    <2>2. CASE told' = <<>>
      BY <2>2 DEF AddsAreNew
    <2>3. ASSUME NEW m \in Messages, told' = Append(told, m), m.type # "add"
          PROVE  AddsAreNew(sid2FavorSV, told')
      BY <1>1, <2>3, NewAppend
    <2> QED
      BY <2>1, <2>2, <2>3
  <1> QED
    BY <1>2, <1>3 DEF ExactInv

(* A message is read.                                                      *)
LEMMA ReadKeepsNew ==
    ASSUME IInv, ExactInv, told # <<>>, told' = Tail(told),
           Reads(sid2FavorSV, sid2FavorSV', Head(told))
    PROVE  AddsAreNew(sid2FavorSV', told')
  <1>1. told \in Seq(Messages) /\ AddsAreNew(sid2FavorSV, told)
    BY DEF IInv, ToldInv, ExactInv
  <1>2. AddsAreNew(sid2FavorSV', Tail(told))
    BY <1>1, NewTail
  <1> QED
    BY <1>2

LEMMA ReceiveKeepsExact == ASSUME IInv, ExactInv, Receive PROVE ExactInv'
  <1> DEFINE m == Head(told)
  <1>1. CASE ReceiveAdd
    <2>1. /\ told # <<>> /\ m.type = "add" /\ m.sid \in Servers /\ m.status \in Statuses
          /\ Reads(sid2FavorSV, sid2FavorSV', m)
      BY <1>1, AddReads
    <2>2. m.sid \notin DOMAIN sid2FavorSV
      <3>1. 1 \in 1..Len(told) /\ m = told[1] /\ 1 - 1 = 0
        BY <2>1 DEF IInv, ToldInv
      <3>2. LastWord(sid2FavorSV, told, 0, m.sid, "gone")
        BY <2>1, <3>1 DEF ExactInv, AddsAreNew
      <3>3. StatusOf(sid2FavorSV, m.sid) = "gone"
        BY <3>2 DEF LastWord
      <3> QED
        BY <2>1, <3>3, StatusIsStatus DEF Statuses, IInv, DirectoryInv
    <2>3. CountsExact'
      BY <1>1, <2>1, <2>2, AddCountsExactly DEF IInv, ExactInv, ReceiveAdd
    <2>4. AddsAreNew(sid2FavorSV', told')
      BY <1>1, <2>1, ReadKeepsNew DEF ReceiveAdd, Read
    <2> QED
      BY <2>3, <2>4 DEF ExactInv
  <1>2. CASE ReceiveRemove
    <2>1. /\ told # <<>> /\ told' = Tail(told) /\ Reads(sid2FavorSV, sid2FavorSV', m)
      BY <1>2, RemoveReads
    <2>2. CountsExact'
      <3>1. CASE m.sid \in DOMAIN sid2FavorSV
        BY <1>2, <3>1, RemoveCountsExactly DEF IInv, ExactInv, ReceiveRemove
      <3>2. CASE m.sid \notin DOMAIN sid2FavorSV
        BY <1>2, <3>2, ExactUnchanged DEF ExactInv, ReceiveRemove, directory
      <3> QED
        BY <3>1, <3>2
    <2> QED
      BY <2>1, <2>2, ReadKeepsNew DEF ExactInv
  <1>3. CASE ReceiveChange
    <2>1. /\ told # <<>> /\ m.sid \in DOMAIN sid2FavorSV /\ Reads(sid2FavorSV, sid2FavorSV', m)
      BY <1>3, ChangeReads
    <2>2. CountsExact'
      <3>1. /\ sid2FavorSV' = With(sid2FavorSV, m.sid, m.status)
            /\ m_mapImrouterCount' = m_mapImrouterCount
        BY <1>3, <2>1 DEF ReceiveChange, OnServersStatusChange
      <3>2. DOMAIN sid2FavorSV' = DOMAIN sid2FavorSV
        BY <2>1, <3>1 DEF With
      <3> QED
        BY <3>1, <3>2, SameImrouters DEF ExactInv, CountsExact
    <2> QED
      BY <1>3, <2>1, <2>2, ReadKeepsNew DEF ExactInv, ReceiveChange, Read
  <1>4. CASE ReceiveList
    <2>1. told # <<>> /\ Reads(sid2FavorSV, sid2FavorSV', m)
      BY <1>4, ListReads
    <2>2. CountsExact'
      BY <1>4 DEF ReceiveList, OnServerRegistered, CountsExact
    <2> QED
      BY <1>4, <2>1, <2>2, ReadKeepsNew DEF ExactInv, ReceiveList, Read
  <1>5. CASE ReceivePing
    <2>1. /\ told # <<>> /\ m \in Messages /\ m.type = "ping"
          /\ told \in Seq(Messages) /\ Tail(told) \in Seq(Messages)
          /\ UNCHANGED <<sid2FavorSV, m_mapImrouterCount>> /\ servers \in Favors
      BY <1>5, HeadIs DEF ReceivePing, Comes, IInv, ToldInv, directory
    <2>2. AddsAreNew(sid2FavorSV, Tail(told))
      BY <2>1, PingReads, NewTail DEF ExactInv
    <2>3. AddsAreNew(sid2FavorSV, told')
      <3>1. told' = Tail(told) \/ told' = Append(Tail(told), List(servers))
        BY <1>5 DEF ReceivePing, DaemonAnswers
      <3>2. List(servers) \in Messages /\ List(servers).type # "add"
        BY <2>1, MessagesMade DEF List
      <3> QED
        BY <2>1, <2>2, <3>1, <3>2, NewAppend
    <2> QED
      BY <2>1, <2>3, ExactUnchanged DEF ExactInv
  <1> QED
    BY <1>1, <1>2, <1>3, <1>4, <1>5 DEF Receive

LEMMA DaemonKeepsExact == ASSUME IInv, ExactInv, Daemon, ~ Repeats PROVE ExactInv'
  <1>0. servers \in Favors /\ told \in Seq(Messages)
    BY DEF IInv, ToldInv
  <1>1. ASSUME NEW sid \in Servers, NEW status \in Statuses, ServerStarts(sid, status)
        PROVE  ExactInv'
    <2>1. /\ UNCHANGED <<sid2FavorSV, m_mapImrouterCount>>
          /\ told' = IF isRecord THEN Append(told, Add(sid, status)) ELSE told
      BY <1>1 DEF ServerStarts, Tells, directory
    <2>2. Add(sid, status) \in Messages /\ Add(sid, status).sid = sid
      BY MessagesMade DEF Add
    <2>3. isRecord => LastWord(sid2FavorSV, told, Len(told), sid, "gone")
      BY <1>1 DEF ServerStarts, StatusOf, IInv, ToldInv, KnowsWhatDaemonKnows
    <2>4. AddsAreNew(sid2FavorSV, told')
      <3>1. CASE isRecord
        BY <1>0, <2>1, <2>2, <2>3, <3>1, NewAppend DEF ExactInv
      <3>2. CASE ~ isRecord
        BY <2>1, <3>2 DEF ExactInv
      <3> QED
        BY <3>1, <3>2
    <2> QED
      BY <2>1, <2>4, ExactUnchanged DEF ExactInv
  <1>2. ASSUME NEW sid \in Servers, NEW status \in Statuses, ServerChanges(sid, status)
        PROVE  ExactInv'
    <2>1. /\ UNCHANGED <<sid2FavorSV, m_mapImrouterCount>>
          /\ told' = Append(told, Change(sid, status)) \/ told' = told
      BY <1>2 DEF ServerChanges, Tells, directory
    <2>2. Change(sid, status) \in Messages /\ Change(sid, status).type # "add"
      BY MessagesMade DEF Change
    <2> QED
      BY <2>1, <2>2, QuietKeepsExact
  <1>3. ASSUME NEW sid \in Servers, ServerStops(sid)
        PROVE  ExactInv'
    <2>1. /\ UNCHANGED <<sid2FavorSV, m_mapImrouterCount>>
          /\ told' = Append(told, Remove(sid)) \/ told' = told
      BY <1>3 DEF ServerStops, Tells, directory
    <2>2. Remove(sid) \in Messages /\ Remove(sid).type # "add"
      BY MessagesMade DEF Remove
    <2> QED
      BY <2>1, <2>2, QuietKeepsExact
  <1>4. CASE LinkFails
    BY <1>4, QuietKeepsExact DEF LinkFails, directory
  <1> QED
    BY <1>1, <1>2, <1>3, <1>4 DEF Daemon, Repeats

LEMMA StepKeepsExact == ASSUME IInv, ExactInv, [Next]_vars, [~ Repeats]_vars PROVE ExactInv'
  <1>1. CASE UNCHANGED vars
    BY <1>1, QuietKeepsExact DEF vars, directory
  <1>2. CASE Receive
    BY <1>2, ReceiveKeepsExact
  <1>3. CASE Ping
    <2>1. /\ UNCHANGED <<sid2FavorSV, m_mapImrouterCount>>
          /\ told' = Append(told, PingRes(isRecord)) \/ told' = told
      BY <1>3 DEF Ping, DaemonAnswers, directory
    <2>2. PingRes(isRecord) \in Messages /\ PingRes(isRecord).type # "add"
      BY MessagesMade DEF PingRes, IInv, ToldInv
    <2> QED
      BY <2>1, <2>2, QuietKeepsExact
  <1>4. CASE CheckDaemon \/ \E sid \in Everyone : Dispatch(sid)
    <2>1. UNCHANGED <<sid2FavorSV, m_mapImrouterCount, told>>
      BY <1>4 DEF CheckDaemon, Dispatch, directory
    <2> QED
      BY <2>1, QuietKeepsExact
  <1>5. CASE LazyDelete \/ \E cid \in Cids : ConnectionLost(cid)
    <2>1. /\ UNCHANGED <<sid2FavorSV, m_mapImrouterCount>>
          /\ told' = told \/ told' = <<>>
      BY <1>5 DEF LazyDelete, ConnectionLost, EraseConnect, directory
    <2> QED
      BY <2>1, QuietKeepsExact
  <1>6. CASE \E gid \in Groups : OnRouteNotify(gid)
    <2>1. UNCHANGED <<sid2FavorSV, m_mapImrouterCount, told>>
      BY <1>6 DEF OnRouteNotify
    <2> QED
      BY <2>1, QuietKeepsExact
  <1>7. CASE Daemon /\ ~ Repeats
    BY <1>7, DaemonKeepsExact
  <1> QED
    BY <1>1, <1>2, <1>3, <1>4, <1>5, <1>6, <1>7 DEF Next

(* When the last imrouter of this server's group goes, all routes go.      *)
RoutesGo ==
    /\ Imrouters(sid2FavorSV, MyGroup) # {}
    /\ Imrouters(sid2FavorSV', MyGroup) = {}
    => m_mapGid2Route' = Empty

LEMMA StepClearsRoutes == ASSUME IInv, ExactInv, Next, ~ Repeats PROVE RoutesGo
  <1> SUFFICES ASSUME Imrouters(sid2FavorSV, MyGroup) # {},
                      Imrouters(sid2FavorSV', MyGroup) = {}
               PROVE  m_mapGid2Route' = Empty
    BY DEF RoutesGo
  <1> DEFINE m == Head(told)
             f == sid2FavorSV
  <1>1. CASE ReceiveAdd
    <2>1. sid2FavorSV' = With(f, m.sid, m.status)
      BY <1>1 DEF ReceiveAdd, OnServerAdd
    <2>2. DOMAIN f \subseteq DOMAIN sid2FavorSV'
      BY <2>1 DEF With
    <2> QED
      BY <2>2 DEF Imrouters
  <1>2. CASE ReceiveRemove
    <2>1. m.sid \in DOMAIN f /\ OnServerRemove(m.sid)
      BY <1>2 DEF ReceiveRemove, directory
    <2>2. /\ f \in Favors /\ m.sid \in Servers /\ MyGroup \in Groups
          /\ Group \in [Servers -> Groups] /\ m_mapImrouterCount \in [Groups -> Nat]
          /\ DOMAIN sid2FavorSV' = DOMAIN f \ {m.sid}
      BY <2>1, FavorsAre, DirectoryAssumption DEF IInv, DirectoryInv, OnServerRemove, Without
    <2>3. m.sid \in Imrouters(f, MyGroup) /\ Imrouters(f, MyGroup) = {m.sid}
      BY <2>2 DEF Imrouters
    <2>4. m_mapImrouterCount[MyGroup] = 1
      BY <2>2, <2>3, FS_Singleton DEF ExactInv, CountsExact
    <2>5. Name[m.sid] = SUFFIX_IMROUTER /\ Group[m.sid] = MyGroup
      BY <2>3 DEF Imrouters
    <2>6. m_mapImrouterCount'[MyGroup] = 0
      BY <2>1, <2>2, <2>4, <2>5 DEF OnServerRemove
    <2> QED
      BY <2>1, <2>4, <2>5, <2>6 DEF OnServerRemove
  <1>3. CASE ReceiveChange
    <2>1. m.sid \in DOMAIN f /\ sid2FavorSV' = With(f, m.sid, m.status)
      BY <1>3 DEF ReceiveChange, OnServersStatusChange, directory
    <2>2. DOMAIN f \subseteq DOMAIN sid2FavorSV'
      BY <2>1 DEF With
    <2> QED
      BY <2>2 DEF Imrouters
  <1>4. CASE ReceiveList
    BY <1>4 DEF ReceiveList, OnServerRegistered
  <1>5. CASE UNCHANGED sid2FavorSV
    BY <1>5
  <1>6. UNCHANGED sid2FavorSV \/ ReceiveAdd \/ ReceiveRemove \/ ReceiveChange \/ ReceiveList
    BY DEF Next, Receive, ReceivePing, Ping, CheckDaemon, LazyDelete, Dispatch, ConnectionLost,
           OnRouteNotify, Daemon, ServerStops, TellsAgain, ServerStarts, ServerChanges, LinkFails,
           Tells, directory
  <1> QED
    BY <1>1, <1>2, <1>3, <1>4, <1>5, <1>6

(* If the daemon says nothing twice, imrouters are counted exactly         *)
(* (onServerAddSV, onServerRemoveSV, onServerRegisteredSV).                *)
THEOREM CountedExactly == Spec /\ [][~ Repeats]_vars => []CountsExact
  <1>1. IInv /\ ExactInv /\ [Next]_vars /\ [~ Repeats]_vars => ExactInv'
    BY StepKeepsExact
  <1>2. ExactInv => CountsExact
    BY DEF ExactInv
  <1> QED
    BY <1>1, <1>2, ExactInit, Invariance, PTL DEF Spec

(* "if all imrouter of my group is removed, disable all route"             *)
(* (DaemonClient.cpp:197) holds of a daemon that says nothing twice.       *)
THEOREM RoutesGoWithImrouters == Spec /\ [][~ Repeats]_vars => [][RoutesGo]_vars
  <1>1. IInv /\ ExactInv /\ [Next]_vars /\ [~ Repeats]_vars => ExactInv' /\ [RoutesGo]_vars
    BY StepKeepsExact, StepClearsRoutes
  <1> QED
    BY <1>1, ExactInit, Invariance, PTL DEF Spec
=============================================================================
