\* Two imrouters of this server's group.
SPECIFICATION FairSpec
CONSTANTS
  Servers = {s1, s2}
  DAEMON_SERVERID = daemon
  Names = {"imrouter"}
  SUFFIX_IMROUTER = "imrouter"
  Groups = {1}
  MyGroup = 1
  Name <- MCName
  Group <- MCGroup
  Cids = {1, 2, 3}
  MaxQueued = 2
  MaxFaults = 1
INVARIANTS NamedConnections IndexAgrees CountsCover KnowsWhatDaemonKnows
PROPERTY CatchesUp
