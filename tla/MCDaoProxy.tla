----------------------------- MODULE MCDaoProxy -----------------------------
(* The configurations DaoProxy is checked with: two servers, one of them   *)
(* with two addresses; the second server removed and the first moved to    *)
(* another group; the first server cut down to its second address, and its *)
(* first address given to the other server.                                *)
EXTENDS DaoProxy, TLC

CONSTANTS s1, s2, a1, a2, a3, g1, g2

Server(ipports, groupid) == [ipports |-> ipports, groupid |-> groupid]

MCConfs ==
    { (s1 :> Server(<<a1, a2>>, g1)) @@ (s2 :> Server(<<a3>>, g1)),
      s1 :> Server(<<a1, a2>>, g2),
      (s1 :> Server(<<a2>>, g1)) @@ (s2 :> Server(<<a1>>, g1)) }
=============================================================================
