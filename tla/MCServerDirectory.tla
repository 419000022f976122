------------------------- MODULE MCServerDirectory -------------------------
(* All servers are imrouters of this server's own group.                   *)
EXTENDS ServerDirectory

MCName == [s \in Servers |-> SUFFIX_IMROUTER]
MCGroup == [s \in Servers |-> MyGroup]
=============================================================================
