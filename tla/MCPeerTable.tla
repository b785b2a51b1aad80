---------------------------- MODULE MCPeerTable ----------------------------
(***************************************************************************)
(* Small instances of PeerTable.  The manifests list the root a at either  *)
(* origin, or no root at all.                                              *)
(***************************************************************************)
EXTENDS PeerTable

Pin(id, o) == [i \in Ids |-> IF i = id THEN [origin |-> o, enclave |-> "default"]
                             ELSE None]

MCManifests == {Pin("a", o) : o \in Origins} \cup {[i \in Ids |-> None]}
=============================================================================
