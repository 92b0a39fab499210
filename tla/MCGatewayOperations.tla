------------------------ MODULE MCGatewayOperations ------------------------
(* Instances of GatewayOperations for TLC. *)
EXTENDS GatewayOperations

CONSTANTS d1, i1, i2, ota, rpc, query

\* ota goes through submit(), rpc is a catalog RPC, query is not serialized.
MCDeviceOf == [r \in Requests |-> d1]

\* Two tasks may send the same update; rpc and query share an id.
MCAsked == {<<i1, ota>>, <<i2, rpc>>, <<i2, query>>}
=============================================================================
