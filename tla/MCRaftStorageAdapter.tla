----------------------- MODULE MCRaftStorageAdapter -----------------------
(* Small instances of RaftStorageAdapter for TLC. *)
EXTENDS RaftStorageAdapter

CONSTANTS small, large

MCPayload == {small, large}
MCSize == [p \in MCPayload |-> IF p = small THEN 1 ELSE 2]
MCOnePayload == {small}
MCOneSize == [p \in MCOnePayload |-> 1]
MCNodes == {1, 2}
MCPeerConfigs == {{1}, {1, 2}}
MCOneNode == {1}
MCOnePeer == {{1}}

=============================================================================
