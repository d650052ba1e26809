------------------------- MODULE MCNetworkTransport -------------------------
(* Small instances of NetworkTransport for TLC. *)
EXTENDS NetworkTransport

MCNode == {1, 2}
MCPeers == [i \in Node |-> MCNode]

M(id, from, to, len) == [id |-> id, from |-> from, to |-> to, len |-> len]

\* Node 1 has a message for itself, two for node 2, and a third that is too long
\* for a reader; node 2 has one.
MCMsg == {M(1, 1, 1, 1), M(2, 1, 2, 1), M(3, 1, 2, 1), M(4, 1, 2, 2), M(5, 2, 1, 1)}

=============================================================================
