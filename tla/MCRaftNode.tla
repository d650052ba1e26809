----------------------------- MODULE MCRaftNode -----------------------------
(* Small instances of RaftNode for TLC. *)
EXTENDS RaftNode

CONSTANTS put1, put2, del, x, v1, v2

MCKey == {x}
MCValue == {v1, v2}
MCPuts == {put1, put2}
MCPutDelete == {put1, del}
MCAll == {put1, put2, del}

\* One key, so that every pair of requests conflicts.
MCCommand ==
  [c \in Client |-> [key |-> x,
                     value |-> IF c = put1 THEN v1 ELSE IF c = put2 THEN v2 ELSE Absent]]

=============================================================================
