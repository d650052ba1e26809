---------------------------- MODULE MCRaftCluster ----------------------------
(* RaftCluster on a small instance. *)
EXTENDS RaftCluster, TLC

\* Nodes and requests are interchangeable.
Symmetry == Permutations(Node) \cup Permutations(Client)

\* Campaigns, faults and requests share one bound: each alone goes as far as
\* its own constant lets it, and every two of them meet.
MaxEvents == 3
WithinBudget ==
  campaigns + faults + Cardinality({c \in Client : request[c].pc # "none"}) <= MaxEvents

=============================================================================
