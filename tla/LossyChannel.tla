---------------------------- MODULE LossyChannel ----------------------------
(***************************************************************************)
(* What Raft may expect of the transport: a message that was sent reaches  *)
(* the node it is addressed to at most once, or is lost.  It is not        *)
(* changed, not repeated, not handed to another node, and not invented.    *)
(* The order is free.                                                      *)
(***************************************************************************)
CONSTANTS Node, Msg

VARIABLES
  sent,       \* messages given to the transport
  transit,    \* those that may still arrive
  received    \* per node, the messages handed to its RaftNode

vars == <<sent, transit, received>>

Init == sent = {} /\ transit = {} /\ received = [i \in Node |-> {}]

Send(S) ==
  /\ S \intersect sent = {}
  /\ sent' = sent \union S
  /\ transit' = transit \union S
  /\ UNCHANGED received

Receive(m) ==
  /\ m \in transit
  /\ transit' = transit \ {m}
  /\ received' = [received EXCEPT ![m.to] = @ \union {m}]
  /\ UNCHANGED sent

\* One fault may cost several messages.
Lose(S) ==
  /\ S \subseteq transit
  /\ transit' = transit \ S
  /\ UNCHANGED <<sent, received>>

Next ==
  \/ \E S \in SUBSET Msg : Send(S)
  \/ \E m \in Msg : Receive(m)
  \/ \E S \in SUBSET Msg : Lose(S)

Spec == Init /\ [][Next]_vars

=============================================================================
