-------------------------- MODULE RaftClusterProofs --------------------------
(***************************************************************************)
(* Proofs about RaftCluster, for any number of nodes, requests, terms,     *)
(* indexes and faults: what the cluster does with votes.                   *)
(*                                                                         *)
(* That a term has one leader rests on the order within handle_ready: the  *)
(* vote is on disk before the message that grants it leaves.  A vote is    *)
(* seen in three places, one after the other: in the voter's msgs, in      *)
(* transit, and among the candidate's votes.  Until it leaves, a crash may *)
(* still take it back; from then on the voter's disk knows it.  When the   *)
(* candidate has won, none of the three is left, and what remains is that  *)
(* a majority of disks is bound to it (Backed).                            *)
(***************************************************************************)
EXTENDS RaftCluster, FiniteSetTheorems, TLAPS

RawFields ==
  {"role", "term", "vote", "leader", "votes", "match", "unstable", "offset", "persisted",
   "committed", "handed", "msgs", "prevHs", "reported", "unfinished"}

\* The hard state on node i's disk, and raft-rs in memory, know that i has
\* voted for c in term t, or are in a later term.
Saved(i, t, c) == hs[i].term > t \/ (hs[i].term = t /\ hs[i].vote = c)
Given(i, t, c) == raw[i].term > t \/ (raw[i].term = t /\ raw[i].vote = c)

\* Somewhere it is to be seen that i voted for c in term t.
Ballot(i, t, c) ==
  \/ \E m \in transit \cup raw[i].msgs :
       m.type = "VoteResp" /\ m.from = i /\ m.to = c /\ m.term = t
  \/ i \in raw[c].votes /\ raw[c].term = t

\* A majority of disks is bound to the leader e[2] of term e[1].
Backed(e) ==
  \E Q \in SUBSET Node :
    /\ Majority(Q)
    /\ \A i \in Q : /\ Saved(i, e[1], e[2])
                    /\ \A c \in Node : Ballot(i, e[1], c) => c = e[2]

Shape ==
  /\ DOMAIN raw = Node /\ DOMAIN hs = Node
  /\ \A i \in Node :
       /\ DOMAIN raw[i] = RawFields
       /\ raw[i].term \in Nat /\ hs[i].term \in Nat
       /\ raw[i].leader \in Node \cup {NoNode}
       /\ raw[i].votes \subseteq Node

\* raft-rs remembers in prevHs what it last saw saved, and is not behind it.
HardStateInv ==
  \A i \in Node :
    /\ hs[i].term = raw[i].prevHs.term /\ hs[i].vote = raw[i].prevHs.vote
    /\ raw[i].term >= hs[i].term
    /\ raw[i].term = hs[i].term => hs[i].vote = NoNode \/ raw[i].vote = hs[i].vote

MessageShape(m) ==
  /\ m.from \in Node /\ m.to \in Node
  /\ m.type # "Propose" => m.term \in Nat

\* A request for a vote leaves after the candidate's own vote is on disk, and
\* a vote after it is on the voter's.
MessageInv ==
  /\ \A m \in transit :
       /\ MessageShape(m)
       /\ m.type = "Vote" => Saved(m.from, m.term, m.from)
       /\ m.type = "VoteResp" => Saved(m.from, m.term, m.to) /\ Saved(m.to, m.term, m.to)
  /\ \A i \in Node : \A m \in raw[i].msgs :
       /\ MessageShape(m)
       /\ m.type = "Vote" => m.from = i /\ Given(i, m.term, i)
       /\ m.type = "VoteResp" => /\ m.from = i
                                 /\ Given(i, m.term, m.to)
                                 /\ Saved(m.to, m.term, m.to)

\* Who has votes is bound to itself, and its voters' disks are bound to it.
VotesInv ==
  \A i \in Node : \A j \in raw[i].votes :
    raw[i].vote = i /\ (j = i \/ Saved(j, raw[i].term, i))

OneBallot ==
  \A i, c, d \in Node : \A t \in Nat : Ballot(i, t, c) /\ Ballot(i, t, d) => c = d

Base == Shape /\ HardStateInv /\ MessageInv /\ VotesInv /\ OneBallot

ElectedInv ==
  /\ elected \subseteq Nat \X Node
  /\ \A e \in elected : Backed(e)

Inv == Base /\ ElectedInv /\ ElectionSafety

-----------------------------------------------------------------------------
(* What a step may do to one node *)

\* raft-rs on node i may go to state r: to a later term, or to a vote where it
\* had none; new messages and new votes have their reason.
Moves(i, r) ==
  /\ DOMAIN r = RawFields
  /\ r.prevHs = raw[i].prevHs
  /\ r.leader \in Node \cup {NoNode}
  /\ r.term \in Nat /\ r.term >= raw[i].term
  /\ r.term = raw[i].term => r.vote = raw[i].vote \/ raw[i].vote = NoNode
  /\ \A m \in r.msgs : m \notin raw[i].msgs =>
       /\ MessageShape(m)
       /\ m.type = "Vote" => m.from = i /\ m.term = r.term /\ r.vote = i
       /\ m.type = "VoteResp" => /\ m.from = i /\ m.term = r.term /\ r.vote = m.to
                                 /\ Saved(m.to, m.term, m.to)
  /\ \A j \in r.votes :
       \/ j = i /\ r.vote = i
       \/ j \in raw[i].votes /\ r.term = raw[i].term
       \/ /\ r.term = raw[i].term
          /\ \E m \in transit : m.type = "VoteResp" /\ m.from = j /\ m.to = i /\ m.term = r.term

\* s has the same part of the state that elections are about as r, and as it
\* concerns them no new message.
SameVoting(s, r) ==
  /\ DOMAIN s = RawFields
  /\ s.term = r.term /\ s.vote = r.vote /\ s.votes = r.votes
  /\ s.prevHs = r.prevHs /\ s.leader = r.leader
  /\ \A m \in s.msgs : \/ m \in r.msgs
                       \/ MessageShape(m) /\ m.type \notin {"Vote", "VoteResp"}

\* The node goes to r and nothing of it reaches the disk or the network.
Unsaved(i, r) ==
  /\ DOMAIN hs' = Node /\ \A j \in Node : hs'[j] = hs[j]
  /\ transit' \subseteq transit
  /\ raw'[i].prevHs = r.prevHs

\* The node goes to r, saves it and sends its messages.
SavedAndSent(i, r) ==
  /\ DOMAIN hs' = Node /\ \A j \in Node \ {i} : hs'[j] = hs[j]
  /\ hs'[i].term = r.term /\ hs'[i].vote = r.vote
  /\ raw'[i].prevHs.term = r.term /\ raw'[i].prevHs.vote = r.vote
  /\ \A m \in transit' : \/ m \in transit \cup r.msgs
                         \/ MessageShape(m) /\ m.type \in {"Append", "Heartbeat"}
  /\ raw'[i].msgs = {}

GoesTo(i, r) ==
  /\ DOMAIN raw' = Node /\ \A j \in Node \ {i} : raw'[j] = raw[j]
  /\ DOMAIN raw'[i] = RawFields
  /\ raw'[i].term = r.term /\ raw'[i].vote = r.vote /\ raw'[i].votes = r.votes
  /\ raw'[i].leader = r.leader
  /\ raw'[i].msgs \subseteq r.msgs
  /\ Unsaved(i, r) \/ SavedAndSent(i, r)

\* A vote that is to be seen is known to its voter.
LEMMA BallotGiven ==
  ASSUME ClusterAssumption, Base, NEW i \in Node, NEW c \in Node, NEW t \in Nat, Ballot(i, t, c)
  PROVE  Given(i, t, c)
<1>1. ASSUME NEW j \in Node, Saved(j, t, c)
      PROVE  Given(j, t, c)
  BY <1>1 DEF Base, Shape, HardStateInv, Saved, Given, ClusterAssumption
<1>2. CASE i \in raw[c].votes /\ raw[c].term = t
  <2>1. i # c => Saved(i, t, c)
    BY <1>2 DEF Base, VotesInv
  <2>2. i = c => Given(i, t, c)
    BY <1>2 DEF Base, VotesInv, Given
  <2> QED BY <1>1, <2>1, <2>2
<1>3. CASE \E m \in raw[i].msgs : m.type = "VoteResp" /\ m.from = i /\ m.to = c /\ m.term = t
  BY <1>3 DEF Base, MessageInv
<1>4. CASE \E m \in transit : m.type = "VoteResp" /\ m.from = i /\ m.to = c /\ m.term = t
  BY <1>1, <1>4 DEF Base, MessageInv
<1> QED BY <1>2, <1>3, <1>4 DEF Ballot

\* What a move brings to light is at most the node's vote in its new term.
LEMMA NewBallot ==
  ASSUME Base, NEW i \in Node, NEW r, Moves(i, r), GoesTo(i, r),
         NEW j \in Node, NEW c \in Node, NEW t \in Nat, Ballot(j, t, c)'
  PROVE  Ballot(j, t, c) \/ (j = i /\ t = r.term /\ c = r.vote)
<1>1. CASE j \in raw'[c].votes /\ raw'[c].term = t
  <2>1. c # i => Ballot(j, t, c)
    BY <1>1 DEF GoesTo, Ballot
  <2>2. CASE c = i
    <3>1. j \in r.votes /\ r.term = t
      BY <1>1, <2>2 DEF GoesTo
    <3> QED BY <2>2, <3>1 DEF Moves, Ballot
  <2> QED BY <2>1, <2>2
<1>2. CASE \E m \in transit' \cup raw'[j].msgs :
             m.type = "VoteResp" /\ m.from = j /\ m.to = c /\ m.term = t
  <2>1. PICK m \in transit' \cup raw'[j].msgs :
          m.type = "VoteResp" /\ m.from = j /\ m.to = c /\ m.term = t
    BY <1>2
  <2>2. m \in transit \/ m \in raw[j].msgs => Ballot(j, t, c)
    BY <2>1 DEF Ballot
  <2>3. m \in transit \/ m \in raw[j].msgs \/ m \in r.msgs
    BY <2>1 DEF GoesTo, Unsaved, SavedAndSent
  <2>4. CASE m \in r.msgs /\ m \notin raw[i].msgs
    BY <2>1, <2>4 DEF Moves
  <2>5. CASE m \in raw[i].msgs
    <3>1. m.from = i
      BY <2>1, <2>5 DEF Base, MessageInv
    <3> QED BY <2>1, <2>2, <2>5, <3>1
  <2> QED BY <2>2, <2>3, <2>4, <2>5
<1> QED BY <1>1, <1>2 DEF Ballot

\* What the disk knows of a vote it keeps.
LEMMA SavedKept ==
  ASSUME Base, NEW i \in Node, NEW r, Moves(i, r), GoesTo(i, r),
         NEW j \in Node, NEW c, c # NoNode, NEW t \in Nat, Saved(j, t, c)
  PROVE  Saved(j, t, c)'
<1>1. CASE Unsaved(i, r) \/ j # i
  BY <1>1 DEF GoesTo, Unsaved, SavedAndSent, Saved
<1>2. CASE SavedAndSent(i, r) /\ j = i
  <2>1. hs'[i].term = r.term /\ hs'[i].vote = r.vote
    BY <1>2 DEF SavedAndSent
  <2>2. CASE r.term > raw[i].term
    BY <1>2, <2>1, <2>2 DEF Moves, Base, Shape, HardStateInv, Saved
  <2>3. CASE r.term = raw[i].term
    <3>1. r.vote = raw[i].vote \/ raw[i].vote = NoNode
      BY <2>3 DEF Moves
    <3>2. hs[i].term = t => hs[i].vote = c
      BY <1>2 DEF Saved, Base, Shape
    <3> QED BY <1>2, <2>1, <2>3, <3>1, <3>2 DEF Base, Shape, HardStateInv, Saved
  <2> QED BY <2>2, <2>3 DEF Moves, Base, Shape
<1> QED BY <1>1, <1>2 DEF GoesTo

LEMMA MoveKeepsShape ==
  ASSUME Base, NEW i \in Node, NEW r, Moves(i, r), GoesTo(i, r)
  PROVE  Shape'
<1>1. DOMAIN raw' = Node /\ DOMAIN hs' = Node
  BY DEF GoesTo, Unsaved, SavedAndSent, Base, Shape
<1>2. ASSUME NEW j \in Node
      PROVE  /\ DOMAIN raw'[j] = RawFields
             /\ raw'[j].term \in Nat /\ hs'[j].term \in Nat
             /\ raw'[j].leader \in Node \cup {NoNode}
             /\ raw'[j].votes \subseteq Node
  <2>1. CASE j # i
    BY <2>1 DEF GoesTo, Unsaved, SavedAndSent, Base, Shape
  <2>2. CASE j = i
    <3>1. r.votes \subseteq Node
      BY DEF Moves, Base, Shape, MessageInv, MessageShape
    <3>2. hs'[i].term \in Nat
      BY DEF GoesTo, Unsaved, SavedAndSent, Moves, Base, Shape
    <3> QED BY <2>2, <3>1, <3>2 DEF GoesTo, Moves
  <2> QED BY <2>1, <2>2
<1> QED BY <1>1, <1>2 DEF Shape

LEMMA MoveKeepsHardState ==
  ASSUME ClusterAssumption, Base, NEW i \in Node, NEW r, Moves(i, r), GoesTo(i, r)
  PROVE  HardStateInv'
<1> SUFFICES ASSUME NEW j \in Node
             PROVE  /\ hs'[j].term = raw'[j].prevHs.term /\ hs'[j].vote = raw'[j].prevHs.vote
                    /\ raw'[j].term >= hs'[j].term
                    /\ raw'[j].term = hs'[j].term =>
                         hs'[j].vote = NoNode \/ raw'[j].vote = hs'[j].vote
  BY DEF HardStateInv
<1>1. CASE j # i
  BY <1>1 DEF GoesTo, Unsaved, SavedAndSent, Base, HardStateInv
<1>2. CASE j = i /\ SavedAndSent(i, r)
  BY <1>2 DEF GoesTo, SavedAndSent, Moves
<1>3. CASE j = i /\ Unsaved(i, r)
  <2>1. raw'[i].prevHs = raw[i].prevHs /\ hs'[i] = hs[i]
    BY <1>3 DEF Unsaved, Moves
  <2>2. raw'[i].term = r.term /\ raw'[i].vote = r.vote
    BY DEF GoesTo
  <2> QED BY <1>3, <2>1, <2>2 DEF Moves, Base, Shape, HardStateInv
<1> QED BY <1>1, <1>2, <1>3 DEF GoesTo

\* A move keeps what the node has given.
LEMMA GivenKept ==
  ASSUME ClusterAssumption, Base, NEW i \in Node, NEW r, Moves(i, r), GoesTo(i, r),
         NEW j \in Node, NEW c \in Node, NEW t \in Nat, Given(j, t, c)
  PROVE  Given(j, t, c)'
<1>1. c # NoNode
  BY DEF ClusterAssumption
<1>2. CASE j # i
  BY <1>2 DEF GoesTo, Given
<1>3. CASE j = i
  BY <1>1, <1>3 DEF GoesTo, Moves, Given, Base, Shape
<1> QED BY <1>2, <1>3

LEMMA MoveKeepsMessages ==
  ASSUME ClusterAssumption, Base, NEW i \in Node, NEW r, Moves(i, r), GoesTo(i, r)
  PROVE  MessageInv'
<1>s. \A j, c \in Node : \A t \in Nat : Saved(j, t, c) => Saved(j, t, c)'
  BY SavedKept DEF ClusterAssumption
<1>g. \A j, c \in Node : \A t \in Nat : Given(j, t, c) => Given(j, t, c)'
  BY GivenKept
<1>n. Given(i, r.term, r.vote)'
  BY DEF GoesTo, Given
<1>1. ASSUME NEW m \in r.msgs
      PROVE  /\ MessageShape(m)
             /\ m.type = "Vote" => m.from = i /\ Given(i, m.term, i)'
             /\ m.type = "VoteResp" => /\ m.from = i
                                       /\ Given(i, m.term, m.to)'
                                       /\ Saved(m.to, m.term, m.to)'
  <2>1. CASE m \in raw[i].msgs
    BY <2>1, <1>s, <1>g DEF Base, MessageInv, MessageShape
  <2>2. CASE m \notin raw[i].msgs
    BY <2>2, <1>s, <1>n DEF Moves, MessageShape
  <2> QED BY <2>1, <2>2
<1>2. ASSUME NEW m \in transit
      PROVE  /\ MessageShape(m)
             /\ m.type = "Vote" => Saved(m.from, m.term, m.from)'
             /\ m.type = "VoteResp" => Saved(m.from, m.term, m.to)' /\ Saved(m.to, m.term, m.to)'
  BY <1>s DEF Base, MessageInv, MessageShape
<1>3. ASSUME NEW m \in transit'
      PROVE  /\ MessageShape(m)
             /\ m.type = "Vote" => Saved(m.from, m.term, m.from)'
             /\ m.type = "VoteResp" => Saved(m.from, m.term, m.to)' /\ Saved(m.to, m.term, m.to)'
  <2>1. CASE m \in transit
    BY <2>1, <1>2
  <2>2. CASE m \notin transit /\ m \in r.msgs
    <3>1. SavedAndSent(i, r)
      BY <2>2 DEF GoesTo, Unsaved
    <3>2. \A c : \A t : Given(i, t, c)' => Saved(i, t, c)'
      BY <3>1 DEF GoesTo, SavedAndSent, Given, Saved
    <3> QED BY <1>1, <2>2, <3>2
  <2>3. CASE m \notin transit /\ m \notin r.msgs
    BY <2>3 DEF GoesTo, Unsaved, SavedAndSent
  <2> QED BY <2>1, <2>2, <2>3
<1>4. ASSUME NEW j \in Node, NEW m \in raw'[j].msgs
      PROVE  /\ MessageShape(m)
             /\ m.type = "Vote" => m.from = j /\ Given(j, m.term, j)'
             /\ m.type = "VoteResp" => /\ m.from = j
                                       /\ Given(j, m.term, m.to)'
                                       /\ Saved(m.to, m.term, m.to)'
  <2>1. CASE j = i
    <3>1. m \in r.msgs
      BY <2>1 DEF GoesTo
    <3> QED BY <1>1, <2>1, <3>1
  <2>2. CASE j # i
    <3>1. m \in raw[j].msgs
      BY <2>2 DEF GoesTo
    <3> QED BY <3>1, <1>s, <1>g DEF Base, MessageInv, MessageShape
  <2> QED BY <2>1, <2>2
<1> QED BY <1>3, <1>4 DEF MessageInv, MessageShape

LEMMA MoveKeepsVotes ==
  ASSUME ClusterAssumption, Base, NEW i \in Node, NEW r, Moves(i, r), GoesTo(i, r)
  PROVE  VotesInv'
<1> SUFFICES ASSUME NEW k \in Node, NEW j \in raw'[k].votes
             PROVE  raw'[k].vote = k /\ (j = k \/ Saved(j, raw[k].term, k)')
  BY DEF VotesInv
<1>1. k # i => j \in raw[k].votes /\ raw'[k] = raw[k]
  BY DEF GoesTo
<1>2. j \in Node
  BY MoveKeepsShape DEF Shape
<1>3. CASE k # i
  <2>1. raw[k].vote = k /\ (j = k \/ Saved(j, raw[k].term, k))
    BY <1>1, <1>3 DEF Base, VotesInv
  <2>2. raw[k].term \in Nat
    BY DEF Base, Shape
  <2>3. j # k => Saved(j, raw[k].term, k)'
    <3>1. ASSUME NEW t \in Nat, Saved(j, t, k)
          PROVE  Saved(j, t, k)'
      BY <1>2, <3>1, SavedKept DEF ClusterAssumption
    <3> QED BY <1>1, <1>3, <2>1, <2>2, <3>1 DEF Saved
  <2> QED BY <1>1, <1>3, <2>1, <2>3
<1>4. CASE k = i
  <2>1. j \in r.votes /\ raw'[i].term = r.term /\ raw'[i].vote = r.vote /\ r.term \in Nat
    BY <1>4 DEF GoesTo, Moves
  <2>2. i # NoNode
    BY DEF ClusterAssumption
  <2>k. Saved(j, r.term, i) => Saved(j, raw[i].term, i)'
    <3>1. Saved(j, r.term, i) => Saved(j, r.term, i)'
      BY <1>2, <2>1, <2>2, SavedKept
    <3> QED BY <2>1, <3>1 DEF Saved
  <2>3. CASE j = i /\ r.vote = i
    BY <1>4, <2>1, <2>3
  <2>4. CASE j \in raw[i].votes /\ r.term = raw[i].term
    <3>1. raw[i].vote = i /\ (j = i \/ Saved(j, r.term, i))
      BY <2>4 DEF Base, VotesInv
    <3>2. r.vote = i
      BY <2>2, <2>4, <3>1 DEF Moves
    <3> QED BY <1>4, <2>1, <2>k, <3>1, <3>2
  <2>5. CASE /\ r.term = raw[i].term
             /\ \E m \in transit : m.type = "VoteResp" /\ m.from = j /\ m.to = i /\ m.term = r.term
    <3>1. Saved(j, r.term, i) /\ Saved(i, r.term, i)
      BY <2>5 DEF Base, MessageInv
    <3>2. Given(i, r.term, i)
      BY <2>1, <2>2, <3>1 DEF Base, Shape, HardStateInv, Saved, Given
    <3>3. raw[i].vote = i
      BY <2>1, <2>5, <3>2 DEF Given
    <3>4. r.vote = i
      BY <2>2, <2>5, <3>3 DEF Moves
    <3> QED BY <1>4, <2>1, <2>k, <3>1, <3>4
  <2> QED BY <2>1, <2>3, <2>4, <2>5 DEF Moves
<1> QED BY <1>3, <1>4

\* The vote a move adds agrees with every vote of that node and term.
LEMMA NewBallotAgrees ==
  ASSUME ClusterAssumption, Base, NEW i \in Node, NEW r, Moves(i, r),
         NEW c \in Node, Ballot(i, r.term, c)
  PROVE  c = r.vote
<1>1. Given(i, r.term, c)
  BY BallotGiven DEF Moves
<1>2. c # NoNode
  BY DEF ClusterAssumption
<1> QED BY <1>1, <1>2 DEF Moves, Given, Base, Shape

LEMMA MoveKeepsOneBallot ==
  ASSUME ClusterAssumption, Base, NEW i \in Node, NEW r, Moves(i, r), GoesTo(i, r)
  PROVE  OneBallot'
<1> SUFFICES ASSUME NEW j \in Node, NEW c \in Node, NEW d \in Node, NEW t \in Nat,
                    Ballot(j, t, c)', Ballot(j, t, d)'
             PROVE  c = d
  BY DEF OneBallot
<1>1. Ballot(j, t, c) \/ (j = i /\ t = r.term /\ c = r.vote)
  BY NewBallot
<1>2. Ballot(j, t, d) \/ (j = i /\ t = r.term /\ d = r.vote)
  BY NewBallot
<1>3. CASE Ballot(j, t, c) /\ Ballot(j, t, d)
  BY <1>3 DEF Base, OneBallot
<1>4. CASE j = i /\ t = r.term
  BY <1>1, <1>2, <1>4, NewBallotAgrees
<1> QED BY <1>1, <1>2, <1>3, <1>4

\* Every move of a node keeps the part of the invariant about votes ...
LEMMA MoveKeepsBase ==
  ASSUME ClusterAssumption, Base, NEW i \in Node, NEW r, Moves(i, r), GoesTo(i, r)
  PROVE  Base'
BY MoveKeepsShape, MoveKeepsHardState, MoveKeepsMessages, MoveKeepsVotes, MoveKeepsOneBallot
   DEF Base

\* ... and the majority behind a leader.
LEMMA MoveKeepsBacked ==
  ASSUME ClusterAssumption, Base, NEW i \in Node, NEW r, Moves(i, r), GoesTo(i, r),
         NEW t \in Nat, NEW l \in Node, Backed(<<t, l>>)
  PROVE  Backed(<<t, l>>)'
<1>1. PICK Q \in SUBSET Node :
        /\ Majority(Q)
        /\ \A j \in Q : Saved(j, t, l) /\ \A c \in Node : Ballot(j, t, c) => c = l
  BY DEF Backed
<1>2. ASSUME NEW j \in Q
      PROVE  Saved(j, t, l)'
  BY <1>1, SavedKept DEF ClusterAssumption
<1>3. ASSUME NEW j \in Q, NEW c \in Node, Ballot(j, t, c)'
      PROVE  c = l
  <2>1. Ballot(j, t, c) \/ (j = i /\ t = r.term /\ c = r.vote)
    BY <1>3, NewBallot
  <2>2. CASE Ballot(j, t, c)
    BY <1>1, <2>2
  <2>3. CASE j = i /\ t = r.term /\ c = r.vote
    <3>1. hs[i].term = t /\ hs[i].vote = l
      BY <1>1, <2>3 DEF Saved, Moves, Base, Shape, HardStateInv
    <3>2. l # NoNode
      BY DEF ClusterAssumption
    <3>3. raw[i].term = t /\ raw[i].vote = l
      BY <2>3, <3>1, <3>2 DEF Moves, Base, Shape, HardStateInv
    <3> QED BY <2>3, <3>2, <3>3 DEF Moves
  <2> QED BY <2>1, <2>2, <2>3
<1> QED BY <1>1, <1>2, <1>3 DEF Backed, Majority

-----------------------------------------------------------------------------
(* The actions *)

LEMMA InitBase == ClusterAssumption /\ Init => Inv
<1> SUFFICES ASSUME ClusterAssumption, Init PROVE Inv
  OBVIOUS
<1>1. ASSUME NEW i \in Node
      PROVE  /\ DOMAIN raw[i] = RawFields
             /\ raw[i].term = 0 /\ raw[i].vote = NoNode /\ raw[i].leader = NoNode
             /\ raw[i].votes = {} /\ raw[i].msgs = {} /\ raw[i].prevHs = NoHardState
  BY DEF Init, RawNode, Follower, NoHardState, RawFields
<1>2. DOMAIN raw = Node /\ DOMAIN hs = Node /\ \A i \in Node : hs[i] = NoHardState
  BY DEF Init
<1>3. NoHardState.term = 0 /\ NoHardState.vote = NoNode
  BY DEF NoHardState
<1>4. Shape /\ HardStateInv
  BY <1>1, <1>2, <1>3 DEF Shape, HardStateInv
<1>5. MessageInv /\ VotesInv
  BY <1>1 DEF Init, MessageInv, VotesInv
<1>6. OneBallot
  BY <1>1 DEF Init, OneBallot, Ballot
<1> QED BY <1>4, <1>5, <1>6 DEF Inv, Base, ElectedInv, ElectionSafety, Init

\* A restart forgets what has not left the node, and nothing else.
LEMMA RestartKeeps ==
  ASSUME Base, NEW i \in Node, NEW n, restart(i, n)
  PROVE  /\ Base'
         /\ \A e \in elected : Backed(e) => Backed(e)'
<1>1. PICK k : raw' = [raw EXCEPT ![i] = RawNode(hs[i], k)]
  BY DEF restart
<1>2. /\ DOMAIN raw' = Node /\ \A j \in Node \ {i} : raw'[j] = raw[j]
      /\ DOMAIN raw'[i] = RawFields
      /\ raw'[i].term = hs[i].term /\ raw'[i].vote = hs[i].vote /\ raw'[i].leader = NoNode
      /\ raw'[i].votes = {} /\ raw'[i].msgs = {} /\ raw'[i].prevHs = hs[i]
  BY <1>1 DEF Base, Shape, RawNode, Follower, RawFields
<1>3. hs' = hs /\ transit' \subseteq transit
  BY DEF restart, Live
<1>4. Shape' /\ HardStateInv'
  BY <1>2, <1>3 DEF Base, Shape, HardStateInv
<1>5. \A j, c, t : Saved(j, t, c)' <=> Saved(j, t, c)
  BY <1>3 DEF Saved
<1>6. \A j \in Node : \A c, t : j # i => (Given(j, t, c)' <=> Given(j, t, c))
  BY <1>2 DEF Given
<1>7. MessageInv'
  BY <1>2, <1>3, <1>5, <1>6 DEF Base, MessageInv, MessageShape
<1>8. VotesInv'
  BY <1>2, <1>3 DEF Base, VotesInv, Saved
<1>9. \A j, c \in Node : \A t : Ballot(j, t, c)' => Ballot(j, t, c)
  BY <1>2, <1>3 DEF Ballot
<1>10. OneBallot'
  BY <1>9 DEF Base, OneBallot
<1>11. ASSUME NEW e \in elected, Backed(e)
       PROVE  Backed(e)'
  <2>1. PICK Q \in SUBSET Node :
          /\ Majority(Q)
          /\ \A j \in Q : /\ Saved(j, e[1], e[2])
                          /\ \A c \in Node : Ballot(j, e[1], c) => c = e[2]
    BY <1>11 DEF Backed
  <2> QED BY <1>5, <1>9, <2>1 DEF Backed, Majority
<1> QED BY <1>4, <1>7, <1>8, <1>10, <1>11 DEF Base

\* What BecomeFollower does to the voting state.
LEMMA BecomeFollowerFields ==
  ASSUME NEW r, NEW t, NEW l, DOMAIN r = RawFields
  PROVE  LET s == BecomeFollower(r, t, l)
         IN  /\ DOMAIN s = RawFields
             /\ s.term = t /\ s.vote = (IF t = r.term THEN r.vote ELSE NoNode)
             /\ s.leader = l /\ s.votes = {} /\ s.msgs = r.msgs /\ s.prevHs = r.prevHs
             /\ s.role = "follower"
BY DEF BecomeFollower, RawFields

\* A node stays where it is, but for what does not concern elections.
LEMMA StayMoves ==
  ASSUME Base, NEW i \in Node, NEW s, SameVoting(s, raw[i])
  PROVE  Moves(i, s)
BY DEF Base, Shape, SameVoting, Moves

\* What a newer term, or a leader of this one, makes of the receiver.
LEMMA CaughtFields ==
  ASSUME Base, NEW m \in transit, m.type # "Propose", Matters(m, raw[m.to])
  PROVE  LET r == raw[m.to]
             s == Caught(m)
         IN  /\ m.to \in Node /\ m.from \in Node /\ m.term \in Nat
             /\ DOMAIN s = RawFields
             /\ s.term = m.term /\ s.term >= r.term
             /\ s.term = r.term => s.vote = r.vote
             /\ s.msgs = r.msgs /\ s.prevHs = r.prevHs
             /\ s.leader \in Node \cup {NoNode}
             /\ s.votes = {} \/ (s.term = r.term /\ s.votes = r.votes)
<1> DEFINE i == m.to
           l == IF m.type \in {"Append", "Heartbeat"} THEN m.from ELSE NoNode
<1>1. i \in Node /\ m.from \in Node /\ m.term \in Nat
  BY DEF Base, MessageInv, MessageShape
<1>2. DOMAIN raw[i] = RawFields /\ raw[i].term \in Nat /\ raw[i].leader \in Node \cup {NoNode}
  BY <1>1 DEF Base, Shape
<1>3. m.term >= raw[i].term
  BY DEF Matters
<1>4. \/ Caught(m) = BecomeFollower(raw[i], m.term, l)
      \/ Caught(m) = raw[i] /\ ~(m.term > raw[i].term)
  BY DEF Caught
<1>5. CASE Caught(m) = BecomeFollower(raw[i], m.term, l)
  <2> HIDE DEF i, l
  <2>1. l \in Node \cup {NoNode}
    BY <1>1 DEF l
  <2> QED BY <1>1, <1>2, <1>3, <1>5, <2>1, BecomeFollowerFields DEF i
<1>6. CASE Caught(m) = raw[i] /\ ~(m.term > raw[i].term)
  BY <1>1, <1>2, <1>3, <1>6
<1> QED BY <1>4, <1>5, <1>6

LEMMA CaughtMoves ==
  ASSUME Base, NEW m \in transit, m.type # "Propose", Matters(m, raw[m.to]),
         NEW s, SameVoting(s, Caught(m))
  PROVE  Moves(m.to, s)
<1> DEFINE q == Caught(m)
<1>1. /\ m.to \in Node /\ m.from \in Node /\ m.term \in Nat
      /\ DOMAIN q = RawFields
      /\ q.term = m.term /\ q.term >= raw[m.to].term
      /\ q.term = raw[m.to].term => q.vote = raw[m.to].vote
      /\ q.msgs = raw[m.to].msgs /\ q.prevHs = raw[m.to].prevHs
      /\ q.leader \in Node \cup {NoNode}
      /\ q.votes = {} \/ (q.term = raw[m.to].term /\ q.votes = raw[m.to].votes)
  BY CaughtFields
<1> HIDE DEF q
<1> QED BY <1>1 DEF Moves, SameVoting, q

\* The receiving branch touches neither disk nor network but to take m from it.
LEMMA StepGoesTo ==
  ASSUME Base, NEW m \in transit, NEW r, DOMAIN r = RawFields, Step(m.to, m, r)
  PROVE  GoesTo(m.to, r)
<1>1. m.to \in Node /\ DOMAIN raw = Node
  BY DEF Base, Shape, MessageInv, MessageShape
<1>2. raw' = [raw EXCEPT ![m.to] = r] /\ hs' = hs /\ transit' \subseteq transit
  BY DEF Step, storeVars, Live
<1> QED BY <1>1, <1>2 DEF GoesTo, Unsaved, Base, Shape

\* A move without an election keeps the invariant.
LEMMA MoveKeepsInv ==
  ASSUME ClusterAssumption, Inv, NEW i \in Node, NEW r, Moves(i, r), GoesTo(i, r),
         elected' = elected
  PROVE  Inv'
<1>1. Base'
  BY MoveKeepsBase DEF Inv
<1>2. ASSUME NEW e \in elected
      PROVE  Backed(e)'
  <2>1. PICK t \in Nat, l \in Node : e = <<t, l>>
    BY DEF Inv, ElectedInv
  <2>2. Backed(<<t, l>>)
    BY <2>1 DEF Inv, ElectedInv
  <2> QED BY <2>1, <2>2, MoveKeepsBacked DEF Inv
<1> QED BY <1>1, <1>2 DEF Inv, ElectedInv, ElectionSafety

\* So does a step that has nothing to do with elections.
LEMMA StayKeepsInv ==
  ASSUME Inv, DOMAIN raw' = Node, \A i \in Node : raw'[i] = raw[i],
         hs' = hs, transit' = transit, elected' = elected
  PROVE  Inv'
<1>1. \A i \in Node : \A t, c : (Saved(i, t, c)' <=> Saved(i, t, c))
                             /\ (Given(i, t, c)' <=> Given(i, t, c))
  BY DEF Saved, Given
<1>2. \A i, c \in Node : \A t : Ballot(i, t, c)' <=> Ballot(i, t, c)
  BY DEF Ballot
<1>3. Shape' /\ HardStateInv' /\ VotesInv'
  BY DEF Inv, Base, Shape, HardStateInv, VotesInv, Saved
<1>4. MessageInv'
  BY <1>1 DEF Inv, Base, MessageInv, MessageShape
<1>5. OneBallot'
  BY <1>2 DEF Inv, Base, OneBallot
<1>6. ASSUME NEW e \in elected
      PROVE  Backed(e)'
  <2>1. PICK Q \in SUBSET Node :
          /\ Majority(Q)
          /\ \A j \in Q : /\ Saved(j, e[1], e[2])
                          /\ \A c \in Node : Ballot(j, e[1], c) => c = e[2]
    BY DEF Inv, ElectedInv, Backed
  <2> QED BY <1>1, <1>2, <2>1 DEF Backed, Majority
<1> QED BY <1>3, <1>4, <1>5, <1>6 DEF Inv, Base, ElectedInv, ElectionSafety

LEMMA HandleVoteKeeps ==
  ASSUME ClusterAssumption, Inv, NEW m \in transit, HandleVote(m)
  PROVE  Inv'
<1> DEFINE i == m.to
           r == Caught(m)
           answer == [type |-> "VoteResp", from |-> m.to, to |-> m.from, term |-> r.term]
           granted == [r EXCEPT !.vote = m.from, !.msgs = @ \cup {answer}]
<1>0. Base
  BY DEF Inv
<1>1. m.type = "Vote" /\ Matters(m, raw[i]) /\ elected' = elected
  BY DEF HandleVote, Step
<1>2. /\ i \in Node /\ m.from \in Node /\ m.term \in Nat
      /\ DOMAIN r = RawFields
      /\ r.term = m.term /\ r.term >= raw[i].term
      /\ r.term = raw[i].term => r.vote = raw[i].vote
      /\ r.msgs = raw[i].msgs /\ r.prevHs = raw[i].prevHs
      /\ r.leader \in Node \cup {NoNode}
      /\ r.votes = {} \/ (r.term = raw[i].term /\ r.votes = raw[i].votes)
  BY <1>0, <1>1, CaughtFields
<1>3. \/ Step(i, m, r)
      \/ Step(i, m, granted) /\ r.vote \in {m.from, NoNode}
  BY DEF HandleVote
<1> HIDE DEF r
<1>4. CASE Step(i, m, r)
  <2>1. Moves(i, r)
    BY <1>2 DEF Moves
  <2> QED BY <1>0, <1>1, <1>2, <1>4, <2>1, StepGoesTo, MoveKeepsInv
<1>5. CASE Step(i, m, granted) /\ r.vote \in {m.from, NoNode}
  <2>1. /\ DOMAIN granted = RawFields
        /\ granted.term = r.term /\ granted.vote = m.from /\ granted.votes = r.votes
        /\ granted.msgs = r.msgs \cup {answer}
        /\ granted.prevHs = r.prevHs /\ granted.leader = r.leader
    BY <1>2 DEF RawFields
  <2>2. Saved(m.from, m.term, m.from)
    BY <1>0, <1>1 DEF Base, MessageInv
  <2>3. /\ answer.type = "VoteResp" /\ answer.from = i /\ answer.to = m.from
        /\ answer.term = r.term
    OBVIOUS
  <2> HIDE DEF granted, answer
  <2>4. MessageShape(answer)
    BY <1>2, <2>3 DEF MessageShape
  <2>5. Moves(i, granted)
    BY <1>2, <1>5, <2>1, <2>2, <2>3, <2>4 DEF Moves
  <2> QED BY <1>0, <1>1, <1>2, <1>5, <2>1, <2>5, StepGoesTo, MoveKeepsInv
<1> QED BY <1>3, <1>4, <1>5

\* Two majorities have a node in common.
LEMMA MajoritiesMeet ==
  ASSUME ClusterAssumption, NEW P \in SUBSET Node, NEW Q \in SUBSET Node,
         Majority(P), Majority(Q)
  PROVE  \E i \in Node : i \in P /\ i \in Q
<1>1. IsFiniteSet(Node) /\ IsFiniteSet(P) /\ IsFiniteSet(Q)
  BY FS_Subset DEF ClusterAssumption
<1>2. Cardinality(P) \in Nat /\ Cardinality(Q) \in Nat /\ Cardinality(Node) \in Nat
  BY <1>1, FS_CardinalityType
<1>3. Cardinality(P) + Cardinality(Q) > Cardinality(Node)
  BY <1>2 DEF Majority
<1>4. P \cap Q # {}
  BY <1>1, <1>3, FS_MajoritiesIntersect
<1> QED BY <1>4

\* Who wins with the answer m is backed by its voters, and nobody else has
\* won that term.
LEMMA WinnerIsBacked ==
  ASSUME ClusterAssumption, Inv, NEW m \in transit,
         m.type = "VoteResp", m.term = raw[m.to].term,
         Majority(raw[m.to].votes \cup {m.from})
  PROVE  /\ Backed(<<m.term, m.to>>)
         /\ \A e \in elected : e[1] = m.term => e = <<m.term, m.to>>
<1> DEFINE Q == raw[m.to].votes \cup {m.from}
<1>1. m.to \in Node /\ m.from \in Node /\ m.term \in Nat /\ Q \in SUBSET Node
  BY DEF Inv, Base, Shape, MessageInv, MessageShape
<1>2. Saved(m.from, m.term, m.to) /\ Saved(m.to, m.term, m.to)
  BY DEF Inv, Base, MessageInv
<1>3. \A j \in Q : Saved(j, m.term, m.to)
  BY <1>1, <1>2 DEF Inv, Base, VotesInv
<1>4. \A j \in Q : Ballot(j, m.term, m.to)
  BY DEF Ballot
<1>5. \A j \in Q : \A c \in Node : Ballot(j, m.term, c) => c = m.to
  BY <1>1, <1>4 DEF Inv, Base, OneBallot
<1>6. Backed(<<m.term, m.to>>)
  BY <1>1, <1>3, <1>5 DEF Backed
<1>7. ASSUME NEW e \in elected, e[1] = m.term
      PROVE  e = <<m.term, m.to>>
  <2>1. PICK l \in Node : e = <<m.term, l>>
    BY <1>7 DEF Inv, ElectedInv
  <2>2. PICK P \in SUBSET Node :
          /\ Majority(P)
          /\ \A j \in P : \A c \in Node : Ballot(j, m.term, c) => c = l
    BY <2>1 DEF Inv, ElectedInv, Backed
  <2>3. PICK j \in Node : j \in P /\ j \in Q
    BY <1>1, <2>2, MajoritiesMeet
  <2> QED BY <1>1, <1>4, <2>1, <2>2, <2>3
<1> QED BY <1>6, <1>7

LEMMA HandleVoteRespKeeps ==
  ASSUME ClusterAssumption, Inv, NEW m \in transit, HandleVoteResp(m)
  PROVE  Inv'
<1> DEFINE i == m.to
           r == [raw[i] EXCEPT !.votes = @ \cup {m.from}]
           wins == Majority(r.votes)
           panics == wins /\ LastIndex(r) # r.persisted
           leader == [r EXCEPT !.role = "leader", !.leader = i, !.votes = {},
                               !.match = [NoMatch EXCEPT ![i] = r.persisted]]
           s == Propose(i, leader, Empty)
<1>0. Base
  BY DEF Inv
<1>1. /\ i \in Node /\ m.from \in Node /\ m.term \in Nat
      /\ DOMAIN raw[i] = RawFields
      /\ raw[i].term \in Nat /\ raw[i].leader \in Node \cup {NoNode}
  BY <1>0 DEF Base, Shape, MessageInv, MessageShape, HandleVoteResp
<1>2. m.type = "VoteResp" /\ m.term = raw[i].term
  BY DEF HandleVoteResp, Step, Matters
<1>3. \/ Step(i, m, r) /\ elected' = elected
      \/ wins /\ Step(i, m, s) /\ elected' = elected \cup {<<r.term, i>>}
  BY DEF HandleVoteResp
<1>4. /\ DOMAIN r = RawFields
      /\ r.term = raw[i].term /\ r.vote = raw[i].vote
      /\ r.votes = raw[i].votes \cup {m.from}
      /\ r.msgs = raw[i].msgs /\ r.prevHs = raw[i].prevHs /\ r.leader = raw[i].leader
  BY <1>1 DEF RawFields
<1> HIDE DEF r
<1>5. /\ DOMAIN leader = RawFields
      /\ leader.role = "leader" /\ leader.leader = i
      /\ leader.term = r.term /\ leader.vote = r.vote
      /\ leader.votes = {} /\ leader.msgs = r.msgs /\ leader.prevHs = r.prevHs
  BY <1>4 DEF RawFields
<1> HIDE DEF leader
<1>6. /\ DOMAIN s = RawFields
      /\ s.leader = i /\ s.term = r.term /\ s.vote = r.vote
      /\ s.votes = {} /\ s.msgs = r.msgs /\ s.prevHs = r.prevHs
  BY <1>5 DEF RawFields, Propose
<1> HIDE DEF s
<1>7. CASE Step(i, m, r) /\ elected' = elected
  <2>1. Moves(i, r)
    BY <1>1, <1>2, <1>4 DEF Moves
  <2> QED BY <1>0, <1>1, <1>4, <1>7, <2>1, StepGoesTo, MoveKeepsInv
<1>8. CASE wins /\ Step(i, m, s) /\ elected' = elected \cup {<<r.term, i>>}
  <2>1. Moves(i, s) /\ GoesTo(i, s)
    BY <1>0, <1>1, <1>4, <1>6, <1>8, StepGoesTo DEF Moves
  <2>2. Base'
    BY <1>0, <1>1, <2>1, MoveKeepsBase
  <2>3. /\ Backed(<<r.term, i>>)
        /\ \A e \in elected : e[1] = r.term => e = <<r.term, i>>
    BY <1>2, <1>4, <1>8, WinnerIsBacked
  <2>4. elected' \subseteq Nat \X Node
    BY <1>1, <1>4, <1>8 DEF Inv, ElectedInv
  <2>5. ASSUME NEW e \in elected'
        PROVE  Backed(e)'
    <3>1. PICK t \in Nat, l \in Node : e = <<t, l>>
      BY <2>4
    <3>2. Backed(<<t, l>>)
      BY <1>8, <2>3, <3>1 DEF Inv, ElectedInv
    <3> QED BY <1>0, <1>1, <2>1, <3>1, <3>2, MoveKeepsBacked
  <2>6. ElectionSafety'
    BY <1>8, <2>3 DEF Inv, ElectionSafety
  <2> QED BY <2>2, <2>4, <2>5, <2>6 DEF Inv, ElectedInv
<1> QED BY <1>3, <1>7, <1>8

LEMMA HandleAppendKeeps ==
  ASSUME ClusterAssumption, Inv, NEW m \in transit, HandleAppend(m)
  PROVE  Inv'
<1> DEFINE i == m.to
           r == Caught(m)
           answer(n) == [type |-> "AppendResp", from |-> i, to |-> m.from, term |-> r.term,
                         index |-> n]
           answered(n) == [r EXCEPT !.msgs = @ \cup {answer(n)}]
           matched(c, n) == [r EXCEPT !.committed = c, !.msgs = @ \cup {answer(n)}]
           appended(u, o, p, c, n) ==
             [[r EXCEPT !.unstable = u, !.offset = o, !.persisted = p] EXCEPT
                !.committed = c, !.msgs = @ \cup {answer(n)}]
<1>0. Base
  BY DEF Inv
<1>1. m.type = "Append" /\ Matters(m, raw[i]) /\ elected' = elected
  BY DEF HandleAppend, Step
<1>2. i \in Node /\ m.from \in Node /\ DOMAIN r = RawFields /\ r.term \in Nat
  BY <1>0, <1>1, CaughtFields
<1>3. \A n : MessageShape(answer(n)) /\ answer(n).type = "AppendResp"
  BY <1>2 DEF MessageShape
<1>4. ASSUME NEW s, SameVoting(s, r), Step(i, m, s)
      PROVE  Inv'
  <2>1. Moves(i, s)
    BY <1>0, <1>1, <1>4, CaughtMoves
  <2>2. GoesTo(i, s)
    BY <1>0, <1>4, StepGoesTo DEF SameVoting
  <2> QED BY <1>1, <1>2, <2>1, <2>2, MoveKeepsInv
<1>5. SameVoting(r, r)
  BY <1>2 DEF SameVoting
<1>6. \A n : SameVoting(answered(n), r)
  BY <1>2, <1>3 DEF SameVoting, RawFields
<1>7. \A c, n : SameVoting(matched(c, n), r)
  BY <1>2, <1>3 DEF SameVoting, RawFields
<1>8. \A u, o, p, c, n : SameVoting(appended(u, o, p, c, n), r)
  BY <1>2, <1>3 DEF SameVoting, RawFields
<1>9. \/ Step(i, m, r)
      \/ \E n : Step(i, m, answered(n))
      \/ \E c, n : Step(i, m, matched(c, n))
      \/ \E u, o, p, c, n : Step(i, m, appended(u, o, p, c, n))
  BY DEF HandleAppend
<1> HIDE DEF r, answer, answered, matched, appended
<1> QED BY <1>4, <1>5, <1>6, <1>7, <1>8, <1>9

LEMMA HandleHeartbeatKeeps ==
  ASSUME ClusterAssumption, Inv, NEW m \in transit, HandleHeartbeat(m)
  PROVE  Inv'
<1> DEFINE i == m.to
           r == Caught(m)
<1>0. Base
  BY DEF Inv
<1>1. m.type = "Heartbeat" /\ Matters(m, raw[i]) /\ elected' = elected
  BY DEF HandleHeartbeat, Step
<1>2. i \in Node /\ DOMAIN r = RawFields
  BY <1>0, <1>1, CaughtFields
<1>3. PICK s : Step(i, m, s) /\ (s = r \/ s = [r EXCEPT !.committed = m.commit])
  BY DEF HandleHeartbeat
<1>4. SameVoting(s, r)
  BY <1>2, <1>3 DEF SameVoting, RawFields
<1>5. Moves(i, s)
  BY <1>0, <1>1, <1>4, CaughtMoves
<1>6. GoesTo(i, s)
  BY <1>0, <1>3, <1>4, StepGoesTo DEF SameVoting
<1> QED BY <1>1, <1>2, <1>5, <1>6, MoveKeepsInv

LEMMA MaybeCommitFields ==
  ASSUME NEW i, NEW r, NEW c, DOMAIN r = RawFields
  PROVE  SameVoting(MaybeCommit(i, r, c), r) /\ MaybeCommit(i, r, c).msgs = r.msgs
BY DEF MaybeCommit, SameVoting, RawFields

LEMMA ProposeFields ==
  ASSUME NEW i \in Node, NEW r, NEW d, DOMAIN r = RawFields, Accepts(r),
         r.leader \in Node \cup {NoNode}
  PROVE  SameVoting(Propose(i, r, d), r)
<1>1. CASE r.role = "leader"
  BY <1>1 DEF Propose, SameVoting, RawFields
<1>2. CASE r.role # "leader"
  <2> DEFINE x == [type |-> "Propose", from |-> i, to |-> r.leader, data |-> d]
  <2>1. MessageShape(x) /\ x.type = "Propose"
    BY <1>2 DEF MessageShape, Accepts
  <2>2. Propose(i, r, d) = [r EXCEPT !.msgs = @ \cup {x}]
    BY <1>2 DEF Propose
  <2> HIDE DEF x
  <2> QED BY <2>1, <2>2 DEF SameVoting, RawFields
<1> QED BY <1>1, <1>2

LEMMA HandleAppendRespKeeps ==
  ASSUME ClusterAssumption, Inv, NEW m \in transit, HandleAppendResp(m)
  PROVE  Inv'
<1> DEFINE i == m.to
           r == [raw[i] EXCEPT !.match[m.from] = IF m.index > @ THEN m.index ELSE @]
           s == MaybeCommit(i, r, cache[i])
<1>0. Base
  BY DEF Inv
<1>1. i \in Node /\ DOMAIN raw[i] = RawFields
  BY <1>0 DEF Base, Shape, MessageInv, MessageShape
<1>2. Step(i, m, s) /\ elected' = elected
  BY DEF HandleAppendResp
<1>3. /\ DOMAIN r = RawFields
      /\ r.term = raw[i].term /\ r.vote = raw[i].vote /\ r.votes = raw[i].votes
      /\ r.prevHs = raw[i].prevHs /\ r.leader = raw[i].leader /\ r.msgs = raw[i].msgs
  BY <1>1 DEF RawFields
<1> HIDE DEF r
<1>4. SameVoting(s, raw[i])
  BY <1>3, MaybeCommitFields DEF SameVoting
<1> HIDE DEF s
<1>5. Moves(i, s) /\ GoesTo(i, s)
  BY <1>0, <1>1, <1>2, <1>4, StayMoves, StepGoesTo DEF SameVoting
<1> QED BY <1>1, <1>2, <1>5, MoveKeepsInv

LEMMA HandleProposeKeeps ==
  ASSUME ClusterAssumption, Inv, NEW m \in transit, HandlePropose(m)
  PROVE  Inv'
<1> DEFINE i == m.to
<1>0. Base
  BY DEF Inv
<1>1. i \in Node /\ DOMAIN raw[i] = RawFields /\ raw[i].leader \in Node \cup {NoNode}
  BY <1>0 DEF Base, Shape, MessageInv, MessageShape
<1>2. PICK s : /\ Step(i, m, s)
               /\ s = IF Accepts(raw[i]) THEN Propose(i, raw[i], m.data) ELSE raw[i]
  BY DEF HandlePropose
<1>3. SameVoting(s, raw[i])
  BY <1>1, <1>2, ProposeFields DEF SameVoting
<1>4. elected' = elected
  BY DEF HandlePropose
<1>5. Moves(i, s) /\ GoesTo(i, s)
  BY <1>0, <1>1, <1>2, <1>3, StayMoves, StepGoesTo DEF SameVoting
<1> QED BY <1>1, <1>4, <1>5, MoveKeepsInv

LEMMA HandOutFields ==
  ASSUME NEW r, NEW q, DOMAIN r = RawFields
  PROVE  SameVoting(HandOut(r, q), r) /\ HandOut(r, q).msgs = r.msgs
BY DEF HandOut, SameVoting, RawFields

LEMMA AdvancedFields ==
  ASSUME NEW i, NEW r, NEW c, DOMAIN r = RawFields
  PROVE  SameVoting(Advanced(i, r, c), r)
<1> DEFINE same(s) == /\ DOMAIN s = RawFields
                      /\ s.term = r.term /\ s.vote = r.vote /\ s.votes = r.votes
                      /\ s.prevHs = r.prevHs /\ s.leader = r.leader /\ s.msgs = r.msgs
           stable(o) == [r EXCEPT !.unstable = <<>>, !.offset = o]
           kept(o, p) == [stable(o) EXCEPT !.persisted = p]
           mine(o, p, x) == [kept(o, p) EXCEPT !.match[i] = x]
<1>1. /\ same(r)
      /\ \A o : same(stable(o))
      /\ \A o, p : same(kept(o, p))
      /\ \A o, p, x : same(mine(o, p, x))
  BY DEF RawFields
<1>2. \/ Advanced(i, r, c) = r
      \/ \E o : Advanced(i, r, c) = stable(o)
      \/ \E o, p : Advanced(i, r, c) = kept(o, p)
      \/ \E o, p, x : Advanced(i, r, c) = MaybeCommit(i, mine(o, p, x), c)
  BY DEF Advanced
<1> HIDE DEF stable, kept, mine
<1> QED BY <1>1, <1>2, MaybeCommitFields DEF SameVoting

\* handle_ready saves what the tick has made of the node, and sends.
LEMMA ReadyGoesTo ==
  ASSUME Base, NEW i \in Node, NEW r, Moves(i, r), handle_ready(i, r)
  PROVE  GoesTo(i, r) /\ elected' = elected
<1> DEFINE c == cache[i] \o r.unstable
           q1 == NextEntries(i, r, cache[i])
           r1 == Advanced(i, HandOut(r, q1), c)
           q2 == NextEntries(i, r1, c)
           h2 == HandOut(r1, q2)
           r2 == [h2 EXCEPT !.msgs = {}, !.unfinished = FALSE,
                            !.reported = (r.role = "leader"), !.prevHs = HardStateOf(r1)]
<1>1. /\ raw' = [raw EXCEPT ![i] = r2]
      /\ hs' = [hs EXCEPT ![i] = SavedHardState(i, r)]
      /\ elected' = elected
  BY DEF handle_ready
<1>2. \A m \in transit' : \/ m \in transit \cup r.msgs
                          \/ \E j \in Node : m = LeaderMessage(i, r2, c, j)
  BY DEF handle_ready, Live
<1>3. DOMAIN r = RawFields /\ r.prevHs = raw[i].prevHs /\ r.term \in Nat
  BY DEF Moves
<1>4. DOMAIN raw = Node /\ DOMAIN hs = Node
  BY DEF Base, Shape
<1> HIDE DEF c, q1, q2
<1>5. /\ DOMAIN r1 = RawFields
      /\ r1.term = r.term /\ r1.vote = r.vote /\ r1.votes = r.votes /\ r1.leader = r.leader
  BY <1>3, HandOutFields, AdvancedFields DEF SameVoting
<1> HIDE DEF r1
<1>6. /\ DOMAIN h2 = RawFields
      /\ h2.term = r.term /\ h2.vote = r.vote /\ h2.votes = r.votes /\ h2.leader = r.leader
  BY <1>5, HandOutFields DEF SameVoting
<1> HIDE DEF h2
<1>7. /\ DOMAIN r2 = RawFields
      /\ r2.term = r.term /\ r2.vote = r.vote /\ r2.votes = r.votes /\ r2.leader = r.leader
      /\ r2.msgs = {}
      /\ r2.prevHs.term = r.term /\ r2.prevHs.vote = r.vote
  BY <1>5, <1>6 DEF RawFields, HardStateOf
<1> HIDE DEF r2
<1>8. SavedHardState(i, r).term = r.term /\ SavedHardState(i, r).vote = r.vote
  <2>1. CASE HardStateOf(r) = r.prevHs
    <3>1. SavedHardState(i, r) = hs[i]
      BY <2>1 DEF SavedHardState
    <3>2. hs[i].term = r.prevHs.term /\ hs[i].vote = r.prevHs.vote
      BY <1>3 DEF Base, HardStateInv
    <3>3. r.prevHs.term = r.term /\ r.prevHs.vote = r.vote
      BY <2>1 DEF HardStateOf
    <3> QED BY <3>1, <3>2, <3>3
  <2>2. CASE HardStateOf(r) # r.prevHs
    BY <2>2 DEF SavedHardState, HardStateOf
  <2> QED BY <2>1, <2>2
<1>9. ASSUME NEW j \in Node
      PROVE  /\ MessageShape(LeaderMessage(i, r2, c, j))
             /\ LeaderMessage(i, r2, c, j).type \in {"Append", "Heartbeat"}
  BY <1>3, <1>7 DEF LeaderMessage, MessageShape
<1>10. SavedAndSent(i, r)
  BY <1>1, <1>2, <1>4, <1>7, <1>8, <1>9 DEF SavedAndSent
<1> QED BY <1>1, <1>4, <1>7, <1>10 DEF GoesTo

\* A handle_ready that fails saves and sends nothing.
LEMMA FailsGoesTo ==
  ASSUME Base, NEW i \in Node, NEW r, NEW n, Moves(i, r), handle_ready_fails(i, r, n)
  PROVE  GoesTo(i, r) /\ elected' = elected
<1> DEFINE q == NextEntries(i, r, cache[i])
           h == HandOut(r, q)
           s == [h EXCEPT !.msgs = {}, !.unfinished = (@ \/ r.unstable # <<>>)]
<1>1. /\ raw' = [raw EXCEPT ![i] = s]
      /\ hs' = [hs EXCEPT ![i] = hs[i]]
      /\ transit' \subseteq transit
      /\ elected' = elected
  BY DEF handle_ready_fails, DropReady, Live
<1>2. DOMAIN raw = Node /\ DOMAIN hs = Node
  BY DEF Base, Shape
<1>3. SameVoting(h, r)
  BY HandOutFields DEF Moves
<1> HIDE DEF h
<1>4. /\ DOMAIN s = RawFields
      /\ s.term = r.term /\ s.vote = r.vote /\ s.votes = r.votes /\ s.leader = r.leader
      /\ s.msgs = {} /\ s.prevHs = r.prevHs
  BY <1>3 DEF SameVoting, RawFields
<1> HIDE DEF s
<1> QED BY <1>1, <1>2, <1>4 DEF GoesTo, Unsaved

\* A tick makes a legal move: none, a campaign, or a step down.
LEMMA CampaignMoves ==
  ASSUME Base, NEW i \in Node, NEW x,
         \A m \in x : /\ MessageShape(m)
                      /\ m.type = "Vote" /\ m.from = i /\ m.term = raw[i].term + 1
  PROVE  Moves(i, [BecomeFollower(raw[i], raw[i].term + 1, NoNode) EXCEPT
                     !.role = "candidate", !.vote = i, !.votes = {i}, !.msgs = @ \cup x])
<1> DEFINE f == BecomeFollower(raw[i], raw[i].term + 1, NoNode)
           s == [f EXCEPT !.role = "candidate", !.vote = i, !.votes = {i}, !.msgs = @ \cup x]
<1>1. DOMAIN raw[i] = RawFields /\ raw[i].term \in Nat
  BY DEF Base, Shape
<1>2. /\ DOMAIN f = RawFields
      /\ f.term = raw[i].term + 1 /\ f.leader = NoNode
      /\ f.msgs = raw[i].msgs /\ f.prevHs = raw[i].prevHs
  BY <1>1, BecomeFollowerFields
<1> HIDE DEF f
<1>3. /\ DOMAIN s = RawFields
      /\ s.term = raw[i].term + 1 /\ s.leader = NoNode /\ s.vote = i /\ s.votes = {i}
      /\ s.msgs = raw[i].msgs \cup x /\ s.prevHs = raw[i].prevHs
  BY <1>2 DEF RawFields
<1> HIDE DEF s
<1>4. Moves(i, s)
  BY <1>1, <1>3 DEF Moves
<1> QED BY <1>4 DEF s, f

LEMMA StepDownMoves ==
  ASSUME Base, NEW i \in Node
  PROVE  Moves(i, BecomeFollower(raw[i], raw[i].term, NoNode))
<1>1. DOMAIN raw[i] = RawFields /\ raw[i].term \in Nat
  BY DEF Base, Shape
<1> DEFINE s == BecomeFollower(raw[i], raw[i].term, NoNode)
<1>2. /\ DOMAIN s = RawFields
      /\ s.term = raw[i].term /\ s.vote = raw[i].vote /\ s.leader = NoNode
      /\ s.votes = {} /\ s.msgs = raw[i].msgs /\ s.prevHs = raw[i].prevHs
  BY <1>1, BecomeFollowerFields
<1> HIDE DEF s
<1>3. Moves(i, s)
  BY <1>1, <1>2 DEF Moves
<1> QED BY <1>3 DEF s

\* Each tick is a legal move followed by handle_ready, or ends the event loop.
LEMMA TickMoves ==
  ASSUME Base, NEW i \in Node,
         TickQuiet(i) \/ TickFails(i) \/ TickCampaign(i) \/ TickCheckQuorum(i)
  PROVE  \/ \E r : Moves(i, r) /\ GoesTo(i, r) /\ elected' = elected
         \/ UNCHANGED <<raw, hs, transit, elected>>
<1>1. ASSUME NEW r, Moves(i, r), handle_ready(i, r) \/ \E n : handle_ready_fails(i, r, n)
      PROVE  \E s : Moves(i, s) /\ GoesTo(i, s) /\ elected' = elected
  BY <1>1, ReadyGoesTo, FailsGoesTo
<1>2. Moves(i, raw[i])
  BY StayMoves DEF Base, Shape, SameVoting
<1>3. CASE TickQuiet(i) \/ TickFails(i)
  <2>1. CASE handle_ready_dies(i, raw[i])
    BY <2>1 DEF handle_ready_dies, storeVars, histVars
  <2> QED BY <1>1, <1>2, <1>3, <2>1 DEF TickQuiet, TickFails
<1>4. CASE TickCampaign(i)
  <2> DEFINE last == LastIndex(raw[i])
             ask(j) == [type |-> "Vote", from |-> i, to |-> j, term |-> raw[i].term + 1,
                        index |-> last, logTerm |-> TermAt(i, raw[i], last)]
             x == {ask(j) : j \in Node \ {i}}
             candidate == [BecomeFollower(raw[i], raw[i].term + 1, NoNode) EXCEPT
                             !.role = "candidate", !.vote = i, !.votes = {i}, !.msgs = @ \cup x]
  <2>1. handle_ready(i, candidate) \/ \E n : handle_ready_fails(i, candidate, n)
    BY <1>4 DEF TickCampaign
  <2>2. \A m \in x : /\ MessageShape(m)
                     /\ m.type = "Vote" /\ m.from = i /\ m.term = raw[i].term + 1
    BY DEF MessageShape, Base, Shape
  <2> HIDE DEF x
  <2>3. Moves(i, candidate)
    BY <2>2, CampaignMoves
  <2> HIDE DEF candidate
  <2> QED BY <1>1, <2>1, <2>3
<1>5. CASE TickCheckQuorum(i)
  <2> DEFINE s == BecomeFollower(raw[i], raw[i].term, NoNode)
  <2>1. handle_ready(i, s) \/ \E n : handle_ready_fails(i, s, n)
    BY <1>5 DEF TickCheckQuorum
  <2>2. Moves(i, s)
    BY StepDownMoves
  <2> HIDE DEF s
  <2> QED BY <1>1, <2>1, <2>2
<1> QED BY <1>3, <1>4, <1>5

LEMMA ProposeKeeps ==
  ASSUME ClusterAssumption, Inv, NEW c \in Client, propose(c)
  PROVE  Inv' /\ hs' = hs
<1> DEFINE i == request[c].at
           r == raw[i]
           d == [by |-> c, ctx |-> proposal_index[i] + 1]
<1>0. Base
  BY DEF Inv
<1>1. hs' = hs /\ transit' = transit /\ elected' = elected
  BY DEF propose, storeVars, histVars
<1>2. raw' = raw \/ (Accepts(r) /\ raw' = [raw EXCEPT ![i] = Propose(i, r, d)])
  BY DEF propose
<1>3. DOMAIN raw = Node /\ DOMAIN hs = Node
  BY <1>0 DEF Base, Shape
<1>4. CASE raw' = raw \/ i \notin Node
  <2>1. DOMAIN raw' = Node /\ \A j \in Node : raw'[j] = raw[j]
    BY <1>2, <1>3, <1>4
  <2> QED BY <1>1, <2>1, StayKeepsInv
<1>5. CASE i \in Node /\ Accepts(r) /\ raw' = [raw EXCEPT ![i] = Propose(i, r, d)]
  <2> DEFINE s == Propose(i, r, d)
  <2>1. SameVoting(s, raw[i])
    BY <1>0, <1>5, ProposeFields DEF Base, Shape
  <2>2. Moves(i, s)
    BY <1>0, <1>5, <2>1, StayMoves
  <2> HIDE DEF s
  <2>3. raw' = [raw EXCEPT ![i] = s]
    BY <1>5 DEF s
  <2>4. GoesTo(i, s)
    BY <1>1, <1>3, <1>5, <2>1, <2>3 DEF GoesTo, Unsaved, SameVoting
  <2> QED BY <1>1, <1>5, <2>2, <2>4, MoveKeepsInv
<1> QED BY <1>2, <1>4, <1>5

\* Every step keeps the invariant, and the hard states change by moves only.
LEMMA NextKeeps ==
  ASSUME ClusterAssumption, Inv, [Next]_vars
  PROVE  /\ Inv'
         /\ hs' = hs \/ \E i \in Node : \E r : Moves(i, r) /\ GoesTo(i, r)
<1>0. Base
  BY DEF Inv
<1>1. CASE UNCHANGED <<raw, hs, transit, elected>>
  <2>1. DOMAIN raw = Node
    BY <1>0 DEF Base, Shape
  <2> QED BY <1>1, <2>1, StayKeepsInv
<1>2. CASE UNCHANGED vars
  BY <1>1, <1>2 DEF vars, storeVars, histVars
<1>3. ASSUME NEW i \in Node, NEW n, restart(i, n)
      PROVE  Inv' /\ hs' = hs
  <2>1. elected' = elected /\ hs' = hs
    BY <1>3 DEF restart
  <2>2. Base' /\ \A e \in elected : Backed(e) => Backed(e)'
    BY <1>0, <1>3, RestartKeeps
  <2> QED BY <2>1, <2>2 DEF Inv, ElectedInv, ElectionSafety
<1>4. ASSUME NEW i \in Node,
             TickQuiet(i) \/ TickFails(i) \/ TickCampaign(i) \/ TickCheckQuorum(i)
      PROVE  Inv' /\ (hs' = hs \/ \E r : Moves(i, r) /\ GoesTo(i, r))
  BY <1>0, <1>1, <1>4, TickMoves, MoveKeepsInv
<1>5. ASSUME NEW m \in transit, step(m)
      PROVE  Inv' /\ hs' = hs
  <2>1. Inv'
    BY <1>5, HandleVoteKeeps, HandleVoteRespKeeps, HandleAppendKeeps, HandleAppendRespKeeps,
       HandleHeartbeatKeeps, HandleProposeKeeps DEF step
  <2>2. hs' = hs
    BY <1>5 DEF step, HandleVote, HandleVoteResp, HandleAppend, HandleAppendResp,
       HandleHeartbeat, HandlePropose, Step, storeVars
  <2> QED BY <2>1, <2>2
<1>6. ASSUME NEW c \in Client, NEW i \in Node, CheckLeader(c, i)
      PROVE  Inv' /\ hs' = hs
  BY <1>1, <1>6 DEF CheckLeader, storeVars, histVars
<1>7. ASSUME NEW c \in Client, Timeout(c) \/ Disconnect(c)
      PROVE  Inv' /\ hs' = hs
  BY <1>1, <1>7 DEF Timeout, Disconnect, storeVars, histVars
<1>8. CASE Next
  BY <1>3, <1>4, <1>5, <1>6, <1>7, <1>8, ProposeKeeps DEF Next
<1> QED BY <1>2, <1>8

-----------------------------------------------------------------------------

\* The inductive invariant: ballots agree, and what left a node is on its disk.
THEOREM InvHolds == Spec => []Inv
<1>1. Init => Inv
  BY ClusterAssumption, InitBase
<1>2. Inv /\ [Next]_vars => Inv'
  BY ClusterAssumption, NextKeeps
<1> QED BY <1>1, <1>2, PTL DEF Spec

\* A term has one leader, whatever crashes, failing puts, lost and reordered
\* messages there are, because handle_ready saves the vote before it sends the
\* message that grants it, and RaftNode::new loads it.
THEOREM OneLeaderPerTerm == Spec => []ElectionSafety
<1>1. Inv => ElectionSafety
  BY DEF Inv
<1> QED BY <1>1, InvHolds, PTL

\* The term on disk does not go back and the vote on disk is not replaced
\* within its term (save_hard_state).
THEOREM VotesAreKept == Spec => VoteKept
<1>1. ASSUME Inv, [Next]_vars
      PROVE  [\A i \in Node :
                /\ hs'[i].term >= hs[i].term
                /\ hs'[i].term = hs[i].term /\ hs[i].vote # NoNode => hs'[i].vote = hs[i].vote]_vars
  <2>1. Base /\ Shape
    BY <1>1 DEF Inv, Base
  <2>2. CASE hs' = hs
    BY <2>1, <2>2 DEF Shape
  <2>3. ASSUME NEW i \in Node, NEW r, Moves(i, r), GoesTo(i, r), NEW j \in Node
        PROVE  /\ hs'[j].term >= hs[j].term
               /\ hs'[j].term = hs[j].term /\ hs[j].vote # NoNode => hs'[j].vote = hs[j].vote
    <3>1. hs[j].term \in Nat /\ raw[j].term \in Nat /\ raw[j].term >= hs[j].term
      BY <2>1 DEF Base, Shape, HardStateInv
    <3>2. hs'[j].term >= hs[j].term
      <4>1. j # i \/ Unsaved(i, r) => hs'[j] = hs[j]
        BY <2>3 DEF GoesTo, Unsaved, SavedAndSent
      <4>2. SavedAndSent(i, r) => hs'[i].term = r.term
        BY DEF SavedAndSent
      <4>3. r.term \in Nat /\ r.term >= raw[i].term
        BY <2>3 DEF Moves
      <4> QED BY <2>3, <3>1, <4>1, <4>2, <4>3 DEF GoesTo
    <3>3. hs[j].vote # NoNode => Saved(j, hs[j].term, hs[j].vote)
      BY DEF Saved
    <3>4. ASSUME NEW t \in Nat, NEW c, c # NoNode, Saved(j, t, c)
          PROVE  Saved(j, t, c)'
      BY <2>1, <2>3, <3>4, SavedKept
    <3>5. ASSUME NEW t \in Nat, NEW c, c # NoNode, Saved(j, t, c), hs'[j].term = t
          PROVE  hs'[j].vote = c
      BY <3>4, <3>5 DEF Saved
    <3> QED BY <3>1, <3>2, <3>3, <3>5
  <2> QED BY <1>1, <2>2, <2>3, NextKeeps, ClusterAssumption
<1> QED BY <1>1, InvHolds, PTL DEF Spec, VoteKept

=============================================================================
