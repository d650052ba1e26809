----------------------------- MODULE RaftCluster -----------------------------
(***************************************************************************)
(* Several RaftNodes (src/raft/node.rs), each driven by the event loop of  *)
(* server.rs on its own RaftStorageAdapter, exchange Raft messages over    *)
(* the transport while put_key handlers propose to them.                   *)
(*                                                                         *)
(* RaftNode.tla takes one node apart lock by lock; here the event loop     *)
(* takes one branch per step.  Its tick branch is tick() or handle_ready() *)
(* as a whole (persist, advance, apply, notify, then send), its receiving  *)
(* branch is RaftNode::step, which only changes raft-rs: what a step       *)
(* answers waits in msgs for the next handle_ready.                        *)
(*                                                                         *)
(* raft-rs 0.7 is external.  It reads its log through the queries of       *)
(* RaftStorageQueries, instantiated below, and these answer from a cache   *)
(* that keeps the entries a conflict has replaced.                         *)
(*                                                                         *)
(* transit is the transport's lossy channel: messages arrive in any order, *)
(* or never.                                                               *)
(***************************************************************************)
EXTENDS Integers, Sequences, FiniteSets

LOCAL INSTANCE SequencesExt   \* Last, Range, Max, Min

CONSTANTS
  Node,          \* the voters
  Client,        \* put requests, each issued once, to a node of its choice
  NoNode,        \* no vote, no leader
  NoClient,      \* origin of the empty entry of a new leader
  MaxCampaigns,  \* bound on campaigns, and so on terms
  MaxIndex,      \* bound on log indexes
  MaxFaults,     \* bound on crashes, failing puts, lost quorums, timeouts and disconnects together
  MaxTransit,    \* bound on messages in transit when a leader sends another
  NoEntry,
  NoLimit

Index == 1..MaxIndex
Payload == [by : Client \cup {NoClient}, ctx : Nat]
Empty == [by |-> NoClient, ctx |-> 0]
Entry == [index : Index, term : 1..MaxCampaigns, data : Payload]

ASSUME ClusterAssumption ==
  /\ IsFiniteSet(Node) /\ NoNode \notin Node
  /\ IsFiniteSet(Client) /\ NoClient \notin Client
  /\ {MaxCampaigns, MaxIndex, MaxFaults, MaxTransit} \subseteq Nat
  /\ NoEntry \notin Entry

VARIABLES
  dead,            \* nodes whose event loop ended in a panic
  disk, hs,        \* RocksDB: the log keys and the hard state
  cache,           \* RaftStorageAdapter: entries
  raw,             \* RaftNode: raw_node
  proposal_index,  \* RaftNode: the last proposal id given out
  pending,         \* RaftNode: pending_proposals
  transit,         \* messages sent and not yet received
  request,         \* put_key: where each request stands, at which node, its id
  campaigns, faults,
  (* histories *)
  elected,         \* who became leader in which term
  chosen,          \* entries some leader has committed
  applied,         \* the entries handed to the state machine since the start
  lost,            \* nodes that dropped a Ready with committed entries
  mixed            \* some node's log has been mixed from two

storeVars == <<disk, hs, cache>>
propVars == <<proposal_index, pending>>
envVars == <<campaigns, faults>>
histVars == <<elected, chosen, applied, lost>>
vars == <<dead, storeVars, raw, propVars, transit, request, envVars, histVars, mixed>>

\* What the adapter answers with d on disk and c in its cache.
Store(d, c) == INSTANCE RaftStorageQueries WITH
  dbLog <- d, entries <- c, Size <- [p \in Payload |-> 1]

Majority(S) == 2 * Cardinality(S) > Cardinality(Node)
AtMost(a, b) == IF a < b THEN a ELSE b

-----------------------------------------------------------------------------
(* raft-rs: the log of node i with state r, and changes of state *)

NoMatch == [j \in Node |-> 0]

\* A follower with hard state h and n entries in its store.
Follower(h, n) ==
  [role |-> "follower", term |-> h.term, vote |-> h.vote, leader |-> NoNode,
   votes |-> {}, match |-> NoMatch,
   unstable |-> <<>>, offset |-> n + 1, persisted |-> n,
   committed |-> h.commit, handed |-> 0,
   msgs |-> {}, prevHs |-> h, reported |-> FALSE, unfinished |-> FALSE]

NoHardState == [term |-> 0, vote |-> NoNode, commit |-> 0]

\* RawNode::new on a store with hard state h and last index n.
\* Faulty variants: the hard state, or the log, is not loaded.
RawNode_no_hard_state(h, n) == Follower(NoHardState, n)
RawNode_no_log(h, n) == Follower(h, 0)
RawNode(h, n) == Follower(h, n)

HardStateOf(r) == [term |-> r.term, vote |-> r.vote, commit |-> r.committed]

LastIndex(r) == r.offset + Len(r.unstable) - 1

\* RaftLog::term: 0 beyond the log, unstable entries first, then the store
\* with c in its cache.
TermIn(i, r, c, idx) ==
  IF idx > LastIndex(r) THEN 0
  ELSE IF idx >= r.offset THEN r.unstable[idx - r.offset + 1].term
  ELSE Store(disk[i], c)!term(idx)
TermAt(i, r, idx) == TermIn(i, r, cache[i], idx)

BecomeFollower(r, t, l) ==
  [r EXCEPT !.role = "follower", !.vote = IF t = r.term THEN @ ELSE NoNode,
            !.term = t, !.leader = l, !.votes = {}, !.match = NoMatch]

\* A leader's or a follower's propose; a node that knows no leader refuses.
Accepts(r) == r.role = "leader" \/ r.leader # NoNode
Propose(i, r, d) ==
  IF r.role = "leader"
    THEN [r EXCEPT !.unstable = Append(@, [index |-> LastIndex(r) + 1, term |-> r.term, data |-> d])]
    ELSE [r EXCEPT !.msgs = @ \cup {[type |-> "Propose", from |-> i, to |-> r.leader, data |-> d]}]

\* The greatest index a majority has, if it is of the leader's own term.
MaybeCommit(i, r, c) ==
  LET held == {n \in {r.match[j] : j \in Node} :
                 n > r.committed /\ Majority({j \in Node : r.match[j] >= n})}
  IN  IF held # {} /\ TermIn(i, r, c, Max(held)) = r.term THEN [r EXCEPT !.committed = Max(held)] ELSE r

\* A message that raft-rs would ignore leaves the network at once: one of an
\* older term, a request to a node that has voted for another, an answer to
\* a node that no longer waits for it, a heartbeat that brings nothing new.
Matters(m, r) ==
  /\ m.type # "Propose" => m.term >= r.term
  /\ m.type = "Vote" => m.term > r.term \/ r.vote = NoNode \/ r.vote = m.from
  /\ m.type = "VoteResp" => r.role = "candidate" /\ m.term = r.term /\ m.from \notin r.votes
  /\ m.type = "AppendResp" => r.role = "leader" /\ m.term = r.term /\ m.index > r.match[m.from]
  /\ m.type = "Heartbeat" => m.term > r.term \/ r.leader = NoNode \/ m.commit > r.committed
Live(ms) == {m \in ms : Matters(m, raw'[m.to])}

\* raft-rs asserts that a node whose leadership it has not reported yet left
\* no Ready with entries unfinished.
ReadyPanics(r) == r.unfinished /\ ~r.reported /\ r.role = "leader"

-----------------------------------------------------------------------------
(* Starting and stopping *)

\* A request that is at no node, with its answer so far: "none", "ok" or "error".
Ended(answer) == [pc |-> answer, at |-> NoNode, id |-> 0]

Init ==
  /\ dead = {}
  /\ disk = [i \in Node |-> [n \in Index |-> NoEntry]]
  /\ hs = [i \in Node |-> NoHardState]
  /\ cache = [i \in Node |-> <<>>]
  /\ raw = [i \in Node |-> RawNode(NoHardState, 0)]
  /\ proposal_index = [i \in Node |-> 0]
  /\ pending = [i \in Node |-> {}]
  /\ transit = {}
  /\ request = [c \in Client |-> Ended("none")]
  /\ campaigns = 0 /\ faults = 0
  /\ elected = {} /\ chosen = {} /\ applied = [i \in Node |-> <<>>] /\ lost = {}
  /\ mixed = FALSE

Fault ==
  /\ faults < MaxFaults
  /\ faults' = faults + 1

\* The disk d after the puts of b.
Put(d, b) ==
  [n \in Index |-> LET ks == {k \in DOMAIN b : b[k].index = n}
                   IN  IF ks = {} THEN d[n] ELSE b[Max(ks)]]

\* The process stops, possibly within append_entries after the first n puts,
\* and starts again: RaftNode::new loads the log and the hard state; requests
\* in progress lose their connection.  A node that is down does nothing, like
\* a slow one, so there is no state for it.
restart(i, n) ==
  LET d == Put(disk[i], SubSeq(raw[i].unstable, 1, n))
      loaded == Store(d, <<>>)!load_entries
  IN  /\ Fault
      /\ i \in dead \/ ReadyPanics(raw[i]) => n = 0
      /\ disk' = [disk EXCEPT ![i] = d]
      /\ cache' = [cache EXCEPT ![i] = loaded]
      /\ raw' = [raw EXCEPT ![i] = RawNode(hs[i], Store(d, loaded)!last_index)]
      /\ dead' = dead \ {i}
      /\ proposal_index' = [proposal_index EXCEPT ![i] = 0]
      /\ pending' = [pending EXCEPT ![i] = {}]
      /\ request' = [c \in Client |-> IF request[c].at = i THEN Ended("error") ELSE request[c]]
      /\ applied' = [applied EXCEPT ![i] = <<>>]
      /\ lost' = lost \ {i}
      /\ transit' = Live(transit)
      /\ UNCHANGED <<hs, campaigns, elected, chosen>>

-----------------------------------------------------------------------------
(* The receiving branch of the event loop: RaftNode::step *)

\* Node i receives m and raft-rs goes to state r.
Step(i, m, r) ==
  /\ i \notin dead /\ Matters(m, raw[i])
  /\ raw' = [raw EXCEPT ![i] = r]
  /\ transit' = Live(transit \ {m})
  /\ UNCHANGED <<storeVars, propVars, request, envVars, applied, lost>>

\* A message of a newer term makes the receiver a follower of that term first.
Caught(m) ==
  LET r == raw[m.to]
      leader == IF m.type \in {"Append", "Heartbeat"} THEN m.from ELSE NoNode
  IN  IF m.term > r.term \/ (leader # NoNode /\ r.role # "leader")
        THEN BecomeFollower(r, m.term, leader) ELSE r

\* MsgRequestVote.  A refusal changes nothing anywhere and is not sent.
HandleVote(m) ==
  LET r == Caught(m)
      last == LastIndex(r)
      lastTerm == TermAt(m.to, r, last)
      grant == /\ r.vote = m.from \/ (r.vote = NoNode /\ r.leader = NoNode)
               /\ m.logTerm > lastTerm \/ (m.logTerm = lastTerm /\ m.index >= last)
      answer == [type |-> "VoteResp", from |-> m.to, to |-> m.from, term |-> r.term]
  IN  /\ m.type = "Vote"
      /\ Step(m.to, m, IF grant THEN [r EXCEPT !.vote = m.from, !.msgs = @ \cup {answer}] ELSE r)
      /\ UNCHANGED <<dead, elected, chosen>>

\* MsgRequestVoteResponse.  raft-rs asserts that a node that wins has its
\* whole log persisted; the panic ends the event loop.
HandleVoteResp(m) ==
  LET i == m.to
      r == [raw[i] EXCEPT !.votes = @ \cup {m.from}]
      wins == Majority(r.votes)
      panics == wins /\ LastIndex(r) # r.persisted
      leader == [r EXCEPT !.role = "leader", !.leader = i, !.votes = {},
                          !.match = [NoMatch EXCEPT ![i] = r.persisted]]
  IN  /\ m.type = "VoteResp"
      /\ wins => LastIndex(r) < MaxIndex
      /\ Step(i, m, IF wins /\ ~panics THEN Propose(i, leader, Empty) ELSE r)
      /\ dead' = IF panics THEN dead \cup {i} ELSE dead
      /\ elected' = IF wins /\ ~panics THEN elected \cup {<<r.term, i>>} ELSE elected
      /\ UNCHANGED chosen

\* MsgAppend: the entries from the first one that does not match replace the
\* log.  A conflict with a committed entry and a commit index beyond the log
\* are panics.
HandleAppend(m) ==
  LET i == m.to
      r == Caught(m)
      answer(n) == [type |-> "AppendResp", from |-> i, to |-> m.from, term |-> r.term, index |-> n]
      new_at == {k \in DOMAIN m.entries : TermAt(i, r, m.entries[k].index) # m.entries[k].term}
      first == m.entries[Min(new_at)].index
      fresh == SubSeq(m.entries, Min(new_at), Len(m.entries))
      kept == IF first <= r.offset THEN <<>> ELSE SubSeq(r.unstable, 1, first - r.offset)
      grown == IF new_at = {} THEN r
               ELSE [r EXCEPT !.unstable = kept \o fresh, !.offset = AtMost(@, first),
                              !.persisted = AtMost(@, first - 1)]
      lastNew == m.index + Len(m.entries)
      toCommit == AtMost(m.commit, lastNew)
      next == [grown EXCEPT !.committed = IF toCommit > @ THEN toCommit ELSE @,
                            !.msgs = @ \cup {answer(lastNew)}]
      panics == (new_at # {} /\ first <= r.committed) \/ toCommit > LastIndex(grown)
  IN  /\ m.type = "Append"
      /\ \/ /\ m.index < r.committed
            /\ Step(i, m, [r EXCEPT !.msgs = @ \cup {answer(r.committed)}])
            /\ UNCHANGED dead
         \/ /\ m.index >= r.committed
            /\ TermAt(i, r, m.index) # m.logTerm
            /\ Step(i, m, r)
            /\ UNCHANGED dead
         \/ /\ m.index >= r.committed
            /\ TermAt(i, r, m.index) = m.logTerm
            /\ Step(i, m, IF panics THEN r ELSE next)
            /\ dead' = IF panics THEN dead \cup {i} ELSE dead
      /\ UNCHANGED <<elected, chosen>>

\* MsgAppendResponse: the leader counts the follower's copy.
HandleAppendResp(m) ==
  LET i == m.to
      r == [raw[i] EXCEPT !.match[m.from] = IF m.index > @ THEN m.index ELSE @]
      next == MaybeCommit(i, r, cache[i])
  IN  /\ m.type = "AppendResp"
      /\ Step(i, m, next)
      /\ chosen' = chosen \cup
           {Put(disk[i], r.unstable)[n] : n \in (r.committed + 1)..next.committed}
      /\ UNCHANGED <<dead, elected>>

\* MsgHeartbeat: only the commit index.
HandleHeartbeat(m) ==
  LET r == Caught(m)
      panics == m.commit > LastIndex(r)
  IN  /\ m.type = "Heartbeat"
      /\ Step(m.to, m, IF panics \/ m.commit <= r.committed THEN r
                       ELSE [r EXCEPT !.committed = m.commit])
      /\ dead' = IF panics THEN dead \cup {m.to} ELSE dead
      /\ UNCHANGED <<elected, chosen>>

\* MsgPropose, forwarded by a follower: appended, forwarded again or dropped.
HandlePropose(m) ==
  /\ m.type = "Propose"
  /\ raw[m.to].role = "leader" => LastIndex(raw[m.to]) < MaxIndex
  /\ Step(m.to, m, IF Accepts(raw[m.to]) THEN Propose(m.to, raw[m.to], m.data) ELSE raw[m.to])
  /\ UNCHANGED <<dead, elected, chosen>>

step(m) ==
  \/ HandleVote(m) \/ HandleVoteResp(m) \/ HandleAppend(m) \/ HandleAppendResp(m)
  \/ HandleHeartbeat(m) \/ HandlePropose(m)

-----------------------------------------------------------------------------
(* The tick branch: handle_ready, then send_messages *)

\* RaftLog::next_entries_since: what is committed, persisted and not handed
\* out yet, as the adapter with cache c returns it.
NextEntries(i, r, c) ==
  LET high == AtMost(r.committed, r.persisted)
  IN  IF r.handed < high THEN Store(disk[i], c)!read_entries(r.handed + 1, high + 1, NoLimit)
      ELSE <<>>
HandOut(r, q) == IF q = <<>> THEN r ELSE [r EXCEPT !.handed = Last(q).index]

\* advance(): the entries of the Ready are stable and, if the adapter answers
\* with the term of the last one, persisted; a leader counts its own copy.
Advanced(i, r, c) ==
  LET last == Last(r.unstable)
      stable == [r EXCEPT !.unstable = <<>>, !.offset = last.index + 1]
      counts == last.index > r.persisted /\ Store(disk[i], c)!term(last.index) = last.term
      kept == IF counts THEN [stable EXCEPT !.persisted = last.index] ELSE stable
      mine == [kept EXCEPT !.match[i] = last.index]
  IN  IF r.unstable = <<>> THEN r
      ELSE IF counts /\ r.role = "leader"
        THEN MaybeCommit(i, mine, c)
        ELSE kept

\* What a leader sends to a peer that is not known to have its whole log: the
\* entries after the last index where the logs match.  raft-rs finds that
\* index by probing downwards; a probe the peer rejects changes nothing else
\* and is left out.  To the other peers it sends heartbeats.
LeaderMessage(i, r, c, j) ==
  LET term(n) == Store(disk[i], c)!term(n)
      probes == {n \in r.match[j]..LastIndex(r) : TermAt(j, raw[j], n) = term(n)}
      prev == Max(probes \cup {r.match[j]})
  IN  IF r.match[j] < LastIndex(r)
        THEN [type |-> "Append", from |-> i, to |-> j, term |-> r.term,
              index |-> prev, logTerm |-> term(prev), commit |-> r.committed,
              entries |-> IF prev = LastIndex(r) THEN <<>>
                ELSE Store(disk[i], c)!read_entries(prev + 1, LastIndex(r) + 1, NoLimit)]
        ELSE [type |-> "Heartbeat", from |-> i, to |-> j, term |-> r.term,
              commit |-> AtMost(r.committed, r.match[j])]

HasReady(r) ==
  \/ r.unstable # <<>> \/ HardStateOf(r) # r.prevHs \/ r.msgs # {}
  \/ r.reported # (r.role = "leader")
  \/ r.handed < AtMost(r.committed, r.persisted)

\* The waiters at node i of the proposals in q, by the id in the context.
\* Faulty variant: by the index of the entry.
Waiters(i, q) ==
  LET ids == {e.data.ctx : e \in {f \in Range(q) : f.data.by # NoClient}}
  IN  {p \in pending[i] : p.id \in ids}
Answered_by_index(i, q) ==
  {p \in pending[i] : p.id \in {e.index : e \in {f \in Range(q) : f.data.by # NoClient}}}
Answered(i, q) == Waiters(i, q)

\* The hard state on disk after save_hard_state, which runs if it has changed.
\* Faulty variant: only together with entries.
SavedHardState_with_entries(i, r) == IF r.unstable = <<>> THEN hs[i] ELSE HardStateOf(r)
SavedHardState(i, r) == IF HardStateOf(r) = r.prevHs THEN hs[i] ELSE HardStateOf(r)

\* Ready::committed_entries, then those of the LightReady.
\* Faulty variant: the LightReady is ignored.
ToApply_no_light(ready, light) == ready
ToApply(ready, light) == ready \o light

\* handle_ready, with raft-rs in state r after the tick.
handle_ready(i, r) ==
  LET c == cache[i] \o r.unstable
      q1 == NextEntries(i, r, cache[i])
      r1 == Advanced(i, HandOut(r, q1), c)
      q2 == NextEntries(i, r1, c)
      r2 == [HandOut(r1, q2) EXCEPT !.msgs = {}, !.unfinished = FALSE,
               !.reported = (r.role = "leader"), !.prevHs = HardStateOf(r1)]
      q == ToApply(q1, q2)
      answered == Answered(i, q)
  IN  /\ i \notin dead /\ ~ReadyPanics(r)
      /\ ~HasReady(r) => r.role = "leader"
      /\ disk' = [disk EXCEPT ![i] = Put(@, r.unstable)]
      /\ cache' = [cache EXCEPT ![i] = c]
      /\ hs' = [hs EXCEPT ![i] = SavedHardState(i, r)]
      /\ raw' = [raw EXCEPT ![i] = r2]
      /\ applied' = [applied EXCEPT ![i] = @ \o q]
      /\ pending' = [pending EXCEPT ![i] = @ \ answered]
      /\ request' = [x \in Client |->
           IF request[x].pc = "wait" /\ \E p \in answered : p.client = x
             THEN Ended("ok") ELSE request[x]]
      /\ chosen' = IF r.role # "leader" THEN chosen
                   ELSE chosen \cup {disk'[i][n] : n \in (r.committed + 1)..r2.committed}
      /\ \/ HasReady(r) /\ transit' = Live(transit \cup r.msgs)
         \/ /\ r.role = "leader" /\ Cardinality(transit) < MaxTransit
            /\ \E j \in Node \ {i} :
                 transit' = Live(transit \cup r.msgs \cup {LeaderMessage(i, r2, c, j)})
      /\ UNCHANGED <<dead, proposal_index, elected, lost>>

\* A put fails after the first n: handle_ready returns the error and drops
\* the Ready with its messages and committed entries.  raft-rs offers entries
\* and hard state again, but has counted the committed entries as handed out.
\* h is the hard state then on disk, ms the messages sent nevertheless.
DropReady(i, r, n, h, ms) ==
  LET q == NextEntries(i, r, cache[i])
  IN  /\ i \notin dead /\ ~ReadyPanics(r)
      /\ Fault
      /\ n < Len(r.unstable) \/ (n = Len(r.unstable) /\ HardStateOf(r) # r.prevHs)
      /\ disk' = [disk EXCEPT ![i] = Put(@, SubSeq(r.unstable, 1, n))]
      /\ cache' = [cache EXCEPT ![i] = IF n = Len(r.unstable) THEN @ \o r.unstable ELSE @]
      /\ raw' = [raw EXCEPT ![i] = [HandOut(r, q) EXCEPT !.msgs = {},
                                      !.unfinished = (@ \/ r.unstable # <<>>)]]
      /\ hs' = [hs EXCEPT ![i] = h]
      /\ lost' = IF q = <<>> THEN lost ELSE lost \cup {i}
      /\ transit' = Live(transit \cup ms)
      /\ UNCHANGED <<dead, propVars, request, elected, chosen, applied>>

\* Faulty variants: the hard state is saved before the entries; the messages
\* are sent although the error was returned.
handle_ready_fails_hard_state_first(i, r, n) == DropReady(i, r, n, HardStateOf(r), {})
handle_ready_fails_sends(i, r, n) == DropReady(i, r, n, hs[i], r.msgs)
handle_ready_fails(i, r, n) == DropReady(i, r, n, hs[i], {})

\* The panic in ready() ends the event loop.
handle_ready_dies(i, r) ==
  /\ i \notin dead /\ ReadyPanics(r)
  /\ dead' = dead \cup {i}
  /\ UNCHANGED <<storeVars, raw, propVars, transit, request, histVars>>

\* A tick that only counts, or that makes a leader send heartbeats.
TickQuiet(i) ==
  /\ handle_ready(i, raw[i]) \/ handle_ready_dies(i, raw[i])
  /\ UNCHANGED envVars

\* ... and a put fails.
TickFails(i) ==
  /\ \E n \in 0..Len(raw[i].unstable) : handle_ready_fails(i, raw[i], n)
  /\ UNCHANGED campaigns

\* The election timeout: a campaign for the next term.
TickCampaign(i) ==
  LET r == raw[i]
      last == LastIndex(r)
      ask(j) == [type |-> "Vote", from |-> i, to |-> j, term |-> r.term + 1,
                 index |-> last, logTerm |-> TermAt(i, r, last)]
      candidate == [BecomeFollower(r, r.term + 1, NoNode) EXCEPT
                      !.role = "candidate", !.vote = i, !.votes = {i},
                      !.msgs = @ \cup {ask(j) : j \in Node \ {i}}]
  IN  /\ r.role # "leader"
      /\ campaigns < MaxCampaigns
      /\ campaigns' = campaigns + 1
      /\ \/ handle_ready(i, candidate) /\ UNCHANGED faults
         \/ \E n \in 0..Len(r.unstable) : handle_ready_fails(i, candidate, n)

\* check_quorum: a leader that has not heard from a majority steps down.
TickCheckQuorum(i) ==
  LET r == BecomeFollower(raw[i], raw[i].term, NoNode)
  IN  /\ raw[i].role = "leader"
      /\ Fault
      /\ \/ handle_ready(i, r)
         \/ \E n \in 0..Len(r.unstable) : handle_ready_fails(i, r, n)
      /\ UNCHANGED campaigns

-----------------------------------------------------------------------------
(* put_key *)

\* is_leader; a 503 from a node that is not changes nothing.
CheckLeader(c, i) ==
  /\ request[c].pc = "none"
  /\ raw[i].role = "leader"
  /\ request' = [request EXCEPT ![c] = [pc |-> "leader", at |-> i, id |-> 0]]
  /\ UNCHANGED <<dead, storeVars, raw, propVars, transit, envVars, histVars>>

\* propose: number the proposal, register it, hand it to raft-rs.  When that
\* refuses, the error is returned and the registration stays.
propose(c) ==
  LET i == request[c].at
      n == proposal_index[i] + 1
      r == raw[i]
  IN  /\ request[c].pc = "leader"
      /\ r.role = "leader" => LastIndex(r) < MaxIndex
      /\ proposal_index' = [proposal_index EXCEPT ![i] = n]
      /\ pending' = [pending EXCEPT ![i] = @ \cup {[id |-> n, client |-> c]}]
      /\ IF Accepts(r)
           THEN /\ raw' = [raw EXCEPT ![i] = Propose(i, r, [by |-> c, ctx |-> n])]
                /\ request' = [request EXCEPT ![c].pc = "wait", ![c].id = n]
           ELSE /\ request' = [request EXCEPT ![c] = Ended("error")]
                /\ UNCHANGED raw
      /\ UNCHANGED <<dead, storeVars, transit, envVars, histVars>>

\* 5 seconds without an answer.
Timeout(c) ==
  LET i == request[c].at IN
  /\ request[c].pc = "wait"
  /\ Fault
  /\ pending' = [pending EXCEPT ![i] = {p \in @ : p.id # request[c].id}]
  /\ request' = [request EXCEPT ![c] = Ended("error")]
  /\ UNCHANGED <<dead, storeVars, raw, proposal_index, transit, campaigns, histVars>>

\* The client goes away and axum drops the waiting handler: the registration
\* stays.
Disconnect(c) ==
  /\ request[c].pc = "wait"
  /\ Fault
  /\ request' = [request EXCEPT ![c] = Ended("error")]
  /\ UNCHANGED <<dead, storeVars, raw, propVars, transit, campaigns, histVars>>

-----------------------------------------------------------------------------

\* A node's log is mixed from two: the cache c holds an index twice, or the
\* puts that turned the disk d into e have replaced an entry and left the next
\* one, which belongs to the log they replace (a put fails, or the process
\* stops, within append_entries; nothing removes the rest of the old log).
Repeats(c) == \E p \in DOMAIN c : c[p].index # p
Patches(d, e) ==
  \E n \in Index : /\ d[n] # NoEntry /\ e[n] # d[n]
                   /\ n + 1 \in Index /\ d[n + 1] # NoEntry /\ e[n + 1] = d[n + 1]

Next ==
  /\ \/ \E i \in Node :
          \/ \E n \in 0..Len(raw[i].unstable) : restart(i, n)
          \/ TickQuiet(i) \/ TickFails(i) \/ TickCampaign(i) \/ TickCheckQuorum(i)
          \/ \E c \in Client : CheckLeader(c, i)
     \/ \E m \in transit : step(m)
     \/ \E c \in Client : propose(c) \/ Timeout(c) \/ Disconnect(c)
  /\ mixed' = (mixed \/ \E i \in Node : Repeats(cache'[i]) \/ Patches(disk[i], disk'[i]))

Spec == Init /\ [][Next]_vars

-----------------------------------------------------------------------------
(* Properties *)

\* What is on node i's disk, in its adapter and in its raft-rs fits together:
\* handed out <= committed <= the last index, and what is unstable begins where
\* something stored ends, also for a node that RaftNode::new has built on what
\* it found on disk.
LogOK(i) ==
  LET r == raw[i]
      HardState == [term : 0..MaxCampaigns, vote : Node \cup {NoNode}, commit : 0..MaxIndex]
  IN  /\ disk[i] \in [Index -> Entry \cup {NoEntry}]
      /\ cache[i] \in Seq(Entry) /\ applied[i] \in Seq(Entry) /\ r.unstable \in Seq(Entry)
      /\ {hs[i], HardStateOf(r)} \subseteq HardState
      /\ hs[i] = [r.prevHs EXCEPT !.commit = hs[i].commit] /\ hs[i].commit <= r.prevHs.commit
      /\ r.match \in [Node -> 0..MaxIndex]
      /\ r.handed <= r.committed /\ r.committed <= LastIndex(r)
      /\ r.handed <= r.persisted /\ r.persisted < r.offset
      /\ \A k \in DOMAIN r.unstable : r.unstable[k].index = r.offset + k - 1

\* The types.  Of the logs only until some node's log is mixed: when a cache
\* holds an index twice, raft-rs may ask for one that the adapter does not have.
TypeOK ==
  LET Term == 0..MaxCampaigns
  IN  /\ dead \subseteq Node /\ lost \subseteq Node
      /\ elected \subseteq Term \X Node
      /\ mixed \in BOOLEAN
      /\ \A i \in Node :
           /\ raw[i].role \in {"follower", "candidate", "leader"}
           /\ {raw[i].term, hs[i].term} \subseteq Term
           /\ {raw[i].vote, hs[i].vote} \subseteq Node \cup {NoNode}
           /\ pending[i] \subseteq [id : 1..proposal_index[i], client : Client]
      /\ \A m \in transit : m.from # m.to /\ {m.from, m.to} \subseteq Node
      /\ \A c \in Client :
           /\ request[c].pc \in {"none", "leader", "wait", "ok", "error"}
           /\ request[c].pc \in {"leader", "wait"} <=> request[c].at # NoNode
      /\ campaigns \in 0..MaxCampaigns /\ faults \in 0..MaxFaults
      /\ mixed \/ (chosen \subseteq Entry /\ \A i \in Node : LogOK(i))

\* A term has one leader, through crashes and failing puts: no vote leaves a
\* node before it is on disk (handle_ready), and a restart finds it.
ElectionSafety == \A a, b \in elected : a[1] = b[1] => a = b

\* The vote on disk is not replaced by another one of the same term, and the
\* term on disk does not go back (save_hard_state, load_hard_state).
VoteKept ==
  [][\A i \in Node :
       /\ hs'[i].term >= hs[i].term
       /\ hs'[i].term = hs[i].term /\ hs[i].vote # NoNode => hs'[i].vote = hs[i].vote]_vars

\* A committed entry is on the disks of a majority and stays there.
CommittedOnMajority == \A e \in chosen : Majority({i \in Node : disk[i][e.index] = e})

\* ... until some node's log is mixed.
CommittedOnMajorityUnlessMixed == mixed \/ CommittedOnMajority

\* The leader of the newest term has every committed entry on its disk.
NewestLeaderHasCommitted ==
  mixed \/ \A i \in Node :
    raw[i].role = "leader" /\ (\A t \in elected : t[1] <= raw[i].term) =>
      \A e \in chosen : disk[i][e.index] = e

\* A commit index on disk is covered by the entries on disk, until some node's
\* log is mixed: a leader that sends an index twice counts its receiver as
\* having one entry more than it has.
CommitWithinDisk ==
  mixed \/ \A i \in Node : \A n \in 1..hs[i].commit : disk[i][n] # NoEntry

\* Every node applies the committed entries, each once and in order, as long
\* as no log is mixed and it has dropped no Ready.
AppliedFollowsLog ==
  \A i \in Node \ lost : ~mixed =>
    /\ Len(applied[i]) = raw[i].handed
    /\ \A k \in DOMAIN applied[i] : applied[i][k].index = k /\ applied[i][k] \in chosen

\* Every write that StateMachine::apply receives is committed (the empty
\* entries of new leaders are skipped).
AppliedIsCommitted ==
  \A i \in Node : \A e \in Range(applied[i]) : e.data.by = NoClient \/ e \in chosen

\* A positive answer is for the request's own committed entry.
AckedIsCommitted == \A c \in Client : request[c].pc = "ok" => \E e \in chosen : e.data.by = c

\* ... as long as no log is mixed and no other request has the same id.
Shared(c) ==
  \E d \in Client \ {c} : \E i \in Node :
    \E e \in Range(cache[i]) : e.data = [by |-> d, ctx |-> request[c].id]
AckedOwnEntry ==
  [][\A c \in Client :
       request[c].pc = "wait" /\ request'[c].pc = "ok" =>
         \/ \E e \in chosen' : e.data.by = c
         \/ mixed'
         \/ Shared(c)]_vars

=============================================================================
