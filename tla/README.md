# TLA+ models of locci-kv

locci-kv is a key-value store on RocksDB with an optional Raft layer (raft-rs
0.7) and an HTTP API. This directory models its own logic: what it keeps on
disk and in memory, how its threads share it, and what happens when a call
fails or the process stops. raft-rs, RocksDB, tokio and the network are
external; they are modelled from the way the code uses them.

Source paths are relative to the repository.

## The system

| Part | State | Operations | Interacts with |
|---|---|---|---|
| `RocksDBStorage` (`src/storage/rocksdb_storage.rs`) | one column family behind an async `RwLock` | get, put, delete, exists, list_keys, stats | everything below stores through it; user keys and the adapter's keys share it |
| `RaftStorageAdapter` (`src/raft/storage.rs`) | a key per log index, a hard-state key, a conf-state key; the same three cached in memory | new_with_bootstrap, append_entries, save_hard_state, the `Storage` trait queries | called by raft-rs (queries) and by `handle_ready` (writes) |
| `RaftNode` (`src/raft/node.rs`, `proposal.rs`) | `raw_node`, `pending_proposals`, `proposal_index`, each with its own lock | new, propose, is_leader, step, tick, handle_ready | HTTP handlers call propose, the event loop calls the rest |
| Event loop (`src/server.rs`) | none beyond the task itself | tick + handle_ready every 100 ms, step on a message | drives RaftNode; spawned, not watched |
| `StateMachine` (`src/raft/state_machine.rs`) | none (writes user keys) | apply | called by handle_ready |
| HTTP API (`src/api/http.rs`) | none | get, put, delete, list, stats, status | RaftNode with Raft, RocksDBStorage without |
| `NetworkTransport` (`src/network/transport.rs`) | one cached connection per peer, an unbounded queue of received messages | start_server, send, receive | event loop |
| Config, CLI, errors | read once | - | - |

What is hard here, and what makes each part correct:

* **Adapter.** Two copies of the log. Every put is an await: a crash, an error
  or a reader can come between any two. Correct if the cache is the log raft-rs
  believes is stored, a restart finds that log, and the commit index on disk
  never runs ahead of the entries on disk.
* **RaftNode.** handle_ready releases `raw_node` while it persists; HTTP
  handlers take three locks one after the other, and may be dropped with their
  client. Correct if every committed entry is on disk and given to the store in
  order and once per run, every waiter is answered by its own entry or times
  out, and a positive answer means the write is stored.
* **Restart.** The log is applied again from index 1 on a store that already
  has its effects, and proposal ids start over.
* **Store.** The prefix scan relies on the order of keys.
* **Transport.** One sending task and one reading task per connection; a cached
  connection goes stale without notice. Correct if it is a lossy channel that
  never repeats a message, keeps the order until something fails, and never
  makes two nodes wait for each other.
* **API.** Without Raft a delete is two calls of the storage with an await
  between them.
* **Several nodes.** Conflicts between logs, lost and reordered messages,
  crashes and failing puts on one node while others go on, proposals forwarded
  by a leader that lost its office, ids that collide between nodes. Correct if
  a term has one leader, a committed entry survives on a majority and is applied
  everywhere in the same order, and an answer is for the request's own entry.

`PROJECT.json` lists the hazards with their lines; those without a property
say why.

## Modules

| Module | Models | Checked by |
|---|---|---|
| `RaftStorageQueries` | what the adapter answers and what it loads: functions of its log keys and its cache | through the two modules below |
| `RaftStorageAdapter` | the adapter and, as its environment, the calls raft-rs may cause | `MCRaftStorageAdapter` |
| `RaftStorageAdapterProofs` | - (theorems about the adapter) | TLAPS |
| `RaftNode` | RaftNode, event loop, StateMachine, put_key and delete_key, on a node that is its cluster's only voter; the adapter is an `INSTANCE` with the same variables | `MCRaftNode` |
| `RaftNodeProofs` | - (theorems about RaftNode, that it is a correct caller of the adapter among them) | TLAPS |
| `IntervalFacts` | - (a set of numbers below a bound has a greatest element, any set of naturals a least one; how an interval is sorted) | TLAPS |
| `RaftCluster` | several RaftNodes, each with its event loop and put_key, over a lossy network; the adapter's queries are an `INSTANCE` of `RaftStorageQueries` per node | `MCRaftCluster` |
| `RaftClusterProofs` | - (theorems about elections) | TLAPS |
| `RaftClusterTypeProofs` | - (theorems about types and about the disk, the cache and raft-rs's log of each node) | TLAPS |
| `RocksDBStorage` | the Storage trait over byte-string keys | `MCHttpApi` |
| `HttpApi` | the API without Raft on `RocksDBStorage` | `MCHttpApi` |
| `HttpApiProofs` | - (theorems about the API, and about the order of keys) | TLAPS |
| `LossyChannel` | - (what Raft may expect of the transport) | implemented by `NetworkTransport` |
| `NetworkTransport` | the transport on every node, with the part of the event loop that sends and receives | `MCNetworkTransport` |
| `NetworkTransportProofs` | - (theorems about the transport, the refinement among them) | TLAPS |

Operators with a suffix, announced as faulty variants (`PutFails_ignored`,
`Notify_by_index`, ...), are not used by any specification. Each is a plausible
mistake in the operator it stands next to - several are what commented-out
versions in the source did - and shows that a property would notice it.

### RaftStorageAdapter

The queries (`first_index`, `last_index`, `term`, `entries`, `load_entries`) are
in `RaftStorageQueries`, because `RaftCluster` asks the same ones of every
node. State: `dbLog`, `dbHardState`, `dbConfState` are the RocksDB keys; `entries`,
`hard_state`, `conf_state` the cached fields; `phase`, `batch`, `nput`, `newHs`
the local state of the async call in progress; `log` is a history variable, the
log raft-rs believes is stored. `append_entries` is three actions (start, one
per put, push onto the cache), `save_hard_state` three, `new_with_bootstrap`
one: the process serves nothing before it returns. A failing put ends the call
where it stands and the batch is remembered, because raft-rs keeps offering
it. `Crash` loses the memory; puts survive, as they do when the process (not
the machine) stops.

What raft-rs may ask for is in `Batch` and `NextHardState`. `Rewrites` separates
two kinds of caller: one whose log only grows (`FALSE`, all a single-node
cluster ever does), and one whose uncommitted end is replaced after a conflict
or offered again (`TRUE`, a node of a larger cluster). The adapter is correct
for the first and not for the second, so each property says which it is for.

Lines 1-356 and 520-535 of `storage.rs` are commented-out earlier versions and
are not modelled.

### RaftNode

The node is its cluster's only voter, as with the default configuration. One
action per section under a lock, per await, and per iteration of the loop over
committed entries:

| Code | Action |
|---|---|
| `RaftNode::new`, `Server::with_raft` | `new` |
| `tick` without and with the election timeout | `TickQuiet`, `TickCampaign` |
| handle_ready, step 1 | `NoReady`, `TakeReady`, `TakeReadyPanics` |
| step 2: append_entries, save_hard_state | `AppendEntries`, `SaveHardState` (each in the adapter's sub-steps), `PersistFails` |
| step 3: advance | `Advance`, `AdvanceDies` |
| loop over committed entries | `SkipEntry`, `Apply`, `ApplyFails`, `Notify` |
| put_key, delete_key and propose | `CheckExists`, `CheckLeader`, `NextId`, `Register`, `Submit`, `Reply`, `Timeout` |
| the client goes away while propose waits | `Disconnect` |

`RawNode` is external. The model uses these facts of raft-rs 0.7: a single voter
becomes leader within the tick that finds the election timeout, votes for
itself and appends an empty entry; a Ready holds all unstable entries and the
hard state if it changed; `advance` marks exactly the entries of the Ready
stable, panics (`fatal!` in `stable_entries`) if the last unstable entry is
another one, commits what is persisted and returns the newly committed entries
in the LightReady; `ready` panics if a Ready with entries was taken and never
advanced before the leadership was reported. A panic ends the task that runs
the event loop and nothing else, because `parking_lot` locks are not poisoned
and `Server::start` does not look at the task.

Requests are named (`Client`), each sent once; an entry's data is the name of
its request, its context the proposal id. Values are compared, never parsed.

Three histories tell apart what the loop over committed entries has done:
`passed` is the index of the last entry it is done with in this run, whether or
not the store took it, `stored` the indexes the store has taken (a failing apply
passes its entry without storing it), `loaded` the length of the log found at the
start. `ApplyFollowsLog` is about the order of the loop, `Stored` and
`StoreFollowsLog` about what the store has.

When a client goes away during the wait, axum drops the handler and neither arm
of `select!` runs, so its pending proposal stays behind. `PendingMatchesWaiters`
says what that may do and what not: a waiting request keeps its own place, and a
record left behind is gone once the loop is through with its entry.

### RaftCluster

RaftNode takes one node apart lock by lock; here a step is one branch of one
node's event loop, or one section of put_key. Per node: `disk` and `hs` are the
RocksDB keys, `cache` the adapter's entries, `raw` raft-rs, `proposal_index` and
`pending` RaftNode's fields, `dead` an event loop that has panicked. `transit`
is what was sent and not received.

| Code | Action |
|---|---|
| tick, handle_ready, send_messages | `TickQuiet`, `TickCampaign`, `TickCheckQuorum` (the three outcomes of a tick, each followed by `handle_ready` as a whole), `TickFails` (a put fails after the first n) |
| a panic in ready() | `handle_ready_dies` |
| recv_message, step | `step`: one `Handle...` per message type |
| is_leader, propose, its timeout, a client that goes away | `CheckLeader`, `propose`, `Timeout`, `Disconnect` |
| the process stops, also within append_entries; RaftNode::new | `restart` |

handle_ready is atomic here: what other requests do between its sections is
RaftNode's subject. What the order within it decides between nodes is kept:
entries, hard state, advance, apply and answer, send; an error sends nothing,
and the next Ready offers entries and hard state again but not the committed
entries. A node that is down is a node that does nothing.

raft-rs is external: votes, log comparison, commit by majority in the leader's
own term, and the assertions that end the event loop (a leader whose log is not
persisted, a conflict with or a commit index beyond the log, a Ready left
unfinished). It asks the adapter for terms and entries through
`RaftStorageQueries`, so a cache that holds an index twice misleads it here as
it does in the program. Left out, because nothing but raft-rs's own state
depends on it: pre-vote, refused votes, rejected appends and the downward
search for the point where two logs match (the leader's append starts at it),
commit indexes in votes, and messages that raft-rs would ignore (`Matters`).
The network may hold a message for ever, which is a loss, and deliver in any
order; it does not repeat, which the transport is shown not to do
(`IsLossyChannel`).

`chosen` is what some leader has committed, as its log had it; `elected` who won
which term; `applied` what reached the state machine since the start; `lost`
the nodes that dropped a Ready with committed entries; `mixed` whether some
node's log has been mixed from two. The last is the line between what the code
guarantees and what it does not. It becomes true when a cache comes to hold an
index twice: with the first conflict that replaces stored entries, and with the
first save_hard_state that fails after its entries were appended. It also
becomes true when append_entries is interrupted (a put fails, the process stops)
after it has put some entries of a conflicting batch and not the rest
(`Patches`): the rest of the old log stays behind the new entries, nothing ever
removes it, and a start loads the two as one log. That log ends in an older term
than it should, a later leader may find its own term at the stale index and take
everything before it for matched, and commit entries that the disks of a
majority do not have. It takes four campaigns, four indexes and two faults to
get there, which is beyond the bounds of the run; the proof is what brought it up.
`CommittedOnMajorityUnlessMixed`,
`NewestLeaderHasCommitted`, `CommitWithinDisk`, `AppliedFollowsLog` and the
part of `TypeOK` about logs (`LogOK`) are stated up to that point, and the
violated runs show what happens beyond it. Even the commit index on disk may
then pass the entries on disk: a leader whose cache repeats an index sends the
entry twice and counts its receiver as having one more than it has. That takes
about 30 steps, four campaigns, three indexes and several messages in transit
from one leader, which is beyond the bounds of the run. Up to that point it is
proved that it cannot happen. `ElectionSafety` and `VoteKept` need no such
condition and are proved without it.

### RocksDBStorage and HttpApi

A finite map from byte strings to values. A listing is the iterator's: the keys
in byte order from the seek position, cut at the first that does not match.
`HttpApi` adds the handlers of a server without Raft: `put_key` is one call of
the storage, delete_key is `CheckExists` and then `delete_key` or `DeleteFails`.
The reading handlers return what one query answers.

### NetworkTransport

`up`, `peers`, `connections` and `message_rx` are each node's fields; `pc`,
`outbox` and `cur` are where its event loop is in `send_messages`. `conns` holds
all connections: what was written and not read, whether the sender dropped its
end, whether the connection is cut, and where `handle_connection` is. A message
is two writes, length and body; `TcpBuffer` bounds what the kernel holds.
Messages are records with a number in the order Raft produces them; what they
say is not modelled, only their length against `MaxFrame`. One `send_messages`
hands over at most `MaxBatch` of them, in order.

`FifoWithoutFault` is about a pair of nodes that are `Undisturbed`: no
connection between them has been cut, no message between them was lost, no node
has stopped. Between such nodes everything sent before a message arrives before
it. That is Raft's view; one connection per pair, one sender and one reader are
how the code gets there, and the proof has to find them.

| Code | Action |
|---|---|
| event loop, tick branch with messages; receiving branch | `send_messages`, `recv_message` |
| send_message | `SendToSelf`, `DropUnknownPeer`, `ConnectFails` (the failed send) |
| send_to_peer and write_message | `send_to_peer`, `Connect`, `WriteLength`, `WriteBody`, `WriteFails` |
| accept loop and handle_connection | `accept`, `ReadLength`, `ReadBody`, `ReadEnds` |
| add_peer, remove_peer; new and start_server | `add_peer`, `remove_peer`; `new` |
| network and process | `Break`, `Crash` |

Facts about TCP that are used: what is written arrives in order or not at all;
after a cut the reader still gets a prefix of it, and the writer may write
without an error for a while; a failed `write_all` of a body means the body did
not arrive whole; `flush` does nothing. The last two are why a message that is
repeated on a new connection is never received twice. `excused` records the
messages that a fault, a crash, an unknown peer or the frame limit cost;
`DeliveredUnlessExcused` says that nothing else does. A failing write on the
cached connection is not among the excuses, since the code then reconnects.

The refinement maps `transit` to the messages that are waiting to be written,
in a connection that is still read, or queued, and `received` to those handed
to `RaftNode::step`.

## Runs

| Run | Bounds | Shows |
|---|---|---|
| `adapter` | 3 indexes, 2 terms, 2 payload sizes, 2 peer lists, log only grows | cache = log at every await, queries (with size limits) answered from it, disk without holes, commit within disk, restart keeps what returned (also after an interrupted append) and adds only a partial batch, voters permanent |
| `adapter_conflict` | 3 indexes, 2 terms, cache of 5, log overwritten | the disk holds the log, last_index is its end, restarts keep what returned, except from where an interrupted append was replacing entries (no holes and commit within disk are proved for this caller too) |
| `adapter_conflict_restart` | same | **violated:** truncated entries come back |
| `node` | a put and a delete of one key, clients that may go away, 2 restarts, 1 failing put, with fairness | committed is on disk and given to the store in order and once per run, replay converges even when interrupted, waiters keep their pending proposals and no others stay, truthful 200s, the adapter is called correctly, the disk log only grows; every request ends, every accepted proposal reaches the store unless its own apply fails or process or loop ends |
| `node_replay_ack` | 2 puts, 1 restart | **violated:** a replayed entry acknowledges a new request |
| `node_panic` | 2 puts, with fairness, no crash, no failure | **violated:** the event loop dies when a proposal arrives between ready() and advance() |
| `api` | 2 concurrent deletes, puts of 2 values, all stores over 6 keys of 1-2 bytes from {1, 127}, all prefixes up to 3 bytes | a delete that passed its check finds its key unless another delete overtook it; prefix scan = filter |
| `transport` | 5 messages: node 1 to itself, two to node 2 and a third above the frame limit, node 2 one back; in batches of any size; buffer of 1 write; 1 cut, failing connect, crash or change of peers; with fairness | lossy channel without repetition, frames in step, order kept until a fault, delivered unless excused, sending ends |
| `cluster` | 3 nodes, 2 campaigns, 3 indexes, 2 requests, 1 message in transit when a leader sends another, 1 crash, failing put, lost quorum, timeout or disconnect, of campaigns, requests and faults 3 in all | one leader per term, votes kept, commit within disk; until a log is mixed: committed entries on a majority and with the newest leader, applied everywhere in order; a request is answered with success only after its own entry is committed, not after another's |
| `cluster_overwritten` | 3 indexes, 2 requests, no fault | **violated:** a deposed leader's uncommitted write is applied |
| `cluster_foreign_ack` | 3 indexes, 2 requests, no fault | **violated:** another node's entry acknowledges a request |
| `cluster_minority` | 3 indexes, 1 request, 1 fault | **violated:** an entry is committed on one disk only |

The violated properties state what a comment or a document says; the findings
in `PROJECT.json` quote it. The three of the cluster need only ordinary events:
a failover with an unreplicated write, a request that meets a failover, and one
failed put.

Why the bounds are enough to meet the interesting cases. Adapter: three indexes
allow a batch of two on top of an entry, a conflict in the middle, and a
shorter log that replaces a longer one; two terms make a conflict visible; a
cache of five holds a full log and a replacement. Node: two requests collide in
every section; the second crash may interrupt the replay after the first
(`StoreFollowsLog` had to be weakened to what an interrupted replay leaves);
`MaxIndex` and `MaxTerm` leave room for one empty entry and one term per start
and one entry per request, which `NodeAssumption` states, so they never stop
the node. API: 127 is
the greatest byte that is a character of its own, so nothing sorts after its
prefix; keys of the API are always UTF-8.

Cluster: campaigns, faults and requests have a joint budget
of three (`WithinBudget`, a constraint of the model checker on the prefix-closed
count of these events): each of the three goes as far as its own bound, and
every two of them meet, but two campaigns, a fault and a request do not all
meet in one behaviour. The product of all bounds is too large to exhaust.
Two campaigns give two terms and a change of leader, or two candidates
of one term; three indexes hold the first leader's empty entry and two
requests, so that one is committed while the other is not (`AckedOwnEntry`), or
a request and the second leader's empty entry; one fault falls into every
position of a behaviour with one request, and a conflict replaces one or two
entries. Two requests meet no fault and no second leader here; what a second
leader does to their ids is the subject of `cluster_foreign_ack`, and what
faults do to two requests of one node that of `node`. Nodes and requests are interchangeable (symmetry).

Transport: a
buffer of one write makes both nodes wait on each other, and lets
a cut or a crash fall between the length and the body of a frame; the second
message finds the cached connection of the first; one fault is enough to make it
stale. Two faults in one behaviour are not covered.

Deadlock is checked for the adapter and the API. For the node it is not:
after the last request and the last allowed crash a node whose loop has died
has nothing left to do, and a cluster stops when its campaigns, messages and
indexes are used up. A transport stops when its messages are used up.

Fairness (`node`, `node_panic`): weak for the event loop as a whole (tokio
polls a task that can run, and the interval never ends) and for each request
that has connected; strong for the tick that finds the election timeout, which
the counter in raft-rs reaches after a bounded number of ticks, though each
single tick passes through states where it is not due. Nothing is assumed about
crashes, failures, restarts or clients that go away. Transport (`transport`): weak
for each node's event loop and for its reading tasks together; nothing about the
network.

## Proofs

Every proof is for all values of the constants that the named assumption of
the module allows; TLC evaluates those assumptions in the runs. Each proof
module has an inductive invariant `Inv` and one lemma per action.

| Module | Theorems | Assumptions |
|---|---|---|
| `RaftStorageAdapterProofs` | `TypeOK`, `CacheIsLog`, `DiskHoldsLog`, `DiskHasNoHole`, `CommitWithinDisk`, `LastIndexIsLogEnd`; `RestartKeepsAppends`, `RestartAddsNothingWithoutConflict`, `VotersPermanent` | `AdapterAssumption` (bounds are numbers, sizes positive, peers are nodes), `NoEntryAssumption` |
| `RaftNodeProofs` | `TypeOK`, `CommittedIsOnDisk`, `ApplyFollowsLog`, `StoreFollowsLog`, `PendingMatchesWaiters`, `AckedWriteStored`; `DiskLogAppendOnly`, `AdapterUsedCorrectly` | `NodeAssumption` (requests are a finite set with a command each, and the bounds leave room for every start and request, so they never stop the node), `NoEntryAssumption` (what stands for a missing key is no entry) |
| `RaftClusterProofs` | `ElectionSafety`, `VoteKept` | `ClusterAssumption` (nodes and requests are finite sets, bounds are numbers, what stands for a missing key is no entry) |
| `RaftClusterTypeProofs` | `TypeOK`, `CommitWithinDisk` | `ClusterAssumption` |
| `NetworkTransportProofs` | `TypeOK`, `FramesAligned`, `FifoWithoutFault`, `IsLossyChannel` | `TransportAssumption` (messages have numbers of their own, a sender, a receiver and a length; peers are nodes) |
| `HttpApiProofs` | `TypeOK`, `DeleteFindsKey`; `PrefixKeysAreARun` about keys of any length | `StorageAssumption` (bytes are 0..255), `ApiAssumption` |

### The adapter

No property is inductive alone. `TypeOK` fails to be because `load_entries`
picks the n-th smallest key: that it returns a sequence of entries depends on
the keys being exactly 1..n (`DiskInv`), which depends on a batch starting at or
before the end of the log plus one (`CallInv`), at every put and after every
failed call. `TailInv` says what may be on disk beyond the log, for the restart
theorems. The three named parts, the six properties and the types make `Inv`;
`LoadEntries` and `AscendingInterval` show what a start loads.

### The node

An entry can be in five places at once: raft-rs's unstable entries, the Ready in
progress, the adapter's batch, the disk and the cache. `RawInv` and `DiskInv`
say how they overlap at each await. Of the unstable entries the adapter has
stored `Pushed`: none before `append_entries` has returned, then those of the
Ready, until `advance`. Should the put of the hard state fail in between, they
remain stored and unstable, and a later Ready would offer them to the adapter
again. In this program that happens only to a leader that has not reported its
leadership (a single voter's hard state changes only with its term), and its
next `ready()` panics: `Doomed`. So the panic is what keeps the node a correct
caller of the adapter, and the invariant has to know it. `CallInv` relates the
adapter's call in progress to the place in handle_ready. `TermInv` orders the
terms of stored and unstable entries and of the hard states, which is what the
adapter may expect of a batch and of a hard state.

`CommittedIsOnDisk` and `ApplyFollowsLog` follow from these and from `QueueInv`
(the queue is the log from the last entry the loop is done with to the last one
handed out).

`AckedWriteStored` rests on ids. Within a run of the process they are distinct,
counted by `proposal_index`; an entry of an earlier run may bear the same id and
is applied again after a start. `IdInv` therefore speaks of the entries behind
the log found at the start (`loaded`): among those, an entry with the id of a
waiting request is that request's own. `RequestInv` gives
`PendingMatchesWaiters`, the records that disconnected clients leave behind
included, and `AckInv` carries the truth of an answer from
`Notify` to `Reply` and through every later crash.

`StoreFollowsLog` is inductive with these. Its proof is about maxima: the last
of a key's writers among the first n entries. Applying entry n makes n the
greatest writer of its key and leaves every other key's alone, during a replay
as well as after it; that a replayed value is one the log gave before is the
definition's second conjunct. `IntervalFacts` shows that the maxima exist, from
< being well-founded on the natural numbers.

`AdapterIsUsedCorrectly` maps each action to one of the adapter or a stutter.
Two lemmas hold the content: the batch of a Ready is one that `Batch` allows
(`BatchAllowed`), and its hard state one that `NextHardState` allows
(`HardStateAllowed`). So what `RaftStorageAdapterProofs` shows of the adapter
under a caller whose log only grows applies to this node.

### Elections

A vote is to be seen in three places, one after the other: in the messages that
the voter has not sent, in transit, and among the candidate's votes (`Ballot`).
While it is in the first a crash takes it back, and nothing need be known of the
disk; what is in the second or third is on the voter's disk, or the disk has
gone on to a later term (`Saved`, `MessageInv`, `VotesInv`). This is what
handle_ready's order, save before send, is for. Two ballots of a node in a term
agree (`OneBallot`). Once the candidate has won, all three may be gone, so the
invariant keeps what remains: a majority of disks bound to the winner (`Backed`,
`ElectedInv`), and two majorities have a node in common (`MajoritiesMeet`).

Every action is a move of one node's voting state (`Moves`: to a later term, or
to a vote where there was none) which is saved and sent, or neither (`GoesTo`).
The lemmas `MoveKeeps...` are about these two notions; an action's lemma shows
only that it is such a move. `VoteKept` follows from the same lemmas. The
invariant says nothing about logs, so both theorems hold also after a log
was mixed.

### The logs of a cluster

`RaftClusterTypeProofs` adds a second invariant (`TypeInv`) that stands beside
the one about elections and does not need it. `TypeOK` is not inductive: that a
commit index, a term or an index in a message has its type depends on what every
node may send and on what raft-rs may ask its store for. `VoterInv` bounds terms
by the campaigns so far and says that no node sends to itself or knows itself as
another's leader; `RequestInv` is about put handlers.

`LogInv` holds until a log is mixed (of that it needs that no cache repeats an
index). On each node (`NodeLogInv`) the cache
is numbered from 1, the disk has the keys 1..n with n at least the length of the
cache (`Stored`; it has more after a put that failed within a batch), and what is
unstable is numbered from `offset`, which is at most one past the cache
(`RaftOK`). While handle_ready leaves the cache without a repetition, what it
appends began exactly there (`ReadyContinues`), and the queries answer as a log
would (`ReadRange`, `StoredTerm`); so a leader counts as its own only what it
has, `MaybeCommit` does not pass the end of the log (`MaybeCommitWithin`), and
the hard state written after the entries is covered by them. A failing put or a
crash after the first puts leaves a disk of the same form (`PutStored`), and a
start loads it whole (`LoadStored`). A message carries entries numbered from the
one after its index (`LogMessage`), and the receiver keeps the form when it
replaces a suffix (`GrownOK`): raft-rs's assertions are what rules out that it
replaces a committed entry or commits beyond its log.

The proof goes action by action: each handler of raft-rs leads to a state that
is `Good` (roles and terms) and `Fits` (logs), and one lemma each for the
receiving branch (`StepKeeps`), for handle_ready (`ReadyVoter`, `ReadyLog`), for
one that fails (`FailsVoter`, `FailsLog`) and for a restart carries the invariant
over. That a repeated index ends it is visible in one place: `ReadyLog` and
`FailsLog` need the new cache to be numbered.

### The transport

`SenderInv`: an event loop inside send_message writes to a connection of its
own, to the peer of the message at hand. `FrameInv` and `WriterInv`: on a
connection lengths and bodies alternate, the reader expects what comes first,
and a connection a node will write a length to ends with a body, or is cut; a
frame left half-written is always on a connection that is cut, so nothing is
ever written behind it. `PlaceInv`: a message is in one place - to be sent, on
one connection, or queued at its receiver - and moves on only; `Gone` is what
separates what can still be sent from what cannot be sent again. The refinement
follows step by step from `PlaceInv`: every action maps to a send, a delivery,
a loss or a stutter of `LossyChannel`.

`FifoWithoutFault` needs a second invariant (`FifoInv`). For two undisturbed
nodes there is one connection between them, the one that is cached or being
opened, no message is missing, and what was handed to Raft, what is queued, what
is on the wire and what is to be sent follow each other in the order of their
numbers. Undisturbed nodes stay so only backwards (`Undisturbed` may become
false, never true), which is why the invariant can be conditional.

### The API

Between the two calls of delete_key a key can only disappear by another delete,
which raises `raced` of every delete that has passed its check for that key.
`PrefixKeysAreARun` is the fact about byte order that list_keys relies
on: no key that starts with the prefix comes before the prefix, and a key
between the prefix and such a key starts with it too.

### Only model-checked

* Everything about liveness (`RequestsEnd`, `AcceptedIsApplied`, `SendingEnds`,
  `DeliveredUnlessExcused`), which is out of the prover's reach.
* `QueriesAnswerLog` (sums over a range of entries) and `PrefixScanIsFilter` (a
  filter over a sequence): induction over data. `PrefixKeysAreARun` is the part of the second that is about keys.
* `AckedOwnEntry` and the properties of the cluster that compare the logs of
  several nodes (`CommittedOnMajorityUnlessMixed`,
  `NewestLeaderHasCommitted`, `AppliedFollowsLog`); their proof would be Raft's,
  with the repeated index as an escape.
* Why a single voter's loop may die (`node_panic`), and what a replayed entry
  acknowledges (`node_replay_ack`): there the properties fail.

## Not modelled

* Time: how long a send to a dead peer holds up the loop, and how far the queue
  of received messages grows. Liveness of the cluster: elections terminate only
  by timing, which the model does not have.
* Message sizes and raft-rs's flow control; membership changes (the code has
  none).
* Addresses: a peer's address is its id, so neither a changed address nor a
  node missing from its own peer list.
* Power failures (puts are not synced), only crashes of the process.
* get_key, stats and raft_status, which only read; that listings contain the adapter's
  keys, since nothing separates them from the user's.
* Decoding errors of stored entries, snapshots (the code returns an empty one).
* Configuration files, command line, logging, error texts, metrics, Docker.

## Plan

1. `RaftCluster` with four indexes, two faults and reordering between leaders,
   if a smaller state is found.
2. Power failure: a variant of `restart` that loses a suffix of the puts.
3. Proofs: `AckedOwnEntry` of the cluster, then its logs until an index is
   repeated, from `LogInv` (log matching, `CommittedOnMajorityUnlessMixed`,
   `NewestLeaderHasCommitted`, `AppliedFollowsLog`).
