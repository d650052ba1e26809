------------------------------ MODULE RaftNode ------------------------------
(***************************************************************************)
(* RaftNode (src/raft/node.rs) on the only voter of its cluster, with the  *)
(* event loop of server.rs that drives it, the state machine it applies    *)
(* to and the HTTP handlers put_key and delete_key that propose to it.     *)
(*                                                                         *)
(* Three kinds of threads share the node: the event loop, which ticks      *)
(* raft-rs and runs handle_ready; one HTTP handler per request; and the    *)
(* crash.  raw_node, pending_proposals and proposal_index each have a lock *)
(* of their own, and handle_ready releases raw_node's between ready() and  *)
(* advance(), so every locked section is an action.                        *)
(*                                                                         *)
(* RawNode is raft-rs 0.7, not part of the repository.  The single voter   *)
(* elects itself in the tick that finds the election timeout, appends an   *)
(* empty entry, and commits what advance() reports persisted.              *)
(*                                                                         *)
(* Persistence is RaftStorageAdapter, instantiated with the same variables.*)
(***************************************************************************)
EXTENDS Integers, Sequences, FiniteSets

LOCAL INSTANCE SequencesExt   \* Last, Max

CONSTANTS
  Client,        \* HTTP requests, each issued once
  Key,           \* user keys
  Value,         \* user values
  Command,       \* Command[c]: the key c writes and the value, or Absent to delete it
  Absent,        \* no value under a key
  NoClient,      \* origin of the empty entry of a new leader
  Self,          \* this node's id
  MaxRestarts,   \* bound on restarts after a crash
  MaxFailures,   \* bound on failing RocksDB puts
  MaxIndex,      \* bound on log indexes
  MaxTerm,       \* bound on terms
  NoEntry,
  NoLimit

\* The last two conjuncts: the bounds leave room for one empty entry and one
\* term per start and one entry per request, so they never stop the node.
ASSUME NodeAssumption ==
  /\ IsFiniteSet(Client)
  /\ Absent \notin Value
  /\ NoClient \notin Client
  /\ Command \in [Client -> [key : Key, value : Value \cup {Absent}]]
  /\ Self \in Nat \ {0}
  /\ MaxRestarts \in Nat
  /\ MaxFailures \in Nat
  /\ MaxIndex \in Nat
  /\ MaxTerm \in Nat
  /\ MaxIndex > MaxRestarts + Cardinality(Client)
  /\ MaxTerm > MaxRestarts

\* What an entry carries: the serialized proposal (named by its request) and
\* the proposal id in the context field.
Payload == [by : Client \cup {NoClient}, ctx : Nat]
Empty == [by |-> NoClient, ctx |-> 0]

VARIABLES
  (* RaftStorageAdapter *)
  dbLog, dbHardState, dbConfState, open, entries, hard_state, conf_state,
  phase, batch, nput, newHs, log,
  (* RawNode *)
  role,            \* "follower" or "leader"
  curTerm,         \* term; the vote is Self's from term 1 on
  unstable,        \* entries not yet reported persisted
  offset,          \* index of the first of them
  committed,       \* commit index
  handed,          \* index up to which committed entries were handed out
  prevHs,          \* hard state of the last Ready that was advanced
  prevRole,        \* role at the last Ready that was advanced
  unfinished,      \* a Ready with entries was taken and never advanced
  (* the event loop and handle_ready *)
  loop,            \* where the loop stands
  ready,           \* the Ready in progress: its entries and hard state
  queue,           \* committed_entries still to be applied
  result,          \* result of the apply that is about to be notified
  (* the rest of RaftNode and the store *)
  proposal_index,  \* the last proposal id given out
  pending,         \* pending_proposals: ids with the request that waits
  kv,              \* RocksDB: the user keys
  (* HTTP handlers *)
  pc,              \* where each request stands
  id,              \* its proposal_id
  answer,          \* what was sent into its oneshot channel
  (* the environment *)
  restarts, failures,
  (* histories *)
  passed,          \* index of the last entry the loop is done with since the start
  maxPassed,       \* ... ever
  stored,          \* indexes of the entries the store has taken, ever
  loaded,          \* length of the log found at the start
  fresh,           \* requests registered after the loaded log was applied
  skipped          \* an apply failed

adapterVars == <<dbLog, dbHardState, dbConfState, open, entries, hard_state,
                 conf_state, phase, batch, nput, newHs, log>>
rawVars == <<role, curTerm, unstable, offset, committed, handed, prevHs, prevRole, unfinished>>
loopVars == <<loop, ready, queue, result>>
clientVars == <<pc, id, answer, fresh>>
propVars == <<proposal_index, pending>>
applyVars == <<kv, passed, maxPassed, stored, skipped>>
envVars == <<restarts, failures, loaded>>
vars == <<adapterVars, rawVars, loopVars, clientVars, propVars, applyVars, envVars>>

Adapter == INSTANCE RaftStorageAdapter WITH
  MaxCache <- MaxIndex,
  Size <- [p \in Payload |-> 1],
  Nodes <- {Self},
  PeerConfigs <- {{Self}},
  Rewrites <- FALSE

ASSUME NoEntryAssumption == NoEntry \notin Adapter!Entry

-----------------------------------------------------------------------------
(* RawNode *)

LastIndex == offset + Len(unstable) - 1

HardStateNow ==
  [term |-> curTerm, vote |-> IF curTerm = 0 THEN 0 ELSE Self, commit |-> committed]

\* has_ready: unstable entries, a hard state to save or entries to hand out.
HasReady == unstable # <<>> \/ HardStateNow # prevHs \/ handed < committed

\* The committed entries in (lo, hi]; raft-rs reads them from the store.
Committed(lo, hi) ==
  IF lo < hi THEN Adapter!read_entries(lo + 1, hi + 1, NoLimit) ELSE <<>>

-----------------------------------------------------------------------------
(* Starting and stopping *)

\* No Ready is in progress.
Consumed == [entries |-> <<>>, hs |-> Adapter!DefaultHardState]

\* How a request ends.
Outcomes == {"ok", "failed", "missing", "not_leader", "dropped", "timeout", "broken"}

Init ==
  /\ Adapter!Init
  /\ role = "follower" /\ curTerm = 0 /\ unstable = <<>> /\ offset = 1
  /\ committed = 0 /\ handed = 0 /\ prevHs = Adapter!DefaultHardState
  /\ prevRole = "follower" /\ unfinished = FALSE
  /\ loop = "tick" /\ ready = Consumed /\ queue = <<>> /\ result = "ok"
  /\ proposal_index = 0 /\ pending = {}
  /\ kv = [k \in Key |-> Absent]
  /\ pc = [c \in Client |-> "start"] /\ id = [c \in Client |-> 0]
  /\ answer = [c \in Client |-> "none"]
  /\ restarts = 0 /\ failures = 0 /\ loaded = 0
  /\ passed = 0 /\ maxPassed = 0 /\ stored = {} /\ fresh = {} /\ skipped = FALSE

\* Faulty variants: RawNode takes the stored log for empty, or for applied.
new_from(firstUnstable, done) ==
  /\ Adapter!new_with_bootstrap({Self})
  /\ role' = "follower" /\ prevRole' = "follower" /\ unfinished' = FALSE
  /\ curTerm' = hard_state'.term
  /\ committed' = done
  /\ unstable' = <<>> /\ offset' = firstUnstable
  /\ handed' = done /\ prevHs' = hard_state'
  /\ loop' = "tick" /\ ready' = Consumed /\ queue' = <<>>
  /\ proposal_index' = 0 /\ pending' = {}
  /\ passed' = done /\ loaded' = Len(entries')
  /\ UNCHANGED <<result, clientVars, kv, maxPassed, stored, skipped, restarts, failures>>
new_empty == new_from(1, 0)
new_applied == new_from(Len(Adapter!load_entries) + 1, Len(Adapter!load_entries))

\* Server::with_raft and RaftNode::new: the adapter loads the log, RawNode
\* starts from it with applied = 0, no proposal is pending and ids start over.
new ==
  /\ Adapter!new_with_bootstrap({Self})
  /\ role' = "follower" /\ prevRole' = "follower" /\ unfinished' = FALSE
  /\ curTerm' = hard_state'.term
  /\ committed' = hard_state'.commit
  /\ unstable' = <<>> /\ offset' = Len(entries') + 1
  /\ handed' = 0 /\ prevHs' = hard_state'
  /\ loop' = "tick" /\ ready' = Consumed /\ queue' = <<>>
  /\ proposal_index' = 0 /\ pending' = {}
  /\ passed' = 0 /\ loaded' = Len(entries')
  /\ UNCHANGED <<result, clientVars, kv, maxPassed, stored, skipped, restarts, failures>>

\* The process stops; requests in progress lose their connection.
Crash ==
  /\ restarts < MaxRestarts
  /\ restarts' = restarts + 1
  /\ Adapter!Crash
  /\ pc' = [c \in Client |-> IF pc[c] \in Outcomes \cup {"start"} THEN pc[c] ELSE "broken"]
  /\ UNCHANGED <<rawVars, loopVars, id, answer, fresh, propVars, applyVars, failures, loaded>>

-----------------------------------------------------------------------------
(* The event loop *)

Idle == open /\ loop = "tick"

\* tick() without, and with, the election timeout.
TickQuiet ==
  /\ Idle
  /\ loop' = "ready"
  /\ UNCHANGED <<adapterVars, rawVars, ready, queue, result, clientVars, propVars, applyVars, envVars>>

TickCampaign ==
  /\ Idle
  /\ role = "follower"
  /\ curTerm < MaxTerm
  /\ LastIndex < MaxIndex
  /\ role' = "leader"
  /\ curTerm' = curTerm + 1
  /\ unstable' = Append(unstable, [index |-> LastIndex + 1, term |-> curTerm + 1, data |-> Empty])
  /\ loop' = "ready"
  /\ UNCHANGED <<adapterVars, offset, committed, handed, prevHs, prevRole, unfinished, ready,
                 queue, result, clientVars, propVars, applyVars, envVars>>

\* handle_ready, step 1, under the lock: nothing to do, or take the Ready.
\* raft-rs asserts that a node whose leadership it has not reported yet left
\* no Ready with entries unfinished: the panic ends the loop's task.
NoReady ==
  /\ open /\ loop = "ready" /\ ~HasReady
  /\ loop' = "tick"
  /\ UNCHANGED <<adapterVars, rawVars, ready, queue, result, clientVars, propVars, applyVars, envVars>>

ReadyPanics == unfinished /\ prevRole # "leader" /\ role = "leader"

\* Faulty variant: advance() is called before anything is persisted.
TakeReady_advance_first ==
  /\ open /\ loop = "ready" /\ HasReady /\ ~ReadyPanics
  /\ ready' = [entries |-> unstable, hs |-> HardStateNow]
  /\ queue' = Committed(handed, committed)
  /\ handed' = committed
  /\ unfinished' = (unfinished \/ unstable # <<>>)
  /\ loop' = "advance"
  /\ UNCHANGED <<adapterVars, role, curTerm, unstable, offset, committed, prevHs, prevRole,
                 result, clientVars, propVars, applyVars, envVars>>

TakeReady ==
  /\ open /\ loop = "ready" /\ HasReady /\ ~ReadyPanics
  /\ ready' = [entries |-> unstable, hs |-> HardStateNow]
  /\ queue' = Committed(handed, committed)
  /\ handed' = committed
  /\ unfinished' = (unfinished \/ unstable # <<>>)
  /\ loop' = IF unstable # <<>> THEN "append" ELSE "hard_state"
  /\ UNCHANGED <<adapterVars, role, curTerm, unstable, offset, committed, prevHs, prevRole,
                 result, clientVars, propVars, applyVars, envVars>>

TakeReadyPanics ==
  /\ open /\ loop = "ready" /\ HasReady /\ ReadyPanics
  /\ loop' = "dead"
  /\ UNCHANGED <<adapterVars, rawVars, ready, queue, result, clientVars, propVars, applyVars, envVars>>

\* handle_ready, step 2, without the lock: append_entries put by put, then
\* save_hard_state if the hard state changed.
AppendEntries ==
  /\ loop = "append"
  /\ \/ Adapter!append_entries(ready.entries) /\ UNCHANGED loop
     \/ Adapter!PutEntry /\ UNCHANGED loop
     \/ Adapter!PushEntries /\ loop' = "hard_state"
  /\ UNCHANGED <<rawVars, ready, queue, result, clientVars, propVars, applyVars, envVars>>

SaveHardState ==
  /\ loop = "hard_state"
  /\ ready.hs # prevHs
  /\ \/ Adapter!save_hard_state(ready.hs) /\ UNCHANGED loop
     \/ Adapter!PutHardState /\ UNCHANGED loop
     \/ Adapter!CacheHardState /\ loop' = "advance"
  /\ UNCHANGED <<rawVars, ready, queue, result, clientVars, propVars, applyVars, envVars>>

\* Faulty variant: handle_ready goes on after the error.
PersistFails_ignored ==
  /\ failures < MaxFailures
  /\ failures' = failures + 1
  /\ Adapter!PutFails
  /\ loop' = "hard_state"
  /\ UNCHANGED <<rawVars, ready, queue, result, clientVars, propVars, applyVars, restarts, loaded>>

\* A put fails: handle_ready returns the error, the Ready and its committed
\* entries are dropped, and the loop logs the error and goes on.
PersistFails ==
  /\ failures < MaxFailures
  /\ failures' = failures + 1
  /\ Adapter!PutFails
  /\ loop' = "tick"
  /\ ready' = Consumed
  /\ queue' = <<>>
  /\ UNCHANGED <<rawVars, result, clientVars, propVars, applyVars, restarts, loaded>>

\* handle_ready, step 3, under the lock again: advance().  raft-rs marks the
\* unstable entries stable up to the last one of the Ready and panics when
\* that is not the last one it has (a proposal came in since step 1).
Advancing ==
  /\ open /\ phase = "idle"
  /\ loop = "advance" \/ (loop = "hard_state" /\ ready.hs = prevHs)

AdvancePanics == ready.entries # <<>> /\ Len(unstable) # Len(ready.entries)

\* Faulty variant: the committed entries of the LightReady are dropped.
Advance_no_light ==
  /\ Advancing /\ ~AdvancePanics
  /\ unstable' = IF ready.entries = <<>> THEN unstable ELSE <<>>
  /\ offset' = IF ready.entries = <<>> THEN offset ELSE LastIndex + 1
  /\ committed' = IF ready.entries = <<>> THEN committed ELSE LastIndex
  /\ handed' = committed'
  /\ prevHs' = [ready.hs EXCEPT !.commit = committed']
  /\ prevRole' = role
  /\ unfinished' = FALSE
  /\ ready' = Consumed
  /\ loop' = IF queue = <<>> THEN "tick" ELSE "apply"
  /\ UNCHANGED <<adapterVars, role, curTerm, queue, result, clientVars, propVars, applyVars, envVars>>

Advance ==
  /\ Advancing /\ ~AdvancePanics
  /\ IF ready.entries = <<>>
       THEN UNCHANGED <<unstable, offset, committed>>
       ELSE /\ unstable' = <<>>
            /\ offset' = LastIndex + 1
            /\ committed' = LastIndex
  /\ queue' = queue \o Committed(handed, committed')
  /\ handed' = committed'
  /\ prevHs' = [ready.hs EXCEPT !.commit = committed']
  /\ prevRole' = role
  /\ unfinished' = FALSE
  /\ ready' = Consumed
  /\ loop' = IF queue' = <<>> THEN "tick" ELSE "apply"
  /\ UNCHANGED <<adapterVars, role, curTerm, result, clientVars, propVars, applyVars, envVars>>

AdvanceDies ==
  /\ Advancing /\ AdvancePanics
  /\ loop' = "dead"
  /\ UNCHANGED <<adapterVars, rawVars, ready, queue, result, clientVars, propVars, applyVars, envVars>>

\* The loop over committed_entries: empty entries are skipped, the others are
\* given to the store (StateMachine::apply) and their waiter is notified.  The
\* loop goes on to the next entry also when the store failed.
Applying == open /\ loop = "apply"

\* Faulty variant: the loop over the committed entries does not end.
AfterHead_apply == "apply"

AfterHead == IF Len(queue) = 1 THEN "tick" ELSE "apply"

PassHead ==
  /\ passed' = Head(queue).index
  /\ maxPassed' = IF passed' > maxPassed THEN passed' ELSE maxPassed

SkipEntry ==
  /\ Applying
  /\ Head(queue).data.by = NoClient
  /\ PassHead
  /\ queue' = Tail(queue)
  /\ loop' = AfterHead
  /\ UNCHANGED <<adapterVars, rawVars, ready, result, clientVars, propVars, kv, stored, skipped, envVars>>

Apply ==
  /\ Applying
  /\ Head(queue).data.by # NoClient
  /\ LET cmd == Command[Head(queue).data.by] IN kv' = [kv EXCEPT ![cmd.key] = cmd.value]
  /\ PassHead
  /\ stored' = stored \cup {passed'}
  /\ result' = "ok"
  /\ loop' = "notify"
  /\ UNCHANGED <<adapterVars, rawVars, ready, queue, clientVars, propVars, skipped, envVars>>

\* The store fails: the error goes to the waiter, and the entry is passed over
\* without being stored.
ApplyFails ==
  /\ Applying
  /\ Head(queue).data.by # NoClient
  /\ failures < MaxFailures
  /\ failures' = failures + 1
  /\ PassHead
  /\ skipped' = TRUE
  /\ result' = "failed"
  /\ loop' = "notify"
  /\ UNCHANGED <<adapterVars, rawVars, ready, queue, clientVars, propVars, kv, stored, restarts, loaded>>

\* Faulty variant: the entry's index is taken for the proposal id.
Notify_by_index ==
  /\ open /\ loop = "notify"
  /\ LET hit == {p \in pending : p.id = Head(queue).index} IN
     /\ pending' = pending \ hit
     /\ answer' = [c \in Client |-> IF \E p \in hit : p.client = c THEN result ELSE answer[c]]
  /\ queue' = Tail(queue)
  /\ loop' = AfterHead
  /\ UNCHANGED <<adapterVars, rawVars, ready, result, pc, id, fresh, proposal_index, applyVars, envVars>>

\* The pending proposal with the id in the entry's context is removed and its
\* oneshot gets the result.
Notify ==
  /\ open /\ loop = "notify"
  /\ LET hit == {p \in pending : p.id = Head(queue).data.ctx} IN
     /\ pending' = pending \ hit
     /\ answer' = [c \in Client |-> IF \E p \in hit : p.client = c THEN result ELSE answer[c]]
  /\ queue' = Tail(queue)
  /\ loop' = AfterHead
  /\ UNCHANGED <<adapterVars, rawVars, ready, result, pc, id, fresh, proposal_index, applyVars, envVars>>

Loop ==
  \/ TickQuiet \/ TickCampaign \/ NoReady \/ TakeReady \/ TakeReadyPanics
  \/ AppendEntries \/ SaveHardState \/ Advance \/ AdvanceDies
  \/ SkipEntry \/ Apply \/ Notify

-----------------------------------------------------------------------------
(* HTTP handlers: put_key and delete_key, with RaftNode::propose inlined *)

Moves(c, from, to) ==
  /\ open
  /\ pc[c] = from
  /\ pc' = [pc EXCEPT ![c] = to]

IsDelete(c) == Command[c].value = Absent

\* delete_key: 404 when the key is absent.
CheckExists(c) ==
  /\ IsDelete(c)
  /\ Moves(c, "start", IF kv[Command[c].key] = Absent THEN "missing" ELSE "exists")
  /\ UNCHANGED <<adapterVars, rawVars, loopVars, id, answer, fresh, propVars, applyVars, envVars>>

\* 503 when this node is not the leader.
CheckLeader(c) ==
  /\ Moves(c, IF IsDelete(c) THEN "exists" ELSE "start",
              IF role = "leader" THEN "leader" ELSE "not_leader")
  /\ UNCHANGED <<adapterVars, rawVars, loopVars, id, answer, fresh, propVars, applyVars, envVars>>

NextId(c) ==
  /\ Moves(c, "leader", "numbered")
  /\ proposal_index' = proposal_index + 1
  /\ id' = [id EXCEPT ![c] = proposal_index']
  /\ UNCHANGED <<adapterVars, rawVars, loopVars, answer, fresh, pending, applyVars, envVars>>

\* History: the loop is done with the entries found at the start.
ReplayDone == passed > loaded \/ (passed = loaded /\ loop # "notify")

\* HashMap::insert replaces a proposal that has the same id.
Register(c) ==
  /\ Moves(c, "numbered", "registered")
  /\ pending' = {p \in pending : p.id # id[c]} \cup {[id |-> id[c], client |-> c]}
  /\ fresh' = IF ReplayDone THEN fresh \cup {c} ELSE fresh
  /\ UNCHANGED <<adapterVars, rawVars, loopVars, id, answer, proposal_index, applyVars, envVars>>

\* raw_node.propose: a follower drops the proposal (and the pending entry stays).
Submit(c) ==
  /\ Moves(c, "registered", IF role = "leader" THEN "wait" ELSE "dropped")
  /\ LastIndex < MaxIndex
  /\ unstable' = IF role # "leader" THEN unstable
                 ELSE Append(unstable, [index |-> LastIndex + 1, term |-> curTerm,
                                        data |-> [by |-> c, ctx |-> id[c]]])
  /\ UNCHANGED <<adapterVars, role, curTerm, offset, committed, handed, prevHs, prevRole,
                 unfinished, loopVars, id, answer, fresh, propVars, applyVars, envVars>>

\* select!: the answer, or 5 seconds; both may be there.
Reply(c) ==
  /\ answer[c] # "none"
  /\ Moves(c, "wait", answer[c])
  /\ UNCHANGED <<adapterVars, rawVars, loopVars, id, answer, fresh, propVars, applyVars, envVars>>

\* Faulty variants: the timeout leaves the pending proposal, or never comes.
Timeout_leaks(c) ==
  /\ Moves(c, "wait", "timeout")
  /\ UNCHANGED <<adapterVars, rawVars, loopVars, id, answer, fresh, propVars, applyVars, envVars>>
Timeout_never(c) == FALSE

Timeout(c) ==
  /\ Moves(c, "wait", "timeout")
  /\ pending' = {p \in pending : p.id # id[c]}
  /\ UNCHANGED <<adapterVars, rawVars, loopVars, id, answer, fresh, proposal_index, applyVars, envVars>>

\* The client goes away while its handler waits: axum drops the handler's
\* future, neither arm of select! runs and the pending proposal stays.  The
\* only other await, exists(), comes before the request has changed anything.
Disconnect(c) ==
  /\ Moves(c, "wait", "broken")
  /\ UNCHANGED <<adapterVars, rawVars, loopVars, id, answer, fresh, propVars, applyVars, envVars>>

Handler(c) ==
  \/ CheckExists(c) \/ CheckLeader(c) \/ NextId(c) \/ Register(c) \/ Submit(c)
  \/ Reply(c) \/ Timeout(c)

Request(c) == Handler(c) \/ Disconnect(c)

-----------------------------------------------------------------------------

Next ==
  \/ new
  \/ Crash
  \/ Loop
  \/ PersistFails
  \/ ApplyFails
  \/ \E c \in Client : Request(c)

Spec == Init /\ [][Next]_vars

\* tokio polls the loop and the handlers, the interval ticks for ever and
\* sooner or later a tick finds the election timeout; a request whose client
\* has connected is served to its end.  Nothing says that a crashed node is
\* started again, or that a client stays or goes.
Fairness ==
  /\ WF_vars(Loop)
  /\ SF_vars(TickCampaign)
  /\ \A c \in Client : WF_vars(Handler(c) /\ pc[c] # "start")

FairSpec == Spec /\ Fairness

-----------------------------------------------------------------------------
(* Properties *)

TypeOK ==
  /\ Adapter!TypeOK
  /\ role \in {"follower", "leader"} /\ prevRole \in {"follower", "leader"}
  /\ curTerm \in 0..MaxTerm
  /\ unstable \in Seq(Adapter!Entry)
  /\ offset \in 1..(MaxIndex + 1)
  /\ LastIndex \in 0..MaxIndex
  /\ committed \in 0..MaxIndex /\ handed \in 0..MaxIndex
  /\ prevHs \in Adapter!HardState
  /\ unfinished \in BOOLEAN
  /\ loop \in {"tick", "ready", "append", "hard_state", "advance", "apply", "notify", "dead"}
  /\ ready \in [entries : Seq(Adapter!Entry), hs : Adapter!HardState]
  /\ queue \in Seq(Adapter!Entry)
  /\ loop \in {"apply", "notify"} => queue # <<>>
  /\ result \in {"ok", "failed"}
  /\ proposal_index \in Nat
  /\ pending \subseteq [id : Nat, client : Client]
  /\ kv \in [Key -> Value \cup {Absent}]
  /\ pc \in [Client -> Outcomes \cup {"start", "exists", "leader", "numbered", "registered", "wait"}]
  /\ id \in [Client -> Nat]
  /\ answer \in [Client -> {"none", "ok", "failed"}]
  /\ restarts \in 0..MaxRestarts /\ failures \in 0..MaxFailures
  /\ passed \in 0..MaxIndex /\ maxPassed \in 0..MaxIndex /\ loaded \in 0..MaxIndex
  /\ stored \subseteq 1..MaxIndex
  /\ fresh \subseteq Client
  /\ skipped \in BOOLEAN

\* handle_ready's use of the adapter: every call it makes, also after a put
\* failed, a panic or a restart, is one the adapter is correct for (entries
\* extend the stored log, a failed batch is offered again before any hard
\* state is saved).
AdapterUsedCorrectly == Adapter!Implemented

\* What was persisted is never overwritten or removed, by a retry after a
\* failed put, a new term or a restart.
DiskLogAppendOnly ==
  [][\A i \in DOMAIN dbLog : dbLog[i] # NoEntry => dbLog'[i] = dbLog[i]]_vars

\* Persistence comes before advance(): whatever is committed is on disk, also
\* when the handler is interrupted (handle_ready, steps 2 and 3).
CommittedIsOnDisk ==
  open => \A i \in 1..committed : dbLog[i] # NoEntry

\* The loop goes through the log: what it has still to do is what follows the
\* last entry it is done with, up to the last one handed out.  So since the
\* start every committed entry is given to the store once and in order, and a
\* failed put, a retry or a replay leaves none out.  (Given: an apply that
\* fails is not repeated before a restart.  On a single voter they all come
\* with the LightReady: committed only moves in advance().)
ApplyFollowsLog ==
  open => /\ handed <= committed
          /\ loop \in {"tick", "ready", "append", "hard_state", "advance", "apply"} =>
               queue = SubSeq(log, passed + 1, handed)
          /\ loop = "notify" => queue = SubSeq(log, passed, handed)

\* The value the first n entries of the log leave under k.
Writers(k, n) == {i \in 1..n : log[i].data.by # NoClient /\ Command[log[i].data.by].key = k}
Effect(k, n) ==
  IF Writers(k, n) = {} THEN Absent ELSE Command[log[Max(Writers(k, n))].data.by].value

\* The store is what the log says, whatever crashed where.  A restart applies
\* the log again from its beginning on top of the store (RaftNode::new leaves
\* Config::applied at 0), and the replay may itself be interrupted: a key the
\* replay has reached has its value at that point of the log, any other key
\* some value the applied log gave it.  When the replay is over the store is
\* exactly the effect of the applied log.
StoreFollowsLog ==
  ~skipped => \A k \in Key :
    /\ Writers(k, passed) # {} => kv[k] = Effect(k, passed)
    /\ kv[k] \in {Effect(k, n) : n \in 0..maxPassed}
    /\ passed = maxPassed => kv[k] = Effect(k, passed)

Waits(c) == pc[c] \in {"registered", "wait"} /\ answer[c] = "none"

\* The loop is through with an entry that c proposed in this run.
PassedBy(c) ==
  \E i \in (loaded + 1)..passed :
    log[i].data.by = c /\ (i < passed \/ loop # "notify")

\* No request that waits unanswered loses its place in pending_proposals to
\* another one.  Whatever else is in there was left by a client that went away
\* while its handler waited, and only until the loop is through with the entry
\* the request proposed (propose, its timeout, handle_ready).
PendingMatchesWaiters ==
  open => /\ \A c \in Client : Waits(c) => [id |-> id[c], client |-> c] \in pending
          /\ \A p \in pending :
               /\ p.id = id[p.client]
               /\ Waits(p.client) \/ pc[p.client] = "broken"
               /\ ~PassedBy(p.client)

\* The request's entry is on disk and the store has taken it.
Stored(c) == \E i \in stored : dbLog[i] # NoEntry /\ dbLog[i].data.by = c

\* A 200 for a request registered after the replay of the log found at the
\* start was complete is truthful, through every later crash.
AckedWriteStored == \A c \in fresh : pc[c] = "ok" => Stored(c)

\* A 200 is always truthful.
EveryAckedWriteStored == \A c \in Client : pc[c] = "ok" => Stored(c)

\* A request that has connected is answered, also by a node whose event loop
\* has died (the timeout in propose).
RequestsEnd == \A c \in Client : pc[c] \notin Outcomes \cup {"start"} ~> pc[c] \in Outcomes

Accepted(c) == \E n \in DOMAIN unstable : unstable[n].data.by = c
Failed(c) == \E i \in 1..passed : i \notin stored /\ log[i].data.by = c

\* A proposal raft-rs has accepted reaches the store, whichever of
\* handle_ready's own puts fail and are retried, unless the process or the
\* event loop ends or the put of its own apply fails.
AcceptedIsApplied ==
  \A c \in Client : Accepted(c) ~> (Stored(c) \/ Failed(c) \/ ~open \/ loop = "dead")

\* ... unless the process ends or the put of its own apply fails.
AcceptedIsAppliedWhileUp ==
  \A c \in Client : Accepted(c) ~> (Stored(c) \/ Failed(c) \/ ~open)

=============================================================================
