------------------------- MODULE RaftStorageAdapter -------------------------
(***************************************************************************)
(* RaftStorageAdapter (src/raft/storage.rs): the Raft log, hard state and  *)
(* configuration of one node, kept twice.  RocksDB holds one key per log   *)
(* index (__raft_log_<index>), one for the hard state and one for the      *)
(* configuration; the adapter keeps a Vec<Entry>, a HardState and a        *)
(* ConfState in memory and answers raft-rs from these.                     *)
(*                                                                         *)
(* append_entries and save_hard_state are async: every put is an await, so *)
(* a crash, a failing put or a reader on another thread can come between   *)
(* any two of them.  Their local state is phase, batch, nput and newHs.    *)
(*                                                                         *)
(* The caller is raft-rs driven by RaftNode::handle_ready.  The history    *)
(* variable log is the log raft-rs believes is stored: what was loaded at  *)
(* start-up, changed by every append_entries that returned Ok.  A batch    *)
(* that starts at or below the end of log replaces log from there on       *)
(* (raft-rs truncates its log on a conflict with a new leader, and offers  *)
(* a batch again when handle_ready failed after append_entries); Rewrites  *)
(* says whether the caller ever does this.                                 *)
(***************************************************************************)
EXTENDS RaftStorageQueries, SequencesExt

CONSTANTS
  MaxTerm,        \* bound on terms
  MaxCache,       \* bound on the length of the cached vector
  Payload,        \* what an entry carries (data and context)
  Nodes,          \* node ids
  PeerConfigs,    \* the voter lists (as sets) the config file may give at a start
  Rewrites        \* whether a batch may start before the end of the log

ASSUME AdapterAssumption ==
  /\ MaxIndex \in Nat
  /\ MaxTerm \in Nat
  /\ MaxCache \in Nat
  /\ Size \in [Payload -> Nat \ {0}]
  /\ Nodes \subseteq Nat \ {0}
  /\ PeerConfigs \subseteq SUBSET Nodes
  /\ Rewrites \in BOOLEAN

Term == 0..MaxTerm
Entry == [index : Index, term : Term \ {0}, data : Payload]
HardState == [term : Term, vote : Nodes \cup {0}, commit : 0..MaxIndex]

\* HardState::default(), what load_hard_state returns when the key is absent.
DefaultHardState == [term |-> 0, vote |-> 0, commit |-> 0]

ASSUME NoEntryAssumption == NoEntry \notin Entry

VARIABLES
  dbHardState,  \* RocksDB: the hard state key
  dbConfState,  \* RocksDB: the voters of the conf state key ({}: absent or empty)
  open,         \* the process runs and the adapter has been constructed
  hard_state,   \* memory: hard_state
  conf_state,   \* memory: voters of conf_state
  phase,        \* where the async call in progress stands
  batch,        \* its entries_to_save; kept when it fails, until it is retried
  nput,         \* how many of them have been put
  newHs,        \* the hard state being saved
  log           \* history: the log raft-rs believes is stored

dbVars == <<dbLog, dbHardState, dbConfState>>
memVars == <<entries, hard_state, conf_state>>
callVars == <<phase, batch, nput, newHs>>
vars == <<dbVars, open, memVars, callVars, log>>

-----------------------------------------------------------------------------
(* Writing *)

Init ==
  /\ dbLog = [i \in Index |-> NoEntry]
  /\ dbHardState = DefaultHardState
  /\ dbConfState = {}
  /\ open = FALSE
  /\ entries = <<>>
  /\ hard_state = DefaultHardState
  /\ conf_state = {}
  /\ phase = "idle"
  /\ batch = <<>>
  /\ nput = 0
  /\ newHs = DefaultHardState
  /\ log = <<>>

\* Faulty variant: the configured peers replace the persisted voters.
new_with_bootstrap_always(peers) ==
  /\ ~open
  /\ open' = TRUE
  /\ entries' = load_entries
  /\ hard_state' = dbHardState
  /\ dbConfState' = peers
  /\ conf_state' = peers
  /\ batch' = <<>>
  /\ log' = entries'
  /\ UNCHANGED <<dbLog, dbHardState, phase, nput, newHs>>

\* new_with_bootstrap: load everything; a configuration without voters is
\* replaced by the configured peers and persisted.  raft-rs takes what it
\* finds for its log.
new_with_bootstrap(peers) ==
  /\ ~open
  /\ open' = TRUE
  /\ entries' = load_entries
  /\ hard_state' = dbHardState
  /\ dbConfState' = IF dbConfState = {} THEN peers ELSE dbConfState
  /\ conf_state' = dbConfState'
  /\ batch' = <<>>
  /\ log' = entries'
  /\ UNCHANGED <<dbLog, dbHardState, phase, nput, newHs>>

\* Faulty variant: the cache is updated before the puts.
append_entries_cache_first(b) ==
  /\ open
  /\ phase = "idle"
  /\ phase' = "put"
  /\ batch' = b
  /\ nput' = 0
  /\ entries' = entries \o b
  /\ UNCHANGED <<dbVars, open, hard_state, conf_state, newHs, log>>

\* append_entries(b) up to the first put: the entries are encoded.
append_entries(b) ==
  /\ open
  /\ phase = "idle"
  /\ phase' = "put"
  /\ batch' = b
  /\ nput' = 0
  /\ UNCHANGED <<dbVars, open, memVars, newHs, log>>

\* Faulty variant: the last entry is put first.
PutEntry_backwards ==
  /\ phase = "put"
  /\ nput < Len(batch)
  /\ LET e == batch[Len(batch) - nput] IN dbLog' = [dbLog EXCEPT ![e.index] = e]
  /\ nput' = nput + 1
  /\ UNCHANGED <<dbHardState, dbConfState, open, memVars, phase, batch, newHs, log>>

\* One iteration of the loop of puts.
PutEntry ==
  /\ phase = "put"
  /\ nput < Len(batch)
  /\ LET e == batch[nput + 1] IN dbLog' = [dbLog EXCEPT ![e.index] = e]
  /\ nput' = nput + 1
  /\ UNCHANGED <<dbHardState, dbConfState, open, memVars, phase, batch, newHs, log>>

\* After the last put: the entries are pushed onto the cached vector and
\* append_entries returns Ok.
PushEntries ==
  /\ phase = "put"
  /\ nput = Len(batch)
  /\ entries' = entries \o batch
  /\ log' = SubSeq(log, 1, batch[1].index - 1) \o batch
  /\ phase' = "idle"
  /\ batch' = <<>>
  /\ nput' = 0
  /\ UNCHANGED <<dbVars, open, hard_state, conf_state, newHs>>

\* save_hard_state(hs), up to its put.
save_hard_state(hs) ==
  /\ open
  /\ phase = "idle"
  /\ phase' = "hs_put"
  /\ newHs' = hs
  /\ UNCHANGED <<dbVars, open, memVars, batch, nput, log>>

PutHardState ==
  /\ phase = "hs_put"
  /\ dbHardState' = newHs
  /\ phase' = "hs_cache"
  /\ UNCHANGED <<dbLog, dbConfState, open, memVars, batch, nput, newHs, log>>

\* save_hard_state returns Ok.
CacheHardState ==
  /\ phase = "hs_cache"
  /\ hard_state' = newHs
  /\ phase' = "idle"
  /\ newHs' = DefaultHardState
  /\ UNCHANGED <<dbVars, open, entries, conf_state, batch, nput, log>>

\* Faulty variant: the error of a put of an entry is ignored.
PutFails_ignored ==
  /\ phase = "put" /\ nput < Len(batch)
  /\ nput' = nput + 1
  /\ UNCHANGED <<dbVars, open, memVars, phase, batch, newHs, log>>

\* A put fails: the call returns the error, nothing else is touched.
PutFails ==
  /\ \/ phase = "put" /\ nput < Len(batch)
     \/ phase = "hs_put"
  /\ phase' = "idle"
  /\ nput' = 0
  /\ newHs' = DefaultHardState
  /\ UNCHANGED <<dbVars, open, memVars, batch, log>>

\* The process stops; what was put stays (RocksDB's log survives the process).
Crash ==
  /\ open
  /\ open' = FALSE
  /\ entries' = <<>>
  /\ hard_state' = DefaultHardState
  /\ conf_state' = {}
  /\ phase' = "idle"
  /\ nput' = 0
  /\ newHs' = DefaultHardState
  /\ UNCHANGED <<dbVars, batch, log>>

-----------------------------------------------------------------------------
(* The caller *)

\* A batch raft-rs may hand to append_entries: consecutive indexes, terms
\* that do not decrease, starting after the committed prefix.  Entries left
\* over from a failed append are offered again (raft-rs still holds them as
\* unstable).  A batch that starts within the log replaces it from an entry
\* that differs in term (a conflict), or repeats the end of the log.
Batch(b) ==
  /\ b # <<>>
  /\ LET first == b[1].index IN
     /\ first \in 1..(Len(log) + 1)
     /\ \A k \in DOMAIN b : b[k].index = first + k - 1
     /\ \A k \in 2..Len(b) : b[k - 1].term <= b[k].term
     /\ first > 1 => log[first - 1].term <= b[1].term
     /\ batch # <<>> => first <= batch[1].index
     /\ Len(entries) + Len(b) <= MaxCache
     /\ \/ /\ first = Len(log) + 1
           /\ Rewrites \/ IsPrefix(batch, b)
        \/ /\ first <= Len(log)
           /\ Rewrites
           /\ first > hard_state.commit
           /\ \/ log[first].term # b[1].term
              \/ IsPrefix(SubSeq(log, first, Len(log)), b)

\* A hard state raft-rs may ask to save: the term does not go back, a commit
\* index moves forward within the log.
NextHardState(hs) ==
  /\ hs.term >= hard_state.term
  /\ hs.commit >= hard_state.commit
  /\ hs.commit <= Len(log)
  /\ batch = <<>>

\* The batches of consecutive entries from first on: with given terms and
\* payloads, of length n, of any length.
Entries(first, ts, ps) ==
  [k \in DOMAIN ts |-> [index |-> first + k - 1, term |-> ts[k], data |-> ps[k]]]

BatchesOf(first, n) ==
  { Entries(first, ts, ps) : ts \in [1..n -> Term \ {0}], ps \in [1..n -> Payload] }

BatchesAt(first) == UNION { BatchesOf(first, n) : n \in 1..(MaxIndex - first + 1) }

\* One step, in which a call starts with the batch b or the hard state hs.
Step(b, hs) ==
  \/ \E peers \in PeerConfigs : new_with_bootstrap(peers)
  \/ Batch(b) /\ append_entries(b)
  \/ PutEntry
  \/ PushEntries
  \/ NextHardState(hs) /\ save_hard_state(hs)
  \/ PutHardState
  \/ CacheHardState
  \/ PutFails
  \/ Crash

Next ==
  \/ \E peers \in PeerConfigs : new_with_bootstrap(peers)
  \/ \E first \in Index : \E b \in BatchesAt(first) : Batch(b) /\ append_entries(b)
  \/ PutEntry
  \/ PushEntries
  \/ \E hs \in HardState : NextHardState(hs) /\ save_hard_state(hs)
  \/ PutHardState
  \/ CacheHardState
  \/ PutFails
  \/ Crash

Spec == Init /\ [][Next]_vars

\* The same behaviours for a module that implements this one: the argument of
\* a call is what the call stores, so nothing has to be enumerated.
Implemented == Init /\ [][Step(batch', newHs')]_vars

-----------------------------------------------------------------------------
(* Properties *)

TypeOK ==
  /\ dbLog \in [Index -> Entry \cup {NoEntry}]
  /\ dbHardState \in HardState
  /\ dbConfState \in SUBSET Nodes
  /\ open \in BOOLEAN
  /\ entries \in Seq(Entry)
  /\ hard_state \in HardState
  /\ conf_state \in SUBSET Nodes
  /\ phase \in {"idle", "put", "hs_put", "hs_cache"}
  /\ batch \in Seq(Entry)
  /\ nput \in 0..Len(batch)
  /\ newHs \in HardState
  /\ log \in Seq(Entry)

\* A log that is never overwritten is answered exactly: while the adapter is
\* open, also in the middle of an append or after one that failed, the cache
\* is the log raft-rs believes is stored (append_entries, load_entries).
CacheIsLog == open /\ ~Rewrites => entries = log

\* What entries() must return: a prefix of the requested part of the log, not
\* empty unless that part is, within the limit unless it is one entry, and
\* not extensible (entries(), max_size as raft-rs's limit_size defines it).
ReadAnswers(low, high, max_size, ans) ==
  LET want == SubSeq(log, low, high - 1)
      weight(s) == FoldLeft(LAMBDA a, e : a + Size[e.data], 0, s)
  IN  /\ IsPrefix(ans, want)
      /\ want # <<>> => ans # <<>>
      /\ Len(ans) > 1 => weight(ans) <= max_size
      /\ Len(ans) < Len(want) => weight(SubSeq(want, 1, Len(ans) + 1)) > max_size

\* Every query of the Storage trait answers from that log: bounds, terms and
\* size-limited ranges, at every moment a reader can come in.
QueriesAnswerLog ==
  open /\ ~Rewrites =>
    /\ first_index = 1
    /\ \A i \in 1..Len(log) : HasTerm(i) /\ term(i) = log[i].term
    /\ \A low \in 1..Len(log) : \A high \in (low + 1)..(Len(log) + 1) :
         \A limit \in 0..4 : ReadAnswers(low, high, limit, read_entries(low, high, limit))

\* last_index() is the end of the log even when parts of the log have been
\* overwritten: the newest batch is at the end of the cached vector.
LastIndexIsLogEnd == open => last_index = Len(log)

\* Every stored index is on disk with the entry of the log, except where an
\* append in progress (or failed, to be retried) is replacing it.
DiskHoldsLog ==
  \A i \in 1..Len(log) :
    dbLog[i] = log[i] \/ (batch # <<>> /\ i >= batch[1].index)

\* The log keys on disk have no hole, whatever put a crash or an error hit.
DiskHasNoHole ==
  \A i \in Index : dbLog[i] # NoEntry => \A j \in 1..i : dbLog[j] # NoEntry /\ dbLog[j].index = j

\* A hard state on disk never commits an index that is not on disk: raft-rs
\* refuses to start from such a state.
CommitWithinDisk == \A i \in 1..dbHardState.commit : dbLog[i] # NoEntry

\* A restart, whichever put a crash or an error cut short before it, brings
\* back every stored entry but those the unfinished append was replacing.
RestartKeepsAppends ==
  [][~open /\ open' => \A i \in 1..Len(log) :
       (batch # <<>> => i < batch[1].index) => i <= Len(entries') /\ entries'[i] = log[i]]_vars

\* When every append has returned, a restart finds exactly the stored log.
RestartAddsNothing == [][~open /\ open' /\ batch = <<>> => entries' = log]_vars

\* For logs that are never overwritten a restart finds the stored log and
\* possibly the first entries of an append that had not returned.
RestartAddsNothingWithoutConflict ==
  [][~open /\ open' /\ ~Rewrites => IsPrefix(entries', log \o batch)]_vars

\* Voters, once persisted, stay, whatever peers later configurations list.
VotersPermanent == [][dbConfState # {} => dbConfState' = dbConfState /\ (open' => conf_state' = dbConfState)]_vars

=============================================================================
