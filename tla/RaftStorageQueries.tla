------------------------- MODULE RaftStorageQueries -------------------------
(***************************************************************************)
(* What RaftStorageAdapter (src/raft/storage.rs) answers to raft-rs, and   *)
(* what it loads at start-up: functions of the log keys in RocksDB and of  *)
(* the cached vector, which raft-rs reads through the Storage trait.       *)
(***************************************************************************)
EXTENDS Integers, Sequences, FiniteSets, FiniteSetsExt

CONSTANTS
  MaxIndex,       \* bound on log indexes
  Size,           \* Size[p]: encoded_len of an entry carrying p
  NoEntry,        \* value of a log key that is absent
  NoLimit         \* entries() without a size limit

VARIABLES
  dbLog,        \* RocksDB: the entry under each log key, or NoEntry
  entries       \* memory: entries

Index == 1..MaxIndex

\* The elements of a finite set of numbers in ascending order: the k-th has
\* k - 1 smaller ones.
Ascending(S) ==
  [k \in 1..Cardinality(S) |->
     CHOOSE x \in S : Cardinality({y \in S : y < x}) = k - 1]

\* Faulty variants of load_entries: it starts from an empty vector, does not
\* sort, or does not look whether the key is there.
load_entries_none == <<>>
load_entries_unsorted ==
  LET order == Ascending({i \in Index : dbLog[i] # NoEntry})
  IN  [k \in DOMAIN order |-> dbLog[order[Len(order) + 1 - k]]]
load_entries_unchecked == [i \in Index |-> dbLog[i]]

\* load_entries: every entry found under the log prefix, sorted by index.
load_entries ==
  LET keys == {i \in Index : dbLog[i] # NoEntry}
      order == Ascending(keys)
  IN  [k \in DOMAIN order |-> dbLog[order[k]]]

\* snapshot_index and snapshot_term are set to 0 by new_inner and never again.
snapshot_index == 0
snapshot_term == 0

first_index == IF entries = <<>> THEN snapshot_index + 1 ELSE entries[1].index

\* Faulty variant: the greatest index in the cache.
last_index_greatest ==
  IF entries = <<>> THEN snapshot_index ELSE Max({entries[p].index : p \in DOMAIN entries})

last_index == IF entries = <<>> THEN snapshot_index ELSE entries[Len(entries)].index

Positions(idx) == {p \in DOMAIN entries : entries[p].index = idx}

\* get_entry: the first cached entry with this index; callers check that
\* there is one (the code returns Unavailable otherwise).
get_entry(idx) ==
  entries[CHOOSE p \in Positions(idx) : \A q \in Positions(idx) : p <= q]

\* term(idx) for an index the adapter knows.
HasTerm(idx) == idx = snapshot_index \/ Positions(idx) # {}
term(idx) == IF idx = snapshot_index THEN snapshot_term ELSE get_entry(idx).term

\* Faulty variant: the size limit may leave nothing.
read_entries_strict(low, high, max_size) ==
  LET hits == SelectSeq(entries, LAMBDA e : low <= e.index /\ e.index < high)
      total[n \in 0..Len(hits)] == IF n = 0 THEN 0 ELSE total[n - 1] + Size[hits[n].data]
  IN  SubSeq(hits, 1, Max({n \in 0..Len(hits) : max_size = NoLimit \/ total[n] <= max_size}))

\* entries(low, high, max_size): the cached entries in [low, high) in cache
\* order, cut before the first one that exceeds the limit, but never to
\* nothing.  <<>> stands for Err(Unavailable).
read_entries(low, high, max_size) ==
  LET hits == Ascending({p \in DOMAIN entries : /\ low <= entries[p].index
                                                /\ entries[p].index < high})
      found == [k \in DOMAIN hits |-> entries[hits[k]]]
      total[n \in 0..Len(found)] ==
        IF n = 0 THEN 0 ELSE total[n - 1] + Size[found[n].data]
      fits == {n \in 0..Len(found) : n <= 1 \/ total[n] <= max_size}
  IN  IF max_size = NoLimit THEN found ELSE SubSeq(found, 1, Max(fits))

=============================================================================
