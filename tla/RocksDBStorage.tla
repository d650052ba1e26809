--------------------------- MODULE RocksDBStorage ---------------------------
(***************************************************************************)
(* RocksDBStorage (src/storage/rocksdb_storage.rs): the Storage trait over *)
(* one RocksDB column family.  Keys are byte strings, kept in byte order.  *)
(* Every call holds the RwLock for its whole length, a listing included,   *)
(* so a call is one step.                                                  *)
(***************************************************************************)
EXTENDS Integers, Sequences, FiniteSets

LOCAL INSTANCE SequencesExt       \* IsPrefix, IsStrictPrefix
LOCAL INSTANCE FiniteSetsExt      \* Max

CONSTANTS
  Byte,          \* the bytes used
  MaxLen,        \* bound on key length
  Value          \* values

ASSUME StorageAssumption ==
  /\ Byte \subseteq 0..255
  /\ MaxLen \in Nat

BytesUpTo(n) == UNION {[1..len -> Byte] : len \in 0..n}
Key == BytesUpTo(MaxLen)

VARIABLE db      \* the pairs stored

-----------------------------------------------------------------------------
(* Reading *)

starts_with(k, p) == IsPrefix(p, k)

\* RocksDB's default comparator: byte by byte, a proper prefix comes first.
Before(a, b) ==
  \/ IsStrictPrefix(a, b)
  \/ \E n \in DOMAIN a \cap DOMAIN b : a[n] < b[n] /\ \A m \in 1..(n - 1) : a[m] = b[m]

\* The keys of S in the order an iterator visits them.
Iterated(S) ==
  [n \in 1..Cardinality(S) |-> CHOOSE k \in S : Cardinality({j \in S : Before(j, k)}) = n - 1]

exists(k) == k \in DOMAIN db

\* IteratorMode::Start.
list_all == Iterated(DOMAIN db)

\* Faulty variant: the seek passes a key equal to the prefix.
list_keys_exclusive(p) ==
  LET iter == Iterated({k \in DOMAIN db : Before(p, k)})
      run == {n \in 0..Len(iter) : \A m \in 1..n : starts_with(iter[m], p)}
  IN  SubSeq(iter, 1, Max(run))

\* IteratorMode::From(p): seek to the first key not before p, and push keys up
\* to the first one that does not start with p.
list_keys(p) ==
  LET iter == Iterated({k \in DOMAIN db : ~Before(k, p)})
      run == {n \in 0..Len(iter) : \A m \in 1..n : starts_with(iter[m], p)}
  IN  SubSeq(iter, 1, Max(run))

-----------------------------------------------------------------------------
(* Writing *)

new == db = [k \in {} |-> 0]

put(k, v) ==
  db' = [j \in DOMAIN db \cup {k} |-> IF j = k THEN v ELSE db[j]]

\* Faulty variant: the key stays, without a value.
delete_blank(k) ==
  db' = [j \in DOMAIN db \cup {k} |-> IF j = k THEN <<>> ELSE db[j]]

delete(k) ==
  db' = [j \in DOMAIN db \ {k} |-> db[j]]

-----------------------------------------------------------------------------
(* Properties *)

\* The type of the store.
StoreOK ==
  /\ DOMAIN db \subseteq Key
  /\ \A k \in DOMAIN db : db[k] \in Value

\* Seeking to the prefix and stopping at the first key past it returns exactly
\* the keys a filter over the whole store would, each once, in byte order; a
\* prefix that is itself a key, or ends in the last byte, is no exception.
PrefixScanIsFilter ==
  \A p \in BytesUpTo(MaxLen + 1) :
    list_keys(p) = SelectSeq(list_all, LAMBDA k : starts_with(k, p))

=============================================================================
