---------------------- MODULE RaftStorageAdapterProofs ----------------------
(***************************************************************************)
(* Proofs about RaftStorageAdapter, for every value of its constants: with *)
(* and without overwritten logs, failing puts and crashes at any await.    *)
(*                                                                         *)
(* None of the properties is inductive on its own.  Inv adds what ties the *)
(* five copies of the log together: where the disk ends, that the disk     *)
(* holds the part of the batch already put, and that a batch kept after a  *)
(* failed call still continues (or overlaps) the log.                      *)
(***************************************************************************)
EXTENDS RaftStorageAdapter, FiniteSetTheorems, SequenceTheorems, TLAPS

\* Consecutive indexes from first on.
Numbered(s, first) == \A k \in DOMAIN s : s[k].index = first + k - 1

OnDisk(i) == dbLog[i] # NoEntry

\* The calls: nothing runs while the adapter is closed, and a put in progress
\* has a batch that starts within or right after the log.  An open adapter
\* caches the voters that are on disk.
CallInv ==
  /\ open => conf_state = dbConfState
  /\ phase # "idle" => open
  /\ phase # "put" => nput = 0
  /\ phase = "put" => batch # <<>>
  /\ Numbered(log, 1)
  /\ batch # <<>> => /\ Numbered(batch, batch[1].index)
                     /\ batch[1].index <= Len(log) + 1
                     /\ ~Rewrites => batch[1].index = Len(log) + 1

\* The disk: the keys 1..n and no other, n not below the end of the log, each
\* with the entry of its own index; the batch as far as it was put.
DiskInv ==
  /\ \E n \in 0..MaxIndex : Len(log) <= n /\ \A i \in Index : OnDisk(i) <=> i <= n
  /\ \A i \in Index : OnDisk(i) => dbLog[i].index = i
  /\ phase = "put" => \A k \in 1..nput : dbLog[batch[k].index] = batch[k]

\* Beyond the log, a disk that is never overwritten holds the batch.
TailInv ==
  ~Rewrites => \A i \in Index : OnDisk(i) /\ i > Len(log) =>
    /\ i - Len(log) <= Len(batch)
    /\ dbLog[i] = batch[i - Len(log)]

\* The commit index on disk and the one about to be.
CommitInv ==
  /\ CommitWithinDisk
  /\ phase = "hs_put" => newHs.commit <= Len(log)

Inv ==
  /\ TypeOK
  /\ CallInv
  /\ DiskInv
  /\ TailInv
  /\ CommitInv
  /\ DiskHoldsLog
  /\ LastIndexIsLogEnd
  /\ CacheIsLog

-----------------------------------------------------------------------------
(* Loading *)

\* Sorting the numbers 1..n leaves each where it is.
LEMMA AscendingInterval ==
  ASSUME NEW n \in Nat
  PROVE  Ascending(1..n) = [k \in 1..n |-> k]
<1>1. Cardinality(1..n) = n
  BY FS_Interval
<1>2. ASSUME NEW k \in 1..n
      PROVE  (CHOOSE x \in 1..n : Cardinality({y \in 1..n : y < x}) = k - 1) = k
  <2>1. \A x \in 1..n : {y \in 1..n : y < x} = 1..(x - 1)
    OBVIOUS
  <2>2. \A x \in 1..n : Cardinality({y \in 1..n : y < x}) = x - 1
    <3>1. TAKE x \in 1..n
    <3>2. Cardinality(1..(x - 1)) = x - 1
      BY FS_Interval
    <3> QED BY <2>1, <3>2
  <2> QED BY <2>2
<1> QED BY <1>1, <1>2 DEF Ascending

\* load_entries returns what is under the keys 1..n: the log and, maybe, more.
LEMMA LoadEntries ==
  ASSUME TypeOK, DiskInv
  PROVE  \E n \in 0..MaxIndex :
           /\ Len(log) <= n
           /\ \A i \in Index : OnDisk(i) <=> i <= n
           /\ load_entries = [k \in 1..n |-> dbLog[k]]
           /\ load_entries \in Seq(Entry)
           /\ Len(load_entries) = n
           /\ \A k \in 1..n : load_entries[k] = dbLog[k]
<1>1. PICK n \in 0..MaxIndex : Len(log) <= n /\ \A i \in Index : OnDisk(i) <=> i <= n
  BY DEF DiskInv
<1>2. n \in Nat
  BY AdapterAssumption DEF AdapterAssumption
<1>3. {i \in Index : dbLog[i] # NoEntry} = 1..n
  BY <1>1, AdapterAssumption DEF Index, OnDisk
<1>4. Ascending(1..n) = [k \in 1..n |-> k]
  BY <1>2, AscendingInterval
<1>5. load_entries = [k \in 1..n |-> dbLog[k]]
  BY <1>3, <1>4 DEF load_entries
<1>6. \A k \in 1..n : dbLog[k] \in Entry
  BY <1>1, AdapterAssumption DEF TypeOK, Index, OnDisk
<1>7. load_entries \in Seq(Entry) /\ Len(load_entries) = n
  BY <1>2, <1>5, <1>6
<1> QED BY <1>1, <1>5, <1>7

\* A non-empty sequence of entries has a first one, with an index.
LEMMA FirstEntry ==
  ASSUME NEW s \in Seq(Entry), s # <<>>
  PROVE  Len(s) \in Nat /\ Len(s) >= 1 /\ s[1] \in Entry /\ s[1].index \in Index /\ s[1].index \in Nat
<1>1. Len(s) \in Nat /\ Len(s) >= 1 /\ s[1] \in Entry
  BY EmptySeq
<1> QED BY <1>1, AdapterAssumption DEF Entry, Index, AdapterAssumption

-----------------------------------------------------------------------------
(* Every step preserves Inv *)

LEMMA InitInv == Init => Inv
<1> SUFFICES ASSUME Init PROVE Inv
  OBVIOUS
<1> USE AdapterAssumption DEF Init, AdapterAssumption
<1>1. TypeOK
  <2>1. DefaultHardState \in HardState
    BY DEF DefaultHardState, HardState, Term
  <2>2. <<>> \in Seq(Entry) /\ Len(<<>>) = 0
    BY EmptySeq
  <2>3. 0 \in 0..Len(<<>>)
    BY <2>2
  <2> QED BY <2>1, <2>2, <2>3 DEF TypeOK
<1>2. CallInv
  BY DEF CallInv, Numbered
<1>3. DiskInv
  <2>1. Len(log) <= 0 /\ \A i \in Index : OnDisk(i) <=> i <= 0
    BY DEF OnDisk, Index
  <2>2. 0 \in 0..MaxIndex
    OBVIOUS
  <2>3. \A i \in Index : ~OnDisk(i)
    BY DEF OnDisk
  <2> QED BY <2>1, <2>2, <2>3 DEF DiskInv
<1>4. TailInv /\ CommitInv /\ DiskHoldsLog
  BY DEF TailInv, CommitInv, CommitWithinDisk, DiskHoldsLog, DefaultHardState, OnDisk
<1>5. LastIndexIsLogEnd /\ CacheIsLog
  BY DEF LastIndexIsLogEnd, CacheIsLog
<1> QED BY <1>1, <1>2, <1>3, <1>4, <1>5 DEF Inv

\* A start: the log is what was loaded.
LEMMA NewStep ==
  ASSUME Inv, NEW peers \in PeerConfigs, new_with_bootstrap(peers)
  PROVE  Inv'
<1> USE AdapterAssumption DEF AdapterAssumption
<1>1. PICK n \in 0..MaxIndex :
        /\ Len(log) <= n
        /\ \A i \in Index : OnDisk(i) <=> i <= n
        /\ load_entries \in Seq(Entry)
        /\ Len(load_entries) = n
        /\ \A k \in 1..n : load_entries[k] = dbLog[k]
  BY LoadEntries DEF Inv
<1>2. /\ log' \in Seq(Entry) /\ entries' = log' /\ Len(log') = n
      /\ \A k \in 1..n : log'[k] = dbLog[k]
      /\ dbLog' = dbLog
      /\ phase = "idle" /\ phase' = "idle" /\ nput' = 0 /\ batch' = <<>>
  BY <1>1 DEF new_with_bootstrap, Inv, CallInv
<1>3. TypeOK'
  BY <1>2 DEF new_with_bootstrap, Inv, TypeOK
<1>4. \A k \in 1..n : dbLog[k].index = k /\ k \in Index
  BY <1>1 DEF Inv, DiskInv, Index
<1>5. CallInv'
  BY <1>2, <1>4 DEF new_with_bootstrap, CallInv, Numbered
<1>6. DiskInv'
  <2>1. \A i \in Index : OnDisk(i)' <=> i <= n
    BY <1>1, <1>2 DEF OnDisk
  <2>2. \A i \in Index : OnDisk(i)' => dbLog'[i].index = i
    BY <1>2 DEF Inv, DiskInv, OnDisk
  <2>3. Len(log') <= n /\ phase' # "put"
    BY <1>2
  <2>4. \E m \in 0..MaxIndex : Len(log') <= m /\ \A i \in Index : OnDisk(i)' <=> i <= m
    BY <2>1, <2>3
  <2> QED BY <2>2, <2>3, <2>4 DEF DiskInv
<1>7. TailInv'
  <2> SUFFICES ASSUME NEW i \in Index, OnDisk(i)', i > Len(log')
               PROVE  FALSE
    BY DEF TailInv
  <2> QED BY <1>1, <1>2 DEF OnDisk, Index
<1>8. CommitInv'
  BY <1>2 DEF new_with_bootstrap, Inv, CommitInv, CommitWithinDisk
<1>9. DiskHoldsLog'
  BY <1>2 DEF DiskHoldsLog
<1>10. LastIndexIsLogEnd'
  BY <1>2, <1>4 DEF LastIndexIsLogEnd, last_index, snapshot_index
<1>11. CacheIsLog'
  BY <1>2 DEF CacheIsLog
<1> QED BY <1>3, <1>5, <1>6, <1>7, <1>8, <1>9, <1>10, <1>11 DEF Inv

\* A call of append_entries: a batch kept from a failed call is replaced by one
\* that covers it.
LEMMA AppendStep ==
  ASSUME Inv, NEW b \in Seq(Entry), Batch(b), append_entries(b)
  PROVE  Inv'
<1> USE AdapterAssumption DEF AdapterAssumption
<1>1. /\ b # <<>>
      /\ b[1].index \in 1..(Len(log) + 1)
      /\ Numbered(b, b[1].index)
      /\ batch # <<>> => b[1].index <= batch[1].index
      /\ ~Rewrites => b[1].index = Len(log) + 1 /\ IsPrefix(batch, b)
  BY DEF Batch, Numbered, Inv, TypeOK
<1>2. /\ batch' = b /\ nput' = 0 /\ phase' = "put"
      /\ UNCHANGED <<dbLog, dbHardState, dbConfState, open, entries, hard_state, conf_state, newHs, log>>
  BY DEF append_entries, dbVars, memVars
<1>3. TypeOK'
  BY <1>2 DEF Inv, TypeOK
<1>4. CallInv'
  BY <1>1, <1>2 DEF append_entries, Inv, CallInv, Numbered
<1>5. DiskInv' /\ CommitInv'
  BY <1>2 DEF Inv, DiskInv, CommitInv, CommitWithinDisk, OnDisk
<1>6. TailInv'
  <2> SUFFICES ASSUME ~Rewrites, NEW i \in Index, OnDisk(i), i > Len(log)
               PROVE  i - Len(log) <= Len(b) /\ dbLog[i] = b[i - Len(log)]
    BY <1>2 DEF TailInv, OnDisk
  <2>1. i - Len(log) <= Len(batch) /\ dbLog[i] = batch[i - Len(log)]
    BY DEF Inv, TailInv
  <2>2. Len(batch) <= Len(b) /\ SubSeq(batch, 1, Len(batch)) = SubSeq(b, 1, Len(batch))
    BY <1>1 DEF IsPrefix
  <2>3. \A k \in 1..Len(batch) : batch[k] = b[k]
    BY <2>2, SubSeqProperties DEF Inv, TypeOK
  <2>4. i - Len(log) \in 1..Len(batch)
    BY <2>1 DEF Index, Inv, TypeOK
  <2> QED BY <2>1, <2>2, <2>3, <2>4 DEF Inv, TypeOK
<1>7. DiskHoldsLog'
  <2> SUFFICES ASSUME NEW i \in 1..Len(log), dbLog[i] # log[i]
               PROVE  i >= b[1].index
    BY <1>1, <1>2 DEF DiskHoldsLog
  <2>1. batch # <<>> /\ i >= batch[1].index
    BY DEF Inv, DiskHoldsLog
  <2>2. batch[1].index \in Int /\ b[1].index \in Int
    BY <1>1, <2>1, FirstEntry DEF Inv, TypeOK
  <2> QED BY <1>1, <2>1, <2>2
<1>8. LastIndexIsLogEnd' /\ CacheIsLog'
  BY <1>2 DEF Inv, LastIndexIsLogEnd, last_index, CacheIsLog
<1> QED BY <1>3, <1>4, <1>5, <1>6, <1>7, <1>8 DEF Inv

\* One put.  The entry lands at its own index, at most one after the disk's end.
LEMMA PutStep ==
  ASSUME Inv, PutEntry
  PROVE  Inv'
<1> USE AdapterAssumption DEF AdapterAssumption
<1> DEFINE e == batch[nput + 1]
           first == batch[1].index
<1>1. /\ phase = "put" /\ batch # <<>> /\ batch \in Seq(Entry) /\ log \in Seq(Entry)
      /\ nput \in Nat /\ nput + 1 \in 1..Len(batch)
      /\ dbLog \in [Index -> Entry \cup {NoEntry}]
      /\ Numbered(batch, first) /\ first <= Len(log) + 1
  BY DEF PutEntry, Inv, CallInv, TypeOK
<1>2. first \in Nat /\ first \in Index
  BY <1>1, FirstEntry
<1>3. e \in Entry /\ e.index \in Index /\ e.index = first + nput /\ e # NoEntry
  <2>1. e \in Entry
    BY <1>1
  <2>2. e # NoEntry
    BY <2>1, NoEntryAssumption DEF NoEntryAssumption
  <2>3. e.index \in Index
    BY <2>1 DEF Entry
  <2>4. e.index = first + (nput + 1) - 1
    BY <1>1 DEF Numbered
  <2> QED BY <1>1, <1>2, <2>1, <2>2, <2>3, <2>4
<1>4. /\ dbLog' = [dbLog EXCEPT ![e.index] = e] /\ nput' = nput + 1
      /\ UNCHANGED <<dbHardState, dbConfState, open, entries, hard_state, conf_state, phase,
                     batch, newHs, log>>
  BY DEF PutEntry, memVars
<1> HIDE DEF e
<1>5. TypeOK'
  <2>1. dbLog' \in [Index -> Entry \cup {NoEntry}]
    BY <1>1, <1>3, <1>4
  <2>2. nput' \in 0..Len(batch')
    BY <1>1, <1>4
  <2> QED BY <1>4, <2>1, <2>2 DEF Inv, TypeOK
<1>6. CallInv'
  BY <1>1, <1>4 DEF Inv, CallInv, Numbered
<1>7. /\ dbLog'[e.index] = e
      /\ \A i \in Index : i # e.index => dbLog'[i] = dbLog[i]
  BY <1>1, <1>3, <1>4
<1>8. \A i \in Index : OnDisk(i) => OnDisk(i)'
  BY <1>3, <1>7 DEF OnDisk
<1>9. \A k \in 1..nput : batch[k] \in Entry /\ batch[k].index = first + k - 1
                         /\ batch[k].index \in Index /\ batch[k].index # e.index
                         /\ dbLog[batch[k].index] = batch[k]
  <2> TAKE k \in 1..nput
  <2>1. batch[k] \in Entry /\ batch[k].index = first + k - 1
    BY <1>1 DEF Numbered
  <2>2. batch[k].index \in Index
    BY <2>1 DEF Entry
  <2>3. dbLog[batch[k].index] = batch[k]
    BY <1>1 DEF Inv, DiskInv
  <2> QED BY <1>1, <1>2, <1>3, <2>1, <2>2, <2>3
<1>10. DiskInv'
  <2>1. PICK n \in 0..MaxIndex : Len(log) <= n /\ \A i \in Index : OnDisk(i) <=> i <= n
    BY DEF Inv, DiskInv
  <2>2. e.index <= n + 1
    <3>1. CASE nput = 0
      BY <1>1, <1>2, <1>3, <2>1, <3>1
    <3>2. CASE nput > 0
      <4>1. nput \in 1..nput
        BY <1>1, <3>2
      <4>2. batch[nput].index = first + nput - 1 /\ batch[nput].index \in Index
            /\ OnDisk(batch[nput].index)
        BY <1>9, <4>1, NoEntryAssumption DEF OnDisk, NoEntryAssumption
      <4> QED BY <1>1, <1>2, <1>3, <2>1, <4>2
    <3> QED BY <1>1, <3>1, <3>2
  <2> DEFINE m == IF e.index = n + 1 THEN n + 1 ELSE n
  <2>3. m \in 0..MaxIndex /\ Len(log') <= m
    BY <1>1, <1>3, <1>4, <2>1 DEF Index
  <2>4. \A i \in Index : OnDisk(i)' <=> i <= m
    BY <1>3, <1>7, <2>1, <2>2 DEF OnDisk, Index
  <2>5. \A i \in Index : OnDisk(i)' => dbLog'[i].index = i
    BY <1>3, <1>7 DEF OnDisk, Inv, DiskInv
  <2>6. \A k \in 1..nput' : dbLog'[batch'[k].index] = batch'[k]
    <3> SUFFICES ASSUME NEW k \in 1..(nput + 1) PROVE dbLog'[batch[k].index] = batch[k]
      BY <1>4
    <3>1. CASE k = nput + 1
      BY <1>7, <3>1 DEF e
    <3>2. CASE k # nput + 1
      <4>1. k \in 1..nput
        BY <1>1, <3>2
      <4> QED BY <1>7, <1>9, <4>1
    <3> QED BY <3>1, <3>2
  <2> HIDE DEF m
  <2> QED BY <2>3, <2>4, <2>5, <2>6 DEF DiskInv
<1>11. TailInv'
  <2> SUFFICES ASSUME ~Rewrites, NEW i \in Index, OnDisk(i)', i > Len(log)
               PROVE  i - Len(log) <= Len(batch) /\ dbLog'[i] = batch[i - Len(log)]
    BY <1>4 DEF TailInv
  <2>1. first = Len(log) + 1
    BY <1>1 DEF Inv, CallInv
  <2>2. CASE i = e.index
    <3>1. i - Len(log) = nput + 1
      BY <1>1, <1>2, <1>3, <2>1, <2>2
    <3> QED BY <1>1, <1>7, <2>2, <3>1 DEF e
  <2>3. CASE i # e.index
    BY <1>7, <2>3 DEF OnDisk, Inv, TailInv
  <2> QED BY <2>2, <2>3
<1>12. CommitInv'
  <2>1. \A i \in 1..dbHardState.commit : i \in Index
    BY DEF Inv, TypeOK, HardState, Index
  <2> QED BY <1>1, <1>4, <1>8, <2>1 DEF Inv, CommitInv, CommitWithinDisk, OnDisk
<1>13. DiskHoldsLog'
  <2> SUFFICES ASSUME NEW i \in 1..Len(log), dbLog'[i] # log[i]
               PROVE  i >= first
    BY <1>1, <1>4 DEF DiskHoldsLog
  <2>1. i \in Index
    BY <1>1 DEF Inv, DiskInv, Index
  <2>2. CASE i = e.index
    BY <1>1, <1>2, <1>3, <2>2
  <2>3. CASE i # e.index
    BY <1>7, <2>1, <2>3 DEF Inv, DiskHoldsLog
  <2> QED BY <2>2, <2>3
<1>14. LastIndexIsLogEnd' /\ CacheIsLog'
  BY <1>4 DEF Inv, LastIndexIsLogEnd, last_index, CacheIsLog
<1> QED BY <1>5, <1>6, <1>10, <1>11, <1>12, <1>13, <1>14 DEF Inv

\* append_entries returns: the log is the batch on top of what precedes it.
LEMMA PushStep ==
  ASSUME Inv, PushEntries
  PROVE  Inv'
<1> USE AdapterAssumption DEF AdapterAssumption
<1> DEFINE first == batch[1].index
           kept == SubSeq(log, 1, first - 1)
<1>1. /\ phase = "put" /\ batch # <<>> /\ batch \in Seq(Entry) /\ log \in Seq(Entry)
      /\ entries \in Seq(Entry) /\ nput = Len(batch)
      /\ dbLog \in [Index -> Entry \cup {NoEntry}]
      /\ Numbered(batch, first) /\ first <= Len(log) + 1 /\ Numbered(log, 1)
  BY DEF PushEntries, Inv, CallInv, TypeOK
<1>2. first \in Nat /\ first \in Index /\ first >= 1 /\ Len(batch) \in Nat /\ Len(batch) >= 1
  BY <1>1, FirstEntry DEF Index
<1>3. /\ entries' = entries \o batch /\ log' = kept \o batch
      /\ phase' = "idle" /\ batch' = <<>> /\ nput' = 0
      /\ UNCHANGED <<dbLog, dbHardState, dbConfState, open, hard_state, conf_state, newHs>>
  BY DEF PushEntries, dbVars
<1>4. /\ kept \in Seq(Entry) /\ Len(kept) = first - 1
      /\ \A i \in 1..(first - 1) : kept[i] = log[i]
  BY <1>1, <1>2, SubSeqProperties
<1> HIDE DEF kept
<1>5. /\ log' \in Seq(Entry) /\ Len(log') = first - 1 + Len(batch)
      /\ \A i \in 1..(first - 1) : log'[i] = log[i]
      /\ \A k \in 1..Len(batch) : log'[first - 1 + k] = batch[k]
  <2>1. /\ kept \o batch \in Seq(Entry)
        /\ Len(kept \o batch) = Len(kept) + Len(batch)
        /\ \A i \in 1..(Len(kept) + Len(batch)) :
             (kept \o batch)[i] = IF i <= Len(kept) THEN kept[i] ELSE batch[i - Len(kept)]
    <3>1. kept \in Seq(Entry) /\ batch \in Seq(Entry)
      BY <1>1, <1>4
    <3> QED BY <3>1, ConcatProperties
  <2>2. \A i \in 1..(first - 1) : log'[i] = log[i]
    BY <1>2, <1>3, <1>4, <2>1
  <2>3. ASSUME NEW k \in 1..Len(batch) PROVE log'[first - 1 + k] = batch[k]
    <3>1. first - 1 + k \in 1..(Len(kept) + Len(batch)) /\ ~(first - 1 + k <= Len(kept))
      BY <1>2, <1>4
    <3>2. (first - 1 + k) - Len(kept) = k
      BY <1>2, <1>4
    <3> QED BY <1>3, <2>1, <3>1, <3>2
  <2> QED BY <1>2, <1>3, <1>4, <2>1, <2>2, <2>3
<1>6. \A k \in 1..Len(batch) : /\ batch[k] \in Entry /\ batch[k].index = first - 1 + k
                               /\ first - 1 + k \in Index
                               /\ dbLog[first - 1 + k] = batch[k]
  <2> TAKE k \in 1..Len(batch)
  <2>1. batch[k] \in Entry /\ batch[k].index = first + k - 1
    BY <1>1 DEF Numbered
  <2>2. batch[k].index \in Index
    BY <2>1 DEF Entry
  <2>3. dbLog[batch[k].index] = batch[k]
    BY <1>1 DEF Inv, DiskInv
  <2> QED BY <1>2, <2>1, <2>2, <2>3
<1>7. \A i \in 1..Len(log') :
        \/ i \in 1..(first - 1) /\ log'[i] = log[i]
        \/ \E k \in 1..Len(batch) : i = first - 1 + k /\ log'[i] = batch[k]
  <2> TAKE i \in 1..Len(log')
  <2>1. CASE i <= first - 1
    BY <1>2, <1>5, <2>1
  <2>2. CASE i > first - 1
    <3>1. i - (first - 1) \in 1..Len(batch)
      BY <1>2, <1>5, <2>2
    <3>2. i = first - 1 + (i - (first - 1))
      BY <1>2, <1>5
    <3> QED BY <1>5, <3>1, <3>2
  <2> QED BY <1>2, <2>1, <2>2
<1>8. TypeOK'
  <2>1. entries' \in Seq(Entry) /\ batch' \in Seq(Entry)
    BY <1>1, <1>3, ConcatProperties, EmptySeq
  <2>2. nput' \in 0..Len(batch')
    BY <1>3, EmptySeq
  <2> QED BY <1>3, <1>5, <2>1, <2>2 DEF Inv, TypeOK
<1>9. CallInv'
  <2>1. Numbered(log', 1)
    <3> SUFFICES ASSUME NEW i \in 1..Len(log') PROVE log'[i].index = 1 + i - 1
      BY <1>5 DEF Numbered
    <3>1. i \in 1..(first - 1) => log[i].index = 1 + i - 1
      BY <1>1, <1>2 DEF Numbered
    <3>2. ASSUME NEW k \in 1..Len(batch), i = first - 1 + k
          PROVE  batch[k].index = 1 + i - 1
      BY <1>2, <1>6, <3>2
    <3> QED BY <1>7, <3>1, <3>2
  <2> QED BY <1>3, <2>1 DEF Inv, CallInv, Numbered
<1>10. DiskInv'
  <2>1. PICK n \in 0..MaxIndex : Len(log) <= n /\ \A i \in Index : OnDisk(i) <=> i <= n
    BY DEF Inv, DiskInv
  <2>2. Len(log') <= n
    <3>1. Len(batch) \in 1..Len(batch)
      BY <1>2
    <3>2. OnDisk(first - 1 + Len(batch)) /\ first - 1 + Len(batch) \in Index
      BY <1>6, <3>1, NoEntryAssumption DEF OnDisk, NoEntryAssumption
    <3> QED BY <1>5, <2>1, <3>2
  <2>3. \A i \in Index : OnDisk(i)' <=> i <= n
    BY <1>3, <2>1 DEF OnDisk
  <2>4. \A i \in Index : OnDisk(i)' => dbLog'[i].index = i
    BY <1>3 DEF OnDisk, Inv, DiskInv
  <2> QED BY <1>3, <2>2, <2>3, <2>4 DEF DiskInv
<1>11. TailInv'
  <2> SUFFICES ASSUME ~Rewrites, NEW i \in Index, OnDisk(i)', i > Len(log')
               PROVE  FALSE
    BY DEF TailInv
  <2>1. first = Len(log) + 1
    BY <1>1 DEF Inv, CallInv
  <2>2. OnDisk(i) /\ i > Len(log) /\ i - Len(log) > Len(batch)
    BY <1>1, <1>2, <1>3, <1>5, <2>1 DEF OnDisk, Index
  <2> QED BY <1>1, <1>2, <2>2 DEF Inv, TailInv, Index
<1>12. CommitInv'
  BY <1>3 DEF Inv, CommitInv, CommitWithinDisk
<1>13. DiskHoldsLog'
  <2> SUFFICES ASSUME NEW i \in 1..Len(log') PROVE dbLog[i] = log'[i]
    BY <1>3 DEF DiskHoldsLog
  <2>1. i \in 1..(first - 1) => dbLog[i] = log[i]
    BY <1>1, <1>2 DEF Inv, DiskHoldsLog
  <2> QED BY <1>6, <1>7, <2>1
<1>14. LastIndexIsLogEnd'
  <2>1. /\ Len(entries \o batch) = Len(entries) + Len(batch)
        /\ (entries \o batch)[Len(entries) + Len(batch)] = batch[Len(batch)]
    BY <1>1, <1>2, ConcatProperties
  <2>2. batch[Len(batch)].index = first - 1 + Len(batch)
    BY <1>2, <1>6
  <2>3. entries' # <<>>
    BY <1>1, <1>2, <1>3, <2>1, EmptySeq
  <2> QED BY <1>3, <1>5, <2>1, <2>2, <2>3 DEF LastIndexIsLogEnd, last_index
<1>15. CacheIsLog'
  <2> SUFFICES ASSUME open, ~Rewrites PROVE entries \o batch = kept \o batch
    BY <1>3 DEF CacheIsLog
  <2>1. first = Len(log) + 1 /\ entries = log
    BY <1>1 DEF Inv, CallInv, CacheIsLog
  <2>2. kept = log
    BY <1>1, <1>2, <1>4, <2>1, SeqEqual
  <2> QED BY <2>1, <2>2
<1> QED BY <1>8, <1>9, <1>10, <1>11, <1>12, <1>13, <1>14, <1>15 DEF Inv

\* The calls of save_hard_state, a failing put and a crash leave the disk's log,
\* the log and the batch alone.
LEMMA OtherStep ==
  ASSUME Inv, NEW hs \in HardState,
         \/ NextHardState(hs) /\ save_hard_state(hs)
         \/ PutHardState
         \/ CacheHardState
         \/ PutFails
         \/ Crash
         \/ UNCHANGED vars
  PROVE  Inv'
<1> USE AdapterAssumption DEF AdapterAssumption
<1> USE DEF save_hard_state, PutHardState, CacheHardState, PutFails, Crash, vars,
            dbVars, memVars, callVars
<1>1. /\ dbLog' = dbLog /\ log' = log /\ batch' = batch /\ dbConfState' = dbConfState
      /\ nput' = nput \/ nput' = 0
  OBVIOUS
<1>2. DefaultHardState \in HardState
  BY DEF DefaultHardState, HardState, Term
<1>3. TypeOK'
  <2>1. nput' \in 0..Len(batch')
    BY <1>1, LenProperties DEF Inv, TypeOK
  <2>2. entries' \in Seq(Entry)
    <3>1. entries' = entries \/ entries' = <<>>
      OBVIOUS
    <3>2. entries \in Seq(Entry) /\ <<>> \in Seq(Entry)
      BY EmptySeq DEF Inv, TypeOK
    <3> QED BY <3>1, <3>2
  <2>3. dbHardState' \in HardState /\ hard_state' \in HardState /\ newHs' \in HardState
    BY <1>2 DEF Inv, TypeOK
  <2>4. open' \in BOOLEAN /\ conf_state' \in SUBSET Nodes
        /\ phase' \in {"idle", "put", "hs_put", "hs_cache"}
    BY DEF Inv, TypeOK
  <2> QED BY <1>1, <2>1, <2>2, <2>3, <2>4 DEF Inv, TypeOK
<1>4. CallInv'
  <2>1. phase' = "put" => phase = "put" /\ nput' = nput
    OBVIOUS
  <2>2. phase' # "put" => nput' = 0
    BY DEF Inv, CallInv
  <2>3. phase' # "idle" => open'
    BY DEF Inv, CallInv
  <2>4. open' => conf_state' = dbConfState'
    BY DEF Inv, CallInv
  <2> QED BY <1>1, <2>1, <2>2, <2>3, <2>4 DEF Inv, CallInv
<1>5. DiskInv'
  <2>1. phase' = "put" => phase = "put" /\ nput' = nput
    OBVIOUS
  <2>2. \A i \in Index : OnDisk(i)' <=> OnDisk(i)
    BY <1>1 DEF OnDisk
  <2> QED BY <1>1, <2>1, <2>2 DEF Inv, DiskInv
<1>6. TailInv' /\ DiskHoldsLog'
  BY <1>1 DEF Inv, TailInv, DiskHoldsLog, OnDisk
<1>7. CommitInv'
  <2>1. phase' = "hs_put" => newHs'.commit <= Len(log)
    BY DEF Inv, CommitInv, NextHardState
  <2>2. PICK n \in 0..MaxIndex : Len(log) <= n /\ \A i \in Index : OnDisk(i) <=> i <= n
    BY DEF Inv, DiskInv
  <2>3. CommitWithinDisk'
    <3>1. CASE dbHardState' = dbHardState
      BY <1>1, <3>1 DEF Inv, CommitInv, CommitWithinDisk
    <3>2. CASE PutHardState
      <4>1. newHs.commit \in 0..MaxIndex /\ newHs.commit <= Len(log) /\ Len(log) \in Nat
        BY <3>2, LenProperties DEF Inv, CommitInv, TypeOK, HardState
      <4>2. \A i \in 1..newHs.commit : i \in Index /\ i <= n
        BY <2>2, <4>1 DEF Index
      <4> QED BY <1>1, <2>2, <3>2, <4>2 DEF CommitWithinDisk, OnDisk
    <3> QED BY <3>1, <3>2
  <2> QED BY <1>1, <2>1, <2>3 DEF CommitInv
<1>8. LastIndexIsLogEnd' /\ CacheIsLog'
  <2>1. open' => open /\ entries' = entries
    OBVIOUS
  <2> QED BY <1>1, <2>1 DEF Inv, LastIndexIsLogEnd, last_index, CacheIsLog
<1> QED BY <1>3, <1>4, <1>5, <1>6, <1>7, <1>8 DEF Inv

\* The batches of Next are sequences of entries.
LEMMA BatchesType ==
  ASSUME NEW first \in Index, NEW b \in BatchesAt(first)
  PROVE  b \in Seq(Entry)
<1> USE AdapterAssumption DEF AdapterAssumption
<1>1. PICK n \in 1..(MaxIndex - first + 1) : b \in BatchesOf(first, n)
  BY DEF BatchesAt
<1>2. PICK ts \in [1..n -> Term \ {0}], ps \in [1..n -> Payload] : b = Entries(first, ts, ps)
  BY <1>1 DEF BatchesOf
<1>3. n \in Nat
  BY DEF Index
<1>4. \A k \in 1..n : [index |-> first + k - 1, term |-> ts[k], data |-> ps[k]] \in Entry
  BY <1>2 DEF Entry, Index
<1>5. b = [k \in 1..n |-> [index |-> first + k - 1, term |-> ts[k], data |-> ps[k]]]
  BY <1>2 DEF Entries
<1> QED BY <1>3, <1>4, <1>5

LEMMA NextInv == Inv /\ [Next]_vars => Inv'
<1> SUFFICES ASSUME Inv, [Next]_vars PROVE Inv'
  OBVIOUS
<1>0. DefaultHardState \in HardState
  BY AdapterAssumption DEF DefaultHardState, HardState, Term, AdapterAssumption
<1>1. CASE \E peers \in PeerConfigs : new_with_bootstrap(peers)
  BY <1>1, NewStep
<1>2. CASE \E first \in Index : \E b \in BatchesAt(first) : Batch(b) /\ append_entries(b)
  BY <1>2, BatchesType, AppendStep
<1>3. CASE PutEntry
  BY <1>3, PutStep
<1>4. CASE PushEntries
  BY <1>4, PushStep
<1>5. CASE \E hs \in HardState : NextHardState(hs) /\ save_hard_state(hs)
  BY <1>5, OtherStep
<1>6. CASE PutHardState \/ CacheHardState \/ PutFails \/ Crash \/ UNCHANGED vars
  BY <1>0, <1>6, OtherStep
<1> QED BY <1>1, <1>2, <1>3, <1>4, <1>5, <1>6 DEF Next

-----------------------------------------------------------------------------
(* The theorems *)

\* Inv holds in every reachable state.
LEMMA Invariance == Spec => []Inv
<1>1. Init => Inv
  BY InitInv
<1>2. Inv /\ [Next]_vars => Inv'
  BY NextInv
<1> QED BY <1>1, <1>2, PTL DEF Spec

\* Every variable of the adapter keeps its type.
THEOREM TypeCorrect == Spec => []TypeOK
<1>1. Inv => TypeOK
  BY DEF Inv
<1> QED BY <1>1, Invariance, PTL

\* Overwritten or not, every stored index is on disk (append_entries puts
\* before it returns, and a failed or crashed call only touches what it
\* replaces).
THEOREM DiskHoldsTheLog == Spec => []DiskHoldsLog
<1>1. Inv => DiskHoldsLog
  BY DEF Inv
<1> QED BY <1>1, Invariance, PTL

\* No put that fails or is cut off leaves a hole between the log keys.
THEOREM NoHoleOnDisk == Spec => []DiskHasNoHole
<1>1. Inv => DiskHasNoHole
  <2> SUFFICES ASSUME Inv, NEW i \in Index, dbLog[i] # NoEntry, NEW j \in 1..i
               PROVE  dbLog[j] # NoEntry /\ dbLog[j].index = j
    BY DEF DiskHasNoHole
  <2>1. j \in Index /\ j <= i
    BY AdapterAssumption DEF Index, AdapterAssumption
  <2>2. PICK n \in 0..MaxIndex : \A k \in Index : OnDisk(k) <=> k <= n
    BY DEF Inv, DiskInv
  <2>3. OnDisk(j)
    BY <2>1, <2>2, AdapterAssumption DEF OnDisk, Index, AdapterAssumption
  <2> QED BY <2>1, <2>3 DEF OnDisk, Inv, DiskInv
<1> QED BY <1>1, Invariance, PTL

\* The commit index on disk never runs ahead of the log on disk.
THEOREM CommitOnDisk == Spec => []CommitWithinDisk
<1>1. Inv => CommitWithinDisk
  BY DEF Inv, CommitInv
<1> QED BY <1>1, Invariance, PTL

\* last_index() is right even where the cache holds overwritten entries.
THEOREM LastIndexCorrect == Spec => []LastIndexIsLogEnd
<1>1. Inv => LastIndexIsLogEnd
  BY DEF Inv
<1> QED BY <1>1, Invariance, PTL

\* Without overwriting, cache and log agree at every await of every call.
THEOREM CacheCorrect == Spec => []CacheIsLog
<1>1. Inv => CacheIsLog
  BY DEF Inv
<1> QED BY <1>1, Invariance, PTL

\* A step that opens the adapter is a start.
LEMMA OpeningStep ==
  ASSUME Next, ~open, open'
  PROVE  \E peers \in PeerConfigs : new_with_bootstrap(peers)
BY DEF Next, append_entries, PutEntry, PushEntries, save_hard_state, PutHardState,
       CacheHardState, PutFails, Crash

\* A restart brings back every entry of the log that no unfinished append was
\* replacing, wherever a crash or a failing put cut that append short.
THEOREM RestartKeeps == Spec => RestartKeepsAppends
<1>1. ASSUME Inv, Next, ~open, open', NEW i \in 1..Len(log), batch # <<>> => i < batch[1].index
      PROVE  i <= Len(entries') /\ entries'[i] = log[i]
  <2>1. PICK n \in 0..MaxIndex :
          /\ Len(log) <= n /\ load_entries \in Seq(Entry) /\ Len(load_entries) = n
          /\ \A k \in 1..n : load_entries[k] = dbLog[k]
    BY <1>1, LoadEntries DEF Inv
  <2>2. entries' = load_entries
    BY <1>1, OpeningStep DEF new_with_bootstrap
  <2>3. Len(log) \in Nat
    BY <1>1, LenProperties DEF Inv, TypeOK
  <2>4. i \in 1..n /\ dbLog[i] = log[i]
    <3>1. batch # <<>> => batch[1].index \in Nat
      BY <1>1, FirstEntry DEF Inv, TypeOK
    <3> QED BY <1>1, <2>1, <2>3, <3>1 DEF Inv, DiskHoldsLog
  <2> QED BY <2>1, <2>2, <2>4
<1>2. Inv /\ [Next]_vars =>
        [~open /\ open' => \A i \in 1..Len(log) :
           (batch # <<>> => i < batch[1].index) => i <= Len(entries') /\ entries'[i] = log[i]]_vars
  BY <1>1 DEF vars
<1> QED BY <1>2, Invariance, PTL DEF Spec, RestartKeepsAppends

\* Without overwriting, a restart finds the log and at most the beginning of an
\* append that had not returned.
THEOREM RestartAdds == Spec => RestartAddsNothingWithoutConflict
<1>1. ASSUME Inv, Next, ~open, open', ~Rewrites
      PROVE  IsPrefix(entries', log \o batch)
  <2> USE AdapterAssumption DEF AdapterAssumption
  <2>1. PICK n \in 0..MaxIndex :
          /\ Len(log) <= n /\ \A i \in Index : OnDisk(i) <=> i <= n
          /\ load_entries \in Seq(Entry) /\ Len(load_entries) = n
          /\ \A k \in 1..n : load_entries[k] = dbLog[k]
    BY <1>1, LoadEntries DEF Inv
  <2>2. entries' = load_entries
    BY <1>1, OpeningStep DEF new_with_bootstrap
  <2>3. /\ log \in Seq(Entry) /\ Len(log) \in Nat
        /\ batch \in Seq(Entry) /\ Len(batch) \in Nat
    BY <1>1, LenProperties DEF Inv, TypeOK
  <2>4. /\ log \o batch \in Seq(Entry)
        /\ Len(log \o batch) = Len(log) + Len(batch)
        /\ \A i \in 1..(Len(log) + Len(batch)) :
             (log \o batch)[i] = IF i <= Len(log) THEN log[i] ELSE batch[i - Len(log)]
    BY <2>3, ConcatProperties
  <2>5. ASSUME NEW k \in 1..n, k > Len(log)
        PROVE  k - Len(log) <= Len(batch) /\ load_entries[k] = batch[k - Len(log)]
    BY <1>1, <2>1, <2>5 DEF Inv, TailInv, Index
  <2>6. ASSUME NEW k \in 1..n, k <= Len(log)
        PROVE  load_entries[k] = log[k]
    <3>1. k \in 1..Len(log)
      BY <2>3, <2>6
    <3>2. batch # <<>> => k < batch[1].index
      BY <1>1, <2>3, <2>6 DEF Inv, CallInv
    <3>3. batch # <<>> => batch[1].index \in Nat
      BY <2>3, FirstEntry
    <3> QED BY <1>1, <2>1, <3>1, <3>2, <3>3 DEF Inv, DiskHoldsLog
  <2>7. n <= Len(log \o batch)
    <3>1. CASE n = Len(log)
      BY <2>3, <2>4, <3>1
    <3>2. CASE n > Len(log)
      <4>1. n \in 1..n
        BY <2>3, <3>2
      <4> QED BY <2>3, <2>4, <2>5, <3>2, <4>1
    <3> QED BY <2>1, <2>3, <3>1, <3>2
  <2>8. \A k \in 1..n : load_entries[k] = (log \o batch)[k]
    BY <2>3, <2>4, <2>5, <2>6, <2>7
  <2>9. SubSeq(load_entries, 1, n) = SubSeq(log \o batch, 1, n)
    BY <2>1, <2>4, <2>7, <2>8
  <2> QED BY <2>1, <2>2, <2>7, <2>9 DEF IsPrefix
<1>2. Inv /\ [Next]_vars =>
        [~open /\ open' /\ ~Rewrites => IsPrefix(entries', log \o batch)]_vars
  BY <1>1 DEF vars
<1> QED BY <1>2, Invariance, PTL DEF Spec, RestartAddsNothingWithoutConflict

\* The voters written at the first start are kept, on disk and in the cache.
THEOREM VotersKept == Spec => VotersPermanent
<1> DEFINE Kept == dbConfState # {} =>
                     dbConfState' = dbConfState /\ (open' => conf_state' = dbConfState)
<1>1. ASSUME Inv, Next
      PROVE  Kept
  <2>1. CASE \E peers \in PeerConfigs : new_with_bootstrap(peers)
    BY <2>1 DEF new_with_bootstrap
  <2>2. CASE UNCHANGED <<dbConfState, conf_state, open>>
    BY <1>1, <2>2 DEF Inv, CallInv
  <2>3. CASE Crash
    BY <2>3 DEF Crash, dbVars
  <2> QED BY <1>1, <2>1, <2>2, <2>3
          DEF Next, append_entries, PutEntry, PushEntries, save_hard_state, PutHardState,
              CacheHardState, PutFails, dbVars, memVars
<1>2. Inv /\ [Next]_vars => [Kept]_vars
  BY <1>1 DEF vars
<1> QED BY <1>2, Invariance, PTL DEF Spec, VotersPermanent

=============================================================================
