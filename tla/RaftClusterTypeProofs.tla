------------------------ MODULE RaftClusterTypeProofs ------------------------
(***************************************************************************)
(* Proofs about RaftCluster, for any number of nodes, requests, terms,     *)
(* indexes and faults: types, and how disk, cache and raft-rs of one node  *)
(* fit together.                                                           *)
(*                                                                         *)
(* The log of a node is in three places: on disk, in the adapter's cache   *)
(* and, from offset on, in raft-rs.  The disk has the keys 1..n and no     *)
(* other, with n at least the length of the cache; the unstable entries    *)
(* begin where the cache ends, or before that, when a conflict replaces    *)
(* stored entries.  The next handle_ready then makes the cache repeat an   *)
(* index, and with that the part about logs ends.                          *)
(***************************************************************************)
EXTENDS RaftClusterProofs, IntervalFacts

LOCAL INSTANCE SequencesExt   \* Last, Max, Min

Numbered(s, first) == \A k \in DOMAIN s : s[k].index = first + k - 1

-----------------------------------------------------------------------------
(* Roles, terms, requests and the ends of messages *)

\* raft-rs on node i in state r, after b campaigns.
VoterOK(i, r, b) ==
  /\ DOMAIN r = RawFields
  /\ r.role \in {"follower", "candidate", "leader"}
  /\ r.term \in 0..b
  /\ r.vote \in Node \cup {NoNode} /\ r.leader \in Node \cup {NoNode}
  /\ r.role # "follower" => r.term >= 1
  /\ r.leader = i => r.role = "leader"

Sound(m, b) ==
  /\ m.from \in Node /\ m.to \in Node /\ m.from # m.to
  /\ m.type \in {"Vote", "VoteResp", "Append", "AppendResp", "Heartbeat", "Propose"}
  /\ m.type # "Propose" => m.term \in 0..b
  /\ m.type = "Propose" => m.data \in Payload

RequestType ==
  [pc : {"none", "leader", "wait", "ok", "error"}, at : Node \cup {NoNode}, id : Nat]

VoterInv ==
  /\ DOMAIN raw = Node /\ DOMAIN hs = Node
  /\ \A i \in Node :
       /\ VoterOK(i, raw[i], campaigns)
       /\ hs[i].term \in 0..campaigns /\ hs[i].vote \in Node \cup {NoNode}
       /\ \A m \in raw[i].msgs : Sound(m, campaigns) /\ m.from = i
  /\ \A m \in transit : Sound(m, campaigns)

RequestInv ==
  /\ proposal_index \in [Node -> Nat]
  /\ DOMAIN pending = Node
  /\ \A i \in Node : pending[i] \subseteq [id : 1..proposal_index[i], client : Client]
  /\ request \in [Client -> RequestType]
  /\ \A c \in Client : request[c].pc \in {"leader", "wait"} <=> request[c].at # NoNode

BoundInv ==
  /\ dead \subseteq Node /\ lost \subseteq Node
  /\ elected \subseteq (0..MaxCampaigns) \X Node
  /\ mixed \in BOOLEAN
  /\ campaigns \in 0..MaxCampaigns /\ faults \in 0..MaxFaults

-----------------------------------------------------------------------------
(* The logs, until one is mixed *)

\* The keys on the disk d are 1..n.
Stored(d, n) ==
  /\ d \in [Index -> Entry \cup {NoEntry}]
  /\ \A x \in Index : d[x] # NoEntry <=> x <= n
  /\ \A x \in Index : d[x] # NoEntry => d[x].index = x

\* raft-rs in state r with n entries in the cache.
RaftOK(r, n) ==
  /\ r.unstable \in Seq(Entry) /\ Numbered(r.unstable, r.offset)
  /\ r.offset \in 1..(n + 1)
  /\ r.unstable = <<>> => r.offset = n + 1
  /\ r.persisted \in Nat /\ r.persisted < r.offset
  /\ r.committed \in Nat /\ r.committed < r.offset + Len(r.unstable)
  /\ r.handed \in Nat /\ r.handed <= r.committed /\ r.handed <= r.persisted
  /\ r.match \in [Node -> 0..MaxIndex]

\* The hard state h on disk and the one raft-rs believes is there.
Plain(h) == h = [term |-> h.term, vote |-> h.vote, commit |-> h.commit]
HardStateOK(h, p) ==
  /\ Plain(h) /\ Plain(p)
  /\ h.term = p.term /\ h.vote = p.vote
  /\ h.commit \in Nat /\ p.commit \in Nat /\ h.commit <= p.commit

NodeLogInv(i) ==
  /\ cache[i] \in Seq(Entry) /\ Numbered(cache[i], 1)
  /\ \E n \in Len(cache[i])..MaxIndex : Stored(disk[i], n) /\ hs[i].commit <= n
  /\ RaftOK(raw[i], Len(cache[i]))
  /\ HardStateOK(hs[i], raw[i].prevHs)
  /\ applied[i] \in Seq(Entry)

LogMessage(m) ==
  /\ m.type = "Append" =>
       /\ m.entries \in Seq(Entry) /\ Numbered(m.entries, m.index + 1)
       /\ m.index \in Nat /\ m.index + Len(m.entries) <= MaxIndex
       /\ m.index = 0 \/ m.logTerm # 0
       /\ m.commit \in Nat
  /\ m.type = "AppendResp" => m.index \in 0..MaxIndex
  /\ m.type = "Heartbeat" => m.commit \in Nat

LogInv ==
  /\ DOMAIN disk = Node /\ DOMAIN cache = Node /\ DOMAIN applied = Node
  /\ \A i \in Node : NodeLogInv(i) /\ \A m \in raw[i].msgs : LogMessage(m)
  /\ \A m \in transit : LogMessage(m)
  /\ chosen \subseteq Entry

TypeInv == VoterInv /\ RequestInv /\ BoundInv /\ (mixed \/ LogInv)

-----------------------------------------------------------------------------
(* Sequences of entries *)

LEMMA EntrySeq ==
  ASSUME NEW s \in Seq(Entry)
  PROVE  /\ Len(s) \in Nat /\ DOMAIN s = 1..Len(s)
         /\ \A k \in 1..Len(s) : s[k] \in Entry
         /\ s = <<>> <=> Len(s) = 0
OBVIOUS

LEMMA EntryFacts ==
  ASSUME NEW e \in Entry
  PROVE  /\ e.index \in Nat /\ e.index >= 1 /\ e.index <= MaxIndex
         /\ e.term \in Nat /\ e.term >= 1 /\ e # NoEntry /\ MaxIndex \in Nat
BY ClusterAssumption DEF ClusterAssumption, Entry, Index

\* What is numbered from o on ends within the indexes.
LEMMA LastNumber ==
  ASSUME NEW s \in Seq(Entry), NEW o \in Nat, Numbered(s, o)
  PROVE  s # <<>> => o + Len(s) - 1 <= MaxIndex /\ o >= 1
<1>1. SUFFICES ASSUME s # <<>>
               PROVE  o + Len(s) - 1 <= MaxIndex /\ o >= 1
  OBVIOUS
<1>2. Len(s) \in Nat /\ DOMAIN s = 1..Len(s) /\ Len(s) # 0
  BY <1>1, EntrySeq
<1>3. 1 \in DOMAIN s /\ Len(s) \in DOMAIN s
  BY <1>2
<1>4. s[Len(s)].index = o + Len(s) - 1 /\ s[1].index = o + 1 - 1
  BY <1>3 DEF Numbered
<1>5. s[Len(s)].index <= MaxIndex /\ s[1].index >= 1
  BY <1>2, <1>3, EntrySeq, EntryFacts
<1> QED BY <1>4, <1>5

LEMMA AppendNumbered ==
  ASSUME NEW s \in Seq(Entry), NEW e \in Entry, NEW o \in Nat,
         Numbered(s, o), e.index = o + Len(s)
  PROVE  /\ Append(s, e) \in Seq(Entry) /\ Numbered(Append(s, e), o)
         /\ Len(Append(s, e)) = Len(s) + 1 /\ Append(s, e) # <<>>
<1> DEFINE t == Append(s, e)
<1>1. /\ t \in Seq(Entry) /\ Len(t) = Len(s) + 1 /\ t # <<>> /\ DOMAIN t = 1..(Len(s) + 1)
      /\ \A k \in 1..Len(s) : t[k] = s[k]
      /\ t[Len(s) + 1] = e
  OBVIOUS
<1>2. Len(s) \in Nat /\ \A k \in 1..Len(s) : s[k].index = o + k - 1
  BY EntrySeq DEF Numbered
<1> HIDE DEF t
<1>3. ASSUME NEW k \in DOMAIN t
      PROVE  t[k].index = o + k - 1
  <2>1. k \in Nat /\ (k \in 1..Len(s) \/ k = Len(s) + 1)
    BY <1>1, <1>2
  <2>2. CASE k = Len(s) + 1
    BY <1>1, <1>2, <2>2
  <2> QED BY <1>1, <1>2, <2>1, <2>2
<1>4. Numbered(t, o)
  BY <1>3 DEF Numbered
<1> QED BY <1>1, <1>4 DEF t

LEMMA ConcatFacts ==
  ASSUME NEW s \in Seq(Entry), NEW t \in Seq(Entry)
  PROVE  /\ s \o t \in Seq(Entry) /\ Len(s \o t) = Len(s) + Len(t)
         /\ DOMAIN (s \o t) = 1..(Len(s) + Len(t))
         /\ \A k \in 1..(Len(s) + Len(t)) :
              (s \o t)[k] = IF k <= Len(s) THEN s[k] ELSE t[k - Len(s)]
OBVIOUS

LEMMA ConcatNumbered ==
  ASSUME NEW s \in Seq(Entry), NEW t \in Seq(Entry), NEW o \in Nat,
         Numbered(s, o), t # <<>> => Numbered(t, o + Len(s))
  PROVE  /\ s \o t \in Seq(Entry) /\ Numbered(s \o t, o)
         /\ Len(s \o t) = Len(s) + Len(t)
<1> DEFINE u == s \o t
<1>1. /\ Len(s) \in Nat /\ Len(t) \in Nat
      /\ \A k \in 1..Len(s) : s[k].index = o + k - 1
  BY EntrySeq DEF Numbered
<1>2. \A k \in 1..Len(t) : t[k].index = o + Len(s) + k - 1
  <2>1. TAKE k \in 1..Len(t)
  <2>2. t # <<>> /\ DOMAIN t = 1..Len(t)
    BY EntrySeq
  <2> QED BY <2>2 DEF Numbered
<1>3. /\ u \in Seq(Entry) /\ Len(u) = Len(s) + Len(t) /\ DOMAIN u = 1..(Len(s) + Len(t))
      /\ \A k \in 1..(Len(s) + Len(t)) : u[k] = IF k <= Len(s) THEN s[k] ELSE t[k - Len(s)]
  BY ConcatFacts
<1> HIDE DEF u
<1>4. ASSUME NEW k \in DOMAIN u
      PROVE  u[k].index = o + k - 1
  <2>1. k \in Nat /\ k >= 1 /\ k <= Len(s) + Len(t)
    BY <1>1, <1>3
  <2>2. CASE k <= Len(s)
    <3>1. k \in 1..Len(s) /\ u[k] = s[k]
      BY <1>1, <1>3, <2>1, <2>2
    <3> QED BY <1>1, <3>1
  <2>3. CASE k > Len(s)
    <3>1. k - Len(s) \in 1..Len(t) /\ u[k] = t[k - Len(s)]
      BY <1>1, <1>3, <2>1, <2>3
    <3>2. t[k - Len(s)].index = o + Len(s) + (k - Len(s)) - 1
      BY <1>2, <3>1
    <3> QED BY <1>1, <2>1, <3>1, <3>2
  <2> QED BY <1>1, <2>1, <2>2, <2>3
<1>5. Numbered(u, o)
  BY <1>4 DEF Numbered
<1> QED BY <1>3, <1>5 DEF u

LEMMA SubSeqNumbered ==
  ASSUME NEW s \in Seq(Entry), NEW o \in Nat, Numbered(s, o),
         NEW m \in Nat, m >= 1, NEW n \in Nat, m <= n + 1, n <= Len(s)
  PROVE  /\ SubSeq(s, m, n) \in Seq(Entry) /\ Len(SubSeq(s, m, n)) = n + 1 - m
         /\ Numbered(SubSeq(s, m, n), o + m - 1)
<1> DEFINE u == SubSeq(s, m, n)
<1>1. Len(s) \in Nat /\ DOMAIN s = 1..Len(s)
  BY EntrySeq
<1>2. u = [k \in 1..(n + 1 - m) |-> s[m + k - 1]]
  BY DEF SubSeq
<1>3. \A k \in 1..(n + 1 - m) : m + k - 1 \in 1..Len(s)
  BY <1>1
<1>4. \A k \in 1..(n + 1 - m) : s[m + k - 1] \in Entry
  BY <1>3, EntrySeq
<1>5. n + 1 - m \in Nat
  OBVIOUS
<1>6. u \in Seq(Entry) /\ Len(u) = n + 1 - m /\ DOMAIN u = 1..(n + 1 - m)
  BY <1>2, <1>4, <1>5
<1>7. \A k \in 1..(n + 1 - m) : u[k].index = (o + m - 1) + k - 1
  <2>1. TAKE k \in 1..(n + 1 - m)
  <2>2. u[k] = s[m + k - 1] /\ s[m + k - 1].index = o + (m + k - 1) - 1
    BY <1>1, <1>2, <1>3 DEF Numbered
  <2> QED BY <2>2
<1> QED BY <1>6, <1>7 DEF Numbered

-----------------------------------------------------------------------------
(* The disk and the cache *)

\* After the puts of numbered entries that continue or replace what is on the
\* disk, the disk has no hole either, and reaches at least as far as they do.
LEMMA PutStored ==
  ASSUME NEW n \in Nat, n <= MaxIndex, NEW d, Stored(d, n),
         NEW b \in Seq(Entry), NEW o \in Nat, o >= 1, o <= n + 1, Numbered(b, o)
  PROVE  \E k \in n..MaxIndex : o + Len(b) - 1 <= k /\ Stored(Put(d, b), k)
<1> DEFINE last == o + Len(b) - 1
           k == IF last <= n THEN n ELSE last
           p == Put(d, b)
           ks(x) == {j \in DOMAIN b : b[j].index = x}
<1>1. Len(b) \in Nat /\ DOMAIN b = 1..Len(b) /\ MaxIndex \in Nat
  BY EntrySeq, ClusterAssumption DEF ClusterAssumption
<1>a. \A j \in 1..Len(b) : j \in Nat /\ b[j].index = o + j - 1 /\ b[j] \in Entry
  <2>1. \A j \in 1..Len(b) : b[j].index = o + j - 1
    BY <1>1 DEF Numbered
  <2>2. \A j \in 1..Len(b) : b[j] \in Entry
    BY EntrySeq
  <2> QED BY <1>1, <2>1, <2>2
<1>2. last <= n \/ last <= MaxIndex
  <2>1. CASE b = <<>>
    <3>1. Len(b) = 0
      BY <2>1, EntrySeq
    <3> QED BY <3>1
  <2>2. CASE b # <<>>
    BY <2>2, LastNumber
  <2> QED BY <2>1, <2>2
<1>3. k \in n..MaxIndex /\ last <= k
  BY <1>1, <1>2
<1>4. \A x \in Index : p[x] = IF ks(x) = {} THEN d[x] ELSE b[Max(ks(x))]
  BY DEF Put
<1>5. DOMAIN p = Index /\ p = [x \in Index |-> p[x]]
  BY DEF Put
<1>6. ASSUME NEW x \in Index
      PROVE  IF o <= x /\ x <= last THEN p[x] \in Entry /\ p[x].index = x ELSE p[x] = d[x]
  <2>1. x \in Nat
    BY DEF Index
  <2>2. CASE o <= x /\ x <= last
    <3>1. x - o + 1 \in 1..Len(b)
      BY <1>1, <2>1, <2>2
    <3>2. ks(x) = {x - o + 1}
      <4>1. \A j \in 1..Len(b) : b[j].index = x <=> j = x - o + 1
        BY <1>a, <2>1
      <4> QED BY <1>1, <3>1, <4>1
    <3>3. Max(ks(x)) = x - o + 1
      BY <2>1, <3>2 DEF Max
    <3>4. p[x] = b[x - o + 1]
      BY <1>4, <3>2, <3>3
    <3>5. b[x - o + 1] \in Entry /\ b[x - o + 1].index = x
      BY <1>a, <2>1, <3>1
    <3> QED BY <2>2, <3>4, <3>5
  <2>3. CASE ~(o <= x /\ x <= last)
    <3>1. ks(x) = {}
      BY <1>1, <1>a, <2>1, <2>3
    <3> QED BY <1>4, <2>3, <3>1
  <2> QED BY <2>2, <2>3
<1> HIDE DEF p, ks
<1>7. \A x \in Index : d[x] \in Entry \cup {NoEntry} /\ (d[x] # NoEntry <=> x <= n)
                       /\ (d[x] # NoEntry => d[x].index = x)
  BY DEF Stored
<1>8. \A x \in Index : p[x] \in Entry \cup {NoEntry} /\ (p[x] # NoEntry => p[x].index = x)
  BY <1>6, <1>7
<1>9. ASSUME NEW x \in Index
      PROVE  p[x] # NoEntry <=> x <= k
  <2>1. x \in Nat
    BY DEF Index
  <2>2. CASE o <= x /\ x <= last
    <3>1. p[x] # NoEntry
      BY <1>6, <2>2, EntryFacts
    <3> QED BY <1>1, <1>3, <2>1, <2>2, <3>1
  <2>3. CASE ~(o <= x /\ x <= last)
    <3>1. p[x] # NoEntry <=> x <= n
      BY <1>6, <1>7, <2>3
    <3> QED BY <1>1, <2>1, <2>3, <3>1
  <2> QED BY <2>2, <2>3
<1>10. p \in [Index -> Entry \cup {NoEntry}]
  BY <1>5, <1>8
<1>11. Stored(p, k)
  BY <1>8, <1>9, <1>10 DEF Stored
<1> QED BY <1>3, <1>11 DEF p

LEMMA StoreCardinality ==
  ASSUME NEW d, NEW c, NEW S
  PROVE  Store(d, c)!Cardinality(S) = Cardinality(S)
BY DEF Store!Cardinality, Cardinality

\* Sorting an interval leaves it as it is.
LEMMA AscendingInterval ==
  ASSUME NEW d, NEW c, NEW lo \in Nat, NEW hi \in Nat, lo <= hi
  PROVE  Store(d, c)!Ascending((lo + 1)..hi) = [k \in 1..(hi - lo) |-> lo + k]
<1>1. Store(d, c)!Cardinality((lo + 1)..hi) = hi - lo
  BY IntervalRank, StoreCardinality
<1>2. ASSUME NEW k \in 1..(hi - lo)
      PROVE  (CHOOSE x \in (lo + 1)..hi :
                Store(d, c)!Cardinality({y \in (lo + 1)..hi : y < x}) = k - 1) = lo + k
  <2>1. \A x \in (lo + 1)..hi :
          Store(d, c)!Cardinality({y \in (lo + 1)..hi : y < x})
            = Cardinality({y \in (lo + 1)..hi : y < x})
    BY StoreCardinality
  <2>2. (CHOOSE x \in (lo + 1)..hi :
           Cardinality({y \in (lo + 1)..hi : y < x}) = k - 1) = lo + k
    BY IntervalRank
  <2> QED BY <2>1, <2>2
<1> QED BY <1>1, <1>2 DEF Store!Ascending

\* A start loads what is under the keys 1..n.
LEMMA LoadStored ==
  ASSUME NEW n \in Nat, n <= MaxIndex, NEW d, NEW c, Stored(d, n)
  PROVE  LET l == Store(d, c)!load_entries
         IN  /\ l \in Seq(Entry) /\ Len(l) = n /\ Numbered(l, 1)
             /\ \A k \in 1..n : l[k] = d[k]
             /\ Store(d, l)!last_index = n
<1> DEFINE l == Store(d, c)!load_entries
<1>1. MaxIndex \in Nat
  BY ClusterAssumption DEF ClusterAssumption
<1>2. \A x \in 1..n : x \in Index /\ d[x] \in Entry /\ d[x].index = x
  BY <1>1 DEF Stored, Index
<1>3. {x \in Index : d[x] # NoEntry} = (0 + 1)..n
  BY <1>1 DEF Stored, Index
<1>4. Store(d, c)!Index = Index
  BY DEF Store!Index, Index
<1>5. Store(d, c)!Ascending((0 + 1)..n) = [k \in 1..(n - 0) |-> 0 + k]
  BY AscendingInterval
<1>6. l = [k \in 1..n |-> d[k]]
  <2> DEFINE order == Store(d, c)!Ascending((0 + 1)..n)
  <2>1. l = [k \in DOMAIN order |-> d[order[k]]]
    BY <1>3, <1>4 DEF Store!load_entries
  <2>2. DOMAIN order = 1..n /\ \A k \in 1..n : order[k] = k
    BY <1>5
  <2> HIDE DEF order, l
  <2> QED BY <2>1, <2>2
<1> HIDE DEF l
<1>7. l \in Seq(Entry) /\ Len(l) = n /\ DOMAIN l = 1..n /\ \A k \in 1..n : l[k] = d[k]
  BY <1>2, <1>6
<1>8. Numbered(l, 1)
  BY <1>2, <1>7 DEF Numbered
<1>9. Store(d, l)!last_index = n
  <2>1. l = <<>> <=> n = 0
    BY <1>7, EntrySeq
  <2>2. n # 0 => l[n].index = n
    BY <1>2, <1>7
  <2> QED BY <1>7, <2>1, <2>2 DEF Store!last_index, Store!snapshot_index
<1> QED BY <1>7, <1>8, <1>9 DEF l

\* entries() of the range (lo, hi] of a cache that repeats nothing.
LEMMA ReadRange ==
  ASSUME NEW d, NEW c \in Seq(Entry), Numbered(c, 1),
         NEW lo \in Nat, NEW hi \in Nat, lo <= hi, hi <= Len(c)
  PROVE  LET q == Store(d, c)!read_entries(lo + 1, hi + 1, NoLimit)
         IN  /\ q \in Seq(Entry) /\ Len(q) = hi - lo
             /\ \A k \in 1..(hi - lo) : q[k] = c[lo + k]
<1> DEFINE q == Store(d, c)!read_entries(lo + 1, hi + 1, NoLimit)
           hits == Store(d, c)!Ascending((lo + 1)..hi)
<1>1. Len(c) \in Nat /\ DOMAIN c = 1..Len(c) /\ \A k \in 1..Len(c) : c[k].index = k /\ c[k] \in Entry
  BY EntrySeq DEF Numbered
<1>2. {p \in DOMAIN c : lo + 1 <= c[p].index /\ c[p].index < hi + 1} = (lo + 1)..hi
  BY <1>1
<1>3. hits = [k \in 1..(hi - lo) |-> lo + k]
  BY AscendingInterval
<1>4. q = [k \in DOMAIN hits |-> c[hits[k]]]
  <2> HIDE DEF hits
  <2> QED BY <1>2 DEF Store!read_entries, hits
<1>5. DOMAIN hits = 1..(hi - lo) /\ \A k \in 1..(hi - lo) : hits[k] = lo + k
  BY <1>3
<1> HIDE DEF hits, q
<1>6. q = [k \in 1..(hi - lo) |-> c[lo + k]]
  BY <1>4, <1>5
<1>7. \A k \in 1..(hi - lo) : c[lo + k] \in Entry
  BY <1>1
<1>8. q \in Seq(Entry) /\ Len(q) = hi - lo /\ \A k \in 1..(hi - lo) : q[k] = c[lo + k]
  BY <1>6, <1>7
<1> QED BY <1>8 DEF q

\* A cached index has a term, and it is not 0.
LEMMA StoredTerm ==
  ASSUME NEW d, NEW c \in Seq(Entry), Numbered(c, 1), NEW k \in Nat, k <= Len(c), k >= 1
  PROVE  Store(d, c)!term(k) = c[k].term /\ c[k].term \in Nat /\ c[k].term >= 1
<1>1. Len(c) \in Nat /\ DOMAIN c = 1..Len(c) /\ \A j \in 1..Len(c) : c[j].index = j /\ c[j] \in Entry
  BY EntrySeq DEF Numbered
<1>2. k \in 1..Len(c)
  BY <1>1
<1>3. Store(d, c)!Positions(k) = {k}
  BY <1>1, <1>2 DEF Store!Positions
<1>4. Store(d, c)!get_entry(k) = c[k]
  BY <1>3 DEF Store!get_entry
<1>5. Store(d, c)!term(k) = c[k].term
  BY <1>4 DEF Store!term, Store!snapshot_index
<1> QED BY <1>1, <1>2, <1>5, EntryFacts

-----------------------------------------------------------------------------
(* Roles and terms: what the parts of a step do to one node *)

\* Node i may have raft-rs in state r, with what it is about to send.
Good(i, r, b) ==
  /\ VoterOK(i, r, b)
  /\ \A m \in r.msgs : Sound(m, b) /\ m.from = i

LEMMA GoodNow ==
  ASSUME VoterInv, NEW i \in Node
  PROVE  Good(i, raw[i], campaigns)
BY DEF VoterInv, Good

LEMMA GoodLater ==
  ASSUME NEW i, NEW r, NEW b \in Nat, NEW b2 \in Nat, b <= b2, Good(i, r, b)
  PROVE  Good(i, r, b2)
<1>1. \A t : t \in 0..b => t \in 0..b2
  OBVIOUS
<1> QED BY <1>1 DEF Good, VoterOK, Sound

\* s differs from r only in what roles and terms are not about.
LEMMA GoodSame ==
  ASSUME NEW i, NEW r, NEW s, NEW b, Good(i, r, b), DOMAIN s = RawFields,
         s.role = r.role, s.term = r.term, s.vote = r.vote, s.leader = r.leader,
         \A m \in s.msgs : m \in r.msgs \/ (Sound(m, b) /\ m.from = i)
  PROVE  Good(i, s, b)
BY DEF Good, VoterOK

LEMMA GoodFollower ==
  ASSUME NEW i \in Node, NEW r, NEW b, Good(i, r, b), NEW t \in 0..b,
         NEW l \in Node \cup {NoNode}, l # i
  PROVE  Good(i, BecomeFollower(r, t, l), b)
<1> DEFINE s == BecomeFollower(r, t, l)
<1>1. DOMAIN r = RawFields
  BY DEF Good, VoterOK
<1>2. /\ DOMAIN s = RawFields
      /\ s.term = t /\ s.vote = (IF t = r.term THEN r.vote ELSE NoNode)
      /\ s.leader = l /\ s.msgs = r.msgs /\ s.role = "follower"
  BY <1>1, BecomeFollowerFields
<1> HIDE DEF s
<1>3. Good(i, s, b)
  BY <1>2 DEF Good, VoterOK
<1> QED BY <1>3 DEF s

LEMMA GoodCaught ==
  ASSUME VoterInv, campaigns \in Nat, NEW m \in transit, m.type # "Propose", Matters(m, raw[m.to])
  PROVE  Good(m.to, Caught(m), campaigns) /\ Caught(m).prevHs = raw[m.to].prevHs
<1> DEFINE i == m.to
           l == IF m.type \in {"Append", "Heartbeat"} THEN m.from ELSE NoNode
<1>1. Sound(m, campaigns)
  BY DEF VoterInv
<1>2. i \in Node /\ m.from \in Node /\ m.from # i /\ m.term \in 0..campaigns
  BY <1>1 DEF Sound
<1>3. l \in Node \cup {NoNode} /\ l # i
  BY <1>2, ClusterAssumption DEF ClusterAssumption
<1>4. Good(i, raw[i], campaigns) /\ DOMAIN raw[i] = RawFields
  BY <1>2, GoodNow DEF Good, VoterOK
<1>5. \/ Caught(m) = BecomeFollower(raw[i], m.term, l)
      \/ Caught(m) = raw[i]
  BY DEF Caught
<1> HIDE DEF i, l
<1>6. /\ Good(i, BecomeFollower(raw[i], m.term, l), campaigns)
      /\ BecomeFollower(raw[i], m.term, l).prevHs = raw[i].prevHs
  BY <1>2, <1>3, <1>4, GoodFollower, BecomeFollowerFields
<1>7. Good(i, Caught(m), campaigns) /\ Caught(m).prevHs = raw[i].prevHs
  BY <1>4, <1>5, <1>6
<1> QED BY <1>7 DEF i

\* A proposal is appended by a leader and forwarded by the others.
LEMMA GoodPropose ==
  ASSUME NEW i \in Node, NEW r, NEW b, Good(i, r, b), Accepts(r), NEW d \in Payload
  PROVE  Good(i, Propose(i, r, d), b) /\ Propose(i, r, d).prevHs = r.prevHs
<1> DEFINE s == Propose(i, r, d)
           m == [type |-> "Propose", from |-> i, to |-> r.leader, data |-> d]
<1>1. DOMAIN r = RawFields
  BY DEF Good, VoterOK
<1>2. CASE r.role = "leader"
  <2>1. /\ DOMAIN s = RawFields
        /\ s.role = r.role /\ s.term = r.term /\ s.vote = r.vote /\ s.leader = r.leader
        /\ s.msgs = r.msgs /\ s.prevHs = r.prevHs
    BY <1>1, <1>2 DEF Propose, RawFields
  <2> HIDE DEF s
  <2>2. Good(i, s, b) /\ s.prevHs = r.prevHs
    BY <2>1, GoodSame
  <2> QED BY <2>2 DEF s
<1>3. CASE r.role # "leader"
  <2>1. /\ DOMAIN s = RawFields
        /\ s.role = r.role /\ s.term = r.term /\ s.vote = r.vote /\ s.leader = r.leader
        /\ s.msgs = r.msgs \cup {m} /\ s.prevHs = r.prevHs
    BY <1>1, <1>3 DEF Propose, RawFields
  <2>2. r.leader \in Node /\ r.leader # i
    BY <1>3 DEF Accepts, Good, VoterOK
  <2>3. Sound(m, b) /\ m.from = i
    BY <2>2 DEF Sound
  <2> HIDE DEF s, m
  <2>4. Good(i, s, b) /\ s.prevHs = r.prevHs
    BY <2>1, <2>3, GoodSame
  <2> QED BY <2>4 DEF s
<1> QED BY <1>2, <1>3

\* The winner's last step before it proposes its empty entry.
LEMMA GoodLeader ==
  ASSUME NEW i \in Node, NEW r, NEW s, NEW b, Good(i, r, b), r.role = "candidate",
         DOMAIN s = RawFields, s.role = "leader", s.leader = i,
         s.term = r.term, s.vote = r.vote, s.msgs = r.msgs
  PROVE  Good(i, s, b)
BY DEF Good, VoterOK

\* Every state the invariant allows keeps it, if only node i changes and goes
\* to a state that is good.
LEMMA VoterStep ==
  ASSUME VoterInv, campaigns \in Nat, campaigns' \in Nat, campaigns <= campaigns',
         NEW i \in Node,
         DOMAIN raw' = Node, DOMAIN hs' = Node,
         \A j \in Node \ {i} : raw'[j] = raw[j] /\ hs'[j] = hs[j],
         Good(i, raw'[i], campaigns'),
         hs'[i].term \in 0..campaigns', hs'[i].vote \in Node \cup {NoNode},
         \A m \in transit' : m \in transit \/ Sound(m, campaigns')
  PROVE  VoterInv'
<1> DEFINE b == campaigns'
<1>1. \A m : Sound(m, campaigns) => Sound(m, b)
  <2>1. \A t : t \in 0..campaigns => t \in 0..b
    OBVIOUS
  <2> QED BY <2>1 DEF Sound
<1>2. ASSUME NEW j \in Node
      PROVE  Good(j, raw'[j], b) /\ hs'[j].term \in 0..b /\ hs'[j].vote \in Node \cup {NoNode}
  <2>1. CASE j = i
    BY <2>1
  <2>2. CASE j # i
    <3>1. raw'[j] = raw[j] /\ hs'[j] = hs[j] /\ Good(j, raw[j], campaigns)
      BY <2>2, GoodNow
    <3>2. hs[j].term \in 0..campaigns /\ hs[j].vote \in Node \cup {NoNode}
      BY DEF VoterInv
    <3>3. hs[j].term \in 0..b
      BY <3>2
    <3> QED BY <3>1, <3>2, <3>3, GoodLater
  <2> QED BY <2>1, <2>2
<1>3. \A m \in transit' : Sound(m, b)
  BY <1>1 DEF VoterInv
<1> QED BY <1>2, <1>3 DEF VoterInv, Good

-----------------------------------------------------------------------------
(* Logs: what the parts of a step do to one node *)

\* Node i may have raft-rs in state r, with what it is about to send.
Fits(i, r) ==
  /\ RaftOK(r, Len(cache[i]))
  /\ \A m \in r.msgs : LogMessage(m)

LEMMA FitsNow ==
  ASSUME LogInv, NEW i \in Node
  PROVE  Fits(i, raw[i])
BY DEF LogInv, NodeLogInv, Fits

\* s differs from r only in what logs are not about.
LEMMA FitsSame ==
  ASSUME NEW i, NEW r, NEW s, Fits(i, r),
         s.unstable = r.unstable, s.offset = r.offset, s.persisted = r.persisted,
         s.committed = r.committed, s.handed = r.handed, s.match \in [Node -> 0..MaxIndex],
         \A m \in s.msgs : m \in r.msgs \/ LogMessage(m)
  PROVE  Fits(i, s)
BY DEF Fits, RaftOK

LEMMA MatchTypes ==
  /\ NoMatch \in [Node -> 0..MaxIndex]
  /\ \A i \in Node : \A n \in 0..MaxIndex : [NoMatch EXCEPT ![i] = n] \in [Node -> 0..MaxIndex]
BY ClusterAssumption DEF ClusterAssumption, NoMatch

\* A log ends within the indexes.
LEMMA LastWithin ==
  ASSUME LogInv, NEW i \in Node, NEW r, Fits(i, r)
  PROVE  /\ LastIndex(r) \in 0..MaxIndex /\ r.persisted \in 0..MaxIndex
         /\ r.committed \in 0..MaxIndex /\ r.offset \in Nat /\ Len(r.unstable) \in Nat
         /\ LastIndex(r) = r.offset + Len(r.unstable) - 1
         /\ r.persisted <= LastIndex(r) /\ r.committed <= LastIndex(r)
<1>1. /\ cache[i] \in Seq(Entry)
      /\ \E n \in Len(cache[i])..MaxIndex : TRUE
  BY DEF LogInv, NodeLogInv
<1>2. Len(cache[i]) \in Nat /\ MaxIndex \in Nat /\ Len(cache[i]) <= MaxIndex
  BY <1>1, EntrySeq, ClusterAssumption DEF ClusterAssumption
<1>3. /\ r.unstable \in Seq(Entry) /\ Numbered(r.unstable, r.offset)
      /\ r.offset \in 1..(Len(cache[i]) + 1)
      /\ r.unstable = <<>> => r.offset = Len(cache[i]) + 1
      /\ r.persisted \in Nat /\ r.persisted < r.offset
      /\ r.committed \in Nat /\ r.committed < r.offset + Len(r.unstable)
  BY DEF Fits, RaftOK
<1>4. Len(r.unstable) \in Nat /\ (r.unstable = <<>> <=> Len(r.unstable) = 0)
  BY <1>3, EntrySeq
<1>5. r.offset \in Nat /\ r.offset >= 1
  BY <1>2, <1>3
<1>6. r.offset + Len(r.unstable) - 1 <= MaxIndex
  <2>1. CASE r.unstable = <<>>
    BY <1>2, <1>3, <1>4, <1>5, <2>1
  <2>2. CASE r.unstable # <<>>
    BY <1>3, <1>5, <2>2, LastNumber
  <2> QED BY <2>1, <2>2
<1>7. LastIndex(r) = r.offset + Len(r.unstable) - 1
  BY DEF LastIndex
<1> QED BY <1>2, <1>3, <1>4, <1>5, <1>6, <1>7

LEMMA FitsFollower ==
  ASSUME NEW i, NEW r, NEW t, NEW l, DOMAIN r = RawFields, Fits(i, r)
  PROVE  Fits(i, BecomeFollower(r, t, l))
<1> DEFINE s == BecomeFollower(r, t, l)
<1>1. /\ s.unstable = r.unstable /\ s.offset = r.offset /\ s.persisted = r.persisted
      /\ s.committed = r.committed /\ s.handed = r.handed /\ s.match = NoMatch
      /\ s.msgs = r.msgs
  BY DEF BecomeFollower, RawFields
<1> HIDE DEF s
<1>2. Fits(i, s)
  BY <1>1, FitsSame, MatchTypes
<1> QED BY <1>2 DEF s

LEMMA FitsCaught ==
  ASSUME VoterInv, LogInv, NEW m \in transit
  PROVE  Fits(m.to, Caught(m))
<1>1. m.to \in Node
  BY DEF VoterInv, Sound
<1>2. DOMAIN raw[m.to] = RawFields /\ Fits(m.to, raw[m.to])
  BY <1>1, FitsNow DEF VoterInv, VoterOK
<1>3. Caught(m) = raw[m.to] \/ \E t, l : Caught(m) = BecomeFollower(raw[m.to], t, l)
  BY DEF Caught
<1> QED BY <1>2, <1>3, FitsFollower

LEMMA FitsPropose ==
  ASSUME LogInv, NEW i \in Node, NEW r, NEW b \in 0..MaxCampaigns, Good(i, r, b), Fits(i, r),
         NEW d \in Payload, r.role = "leader" => LastIndex(r) < MaxIndex
  PROVE  Fits(i, Propose(i, r, d))
<1> DEFINE s == Propose(i, r, d)
           e == [index |-> LastIndex(r) + 1, term |-> r.term, data |-> d]
           m == [type |-> "Propose", from |-> i, to |-> r.leader, data |-> d]
<1>0. DOMAIN r = RawFields
  BY DEF Good, VoterOK
<1>m. {MaxCampaigns, MaxIndex} \subseteq Nat
  BY ClusterAssumption DEF ClusterAssumption
<1>1. CASE r.role = "leader"
  <2>1. /\ s.unstable = Append(r.unstable, e) /\ s.offset = r.offset
        /\ s.persisted = r.persisted /\ s.committed = r.committed /\ s.handed = r.handed
        /\ s.match = r.match /\ s.msgs = r.msgs
    BY <1>0, <1>1 DEF Propose, RawFields
  <2>2. r.term \in 1..MaxCampaigns
    <3>1. r.term \in 0..b /\ r.term >= 1
      BY <1>1 DEF Good, VoterOK
    <3> QED BY <1>m, <3>1
  <2>3. LastIndex(r) + 1 \in Index
    BY <1>1, <1>m, LastWithin DEF Index
  <2>4. e \in Entry /\ e.index = LastIndex(r) + 1
    BY <2>2, <2>3 DEF Entry
  <2>5. r.unstable \in Seq(Entry) /\ Numbered(r.unstable, r.offset)
    BY DEF Fits, RaftOK
  <2>6. /\ r.offset \in Nat /\ Len(r.unstable) \in Nat
        /\ e.index = r.offset + Len(r.unstable)
    BY <2>4, LastWithin
  <2> HIDE DEF s, e
  <2>7. /\ s.unstable \in Seq(Entry) /\ Numbered(s.unstable, s.offset)
        /\ Len(s.unstable) = Len(r.unstable) + 1 /\ s.unstable # <<>>
    BY <2>1, <2>4, <2>5, <2>6, AppendNumbered
  <2>8. s.committed < s.offset + Len(s.unstable)
    BY <2>1, <2>6, <2>7, LastWithin
  <2>9. Fits(i, s)
    BY <2>1, <2>7, <2>8 DEF Fits, RaftOK
  <2> QED BY <2>9 DEF s
<1>2. CASE r.role # "leader"
  <2>1. /\ s.unstable = r.unstable /\ s.offset = r.offset
        /\ s.persisted = r.persisted /\ s.committed = r.committed /\ s.handed = r.handed
        /\ s.match = r.match /\ s.msgs = r.msgs \cup {m}
    BY <1>0, <1>2 DEF Propose, RawFields
  <2>2. LogMessage(m)
    BY DEF LogMessage
  <2>3. r.match \in [Node -> 0..MaxIndex]
    BY DEF Fits, RaftOK
  <2> HIDE DEF s, m
  <2>4. Fits(i, s)
    BY <2>1, <2>2, <2>3, FitsSame
  <2> QED BY <2>4 DEF s
<1> QED BY <1>1, <1>2

LEMMA MaxElement ==
  ASSUME NEW n \in Nat, NEW S \in SUBSET (0..n), S # {}
  PROVE  Max(S) \in S /\ \A y \in S : Max(S) >= y
<1>1. \E x \in S : \A y \in S : x >= y
  <2>1. CASE S \ {0} = {}
    <3>1. S = {0}
      BY <2>1
    <3> QED BY <3>1
  <2>2. CASE S \ {0} # {}
    <3>1. S \ {0} \in SUBSET (1..n)
      OBVIOUS
    <3>2. PICK x \in S \ {0} : \A y \in S \ {0} : x >= y
      BY <2>2, <3>1, GreatestElement
    <3>3. x \in 1..n
      BY <3>1
    <3>4. \A y \in S : x >= y
      <4>1. x >= 0
        BY <3>3
      <4> QED BY <3>2, <4>1
    <3> QED BY <3>4
  <2> QED BY <2>1, <2>2
<1> QED BY <1>1 DEF Max

LEMMA MinElement ==
  ASSUME NEW S \in SUBSET Nat, S # {}
  PROVE  Min(S) \in S /\ \A y \in S : Min(S) <= y
<1>1. \E x \in S : \A y \in S : x <= y
  BY LeastElement
<1> QED BY <1>1 DEF Min

\* A leader commits what is in its log: what is not has no term there.
LEMMA MaybeCommitWithin ==
  ASSUME NEW i, NEW r, NEW c, DOMAIN r = RawFields,
         r.match \in [Node -> 0..MaxIndex], r.committed \in Nat, LastIndex(r) \in Nat,
         r.term \in Nat, r.term >= 1
  PROVE  LET s == MaybeCommit(i, r, c)
         IN  \/ s = r
             \/ \E k \in Nat : /\ s = [r EXCEPT !.committed = k]
                               /\ k > r.committed /\ k <= LastIndex(r)
<1> DEFINE held == {n \in {r.match[j] : j \in Node} :
                      n > r.committed /\ Majority({j \in Node : r.match[j] >= n})}
           s == MaybeCommit(i, r, c)
<1>1. s = IF held # {} /\ TermIn(i, r, c, Max(held)) = r.term
            THEN [r EXCEPT !.committed = Max(held)] ELSE r
  BY DEF MaybeCommit
<1>2. held \in SUBSET (0..MaxIndex) /\ \A n \in held : n > r.committed
  OBVIOUS
<1>3. MaxIndex \in Nat
  BY ClusterAssumption DEF ClusterAssumption
<1> HIDE DEF held, s
<1>4. CASE held # {} /\ TermIn(i, r, c, Max(held)) = r.term
  <2>1. Max(held) \in held
    BY <1>2, <1>3, <1>4, MaxElement
  <2>2. PICK k \in held : k = Max(held)
    BY <2>1
  <2>3. k \in Nat /\ k > r.committed
    BY <1>2, <1>3
  <2>4. k <= LastIndex(r)
    <3>1. k > LastIndex(r) => TermIn(i, r, c, k) = 0
      BY DEF TermIn
    <3> QED BY <1>4, <2>2, <2>3, <3>1
  <2> QED BY <1>1, <1>4, <2>2, <2>3, <2>4 DEF s
<1> QED BY <1>1, <1>4 DEF s

\* What is handed out of a log with n entries in the cache c: the entries up
\* to what is both committed and persisted.
LEMMA HandOutNext ==
  ASSUME NEW i, NEW r, NEW c \in Seq(Entry), Numbered(c, 1), RaftOK(r, Len(c)),
         DOMAIN r = RawFields
  PROVE  LET q == NextEntries(i, r, c)
             s == HandOut(r, q)
         IN  /\ q \in Seq(Entry)
             /\ s = r \/ \E k \in Nat : /\ s = [r EXCEPT !.handed = k]
                                       /\ k <= r.committed /\ k <= r.persisted
<1> DEFINE q == NextEntries(i, r, c)
           s == HandOut(r, q)
           high == AtMost(r.committed, r.persisted)
<1>1. /\ r.handed \in Nat /\ r.committed \in Nat /\ r.persisted \in Nat
      /\ r.handed <= r.committed /\ r.handed <= r.persisted
      /\ r.persisted < r.offset /\ r.offset \in 1..(Len(c) + 1)
  BY DEF RaftOK
<1>2. Len(c) \in Nat
  BY EntrySeq
<1>3. high \in Nat /\ high <= r.committed /\ high <= r.persisted /\ high <= Len(c)
  BY <1>1, <1>2 DEF AtMost
<1>4. CASE ~(r.handed < high)
  <2>1. q = <<>>
    BY <1>4 DEF NextEntries
  <2>2. s = r
    BY <2>1 DEF HandOut
  <2>3. q \in Seq(Entry)
    BY <2>1
  <2> HIDE DEF q, s
  <2> QED BY <1>1, <2>2, <2>3 DEF q, s
<1>5. CASE r.handed < high
  <2>1. q = Store(disk[i], c)!read_entries(r.handed + 1, high + 1, NoLimit)
    BY <1>5 DEF NextEntries
  <2> HIDE DEF high
  <2>2. /\ q \in Seq(Entry) /\ Len(q) = high - r.handed
        /\ \A k \in 1..(high - r.handed) : q[k] = c[r.handed + k]
    BY <1>1, <1>3, <1>5, <2>1, ReadRange
  <2> HIDE DEF q, s
  <2>3. high - r.handed \in 1..(high - r.handed) /\ r.handed + (high - r.handed) = high
    BY <1>1, <1>3, <1>5
  <2>4. Last(q) = c[high] /\ q # <<>>
    <3>1. q[high - r.handed] = c[high]
      BY <2>2, <2>3
    <3>2. Len(q) # 0
      BY <2>2, <2>3, <1>1, <1>3, <1>5
    <3> QED BY <2>2, <3>1, <3>2, EntrySeq DEF Last
  <2>5. c[high].index = high
    <3>1. high \in DOMAIN c
      BY <1>1, <1>3, <1>5, EntrySeq
    <3>2. c[high].index = 1 + high - 1
      BY <3>1 DEF Numbered
    <3> QED BY <1>3, <3>2
  <2>6. s = [r EXCEPT !.handed = high]
    BY <2>4, <2>5 DEF s, HandOut
  <2> QED BY <1>3, <2>2, <2>6 DEF q, s
<1> QED BY <1>4, <1>5

\* After advance nothing is unstable, and the log ends where it did.
LEMMA AdvancedOK ==
  ASSUME NEW i \in Node, NEW r, NEW c, DOMAIN r = RawFields, NEW n \in Nat,
         NEW u \in Nat, Len(r.unstable) = u, n + u <= MaxIndex, RaftOK(r, n), r.offset = n + 1,
         r.term \in Nat, r.role = "leader" => r.term >= 1
  PROVE  LET s == Advanced(i, r, c)
         IN  RaftOK(s, n + u) /\ s.unstable = <<>> /\ s.committed >= r.committed
<1> DEFINE l == n + u
           last == Last(r.unstable)
           stable == [r EXCEPT !.unstable = <<>>, !.offset = last.index + 1]
           counts == last.index > r.persisted /\ Store(disk[i], c)!term(last.index) = last.term
           kept == IF counts THEN [stable EXCEPT !.persisted = last.index] ELSE stable
           mine == [kept EXCEPT !.match[i] = last.index]
           s == Advanced(i, r, c)
           ok(x) == RaftOK(x, l) /\ x.unstable = <<>> /\ x.committed >= r.committed
<1>m. MaxIndex \in Nat
  BY ClusterAssumption DEF ClusterAssumption
<1>1. /\ r.unstable \in Seq(Entry) /\ Numbered(r.unstable, r.offset)
      /\ r.persisted \in Nat /\ r.persisted < n + 1
      /\ r.committed \in Nat /\ r.committed < n + 1 + u
      /\ r.handed \in Nat /\ r.handed <= r.committed /\ r.handed <= r.persisted
      /\ r.match \in [Node -> 0..MaxIndex]
  BY DEF RaftOK
<1>2. /\ DOMAIN r.unstable = 1..u
      /\ r.unstable = <<>> <=> u = 0
  BY <1>1, EntrySeq
<1>3. s = IF r.unstable = <<>> THEN r
          ELSE IF counts /\ r.role = "leader" THEN MaybeCommit(i, mine, c) ELSE kept
  BY DEF Advanced
<1>4. CASE r.unstable = <<>>
  <2>1. l = n
    BY <1>2, <1>4
  <2>2. ok(r)
    BY <1>1, <2>1
  <2> QED BY <1>3, <1>4, <2>2
<1>5. CASE r.unstable # <<>>
  <2>1. last.index = l
    <3>1. u \in DOMAIN r.unstable
      BY <1>2, <1>5
    <3>2. last.index = n + 1 + u - 1
      BY <1>1, <3>1 DEF Numbered, Last
    <3> QED BY <3>2
  <2> HIDE DEF last
  <2>2. /\ DOMAIN stable = RawFields /\ stable.unstable = <<>> /\ stable.offset = l + 1
        /\ stable.persisted = r.persisted /\ stable.committed = r.committed
        /\ stable.handed = r.handed /\ stable.match = r.match
        /\ stable.term = r.term
    BY <2>1 DEF RawFields
  <2> HIDE DEF stable
  <2>3. /\ DOMAIN kept = RawFields /\ kept.unstable = <<>> /\ kept.offset = l + 1
        /\ kept.persisted = (IF counts THEN l ELSE r.persisted) /\ kept.committed = r.committed
        /\ kept.handed = r.handed /\ kept.match = r.match
        /\ kept.term = r.term
    BY <2>1, <2>2 DEF RawFields
  <2>4. counts => l > r.persisted
    BY <2>1
  <2> HIDE DEF counts, kept
  <2>5. ok(kept)
    <3>1. <<>> \in Seq(Entry) /\ Numbered(<<>>, l + 1) /\ Len(<<>>) = 0
      BY DEF Numbered
    <3>2. /\ kept.persisted \in Nat /\ kept.persisted < l + 1 /\ r.handed <= kept.persisted
          /\ r.committed < l + 1 + 0 /\ l + 1 \in 1..(l + 1)
      BY <1>1, <1>2, <2>3, <2>4
    <3>3. RaftOK(kept, l)
      BY <1>1, <2>3, <3>1, <3>2 DEF RaftOK
    <3> QED BY <1>1, <2>3, <3>3
  <2>6. /\ DOMAIN mine = RawFields /\ mine.unstable = <<>> /\ mine.offset = l + 1
        /\ mine.persisted = kept.persisted /\ mine.committed = r.committed
        /\ mine.handed = r.handed /\ mine.match = [r.match EXCEPT ![i] = l]
        /\ mine.term = r.term
    BY <2>1, <2>3 DEF RawFields
  <2> HIDE DEF mine
  <2>7. mine.match \in [Node -> 0..MaxIndex]
    <3>1. l \in 0..MaxIndex
      BY <1>2, <1>m
    <3> HIDE DEF l
    <3> QED BY <1>1, <2>6, <3>1
  <2>8. LastIndex(mine) = l
    BY <1>2, <2>6 DEF LastIndex
  <2>9. ASSUME r.role = "leader"
        PROVE  ok(MaybeCommit(i, mine, c))
    <3>1. l \in Nat /\ mine.term >= 1 /\ mine.term \in Nat
      BY <1>2, <2>6, <2>9
    <3> DEFINE x == MaybeCommit(i, mine, c)
    <3>a. LastIndex(mine) \in Nat /\ mine.committed \in Nat
      BY <1>1, <2>6, <2>8, <3>1
    <3>2. \/ x = mine
          \/ \E k \in Nat : /\ x = [mine EXCEPT !.committed = k]
                            /\ k > mine.committed /\ k <= LastIndex(mine)
      BY <2>6, <2>7, <3>1, <3>a, MaybeCommitWithin
    <3> HIDE DEF x
    <3>3. /\ x.unstable = <<>> /\ x.offset = l + 1 /\ x.persisted = kept.persisted
          /\ x.handed = r.handed /\ x.match = mine.match
          /\ x.committed \in Nat /\ x.committed >= r.committed /\ x.committed <= l
      <4>1. r.committed <= l /\ r.committed \in Nat
        BY <1>1, <1>2
      <4>2. CASE x = mine
        BY <2>6, <4>1, <4>2
      <4>3. CASE x # mine
        <5>1. PICK k \in Nat : /\ x = [mine EXCEPT !.committed = k]
                               /\ k > r.committed /\ k <= l
          BY <2>6, <2>8, <3>2, <4>3
        <5>2. x.committed = k
          BY <2>6, <5>1 DEF RawFields
        <5>3. /\ x.unstable = <<>> /\ x.offset = l + 1 /\ x.persisted = kept.persisted
              /\ x.handed = r.handed /\ x.match = mine.match
          BY <2>6, <5>1 DEF RawFields
        <5> QED BY <1>1, <5>1, <5>2, <5>3
      <4> QED BY <4>2, <4>3
    <3>4. /\ kept.persisted \in Nat /\ kept.persisted < l + 1
          /\ r.handed \in Nat /\ r.handed <= kept.persisted
      BY <2>3, <2>5 DEF RaftOK
    <3>5. /\ x.committed < l + 1 + 0 /\ r.handed <= x.committed /\ l + 1 \in 1..(l + 1)
      BY <1>1, <3>1, <3>3
    <3>6. <<>> \in Seq(Entry) /\ Numbered(<<>>, l + 1) /\ Len(<<>>) = 0
      BY DEF Numbered
    <3> HIDE DEF l
    <3>7. RaftOK(x, l)
      BY <2>7, <3>3, <3>4, <3>5, <3>6 DEF RaftOK
    <3> QED BY <3>3, <3>7 DEF x
  <2> QED BY <1>3, <1>5, <2>5, <2>9
<1> QED BY <1>4, <1>5

-----------------------------------------------------------------------------
(* handle_ready: the cache, what is applied, and raft-rs afterwards *)

ReadyCache(i, r) == cache[i] \o r.unstable
ReadyFirst(i, r) == NextEntries(i, r, cache[i])
ReadyAdvanced(i, r) == Advanced(i, HandOut(r, ReadyFirst(i, r)), ReadyCache(i, r))
ReadyLight(i, r) == NextEntries(i, ReadyAdvanced(i, r), ReadyCache(i, r))
ReadyState(i, r) ==
  [HandOut(ReadyAdvanced(i, r), ReadyLight(i, r)) EXCEPT
     !.msgs = {}, !.unfinished = FALSE, !.reported = (r.role = "leader"),
     !.prevHs = HardStateOf(ReadyAdvanced(i, r))]

LEMMA AdvancedRole ==
  ASSUME NEW i, NEW r, NEW c, DOMAIN r = RawFields
  PROVE  Advanced(i, r, c).role = r.role
<1> DEFINE stable(o) == [r EXCEPT !.unstable = <<>>, !.offset = o]
           kept(o, p) == [stable(o) EXCEPT !.persisted = p]
           mine(o, p, x) == [kept(o, p) EXCEPT !.match[i] = x]
           same(s) == DOMAIN s = RawFields /\ s.role = r.role
<1>1. /\ same(r)
      /\ \A o : same(stable(o))
      /\ \A o, p : same(kept(o, p))
      /\ \A o, p, x : same(mine(o, p, x))
  BY DEF RawFields
<1>2. \/ Advanced(i, r, c) = r
      \/ \E o : Advanced(i, r, c) = stable(o)
      \/ \E o, p : Advanced(i, r, c) = kept(o, p)
      \/ \E o, p, x : Advanced(i, r, c) = MaybeCommit(i, mine(o, p, x), c)
  BY DEF Advanced
<1> HIDE DEF stable, kept, mine
<1>3. \A s : same(s) => MaybeCommit(i, s, c).role = s.role
  BY DEF MaybeCommit, RawFields
<1> QED BY <1>1, <1>2, <1>3

\* Nothing is left to send, and roles and terms are as before.
LEMMA ReadyGood ==
  ASSUME NEW i, NEW r, NEW b, Good(i, r, b)
  PROVE  LET s == ReadyState(i, r)
         IN  /\ Good(i, s, b)
             /\ s.msgs = {} /\ s.role = r.role /\ s.term = r.term
             /\ s.prevHs = HardStateOf(ReadyAdvanced(i, r))
             /\ ReadyAdvanced(i, r).term = r.term /\ ReadyAdvanced(i, r).vote = r.vote
<1> DEFINE h == HandOut(r, ReadyFirst(i, r))
           a == ReadyAdvanced(i, r)
           g == HandOut(a, ReadyLight(i, r))
           s == ReadyState(i, r)
           same(x) == /\ DOMAIN x = RawFields
                      /\ x.role = r.role /\ x.term = r.term /\ x.vote = r.vote
                      /\ x.leader = r.leader
<1>1. DOMAIN r = RawFields
  BY DEF Good, VoterOK
<1>2. \A x, q : DOMAIN x = RawFields => HandOut(x, q).role = x.role
  BY DEF HandOut, RawFields
<1>3. same(h)
  BY <1>1, <1>2, HandOutFields DEF SameVoting
<1>4. a = Advanced(i, h, ReadyCache(i, r))
  BY DEF ReadyAdvanced
<1> HIDE DEF h
<1>5. same(a)
  BY <1>3, <1>4, AdvancedFields, AdvancedRole DEF SameVoting
<1> HIDE DEF a
<1>6. same(g)
  BY <1>2, <1>5, HandOutFields DEF SameVoting
<1>7. s = [g EXCEPT !.msgs = {}, !.unfinished = FALSE, !.reported = (r.role = "leader"),
                    !.prevHs = HardStateOf(a)]
  BY DEF ReadyState, a
<1> HIDE DEF g, s
<1>8. same(s) /\ s.msgs = {} /\ s.prevHs = HardStateOf(a)
  BY <1>6, <1>7 DEF RawFields
<1>9. Good(i, s, b)
  BY <1>8, GoodSame
<1> QED BY <1>5, <1>8, <1>9 DEF s, a

LEMMA ReadyEnds ==
  ASSUME NEW i, NEW r, NEW b, Good(i, r, b)
  PROVE  /\ ReadyState(i, r).msgs = {}
         /\ ReadyState(i, r).prevHs.term = r.term /\ ReadyState(i, r).prevHs.vote = r.vote
         /\ ReadyState(i, r).prevHs.commit = ReadyAdvanced(i, r).committed
         /\ Plain(ReadyState(i, r).prevHs)
<1> DEFINE s == ReadyState(i, r)
           a == ReadyAdvanced(i, r)
<1>1. s.msgs = {}
  BY ReadyGood
<1>2. s.prevHs = HardStateOf(a)
  BY ReadyGood
<1>3. a.term = r.term
  BY ReadyGood
<1>4. a.vote = r.vote
  BY ReadyGood
<1> HIDE DEF s, a
<1>5. /\ s.prevHs.term = a.term /\ s.prevHs.vote = a.vote /\ s.prevHs.commit = a.committed
      /\ Plain(s.prevHs)
  BY <1>2 DEF HardStateOf, Plain
<1> QED BY <1>1, <1>3, <1>4, <1>5 DEF s, a

\* As long as no log is mixed, what is unstable continues the cache.
LEMMA ReadyContinues ==
  ASSUME LogInv, NEW i \in Node, NEW r, Fits(i, r), Numbered(ReadyCache(i, r), 1)
  PROVE  /\ ReadyCache(i, r) \in Seq(Entry)
         /\ r.offset = Len(cache[i]) + 1
         /\ Len(ReadyCache(i, r)) = Len(cache[i]) + Len(r.unstable)
         /\ Len(ReadyCache(i, r)) = LastIndex(r)
         /\ Len(cache[i]) \in Nat /\ Len(r.unstable) \in Nat
<1> DEFINE c == cache[i] \o r.unstable
<1>1. cache[i] \in Seq(Entry) /\ r.unstable \in Seq(Entry) /\ Numbered(r.unstable, r.offset)
  BY DEF LogInv, NodeLogInv, Fits, RaftOK
<1>2. PICK n \in Nat : n = Len(cache[i])
  BY <1>1, EntrySeq
<1>3. PICK u \in Nat : u = Len(r.unstable)
  BY <1>1, EntrySeq
<1>4. /\ c \in Seq(Entry) /\ Len(c) = n + u /\ DOMAIN c = 1..(n + u)
      /\ \A k \in 1..(n + u) : c[k] = IF k <= n THEN cache[i][k] ELSE r.unstable[k - n]
  BY <1>1, <1>2, <1>3, ConcatFacts
<1> HIDE DEF c
<1>5. r.offset = n + 1
  <2>1. CASE r.unstable = <<>>
    BY <1>2, <2>1 DEF Fits, RaftOK
  <2>2. CASE r.unstable # <<>>
    <3>1. u >= 1 /\ 1 \in DOMAIN r.unstable
      BY <1>1, <1>3, <2>2, EntrySeq
    <3>2. c[n + 1] = r.unstable[1]
      <4>1. n + 1 \in 1..(n + u) /\ ~(n + 1 <= n) /\ (n + 1) - n = 1
        BY <3>1
      <4> QED BY <1>4, <4>1
    <3>3. c[n + 1].index = 1 + (n + 1) - 1
      <4>1. n + 1 \in DOMAIN c
        BY <1>4, <3>1
      <4> QED BY <4>1 DEF Numbered, ReadyCache, c
    <3>4. r.unstable[1].index = r.offset + 1 - 1
      BY <1>1, <3>1 DEF Numbered
    <3>5. r.offset \in Nat
      BY LastWithin
    <3> QED BY <3>2, <3>3, <3>4, <3>5
  <2> QED BY <2>1, <2>2
<1>6. LastIndex(r) = n + u
  <2>1. LastIndex(r) = r.offset + u - 1
    BY <1>3 DEF LastIndex
  <2> QED BY <1>5, <2>1
<1> QED BY <1>2, <1>3, <1>4, <1>5, <1>6 DEF ReadyCache, c

\* Handing out changes only how far entries have been handed out.
LEMMA HandOutOK ==
  ASSUME NEW i, NEW r, NEW c \in Seq(Entry), Numbered(c, 1), NEW n,
         RaftOK(r, n), RaftOK(r, Len(c)), DOMAIN r = RawFields
  PROVE  LET q == NextEntries(i, r, c)
             s == HandOut(r, q)
         IN  /\ q \in Seq(Entry)
             /\ DOMAIN s = RawFields
             /\ RaftOK(s, n) /\ s.unstable = r.unstable /\ s.offset = r.offset
             /\ s.committed = r.committed /\ s.persisted = r.persisted
             /\ s.role = r.role /\ s.term = r.term
<1> DEFINE q == NextEntries(i, r, c)
           s == HandOut(r, q)
<1>1. /\ q \in Seq(Entry)
      /\ s = r \/ \E k \in Nat : /\ s = [r EXCEPT !.handed = k]
                                /\ k <= r.committed /\ k <= r.persisted
  BY HandOutNext
<1> HIDE DEF q, s
<1>2. CASE s = r
  BY <1>1, <1>2 DEF q, s
<1>3. ASSUME NEW k \in Nat, s = [r EXCEPT !.handed = k], k <= r.committed, k <= r.persisted
      PROVE  /\ DOMAIN s = RawFields
             /\ RaftOK(s, n) /\ s.unstable = r.unstable /\ s.offset = r.offset
             /\ s.committed = r.committed /\ s.persisted = r.persisted
             /\ s.role = r.role /\ s.term = r.term
  <2>1. /\ DOMAIN s = RawFields
        /\ s.unstable = r.unstable /\ s.offset = r.offset /\ s.persisted = r.persisted
        /\ s.committed = r.committed /\ s.match = r.match /\ s.handed = k
        /\ s.role = r.role /\ s.term = r.term
    BY <1>3 DEF RawFields
  <2> QED BY <1>3, <2>1 DEF RaftOK
<1> QED BY <1>1, <1>2, <1>3 DEF q, s

LEMMA ReadyOK ==
  ASSUME LogInv, NEW i \in Node, NEW r, NEW b \in Nat, Good(i, r, b), Fits(i, r),
         Numbered(ReadyCache(i, r), 1)
  PROVE  LET s == ReadyState(i, r)
             n == Len(ReadyCache(i, r))
         IN  /\ RaftOK(s, n) /\ LastIndex(s) = n
             /\ s.committed = ReadyAdvanced(i, r).committed
             /\ s.committed >= r.committed /\ s.committed <= n
             /\ ReadyFirst(i, r) \in Seq(Entry) /\ ReadyLight(i, r) \in Seq(Entry)
<1> DEFINE c == ReadyCache(i, r)
           h == HandOut(r, ReadyFirst(i, r))
           a == ReadyAdvanced(i, r)
           g == HandOut(a, ReadyLight(i, r))
           s == ReadyState(i, r)
<1>1. c \in Seq(Entry) /\ LastIndex(r) \in 0..MaxIndex /\ LastIndex(r) = Len(c)
  BY ReadyContinues, LastWithin
<1>2. PICK n \in Nat, u \in Nat : n = Len(cache[i]) /\ u = Len(r.unstable)
  BY ReadyContinues
<1>3. r.offset = n + 1 /\ Len(c) = n + u /\ n + u <= MaxIndex /\ n + u \in Nat
  <2>1. r.offset = n + 1 /\ Len(c) = n + u
    BY <1>2, ReadyContinues
  <2> HIDE DEF c
  <2>2. n + u \in 0..MaxIndex /\ MaxIndex \in Nat
    BY <1>1, <2>1, ClusterAssumption DEF ClusterAssumption
  <2> QED BY <2>1, <2>2
<1>4. DOMAIN r = RawFields /\ r.term \in Nat /\ (r.role = "leader" => r.term >= 1)
  BY DEF Good, VoterOK
<1>5. cache[i] \in Seq(Entry) /\ Numbered(cache[i], 1) /\ RaftOK(r, n)
  BY <1>2 DEF LogInv, NodeLogInv, Fits
<1>6. /\ ReadyFirst(i, r) \in Seq(Entry)
      /\ DOMAIN h = RawFields
      /\ RaftOK(h, n) /\ h.unstable = r.unstable /\ h.offset = r.offset
      /\ h.committed = r.committed /\ h.role = r.role /\ h.term = r.term
  BY <1>2, <1>4, <1>5, HandOutOK DEF ReadyFirst
<1>7. a = Advanced(i, h, c)
  BY DEF ReadyAdvanced
<1> HIDE DEF h, a
<1>8. RaftOK(a, n + u) /\ a.unstable = <<>> /\ a.committed >= r.committed
  BY <1>2, <1>3, <1>4, <1>6, <1>7, AdvancedOK
<1>9. DOMAIN a = RawFields
  BY <1>6, <1>7, AdvancedFields DEF SameVoting
<1>10. Numbered(c, 1)
  OBVIOUS
<1> HIDE DEF c
<1>11. /\ ReadyLight(i, r) \in Seq(Entry)
       /\ DOMAIN g = RawFields
       /\ RaftOK(g, n + u) /\ g.unstable = <<>> /\ g.offset = a.offset
       /\ g.committed = a.committed
  BY <1>1, <1>3, <1>8, <1>9, <1>10, HandOutOK DEF ReadyLight, a, c
<1> HIDE DEF g
<1>12. s = [g EXCEPT !.msgs = {}, !.unfinished = FALSE, !.reported = (r.role = "leader"),
                     !.prevHs = HardStateOf(a)]
  BY DEF ReadyState, g, a
<1> HIDE DEF s
<1>13. /\ s.unstable = <<>> /\ s.offset = g.offset /\ s.persisted = g.persisted
       /\ s.committed = g.committed /\ s.match = g.match /\ s.handed = g.handed
  BY <1>11, <1>12 DEF RawFields
<1>14. RaftOK(s, n + u)
  BY <1>11, <1>13 DEF RaftOK
<1>15. s.offset = n + u + 1 /\ s.committed \in Nat /\ s.committed < s.offset + Len(<<>>)
  BY <1>13, <1>14 DEF RaftOK
<1>16. Len(<<>>) = 0
  OBVIOUS
<1>17. s.committed <= n + u
  BY <1>15, <1>16
<1>18. LastIndex(s) = n + u
  BY <1>13, <1>15, <1>16 DEF LastIndex
<1> QED BY <1>3, <1>6, <1>8, <1>11, <1>13, <1>14, <1>17, <1>18 DEF s, a, c

\* A leader sends what it has in its cache, after an index that it has too.
LEMMA LeaderMessageOK ==
  ASSUME NEW i, NEW r, NEW c \in Seq(Entry), Numbered(c, 1), NEW n \in 0..MaxIndex, Len(c) = n,
         LastIndex(r) = n, r.match \in [Node -> 0..MaxIndex], r.committed \in Nat,
         NEW j \in Node
  PROVE  LogMessage(LeaderMessage(i, r, c, j))
<1> DEFINE term(k) == Store(disk[i], c)!term(k)
           probes == {k \in r.match[j]..LastIndex(r) : TermAt(j, raw[j], k) = term(k)}
           prev == Max(probes \cup {r.match[j]})
           es == IF prev = LastIndex(r) THEN <<>>
                 ELSE Store(disk[i], c)!read_entries(prev + 1, LastIndex(r) + 1, NoLimit)
           m == LeaderMessage(i, r, c, j)
<1>m. MaxIndex \in Nat
  BY ClusterAssumption DEF ClusterAssumption
<1>1. PICK k \in 0..MaxIndex : k = r.match[j]
  OBVIOUS
<1>2. CASE k < n
  <2>1. /\ m.type = "Append" /\ m.index = prev /\ m.logTerm = term(prev)
        /\ m.commit = r.committed /\ m.entries = es
    BY <1>1, <1>2 DEF LeaderMessage
  <2>2. probes \cup {k} \in SUBSET (0..n) /\ probes \cup {k} # {}
    BY <1>1, <1>2, <1>m
  <2>3. prev \in probes \cup {k}
    <3> HIDE DEF probes
    <3>1. n \in Nat
      BY <1>m
    <3> QED BY <1>1, <2>2, <3>1, MaxElement
  <2>4. PICK p \in 0..n : p = prev
    BY <1>1, <1>2, <1>m, <2>2, <2>3
  <2> HIDE DEF prev, m, probes
  <2>5. p = 0 \/ m.logTerm # 0
    <3>1. CASE p # 0
      <4>1. p \in Nat /\ p >= 1 /\ p <= Len(c)
        BY <1>m, <2>4, <3>1
      <4>2. term(p) \in Nat /\ term(p) >= 1
        BY <4>1, StoredTerm
      <4> QED BY <2>1, <2>4, <4>2
    <3> QED BY <3>1
  <2>6. es \in Seq(Entry) /\ Numbered(es, p + 1) /\ Len(es) = n - p
    <3>1. CASE p = n
      <4>1. es = <<>>
        BY <2>4, <3>1
      <4>2. <<>> \in Seq(Entry) /\ Numbered(<<>>, p + 1) /\ Len(<<>>) = 0
        BY DEF Numbered
      <4>3. n - p = 0
        BY <1>m, <3>1
      <4> HIDE DEF es
      <4> QED BY <4>1, <4>2, <4>3
    <3>2. CASE p # n
      <4>1. p \in Nat /\ n \in Nat /\ p <= n
        BY <1>m, <2>4
      <4>2. es = Store(disk[i], c)!read_entries(p + 1, n + 1, NoLimit)
        BY <2>4, <3>2
      <4> HIDE DEF es
      <4>3. /\ es \in Seq(Entry) /\ Len(es) = n - p
            /\ \A x \in 1..(n - p) : es[x] = c[p + x]
        <5>1. n <= Len(c) /\ Numbered(c, 1) /\ c \in Seq(Entry)
          BY <4>1
        <5> QED BY ONLY <4>1, <4>2, <5>1, ReadRange
      <4>4. \A x \in 1..n : c[x].index = x
        <5>1. DOMAIN c = 1..n
          BY EntrySeq
        <5>2. \A x \in 1..n : c[x].index = 1 + x - 1
          BY <5>1 DEF Numbered
        <5> QED BY <4>1, <5>2
      <4>5. \A x \in 1..(n - p) : es[x].index = p + 1 + x - 1
        <5>1. TAKE x \in 1..(n - p)
        <5>2. p + x \in 1..n
          BY <4>1
        <5> QED BY <4>1, <4>3, <4>4, <5>2
      <4>6. DOMAIN es = 1..(n - p)
        BY <4>3, EntrySeq
      <4> QED BY <4>3, <4>5, <4>6 DEF Numbered
    <3> QED BY <3>1, <3>2
  <2> HIDE DEF es
  <2>7. p \in Nat /\ p + Len(es) <= MaxIndex
    BY <1>m, <2>4, <2>6
  <2>8. LogMessage(m)
    BY <2>1, <2>4, <2>5, <2>6, <2>7 DEF LogMessage
  <2> QED BY <2>8 DEF m
<1>3. CASE ~(k < n)
  <2>1. m.type = "Heartbeat" /\ m.commit = AtMost(r.committed, k)
    BY <1>1, <1>3 DEF LeaderMessage
  <2>2. m.commit \in Nat
    BY <1>m, <2>1 DEF AtMost
  <2> HIDE DEF m
  <2>3. LogMessage(m)
    BY <2>1, <2>2 DEF LogMessage
  <2> QED BY <2>3 DEF m
<1> QED BY <1>2, <1>3

-----------------------------------------------------------------------------
(* MsgAppend: the log after the entries that do not match are replaced *)

NewAt(i, r, m) ==
  {k \in DOMAIN m.entries : TermAt(i, r, m.entries[k].index) # m.entries[k].term}
FirstNew(i, r, m) == m.entries[Min(NewAt(i, r, m))].index
Fresh(i, r, m) == SubSeq(m.entries, Min(NewAt(i, r, m)), Len(m.entries))
Kept(r, first) ==
  IF first <= r.offset THEN <<>> ELSE SubSeq(r.unstable, 1, first - r.offset)
Grown(i, r, m) ==
  IF NewAt(i, r, m) = {} THEN r
  ELSE [r EXCEPT !.unstable = Kept(r, FirstNew(i, r, m)) \o Fresh(i, r, m),
                 !.offset = AtMost(@, FirstNew(i, r, m)),
                 !.persisted = AtMost(@, FirstNew(i, r, m) - 1)]

\* The first entry that does not match continues the log or replaces a part of
\* it: the one before it is there.
LEMMA FirstNewContinues ==
  ASSUME NEW i, NEW r, LastIndex(r) \in Nat, NEW m, m.type = "Append", LogMessage(m),
         TermAt(i, r, m.index) = m.logTerm, NewAt(i, r, m) # {}
  PROVE  /\ Min(NewAt(i, r, m)) \in 1..Len(m.entries) /\ Len(m.entries) \in Nat
         /\ FirstNew(i, r, m) = m.index + Min(NewAt(i, r, m))
         /\ FirstNew(i, r, m) <= LastIndex(r) + 1
<1> DEFINE S == NewAt(i, r, m)
<1>1. /\ m.entries \in Seq(Entry) /\ Numbered(m.entries, m.index + 1)
      /\ m.index \in Nat /\ (m.index = 0 \/ m.logTerm # 0)
  BY DEF LogMessage
<1>2. PICK n \in Nat, b \in Nat : n = Len(m.entries) /\ b = m.index
  BY <1>1, EntrySeq
<1>3. /\ DOMAIN m.entries = 1..n
      /\ \A k \in 1..n : m.entries[k] \in Entry /\ m.entries[k].index = b + k
  <2>1. DOMAIN m.entries = 1..n /\ \A k \in 1..n : m.entries[k] \in Entry
    BY <1>1, <1>2, EntrySeq
  <2>2. \A k \in 1..n : m.entries[k].index = (b + 1) + k - 1
    BY <1>1, <1>2, <2>1 DEF Numbered
  <2> QED BY <2>1, <2>2
<1>4. S \in SUBSET (1..n) /\ S \in SUBSET Nat
  BY <1>3 DEF NewAt
<1>5. PICK k \in S : k = Min(S) /\ \A x \in S : k <= x
  BY <1>4, MinElement
<1>6. k \in 1..n
  BY <1>4, <1>5
<1>7. FirstNew(i, r, m) = b + k
  BY <1>3, <1>5, <1>6 DEF FirstNew
<1>8. \A x \in Nat : x > LastIndex(r) => TermAt(i, r, x) = 0
  BY DEF TermAt, TermIn
<1>9. b + k <= LastIndex(r) + 1
  <2>1. CASE k = 1
    <3>1. b <= LastIndex(r)
      <4>1. CASE b = 0
        BY <4>1
      <4>2. CASE b # 0
        <5>1. TermAt(i, r, b) # 0
          BY <1>1, <1>2, <4>2
        <5> QED BY <1>8, <5>1
      <4> QED BY <4>1, <4>2
    <3> QED BY <2>1, <3>1
  <2>2. CASE k # 1
    <3>1. k - 1 \in 1..n /\ k - 1 < k
      BY <1>6, <2>2
    <3>2. k - 1 \notin S
      BY <1>4, <1>5, <1>6, <3>1
    <3>3. TermAt(i, r, b + (k - 1)) = m.entries[k - 1].term
      BY <1>3, <3>1, <3>2 DEF NewAt
    <3>4. m.entries[k - 1].term # 0
      BY <1>3, <3>1, EntryFacts
    <3>5. b + (k - 1) <= LastIndex(r)
      <4>1. b + (k - 1) \in Nat
        BY <3>1
      <4> QED BY <1>8, <3>3, <3>4, <4>1
    <3> QED BY <1>6, <3>5
  <2> QED BY <2>1, <2>2
<1> QED BY <1>2, <1>5, <1>6, <1>7, <1>9

LEMMA GrownOK ==
  ASSUME LogInv, NEW i \in Node, NEW r, DOMAIN r = RawFields, Fits(i, r),
         NEW m, m.type = "Append", LogMessage(m), TermAt(i, r, m.index) = m.logTerm,
         NewAt(i, r, m) # {} => FirstNew(i, r, m) > r.committed
  PROVE  LET s == Grown(i, r, m)
         IN  /\ RaftOK(s, Len(cache[i])) /\ DOMAIN s = RawFields
             /\ s.msgs = r.msgs /\ s.committed = r.committed /\ s.prevHs = r.prevHs
             /\ s.role = r.role /\ s.term = r.term /\ s.vote = r.vote /\ s.leader = r.leader
<1> DEFINE s == Grown(i, r, m)
           S == NewAt(i, r, m)
           first == FirstNew(i, r, m)
           fresh == Fresh(i, r, m)
           kept == Kept(r, first)
<1>1. CASE S = {}
  BY <1>1 DEF Grown, Fits
<1>2. CASE S # {}
  <2>1. /\ s.unstable = kept \o fresh /\ s.offset = AtMost(r.offset, first)
        /\ s.persisted = AtMost(r.persisted, first - 1) /\ s.committed = r.committed
        /\ s.handed = r.handed /\ s.match = r.match
    BY <1>2 DEF Grown, RawFields
  <2>2. /\ DOMAIN s = RawFields /\ s.msgs = r.msgs /\ s.committed = r.committed
        /\ s.prevHs = r.prevHs
        /\ s.role = r.role /\ s.term = r.term /\ s.vote = r.vote /\ s.leader = r.leader
    BY <1>2 DEF Grown, RawFields
  <2>3. LastIndex(r) \in Nat
    BY LastWithin
  <2>4. PICK k \in Nat, n \in Nat, b \in Nat, f \in Nat :
          /\ k = Min(S) /\ n = Len(m.entries) /\ b = m.index /\ f = first
          /\ k >= 1 /\ k <= n /\ f = b + k /\ f <= LastIndex(r) + 1
    <3>1. /\ Min(S) \in 1..Len(m.entries) /\ Len(m.entries) \in Nat
          /\ first = m.index + Min(S) /\ first <= LastIndex(r) + 1
      BY <1>2, <2>3, FirstNewContinues
    <3>2. m.index \in Nat
      BY DEF LogMessage
    <3>3. Min(S) \in Nat /\ m.index + Min(S) \in Nat
      BY <3>1, <3>2
    <3> HIDE DEF S, first
    <3> QED BY <3>1, <3>2, <3>3
  <2>5. PICK o \in Nat, u \in Nat, p \in Nat, q \in Nat, a \in Nat :
          /\ o = r.offset /\ u = Len(r.unstable) /\ p = r.persisted /\ q = r.committed
          /\ a = r.handed
    BY LastWithin DEF Fits, RaftOK
  <2>6. PICK l \in Nat : l = Len(cache[i])
    BY EntrySeq DEF LogInv, NodeLogInv
  <2>7. /\ r.unstable \in Seq(Entry) /\ Numbered(r.unstable, o)
        /\ o \in 1..(l + 1) /\ p < o /\ q < o + u /\ a <= q /\ a <= p
        /\ r.match \in [Node -> 0..MaxIndex]
    BY <2>5, <2>6 DEF Fits, RaftOK
  <2>8. LastIndex(r) = o + u - 1
    BY <2>5 DEF LastIndex
  <2>9. f <= o + u /\ f > q /\ f >= 1
    <3>1. f <= (o + u - 1) + 1
      BY <2>4, <2>8
    <3>2. f > q
      BY <1>2, <2>4, <2>5
    <3> QED BY <2>4, <3>1, <3>2
  <2>10. fresh \in Seq(Entry) /\ Len(fresh) = n + 1 - k /\ Numbered(fresh, f)
    <3>1. m.entries \in Seq(Entry) /\ Numbered(m.entries, b + 1) /\ b + 1 \in Nat
      BY <2>4 DEF LogMessage
    <3>2. fresh = SubSeq(m.entries, k, n)
      BY <2>4 DEF Fresh
    <3>3. (b + 1) + k - 1 = f /\ k <= n + 1 /\ n <= n
      BY <2>4
    <3> HIDE DEF fresh
    <3>4. /\ SubSeq(m.entries, k, n) \in Seq(Entry) /\ Len(SubSeq(m.entries, k, n)) = n + 1 - k
          /\ Numbered(SubSeq(m.entries, k, n), (b + 1) + k - 1)
      <4>1. b + 1 >= 1 /\ n <= Len(m.entries) /\ k >= 1 /\ k \in Nat /\ n \in Nat
        BY <2>4
      <4> QED BY ONLY <3>1, <3>3, <4>1, SubSeqNumbered
    <3> QED BY <3>2, <3>3, <3>4
  <2> HIDE DEF s, S, first, fresh
  <2>11. PICK w \in Nat :
           /\ s.unstable \in Seq(Entry) /\ Numbered(s.unstable, s.offset)
           /\ Len(s.unstable) = w /\ w >= 1 /\ s.offset + w >= f + 1
           /\ s.offset \in Nat /\ s.offset >= 1 /\ s.offset <= o /\ s.offset <= f
    <3> DEFINE v == n + 1 - k
    <3>1. v \in Nat /\ v >= 1
      BY <2>4
    <3>2. CASE f <= o
      <4>1. kept = <<>> /\ s.offset = f
        BY <2>1, <2>4, <2>5, <3>2 DEF Kept, AtMost
      <4>2. s.unstable = fresh
        BY <2>1, <2>10, <4>1
      <4>3. f + v >= f + 1
        BY <3>1
      <4> HIDE DEF v
      <4>4. Len(s.unstable) = v /\ s.unstable \in Seq(Entry) /\ Numbered(s.unstable, s.offset)
        BY <2>10, <4>1, <4>2 DEF v
      <4> QED BY <2>9, <3>1, <3>2, <4>1, <4>3, <4>4
    <3>3. CASE f > o
      <4>1. kept = SubSeq(r.unstable, 1, f - o) /\ s.offset = o
        <5>1. ~(first <= r.offset)
          BY <2>4, <2>5, <3>3
        <5>2. kept = SubSeq(r.unstable, 1, first - r.offset)
          BY <5>1, Zenon DEF Kept
        <5>3. s.offset = o
          BY <2>1, <2>4, <2>5, <3>3 DEF AtMost
        <5> QED BY <2>4, <2>5, <5>2, <5>3
      <4>2. f - o \in Nat /\ 1 <= (f - o) + 1 /\ f - o <= u /\ (f - o) + 1 - 1 = f - o
            /\ o + 1 - 1 = o /\ o + (f - o) = f
        BY <2>9, <3>3
      <4>3. kept \in Seq(Entry) /\ Len(kept) = f - o /\ Numbered(kept, o)
        <5> DEFINE x == f - o
        <5>1. x \in Nat /\ 1 <= x + 1 /\ x <= Len(r.unstable)
          BY <2>5, <4>2
        <5> HIDE DEF x
        <5>2. /\ SubSeq(r.unstable, 1, x) \in Seq(Entry)
              /\ Len(SubSeq(r.unstable, 1, x)) = x + 1 - 1
              /\ Numbered(SubSeq(r.unstable, 1, x), o + 1 - 1)
          BY <2>7, <5>1, SubSeqNumbered
        <5>3. x + 1 - 1 = x
          BY <5>1
        <5> QED BY <4>1, <4>2, <5>2, <5>3 DEF x
      <4> HIDE DEF kept
      <4>4. Numbered(fresh, o + Len(kept))
        BY <2>10, <4>2, <4>3
      <4>5. /\ kept \o fresh \in Seq(Entry) /\ Numbered(kept \o fresh, o)
            /\ Len(kept \o fresh) = Len(kept) + Len(fresh)
        BY <2>10, <4>3, <4>4, ConcatNumbered
      <4>6. Len(s.unstable) = (f - o) + v
        BY <2>1, <2>10, <4>3, <4>5
      <4>7. (f - o) + v \in Nat /\ (f - o) + v >= 1 /\ o + ((f - o) + v) >= f + 1
        BY <3>1, <4>2
      <4>8. s.unstable \in Seq(Entry) /\ Numbered(s.unstable, s.offset)
        BY <2>1, <4>1, <4>5
      <4> HIDE DEF v
      <4>9. o >= 1 /\ o <= o /\ o <= f
        BY <2>7, <3>3
      <4> QED BY <4>1, <4>6, <4>7, <4>8, <4>9
    <3> QED BY <2>4, <2>5, <3>2, <3>3
  <2>12. s.persisted = AtMost(p, f - 1)
    BY <2>1, <2>4, <2>5
  <2>13. s.persisted \in Nat /\ s.persisted < s.offset
    <3>1. s.offset = AtMost(o, f)
      BY <2>1, <2>4, <2>5
    <3>2. f >= 1 /\ p < o
      BY <2>7, <2>9
    <3>3. AtMost(p, f - 1) \in Nat /\ AtMost(p, f - 1) < AtMost(o, f)
      BY ONLY <3>2, p \in Nat, o \in Nat, f \in Nat DEF AtMost
    <3> QED BY <2>12, <3>1, <3>3
  <2>14. q < s.offset + w /\ a <= s.persisted
    <3>1. a <= f - 1
      BY <2>7, <2>9
    <3>2. a <= s.persisted
      BY <2>7, <2>12, <3>1 DEF AtMost
    <3>3. q < s.offset + w
      BY <2>9, <2>11
    <3> QED BY <3>2, <3>3
  <2>15. s.offset \in 1..(l + 1) /\ s.unstable # <<>>
    BY <2>7, <2>11
  <2>16. s.committed = q /\ s.handed = a /\ s.match = r.match
    BY <2>1, <2>5
  <2>17. RaftOK(s, l)
    BY <2>7, <2>11, <2>13, <2>14, <2>15, <2>16 DEF RaftOK
  <2> QED BY <2>2, <2>6, <2>17 DEF s
<1> QED BY <1>1, <1>2

-----------------------------------------------------------------------------
(* The receiving branch *)

\* Node m.to receives m and goes to a state that it may be in.
StepsTo(m) ==
  \E r : /\ Step(m.to, m, r)
         /\ Good(m.to, r, campaigns)
         /\ r.prevHs = raw[m.to].prevHs
         /\ LogInv => Fits(m.to, r)

LEMMA TransitSound ==
  ASSUME VoterInv, NEW m \in transit
  PROVE  /\ Sound(m, campaigns) /\ m.to \in Node /\ m.from \in Node /\ m.from # m.to
         /\ Good(m.to, raw[m.to], campaigns) /\ DOMAIN raw[m.to] = RawFields
         /\ LogInv => LogMessage(m) /\ Fits(m.to, raw[m.to])
<1>1. Sound(m, campaigns) /\ m.to \in Node /\ m.from \in Node /\ m.from # m.to
  BY DEF VoterInv, Sound
<1>2. Good(m.to, raw[m.to], campaigns) /\ DOMAIN raw[m.to] = RawFields
  BY <1>1, GoodNow DEF Good, VoterOK
<1>3. LogInv => LogMessage(m) /\ Fits(m.to, raw[m.to])
  BY <1>1, FitsNow DEF LogInv
<1> QED BY <1>1, <1>2, <1>3

LEMMA VoteSteps ==
  ASSUME VoterInv, campaigns \in Nat, NEW m \in transit, HandleVote(m)
  PROVE  StepsTo(m)
<1> DEFINE i == m.to
           r == Caught(m)
           answer == [type |-> "VoteResp", from |-> m.to, to |-> m.from, term |-> r.term]
           granted == [r EXCEPT !.vote = m.from, !.msgs = @ \cup {answer}]
<1>1. m.type = "Vote" /\ Matters(m, raw[i])
  BY DEF HandleVote, Step
<1>2. Step(i, m, r) \/ Step(i, m, granted)
  BY DEF HandleVote
<1>3. Good(i, r, campaigns) /\ r.prevHs = raw[i].prevHs /\ (LogInv => Fits(i, r))
  BY <1>1, GoodCaught, FitsCaught
<1>4. DOMAIN r = RawFields /\ r.term \in 0..campaigns
  BY <1>3 DEF Good, VoterOK
<1> HIDE DEF r
<1>5. /\ DOMAIN granted = RawFields
      /\ granted.role = r.role /\ granted.term = r.term /\ granted.vote = m.from
      /\ granted.leader = r.leader /\ granted.msgs = r.msgs \cup {answer}
      /\ granted.prevHs = r.prevHs
      /\ granted.unstable = r.unstable /\ granted.offset = r.offset
      /\ granted.persisted = r.persisted /\ granted.committed = r.committed
      /\ granted.handed = r.handed /\ granted.match = r.match
  BY <1>4 DEF RawFields
<1>6. Sound(answer, campaigns) /\ answer.from = i /\ LogMessage(answer)
  BY <1>4, TransitSound DEF Sound, LogMessage
<1> HIDE DEF granted, answer
<1>7. Good(i, granted, campaigns)
  BY <1>3, <1>5, <1>6, TransitSound DEF Good, VoterOK
<1>8. ASSUME LogInv
      PROVE  Fits(i, granted)
  <2>1. r.match \in [Node -> 0..MaxIndex] /\ Fits(i, r)
    BY <1>3, <1>8 DEF Fits, RaftOK
  <2> QED BY <1>5, <1>6, <2>1, FitsSame
<1> QED BY <1>2, <1>3, <1>5, <1>7, <1>8 DEF StepsTo

LEMMA VoteRespSteps ==
  ASSUME VoterInv, campaigns \in 0..MaxCampaigns, NEW m \in transit, HandleVoteResp(m)
  PROVE  StepsTo(m)
<1> DEFINE i == m.to
           v == raw[i].votes \cup {m.from}
           r == [raw[i] EXCEPT !.votes = v]
           n == [NoMatch EXCEPT ![i] = r.persisted]
           leader == [r EXCEPT !.role = "leader", !.leader = i, !.votes = {}, !.match = n]
           s == Propose(i, leader, Empty)
<1>1. Matters(m, raw[i]) /\ m.type = "VoteResp"
  BY DEF HandleVoteResp, Step
<1>2. raw[i].role = "candidate"
  BY <1>1 DEF Matters
<1>3. Step(i, m, r) \/ (Step(i, m, s) /\ LastIndex(r) < MaxIndex)
  BY DEF HandleVoteResp
<1>4. /\ i \in Node /\ DOMAIN raw[i] = RawFields /\ Good(i, raw[i], campaigns)
      /\ (LogInv => Fits(i, raw[i]))
  BY TransitSound
<1>5. Good(i, leader, campaigns) /\ leader.prevHs = raw[i].prevHs /\ leader.role = "leader"
  <2>1. /\ DOMAIN leader = RawFields
        /\ leader.role = "leader" /\ leader.leader = i /\ leader.term = raw[i].term
        /\ leader.vote = raw[i].vote /\ leader.msgs = raw[i].msgs
        /\ leader.prevHs = raw[i].prevHs
    BY <1>4 DEF RawFields
  <2> HIDE DEF leader
  <2> QED BY <1>2, <1>4, <2>1, GoodLeader
<1>6. Good(i, s, campaigns) /\ s.prevHs = raw[i].prevHs
  <2>1. Accepts(leader)
    BY <1>5 DEF Accepts
  <2>2. Empty \in Payload
    BY DEF Empty, Payload
  <2> HIDE DEF leader
  <2> QED BY <1>4, <1>5, <2>1, <2>2, GoodPropose
<1>7. /\ DOMAIN r = RawFields
      /\ r.role = raw[i].role /\ r.term = raw[i].term /\ r.vote = raw[i].vote
      /\ r.leader = raw[i].leader /\ r.msgs = raw[i].msgs /\ r.prevHs = raw[i].prevHs
      /\ r.unstable = raw[i].unstable /\ r.offset = raw[i].offset
      /\ r.persisted = raw[i].persisted /\ r.committed = raw[i].committed
      /\ r.handed = raw[i].handed /\ r.match = raw[i].match
  BY <1>4 DEF RawFields
<1> HIDE DEF r
<1>8. Good(i, r, campaigns)
  BY <1>4, <1>7, GoodSame
<1>9. /\ leader.unstable = r.unstable /\ leader.offset = r.offset
      /\ leader.persisted = r.persisted /\ leader.committed = r.committed
      /\ leader.handed = r.handed /\ leader.match = n /\ leader.msgs = r.msgs
  BY <1>7 DEF RawFields
<1>10. ASSUME LogInv
       PROVE  Fits(i, r) /\ (LastIndex(r) < MaxIndex => Fits(i, s))
  <2>1. Fits(i, raw[i]) /\ raw[i].match \in [Node -> 0..MaxIndex]
    BY <1>4, <1>10 DEF Fits, RaftOK
  <2>2. Fits(i, r)
    BY <1>7, <2>1, FitsSame
  <2>3. n \in [Node -> 0..MaxIndex]
    <3>1. r.persisted \in 0..MaxIndex
      BY <1>4, <1>10, <2>2, LastWithin
    <3> QED BY <1>4, <3>1, MatchTypes
  <2> HIDE DEF leader, n
  <2>4. Fits(i, leader)
    BY <1>9, <2>2, <2>3, FitsSame
  <2>5. LastIndex(leader) = LastIndex(r)
    BY <1>9 DEF LastIndex
  <2>6. Empty \in Payload
    BY DEF Empty, Payload
  <2>7. LastIndex(r) < MaxIndex => Fits(i, s)
    BY <1>4, <1>5, <1>10, <2>4, <2>5, <2>6, FitsPropose
  <2> QED BY <2>2, <2>7
<1> HIDE DEF s, i
<1> QED BY <1>3, <1>6, <1>7, <1>8, <1>10 DEF StepsTo, i

LEMMA AppendRespSteps ==
  ASSUME VoterInv, campaigns \in Nat, NEW m \in transit, HandleAppendResp(m)
  PROVE  /\ StepsTo(m)
         /\ LogInv => chosen' \subseteq Entry
<1> DEFINE i == m.to
           r == [raw[i] EXCEPT !.match[m.from] = IF m.index > @ THEN m.index ELSE @]
           s == MaybeCommit(i, r, cache[i])
<1>1. m.type = "AppendResp" /\ Matters(m, raw[i]) /\ Step(i, m, s)
  BY DEF HandleAppendResp, Step
<1>2. /\ i \in Node /\ m.from \in Node /\ DOMAIN raw[i] = RawFields
      /\ Good(i, raw[i], campaigns) /\ (LogInv => LogMessage(m) /\ Fits(i, raw[i]))
  BY TransitSound
<1>3. raw[i].role = "leader" /\ raw[i].term \in Nat /\ raw[i].term >= 1
  BY <1>1, <1>2 DEF Matters, Good, VoterOK
<1>4. /\ DOMAIN r = RawFields
      /\ r.role = raw[i].role /\ r.term = raw[i].term /\ r.vote = raw[i].vote
      /\ r.leader = raw[i].leader /\ r.msgs = raw[i].msgs /\ r.prevHs = raw[i].prevHs
      /\ r.unstable = raw[i].unstable /\ r.offset = raw[i].offset
      /\ r.persisted = raw[i].persisted /\ r.committed = raw[i].committed
      /\ r.handed = raw[i].handed
      /\ r.match = [raw[i].match EXCEPT ![m.from] = IF m.index > @ THEN m.index ELSE @]
  BY <1>2 DEF RawFields
<1> HIDE DEF r
<1>5. SameVoting(s, r) /\ s.msgs = r.msgs /\ s.role = r.role
  <2>1. s.role = r.role
    BY <1>4 DEF MaybeCommit, RawFields
  <2> QED BY <1>4, <2>1, MaybeCommitFields
<1> HIDE DEF s
<1>6. Good(i, s, campaigns) /\ s.prevHs = raw[i].prevHs
  BY <1>2, <1>4, <1>5, GoodSame DEF SameVoting
<1>7. ASSUME LogInv
      PROVE  /\ Fits(i, r)
             /\ \/ s = r
                \/ \E k \in Nat : /\ s = [r EXCEPT !.committed = k]
                                  /\ k > r.committed /\ k <= LastIndex(r)
  <2>1. r.match \in [Node -> 0..MaxIndex]
    <3>1. m.index \in 0..MaxIndex /\ raw[i].match \in [Node -> 0..MaxIndex]
      BY <1>1, <1>2, <1>7 DEF LogMessage, Fits, RaftOK
    <3> QED BY <1>2, <1>4, <3>1
  <2>2. Fits(i, r)
    BY <1>2, <1>4, <1>7, <2>1, FitsSame
  <2>3. r.committed \in Nat /\ LastIndex(r) \in Nat
    BY <1>2, <1>7, <2>2, LastWithin
  <2>4. \/ s = r
        \/ \E k \in Nat : /\ s = [r EXCEPT !.committed = k]
                          /\ k > r.committed /\ k <= LastIndex(r)
    BY <1>3, <1>4, <2>1, <2>3, MaybeCommitWithin DEF s
  <2> QED BY <2>2, <2>4
<1>8. ASSUME LogInv
      PROVE  Fits(i, s) /\ s.committed \in Nat /\ s.committed <= LastIndex(r)
  <2>1. PICK l \in 0..MaxIndex : l = LastIndex(r) /\ l = r.offset + Len(r.unstable) - 1
    BY <1>2, <1>7, <1>8, LastWithin
  <2>2. /\ r.committed \in Nat /\ r.committed <= l
        /\ r.offset \in Nat /\ Len(r.unstable) \in Nat
    BY <1>2, <1>7, <1>8, <2>1, LastWithin
  <2>3. CASE s = r
    BY <1>7, <1>8, <2>1, <2>2, <2>3
  <2>4. ASSUME NEW k \in Nat, s = [r EXCEPT !.committed = k], k > r.committed, k <= LastIndex(r)
        PROVE  Fits(i, s) /\ s.committed \in Nat /\ s.committed <= LastIndex(r)
    <3>1. /\ s.unstable = r.unstable /\ s.offset = r.offset /\ s.persisted = r.persisted
          /\ s.committed = k /\ s.handed = r.handed /\ s.match = r.match /\ s.msgs = r.msgs
      BY <1>4, <2>4 DEF RawFields
    <3>2. k < r.offset + Len(r.unstable)
      BY <2>1, <2>2, <2>4
    <3>3. r.handed \in Nat /\ r.handed <= r.committed
      BY <1>7, <1>8 DEF Fits, RaftOK
    <3>4. r.handed <= k
      BY <2>2, <2>4, <3>3
    <3> QED BY <1>7, <1>8, <2>4, <3>1, <3>2, <3>4 DEF Fits, RaftOK
  <2> QED BY <1>7, <1>8, <2>3, <2>4
<1>9. ASSUME LogInv
      PROVE  chosen' \subseteq Entry
  <2>1. chosen' = chosen \cup {Put(disk[i], r.unstable)[n] : n \in (r.committed + 1)..s.committed}
    BY DEF HandleAppendResp, r, s
  <2>2. PICK n \in Nat : n <= MaxIndex /\ Len(cache[i]) <= n /\ Stored(disk[i], n)
    <3>1. /\ cache[i] \in Seq(Entry)
          /\ \E n \in Len(cache[i])..MaxIndex : Stored(disk[i], n)
      BY <1>2, <1>9 DEF LogInv, NodeLogInv
    <3>2. Len(cache[i]) \in Nat
      BY <3>1, EntrySeq
    <3> QED BY <3>1, <3>2
  <2>3. PICK o \in Nat, u \in Nat, l \in Nat :
          /\ o = r.offset /\ u = Len(r.unstable) /\ l = Len(cache[i])
          /\ o >= 1 /\ o <= l + 1 /\ LastIndex(r) = o + u - 1
          /\ r.unstable \in Seq(Entry) /\ Numbered(r.unstable, o)
    <3>1. cache[i] \in Seq(Entry) /\ RaftOK(r, Len(cache[i]))
      BY <1>2, <1>7, <1>9 DEF LogInv, NodeLogInv, Fits
    <3>2. Len(cache[i]) \in Nat /\ Len(r.unstable) \in Nat
      BY <3>1, EntrySeq DEF RaftOK
    <3>3. /\ r.offset \in 1..(Len(cache[i]) + 1)
          /\ r.unstable \in Seq(Entry) /\ Numbered(r.unstable, r.offset)
      BY <3>1 DEF RaftOK
    <3>4. r.offset \in Nat /\ r.offset >= 1 /\ r.offset <= Len(cache[i]) + 1
      BY <3>2, <3>3
    <3>5. LastIndex(r) = r.offset + Len(r.unstable) - 1
      BY DEF LastIndex
    <3> QED BY <3>2, <3>3, <3>4, <3>5
  <2>4. o <= n + 1
    BY <2>2, <2>3
  <2>5. PICK k \in n..MaxIndex : o + u - 1 <= k /\ Stored(Put(disk[i], r.unstable), k)
    BY <2>2, <2>3, <2>4, PutStored
  <2>6. s.committed \in Nat /\ s.committed <= k
    BY <1>8, <1>9, <2>2, <2>3, <2>5
  <2>7. r.committed \in Nat /\ MaxIndex \in Nat
    BY <1>2, <1>7, <1>9, LastWithin, ClusterAssumption DEF ClusterAssumption
  <2>8. \A x \in (r.committed + 1)..s.committed : x \in Index /\ x <= k
    BY <2>2, <2>5, <2>6, <2>7 DEF Index
  <2>9. \A x \in (r.committed + 1)..s.committed : Put(disk[i], r.unstable)[x] \in Entry
    BY <2>5, <2>8 DEF Stored
  <2> QED BY <1>9, <2>1, <2>9 DEF LogInv
<1>10. StepsTo(m)
  BY <1>1, <1>6, <1>8 DEF StepsTo
<1> QED BY <1>9, <1>10

\* What HandleAppend makes of the log, or panics about.
AppendAnswer(i, r, m, n) ==
  [type |-> "AppendResp", from |-> i, to |-> m.from, term |-> r.term, index |-> n]
ToCommit(m) == AtMost(m.commit, m.index + Len(m.entries))
AppendNext(i, r, m) ==
  [Grown(i, r, m) EXCEPT
     !.committed = IF ToCommit(m) > @ THEN ToCommit(m) ELSE @,
     !.msgs = @ \cup {AppendAnswer(i, r, m, m.index + Len(m.entries))}]
AppendPanics(i, r, m) ==
  \/ NewAt(i, r, m) # {} /\ FirstNew(i, r, m) <= r.committed
  \/ ToCommit(m) > LastIndex(Grown(i, r, m))

LEMMA AppendCases ==
  ASSUME NEW m, HandleAppend(m)
  PROVE  LET i == m.to
             r == Caught(m)
         IN  /\ m.type = "Append"
             /\ \/ Step(i, m, r)
                \/ Step(i, m, [r EXCEPT !.msgs = @ \cup {AppendAnswer(i, r, m, r.committed)}])
                \/ /\ TermAt(i, r, m.index) = m.logTerm /\ ~AppendPanics(i, r, m)
                   /\ Step(i, m, AppendNext(i, r, m))
BY DEF HandleAppend, AppendAnswer, ToCommit, AppendNext, AppendPanics, Grown, NewAt, FirstNew,
       Fresh, Kept

LEMMA AppendNextOK ==
  ASSUME LogInv, NEW i \in Node, NEW r, DOMAIN r = RawFields, Fits(i, r),
         NEW m, m.type = "Append", LogMessage(m), TermAt(i, r, m.index) = m.logTerm,
         ~AppendPanics(i, r, m)
  PROVE  Fits(i, AppendNext(i, r, m))
<1> DEFINE g == Grown(i, r, m)
           s == AppendNext(i, r, m)
           answer == AppendAnswer(i, r, m, m.index + Len(m.entries))
<1>1. ASSUME NewAt(i, r, m) # {}
      PROVE  FirstNew(i, r, m) > r.committed
  <2>1. ~(FirstNew(i, r, m) <= r.committed)
    BY <1>1 DEF AppendPanics
  <2>2. FirstNew(i, r, m) \in Nat
    <3>1. LastIndex(r) \in Nat /\ m.index \in Nat
      BY LastWithin DEF LogMessage
    <3>2. Min(NewAt(i, r, m)) \in 1..Len(m.entries) /\ Len(m.entries) \in Nat
          /\ FirstNew(i, r, m) = m.index + Min(NewAt(i, r, m))
      BY <1>1, <3>1, FirstNewContinues
    <3> QED BY <3>1, <3>2
  <2>3. r.committed \in Nat
    BY DEF Fits, RaftOK
  <2> QED BY <2>1, <2>2, <2>3
<1>2. /\ RaftOK(g, Len(cache[i])) /\ DOMAIN g = RawFields
      /\ g.msgs = r.msgs /\ g.committed = r.committed
  BY <1>1, GrownOK
<1>3. ~(ToCommit(m) > LastIndex(g))
  BY DEF AppendPanics
<1>4. PICK t \in Nat : t = ToCommit(m)
  <2>1. m.commit \in Nat /\ m.index \in Nat /\ m.entries \in Seq(Entry)
    BY DEF LogMessage
  <2>2. Len(m.entries) \in Nat
    BY <2>1, EntrySeq
  <2>3. m.index + Len(m.entries) \in Nat
    BY <2>1, <2>2
  <2>4. ToCommit(m) = m.commit \/ ToCommit(m) = m.index + Len(m.entries)
    BY DEF ToCommit, AtMost
  <2> QED BY <2>1, <2>3, <2>4
<1> HIDE DEF g
<1>5. PICK q \in Nat, o \in Nat, u \in Nat, a \in Nat :
        /\ q = g.committed /\ o = g.offset /\ u = Len(g.unstable) /\ a = g.handed
        /\ q < o + u /\ a <= q
  <2>1. g.offset \in 1..(Len(cache[i]) + 1) /\ cache[i] \in Seq(Entry) /\ g.unstable \in Seq(Entry)
    BY <1>2 DEF RaftOK, LogInv, NodeLogInv
  <2>2. g.offset \in Nat /\ Len(g.unstable) \in Nat
    BY <2>1, EntrySeq
  <2> QED BY <1>2, <2>2 DEF RaftOK
<1>6. LastIndex(g) = o + u - 1
  BY <1>5 DEF LastIndex
<1>7. /\ s.unstable = g.unstable /\ s.offset = g.offset /\ s.persisted = g.persisted
      /\ s.handed = g.handed /\ s.match = g.match
      /\ s.committed = (IF t > q THEN t ELSE q)
      /\ s.msgs = r.msgs \cup {answer}
  BY <1>2, <1>4, <1>5 DEF AppendNext, RawFields, g
<1> HIDE DEF s
<1>8. /\ s.committed \in Nat /\ s.committed < o + u /\ a <= s.committed
  <2>1. t <= o + u - 1
    BY <1>3, <1>4, <1>5, <1>6
  <2> QED BY <1>5, <1>7, <2>1
<1>9. RaftOK(s, Len(cache[i]))
  BY <1>2, <1>5, <1>7, <1>8 DEF RaftOK
<1>10. LogMessage(answer)
  <2>1. m.index \in Nat /\ m.entries \in Seq(Entry) /\ m.index + Len(m.entries) <= MaxIndex
    BY DEF LogMessage
  <2>2. Len(m.entries) \in Nat
    BY <2>1, EntrySeq
  <2>3. MaxIndex \in Nat
    BY ClusterAssumption DEF ClusterAssumption
  <2>4. m.index + Len(m.entries) \in 0..MaxIndex
    BY <2>1, <2>2, <2>3
  <2>5. answer.type = "AppendResp" /\ answer.index = m.index + Len(m.entries)
    BY DEF AppendAnswer
  <2> HIDE DEF answer
  <2> QED BY <2>4, <2>5 DEF LogMessage
<1> HIDE DEF answer
<1>11. Fits(i, s)
  BY <1>7, <1>9, <1>10 DEF Fits
<1> QED BY <1>11 DEF s

LEMMA AppendSteps ==
  ASSUME VoterInv, campaigns \in Nat, NEW m \in transit, HandleAppend(m)
  PROVE  StepsTo(m)
<1> DEFINE i == m.to
           r == Caught(m)
           b == campaigns
           answered == [r EXCEPT !.msgs = @ \cup {AppendAnswer(i, r, m, r.committed)}]
           next == AppendNext(i, r, m)
<1>1. /\ m.type = "Append"
      /\ \/ Step(i, m, r) \/ Step(i, m, answered)
         \/ /\ TermAt(i, r, m.index) = m.logTerm /\ ~AppendPanics(i, r, m)
            /\ Step(i, m, next)
  BY AppendCases
<1>2. Matters(m, raw[i])
  BY <1>1 DEF Step
<1>3. /\ i \in Node /\ m.from \in Node /\ m.from # i
      /\ Good(i, r, b) /\ r.prevHs = raw[i].prevHs
      /\ LogInv => Fits(i, r) /\ LogMessage(m)
  BY <1>1, <1>2, TransitSound, GoodCaught, FitsCaught
<1>4. DOMAIN r = RawFields /\ r.term \in 0..b
  BY <1>3 DEF Good, VoterOK
<1> HIDE DEF r
<1>5. \A n : Sound(AppendAnswer(i, r, m, n), b) /\ AppendAnswer(i, r, m, n).from = i
  BY <1>3, <1>4 DEF Sound, AppendAnswer
<1>6. Good(i, answered, b) /\ answered.prevHs = r.prevHs /\ (LogInv => Fits(i, answered))
  <2> DEFINE x == AppendAnswer(i, r, m, r.committed)
  <2>1. /\ DOMAIN answered = RawFields
        /\ answered.role = r.role /\ answered.term = r.term /\ answered.vote = r.vote
        /\ answered.leader = r.leader /\ answered.msgs = r.msgs \cup {x}
        /\ answered.prevHs = r.prevHs
        /\ answered.unstable = r.unstable /\ answered.offset = r.offset
        /\ answered.persisted = r.persisted /\ answered.committed = r.committed
        /\ answered.handed = r.handed /\ answered.match = r.match
    BY <1>4 DEF RawFields
  <2>2. x.type = "AppendResp" /\ x.index = r.committed
    BY DEF AppendAnswer
  <2>3. Sound(x, b) /\ x.from = i
    BY <1>5
  <2> HIDE DEF answered, x
  <2>4. Good(i, answered, b)
    BY <1>3, <2>1, <2>3, GoodSame
  <2>5. ASSUME LogInv
        PROVE  Fits(i, answered)
    <3>1. Fits(i, r) /\ r.match \in [Node -> 0..MaxIndex]
      BY <1>3, <2>5 DEF Fits, RaftOK
    <3>2. r.committed \in 0..MaxIndex
      BY <1>3, <2>5, LastWithin
    <3>3. LogMessage(x)
      BY <2>2, <3>2 DEF LogMessage
    <3> QED BY <2>1, <3>1, <3>3, FitsSame
  <2> QED BY <2>1, <2>4, <2>5
<1>7. Good(i, next, b) /\ next.prevHs = r.prevHs
  <2> DEFINE g == Grown(i, r, m)
             x == AppendAnswer(i, r, m, m.index + Len(m.entries))
  <2>1. /\ DOMAIN g = RawFields
        /\ g.role = r.role /\ g.term = r.term /\ g.vote = r.vote
        /\ g.leader = r.leader /\ g.msgs = r.msgs /\ g.prevHs = r.prevHs
    BY <1>4 DEF Grown, RawFields
  <2> HIDE DEF g, x
  <2>2. /\ DOMAIN next = RawFields
        /\ next.role = r.role /\ next.term = r.term /\ next.vote = r.vote
        /\ next.leader = r.leader /\ next.msgs = r.msgs \cup {x} /\ next.prevHs = r.prevHs
    BY <2>1 DEF AppendNext, RawFields, g, x
  <2>3. Sound(x, b) /\ x.from = i
    BY <1>5 DEF x
  <2> HIDE DEF next
  <2> QED BY <1>3, <2>2, <2>3, GoodSame
<1>8. ASSUME LogInv, TermAt(i, r, m.index) = m.logTerm, ~AppendPanics(i, r, m)
      PROVE  Fits(i, next)
  BY <1>1, <1>3, <1>4, <1>8, AppendNextOK
<1> HIDE DEF answered, next
<1> QED BY <1>1, <1>3, <1>6, <1>7, <1>8 DEF StepsTo

LEMMA HeartbeatSteps ==
  ASSUME VoterInv, campaigns \in Nat, NEW m \in transit, HandleHeartbeat(m)
  PROVE  StepsTo(m)
<1> DEFINE i == m.to
           r == Caught(m)
           s == [r EXCEPT !.committed = m.commit]
<1>1. /\ m.type = "Heartbeat" /\ Matters(m, raw[i])
      /\ \/ Step(i, m, r)
         \/ Step(i, m, s) /\ ~(m.commit > LastIndex(r)) /\ ~(m.commit <= r.committed)
  BY DEF HandleHeartbeat, Step
<1>2. /\ i \in Node
      /\ Good(i, r, campaigns) /\ r.prevHs = raw[i].prevHs
      /\ LogInv => Fits(i, r) /\ LogMessage(m)
  BY <1>1, TransitSound, GoodCaught, FitsCaught
<1>3. DOMAIN r = RawFields
  BY <1>2 DEF Good, VoterOK
<1> HIDE DEF r
<1>4. /\ DOMAIN s = RawFields
      /\ s.role = r.role /\ s.term = r.term /\ s.vote = r.vote
      /\ s.leader = r.leader /\ s.msgs = r.msgs /\ s.prevHs = r.prevHs
      /\ s.unstable = r.unstable /\ s.offset = r.offset /\ s.persisted = r.persisted
      /\ s.committed = m.commit /\ s.handed = r.handed /\ s.match = r.match
  BY <1>3 DEF RawFields
<1> HIDE DEF s
<1>5. Good(i, s, campaigns)
  BY <1>2, <1>4, GoodSame
<1>6. ASSUME LogInv, ~(m.commit > LastIndex(r)), ~(m.commit <= r.committed)
      PROVE  Fits(i, s)
  <2>1. PICK q \in Nat, o \in Nat, u \in Nat, n \in Nat, a \in Nat :
          /\ q = r.committed /\ o = r.offset /\ u = Len(r.unstable) /\ n = m.commit
          /\ LastIndex(r) = o + u - 1 /\ a = r.handed /\ a <= q
    <3>1. /\ r.committed \in 0..MaxIndex /\ r.offset \in Nat /\ Len(r.unstable) \in Nat
          /\ LastIndex(r) = r.offset + Len(r.unstable) - 1
      BY <1>2, <1>6, LastWithin
    <3>2. m.commit \in Nat
      BY <1>1, <1>2, <1>6 DEF LogMessage
    <3>3. r.handed \in Nat /\ r.handed <= r.committed /\ r.committed \in Nat
      BY <1>2, <1>6 DEF Fits, RaftOK
    <3> QED BY <3>1, <3>2, <3>3
  <2>2. n < o + u /\ a <= n
    BY <1>6, <2>1
  <2> QED BY <1>2, <1>4, <1>6, <2>1, <2>2 DEF Fits, RaftOK
<1> QED BY <1>1, <1>2, <1>4, <1>5, <1>6 DEF StepsTo

LEMMA ProposeSteps ==
  ASSUME VoterInv, campaigns \in 0..MaxCampaigns, NEW m \in transit, HandlePropose(m)
  PROVE  StepsTo(m)
<1> DEFINE i == m.to
           r == raw[i]
           s == Propose(i, r, m.data)
<1>1. /\ m.type = "Propose" /\ (r.role = "leader" => LastIndex(r) < MaxIndex)
      /\ Step(i, m, r) \/ (Accepts(r) /\ Step(i, m, s))
  BY DEF HandlePropose
<1>2. /\ i \in Node /\ Good(i, r, campaigns) /\ (LogInv => Fits(i, r))
      /\ m.data \in Payload
  BY <1>1, TransitSound DEF Sound
<1>3. Accepts(r) => Good(i, s, campaigns) /\ s.prevHs = r.prevHs
  BY <1>2, GoodPropose
<1>4. LogInv => Fits(i, s)
  BY <1>1, <1>2, FitsPropose
<1> HIDE DEF s
<1> QED BY <1>1, <1>2, <1>3, <1>4 DEF StepsTo

-----------------------------------------------------------------------------
(* Steps of one node keep the invariant *)

\* All logs stay as they are but those of node i.
LEMMA LogStep ==
  ASSUME LogInv, NEW i \in Node,
         DOMAIN disk' = Node, DOMAIN cache' = Node, DOMAIN applied' = Node,
         \A j \in Node \ {i} : /\ disk'[j] = disk[j] /\ cache'[j] = cache[j]
                               /\ applied'[j] = applied[j]
                               /\ hs'[j] = hs[j] /\ raw'[j] = raw[j],
         NodeLogInv(i)', \A m \in raw'[i].msgs : LogMessage(m),
         \A m \in transit' : m \in transit \/ LogMessage(m),
         chosen' \subseteq Entry
  PROVE  LogInv'
<1>1. ASSUME NEW j \in Node, j # i
      PROVE  NodeLogInv(j)' /\ \A m \in raw'[j].msgs : LogMessage(m)
  <2>1. NodeLogInv(j) /\ \A m \in raw[j].msgs : LogMessage(m)
    BY DEF LogInv
  <2> QED BY <1>1, <2>1 DEF NodeLogInv
<1>2. \A m \in transit' : LogMessage(m)
  BY DEF LogInv
<1> QED BY <1>1, <1>2 DEF LogInv

LEMMA StepKeeps ==
  ASSUME VoterInv, campaigns \in Nat, NEW m \in transit, NEW r, Step(m.to, m, r),
         Good(m.to, r, campaigns), r.prevHs = raw[m.to].prevHs
  PROVE  /\ VoterInv'
         /\ LogInv /\ Fits(m.to, r) /\ chosen' \subseteq Entry => LogInv'
<1> DEFINE i == m.to
<1>1. /\ raw' = [raw EXCEPT ![i] = r] /\ transit' \subseteq transit
      /\ hs' = hs /\ disk' = disk /\ cache' = cache /\ campaigns' = campaigns
      /\ applied' = applied
  BY DEF Step, Live, storeVars, envVars
<1>2. /\ DOMAIN raw = Node /\ DOMAIN hs = Node
      /\ hs[i].term \in 0..campaigns /\ hs[i].vote \in Node \cup {NoNode}
      /\ i \in Node
  BY TransitSound DEF VoterInv
<1>3. VoterInv'
  BY <1>1, <1>2, VoterStep
<1>4. ASSUME LogInv, Fits(i, r), chosen' \subseteq Entry
      PROVE  LogInv'
  <2>1. NodeLogInv(i) /\ DOMAIN disk = Node /\ DOMAIN cache = Node /\ DOMAIN applied = Node
    BY <1>2, <1>4 DEF LogInv
  <2>2. raw'[i] = r /\ \A j \in Node \ {i} : raw'[j] = raw[j]
    BY <1>1, <1>2
  <2>3. NodeLogInv(i)'
    BY <1>1, <1>4, <2>1, <2>2 DEF NodeLogInv, Fits
  <2>4. \A x \in raw'[i].msgs : LogMessage(x)
    BY <1>4, <2>2 DEF Fits
  <2> HIDE DEF i
  <2> QED BY <1>1, <1>2, <1>4, <2>1, <2>2, <2>3, <2>4, LogStep
<1> QED BY <1>3, <1>4

\* What handle_ready writes, in the terms of ReadyState.
LEMMA ReadyWrites ==
  ASSUME NEW i, NEW r, handle_ready(i, r)
  PROVE  /\ disk' = [disk EXCEPT ![i] = Put(@, r.unstable)]
         /\ cache' = [cache EXCEPT ![i] = ReadyCache(i, r)]
         /\ hs' = [hs EXCEPT ![i] = SavedHardState(i, r)]
         /\ raw' = [raw EXCEPT ![i] = ReadyState(i, r)]
         /\ applied' = [applied EXCEPT ![i] = @ \o (ReadyFirst(i, r) \o ReadyLight(i, r))]
BY DEF handle_ready, ReadyCache, ReadyFirst, ReadyAdvanced, ReadyLight, ReadyState, ToApply

LEMMA ReadyChooses ==
  ASSUME NEW i, NEW r, handle_ready(i, r), NEW e \in chosen'
  PROVE  \/ e \in chosen
         \/ \E n \in (r.committed + 1)..ReadyState(i, r).committed : e = disk'[i][n]
BY DEF handle_ready, ReadyCache, ReadyFirst, ReadyAdvanced, ReadyLight, ReadyState

LEMMA ReadySends ==
  ASSUME NEW i, NEW r, handle_ready(i, r), NEW m \in transit'
  PROVE  \/ m \in transit \cup r.msgs
         \/ \E j \in Node \ {i} : m = LeaderMessage(i, ReadyState(i, r), ReadyCache(i, r), j)
BY DEF handle_ready, ReadyCache, ReadyFirst, ReadyAdvanced, ReadyLight, ReadyState, Live

LEMMA ReadyVoter ==
  ASSUME VoterInv, campaigns \in Nat, campaigns' \in Nat, campaigns <= campaigns',
         NEW i \in Node, NEW r, Good(i, r, campaigns'), r.prevHs = raw[i].prevHs,
         handle_ready(i, r)
  PROVE  VoterInv'
<1> DEFINE s == ReadyState(i, r)
           c == ReadyCache(i, r)
           h == SavedHardState(i, r)
           b == campaigns'
<1>1. hs' = [hs EXCEPT ![i] = h] /\ raw' = [raw EXCEPT ![i] = s]
  BY ReadyWrites
<1>m. \A m \in transit' : \/ m \in transit \cup r.msgs
                          \/ \E j \in Node \ {i} : m = LeaderMessage(i, s, c, j)
  BY ReadySends
<1>2. Good(i, s, b) /\ s.term = r.term
  BY ReadyGood
<1>3. r.term \in 0..b /\ r.vote \in Node \cup {NoNode} /\ \A m \in r.msgs : Sound(m, b)
  BY DEF Good, VoterOK
<1>4. DOMAIN raw = Node /\ DOMAIN hs = Node
      /\ hs[i].term \in 0..campaigns /\ hs[i].vote \in Node \cup {NoNode}
  BY DEF VoterInv
<1>5. h.term \in 0..b /\ h.vote \in Node \cup {NoNode}
  <2>1. hs[i].term \in 0..b
    BY <1>4
  <2>2. h = hs[i] \/ (h.term = r.term /\ h.vote = r.vote)
    BY DEF SavedHardState, HardStateOf
  <2> HIDE DEF h, b
  <2> QED BY <1>3, <1>4, <2>1, <2>2
<1> HIDE DEF s, c, h
<1>6. \A j \in Node \ {i} : Sound(LeaderMessage(i, s, c, j), b)
  <2>1. TAKE j \in Node \ {i}
  <2> DEFINE m == LeaderMessage(i, s, c, j)
  <2>2. /\ m.from = i /\ m.to = j /\ m.term = r.term /\ m.type \in {"Append", "Heartbeat"}
    BY <1>2 DEF LeaderMessage
  <2> HIDE DEF m
  <2>3. Sound(m, b)
    BY <1>3, <2>1, <2>2 DEF Sound
  <2> QED BY <2>3 DEF m
<1>7. \A m \in transit' : m \in transit \/ Sound(m, b)
  BY <1>3, <1>6, <1>m
<1>8. /\ DOMAIN raw' = Node /\ DOMAIN hs' = Node
      /\ \A j \in Node \ {i} : raw'[j] = raw[j] /\ hs'[j] = hs[j]
      /\ raw'[i] = s /\ hs'[i] = h
  BY <1>1, <1>4
<1> QED BY <1>2, <1>5, <1>7, <1>8, VoterStep

LEMMA DiskNow ==
  ASSUME LogInv, NEW i \in Node
  PROVE  \E n \in Nat, l \in Nat :
           /\ l = Len(cache[i]) /\ l <= n /\ n <= MaxIndex
           /\ Stored(disk[i], n) /\ hs[i].commit <= n
           /\ hs[i].commit \in Nat
<1>1. /\ cache[i] \in Seq(Entry)
      /\ \E n \in Len(cache[i])..MaxIndex : Stored(disk[i], n) /\ hs[i].commit <= n
      /\ hs[i].commit \in Nat
  BY DEF LogInv, NodeLogInv, HardStateOK
<1>2. Len(cache[i]) \in Nat
  BY <1>1, EntrySeq
<1>3. PICK n \in Len(cache[i])..MaxIndex : Stored(disk[i], n) /\ hs[i].commit <= n
  BY <1>1
<1>4. n \in Nat /\ Len(cache[i]) <= n /\ n <= MaxIndex
  BY <1>2, <1>3
<1> QED BY <1>1, <1>2, <1>3, <1>4

LEMMA ReadyLog ==
  ASSUME VoterInv, LogInv, NEW i \in Node, NEW r, NEW b \in Nat, Good(i, r, b), Fits(i, r),
         r.prevHs = raw[i].prevHs, handle_ready(i, r), Numbered(cache'[i], 1)
  PROVE  LogInv'
<1> DEFINE s == ReadyState(i, r)
           c == ReadyCache(i, r)
           h == SavedHardState(i, r)
           a == ReadyAdvanced(i, r)
           d == Put(disk[i], r.unstable)
           q == ReadyFirst(i, r) \o ReadyLight(i, r)
<1>m. MaxIndex \in Nat
  BY ClusterAssumption DEF ClusterAssumption
<1>1. /\ disk' = [disk EXCEPT ![i] = d] /\ cache' = [cache EXCEPT ![i] = c]
      /\ hs' = [hs EXCEPT ![i] = h] /\ raw' = [raw EXCEPT ![i] = s]
      /\ applied' = [applied EXCEPT ![i] = @ \o q]
  <2>1. disk' = [disk EXCEPT ![i] = d]
    BY ONLY ReadyWrites, handle_ready(i, r)
  <2>2. applied' = [applied EXCEPT ![i] = @ \o q]
    BY ONLY ReadyWrites, handle_ready(i, r)
  <2> HIDE DEF d, q
  <2>3. cache' = [cache EXCEPT ![i] = c]
    BY ONLY ReadyWrites, handle_ready(i, r)
  <2>4. hs' = [hs EXCEPT ![i] = h]
    BY ONLY ReadyWrites, handle_ready(i, r)
  <2>5. raw' = [raw EXCEPT ![i] = s]
    BY ONLY ReadyWrites, handle_ready(i, r)
  <2> QED BY <2>1, <2>2, <2>3, <2>4, <2>5
<1>2. /\ DOMAIN raw = Node /\ DOMAIN hs = Node
      /\ DOMAIN disk = Node /\ DOMAIN cache = Node /\ DOMAIN applied = Node
      /\ NodeLogInv(i)
  BY DEF VoterInv, LogInv
<1>3. /\ raw'[i] = s /\ hs'[i] = h /\ disk'[i] = d /\ cache'[i] = c
      /\ applied'[i] = applied[i] \o q
      /\ DOMAIN disk' = Node /\ DOMAIN cache' = Node /\ DOMAIN applied' = Node
      /\ \A j \in Node \ {i} : /\ disk'[j] = disk[j] /\ cache'[j] = cache[j]
                               /\ applied'[j] = applied[j]
                               /\ hs'[j] = hs[j] /\ raw'[j] = raw[j]
  <2> HIDE DEF s, c, h, d, q
  <2> QED BY <1>1, <1>2
<1>4. Numbered(c, 1)
  BY <1>3
<1>5. /\ RaftOK(s, Len(c)) /\ LastIndex(s) = Len(c)
      /\ s.committed = a.committed /\ s.committed >= r.committed /\ s.committed <= Len(c)
      /\ ReadyFirst(i, r) \in Seq(Entry) /\ ReadyLight(i, r) \in Seq(Entry)
  BY <1>4, ReadyOK
<1>6. /\ s.msgs = {}
      /\ s.prevHs.term = r.term /\ s.prevHs.vote = r.vote /\ s.prevHs.commit = a.committed
      /\ Plain(s.prevHs)
  BY ReadyEnds
<1>7. PICK n \in Nat, l \in Nat :
        /\ l = Len(cache[i]) /\ l <= n /\ n <= MaxIndex
        /\ Stored(disk[i], n) /\ hs[i].commit <= n /\ hs[i].commit \in Nat
  BY DiskNow
<1>8. PICK u \in Nat, o \in Nat :
        /\ u = Len(r.unstable) /\ o = r.offset /\ o = l + 1 /\ Len(c) = l + u
        /\ c \in Seq(Entry) /\ LastIndex(r) = l + u
        /\ r.unstable \in Seq(Entry) /\ Numbered(r.unstable, o)
  <2>1. /\ c \in Seq(Entry) /\ r.offset = l + 1 /\ Len(c) = l + Len(r.unstable)
        /\ Len(c) = LastIndex(r) /\ Len(r.unstable) \in Nat
    BY <1>4, <1>7, ReadyContinues
  <2>2. r.unstable \in Seq(Entry) /\ Numbered(r.unstable, r.offset)
    BY DEF Fits, RaftOK
  <2>3. l + 1 \in Nat
    OBVIOUS
  <2> QED BY <2>1, <2>2, <2>3
<1>9. PICK k \in n..MaxIndex : o + u - 1 <= k /\ Stored(d, k)
  <2>1. o >= 1 /\ o <= n + 1
    BY <1>7, <1>8
  <2> QED BY <1>7, <1>8, <2>1, PutStored
<1>10. k \in Nat /\ l + u <= k /\ k <= MaxIndex /\ n <= k
  <2>1. k \in Nat /\ k <= MaxIndex /\ n <= k
    BY <1>7, <1>9, <1>m
  <2>2. o = l + 1
    BY <1>8
  <2>3. o + u - 1 = l + u
    BY ONLY <2>2, u \in Nat, l \in Nat, o \in Nat
  <2> QED BY <1>9, <2>1, <2>3
<1>11. PICK p \in Nat, p2 \in Nat : /\ p = r.committed /\ p2 = s.committed
                                    /\ p <= p2 /\ p2 <= l + u /\ p <= l + u
  <2>1. r.committed \in Nat /\ s.committed \in Nat
    BY <1>5 DEF Fits, RaftOK
  <2> HIDE DEF s, c, a
  <2>2. r.committed <= s.committed /\ s.committed <= l + u
    BY <1>5, <1>8, <2>1
  <2>3. r.committed <= l + u
    BY <2>1, <2>2
  <2> QED BY <2>1, <2>2, <2>3
<1>12. HardStateOK(h, s.prevHs) /\ h.commit <= k
  <2>0. HardStateOK(hs[i], r.prevHs)
    BY <1>2 DEF NodeLogInv
  <2>1. CASE HardStateOf(r) = r.prevHs
    <3>1. h = hs[i]
      BY <2>1 DEF SavedHardState
    <3>2. r.prevHs.term = r.term /\ r.prevHs.vote = r.vote /\ r.prevHs.commit = p
      BY <1>11, <2>1 DEF HardStateOf
    <3> HIDE DEF h, s, a
    <3>3. s.prevHs.commit = p2
      BY <1>5, <1>6, <1>11
    <3>4. hs[i].commit <= p2 /\ hs[i].commit <= k
      BY <1>7, <1>10, <1>11, <2>0, <3>2 DEF HardStateOK
    <3> QED BY <1>6, <1>7, <2>0, <3>1, <3>2, <3>3, <3>4 DEF HardStateOK
  <2>2. CASE HardStateOf(r) # r.prevHs
    <3>1. h = HardStateOf(r)
      BY <2>2 DEF SavedHardState
    <3>2. /\ Plain(h)
          /\ h.term = r.term /\ h.vote = r.vote /\ h.commit = p
      BY <1>11, <3>1 DEF HardStateOf, Plain
    <3> HIDE DEF h, s, a
    <3>3. s.prevHs.commit = p2
      BY <1>5, <1>6, <1>11
    <3>4. p <= k
      BY <1>10, <1>11
    <3> QED BY <1>6, <1>11, <3>2, <3>3, <3>4 DEF HardStateOK
  <2> QED BY <2>1, <2>2
<1>13. applied[i] \o q \in Seq(Entry)
  <2>1. q \in Seq(Entry)
    BY <1>5, ConcatFacts
  <2> HIDE DEF q
  <2> QED BY <1>2, <2>1, ConcatFacts DEF NodeLogInv
<1> HIDE DEF s, c, h, a, d, q
<1>14. NodeLogInv(i)'
  <2>1. k \in Len(c)..MaxIndex
    BY <1>8, <1>10, <1>m
  <2> QED BY <1>3, <1>4, <1>5, <1>8, <1>9, <1>12, <1>13, <2>1 DEF NodeLogInv
<1>15. ASSUME NEW x \in transit'
       PROVE  x \in transit \/ LogMessage(x)
  <2>1. CASE x \in transit \cup r.msgs
    BY <2>1 DEF Fits
  <2>2. ASSUME NEW j \in Node \ {i}, x = LeaderMessage(i, s, c, j)
        PROVE  LogMessage(x)
    <3>1. l + u \in 0..MaxIndex
      BY <1>10, <1>m
    <3>2. s.match \in [Node -> 0..MaxIndex]
      BY <1>5 DEF RaftOK
    <3>3. Len(c) = l + u /\ LastIndex(s) = l + u /\ c \in Seq(Entry) /\ s.committed \in Nat
      BY <1>5, <1>8, <1>11
    <3> QED BY <1>4, <2>2, <3>1, <3>2, <3>3, LeaderMessageOK
  <2> QED BY <2>1, <2>2, ReadySends DEF s, c
<1>16. chosen' \subseteq Entry
  <2>1. \A e \in chosen' : \/ e \in chosen
                           \/ \E x \in (r.committed + 1)..s.committed : e = disk'[i][x]
    BY ReadyChooses DEF s
  <2>2. \A x \in (p + 1)..p2 : x \in Index /\ x <= k
    <3>1. p2 <= k
      BY <1>10, <1>11
    <3> QED BY <1>10, <3>1, <1>m DEF Index
  <2>3. \A x \in (p + 1)..p2 : d[x] \in Entry
    BY <1>9, <2>2 DEF Stored
  <2>4. \A x \in (r.committed + 1)..s.committed : disk'[i][x] \in Entry
    BY <1>3, <1>11, <2>3
  <2> QED BY <2>1, <2>4 DEF LogInv
<1>17. \A x \in raw'[i].msgs : LogMessage(x)
  BY <1>3, <1>6
<1> QED BY <1>3, <1>14, <1>15, <1>16, <1>17, LogStep

\* raft-rs after a handle_ready that failed: it has counted what it handed out,
\* and keeps what is unstable.
FailedState(i, r) ==
  [HandOut(r, NextEntries(i, r, cache[i])) EXCEPT
     !.msgs = {}, !.unfinished = (@ \/ r.unstable # <<>>)]

FailedDisk(i, r, n) == Put(disk[i], SubSeq(r.unstable, 1, n))
FailedCache(i, r, n) == IF n = Len(r.unstable) THEN cache[i] \o r.unstable ELSE cache[i]

LEMMA FailsWrites ==
  ASSUME NEW i, NEW r, NEW n, handle_ready_fails(i, r, n)
  PROVE  /\ disk' = [disk EXCEPT ![i] = FailedDisk(i, r, n)]
         /\ cache' = [cache EXCEPT ![i] = FailedCache(i, r, n)]
         /\ hs' = [hs EXCEPT ![i] = hs[i]]
         /\ raw' = [raw EXCEPT ![i] = FailedState(i, r)]
         /\ applied' = applied /\ chosen' = chosen
         /\ transit' \subseteq transit
BY DEF handle_ready_fails, DropReady, FailedState, FailedDisk, FailedCache, Live

LEMMA FailsWithin ==
  ASSUME NEW i, NEW r, NEW n \in Nat, handle_ready_fails(i, r, n), Len(r.unstable) \in Nat
  PROVE  n <= Len(r.unstable)
BY DEF handle_ready_fails, DropReady

LEMMA FailedGood ==
  ASSUME NEW i, NEW r, NEW b, Good(i, r, b)
  PROVE  LET s == FailedState(i, r)
         IN  /\ Good(i, s, b) /\ s.msgs = {} /\ s.prevHs = r.prevHs
<1> DEFINE g == HandOut(r, NextEntries(i, r, cache[i]))
           s == FailedState(i, r)
<1>1. DOMAIN r = RawFields
  BY DEF Good, VoterOK
<1>2. \A x, q : DOMAIN x = RawFields => HandOut(x, q).role = x.role
  BY DEF HandOut, RawFields
<1>3. /\ DOMAIN g = RawFields /\ g.role = r.role /\ g.term = r.term /\ g.vote = r.vote
      /\ g.leader = r.leader /\ g.prevHs = r.prevHs
  BY <1>1, <1>2, HandOutFields DEF SameVoting
<1>4. s = [g EXCEPT !.msgs = {}, !.unfinished = (g.unfinished \/ r.unstable # <<>>)]
  BY DEF FailedState
<1> HIDE DEF g, s
<1>5. /\ DOMAIN s = RawFields /\ s.role = r.role /\ s.term = r.term /\ s.vote = r.vote
      /\ s.leader = r.leader /\ s.prevHs = r.prevHs /\ s.msgs = {}
  BY <1>3, <1>4 DEF RawFields
<1>6. Good(i, s, b)
  BY <1>5, GoodSame
<1> QED BY <1>5, <1>6 DEF s

LEMMA FailsVoter ==
  ASSUME VoterInv, campaigns \in Nat, campaigns' \in Nat, campaigns <= campaigns',
         NEW i \in Node, NEW r, Good(i, r, campaigns'), r.prevHs = raw[i].prevHs,
         NEW n, handle_ready_fails(i, r, n)
  PROVE  VoterInv'
<1> DEFINE s == FailedState(i, r)
           b == campaigns'
<1>1. hs' = [hs EXCEPT ![i] = hs[i]] /\ raw' = [raw EXCEPT ![i] = s] /\ transit' \subseteq transit
  BY FailsWrites
<1>2. Good(i, s, b)
  BY FailedGood
<1>3. DOMAIN raw = Node /\ DOMAIN hs = Node
      /\ hs[i].term \in 0..campaigns /\ hs[i].vote \in Node \cup {NoNode}
  BY DEF VoterInv
<1>4. hs[i].term \in 0..b
  BY <1>3
<1> HIDE DEF s
<1>5. /\ DOMAIN raw' = Node /\ DOMAIN hs' = Node
      /\ \A j \in Node \ {i} : raw'[j] = raw[j] /\ hs'[j] = hs[j]
      /\ raw'[i] = s /\ hs'[i] = hs[i]
  BY <1>1, <1>3
<1> QED BY <1>1, <1>2, <1>3, <1>4, <1>5, VoterStep

\* What the failing handle_ready leaves in raft-rs fits the cache as it was.
LEMMA FailedOK ==
  ASSUME LogInv, NEW i \in Node, NEW r, NEW b, Good(i, r, b), Fits(i, r)
  PROVE  LET s == FailedState(i, r)
         IN  /\ RaftOK(s, Len(cache[i])) /\ s.unstable = r.unstable /\ s.offset = r.offset
<1> DEFINE g == HandOut(r, NextEntries(i, r, cache[i]))
           s == FailedState(i, r)
<1>1. DOMAIN r = RawFields
  BY DEF Good, VoterOK
<1>2. cache[i] \in Seq(Entry) /\ Numbered(cache[i], 1) /\ RaftOK(r, Len(cache[i]))
  BY DEF LogInv, NodeLogInv, Fits
<1>3. /\ DOMAIN g = RawFields
      /\ RaftOK(g, Len(cache[i])) /\ g.unstable = r.unstable /\ g.offset = r.offset
  BY <1>1, <1>2, HandOutOK
<1>4. s = [g EXCEPT !.msgs = {}, !.unfinished = (g.unfinished \/ r.unstable # <<>>)]
  BY DEF FailedState
<1> HIDE DEF g, s
<1>5. /\ s.unstable = g.unstable /\ s.offset = g.offset /\ s.persisted = g.persisted
      /\ s.committed = g.committed /\ s.match = g.match /\ s.handed = g.handed
  BY <1>3, <1>4 DEF RawFields
<1>6. RaftOK(s, Len(cache[i]))
  BY <1>3, <1>5 DEF RaftOK
<1> QED BY <1>3, <1>5, <1>6 DEF s

LEMMA FailsLog ==
  ASSUME VoterInv, LogInv, NEW i \in Node, NEW r, NEW b \in Nat, Good(i, r, b), Fits(i, r),
         r.prevHs = raw[i].prevHs, NEW m \in Nat, handle_ready_fails(i, r, m),
         Numbered(cache'[i], 1)
  PROVE  LogInv'
<1> DEFINE s == FailedState(i, r)
           c == FailedCache(i, r, m)
           puts == SubSeq(r.unstable, 1, m)
           d == FailedDisk(i, r, m)
<1>m. MaxIndex \in Nat
  BY ClusterAssumption DEF ClusterAssumption
<1>1. /\ disk' = [disk EXCEPT ![i] = d] /\ cache' = [cache EXCEPT ![i] = c]
      /\ hs' = [hs EXCEPT ![i] = hs[i]] /\ raw' = [raw EXCEPT ![i] = s]
      /\ applied' = applied /\ chosen' = chosen /\ transit' \subseteq transit
  BY FailsWrites
<1>2. /\ DOMAIN raw = Node /\ DOMAIN hs = Node
      /\ DOMAIN disk = Node /\ DOMAIN cache = Node /\ DOMAIN applied = Node
      /\ NodeLogInv(i)
  BY DEF VoterInv, LogInv
<1>3. /\ raw'[i] = s /\ hs'[i] = hs[i] /\ disk'[i] = d /\ cache'[i] = c
      /\ applied'[i] = applied[i]
      /\ DOMAIN disk' = Node /\ DOMAIN cache' = Node /\ DOMAIN applied' = Node
      /\ \A j \in Node \ {i} : /\ disk'[j] = disk[j] /\ cache'[j] = cache[j]
                               /\ applied'[j] = applied[j]
                               /\ hs'[j] = hs[j] /\ raw'[j] = raw[j]
  <2> HIDE DEF s, c, d
  <2> QED BY <1>1, <1>2
<1>4. Numbered(c, 1)
  BY <1>3
<1>5. s.msgs = {} /\ s.prevHs = r.prevHs
  <2>1. Good(i, r, b)
    OBVIOUS
  <2> QED BY ONLY <2>1, FailedGood
<1>6. RaftOK(s, Len(cache[i])) /\ s.unstable = r.unstable /\ s.offset = r.offset
  BY FailedOK
<1>7. PICK n \in Nat, l \in Nat :
        /\ l = Len(cache[i]) /\ l <= n /\ n <= MaxIndex
        /\ Stored(disk[i], n) /\ hs[i].commit <= n /\ hs[i].commit \in Nat
  BY DiskNow
<1>8. PICK u \in Nat, o \in Nat :
        /\ u = Len(r.unstable) /\ o = r.offset /\ o >= 1 /\ o <= l + 1 /\ m <= u
        /\ r.unstable \in Seq(Entry) /\ Numbered(r.unstable, o)
  <2>1. /\ r.unstable \in Seq(Entry) /\ Numbered(r.unstable, r.offset)
        /\ r.offset \in 1..(l + 1)
    BY <1>7 DEF Fits, RaftOK
  <2>2. Len(r.unstable) \in Nat
    BY <2>1, EntrySeq
  <2>3. m <= Len(r.unstable)
    BY <2>2, FailsWithin
  <2>4. r.offset \in Nat /\ r.offset >= 1 /\ r.offset <= l + 1
    BY <2>1
  <2> HIDE DEF s, c, d, puts
  <2> QED BY <2>1, <2>2, <2>3, <2>4
<1>9. puts \in Seq(Entry) /\ Len(puts) = m /\ Numbered(puts, o)
  <2>1. /\ puts \in Seq(Entry) /\ Len(puts) = m + 1 - 1 /\ Numbered(puts, o + 1 - 1)
    <3>1. m <= Len(r.unstable) /\ 1 \in Nat /\ 1 <= m + 1 /\ 1 >= 1
      BY <1>8
    <3>2. r.unstable \in Seq(Entry) /\ Numbered(r.unstable, o)
      BY <1>8
    <3> QED BY ONLY <3>1, <3>2, m \in Nat, o \in Nat, SubSeqNumbered
  <2> HIDE DEF puts
  <2>2. m + 1 - 1 = m /\ o + 1 - 1 = o
    OBVIOUS
  <2> QED BY <2>1, <2>2
<1>d. d = Put(disk[i], puts) /\ c = IF m = u THEN cache[i] \o r.unstable ELSE cache[i]
  BY <1>8 DEF FailedDisk, FailedCache
<1> HIDE DEF puts, d, c
<1>10. PICK k \in n..MaxIndex : o + m - 1 <= k /\ Stored(d, k)
  <2>1. o <= n + 1
    BY <1>7, <1>8
  <2> QED BY <1>7, <1>8, <1>9, <1>d, <2>1, PutStored
<1>11. k \in Nat /\ k <= MaxIndex /\ n <= k /\ l <= k /\ hs[i].commit <= k
  BY <1>7, <1>10, <1>m
<1>12. c \in Seq(Entry) /\ Len(c) <= k /\ Len(c) \in Nat /\ RaftOK(s, Len(c))
  <2>1. CASE m # u
    <3>1. c = cache[i]
      BY <1>d, <2>1
    <3> QED BY <1>2, <1>6, <1>7, <1>11, <3>1 DEF NodeLogInv
  <2>2. CASE m = u
    <3>1. c = ReadyCache(i, r)
      BY <1>d, <2>2 DEF ReadyCache
    <3>2. c \in Seq(Entry) /\ r.offset = l + 1 /\ Len(c) = l + u
      BY <1>4, <1>7, <1>8, <3>1, ReadyContinues
    <3>3. o = l + 1
      BY <1>8, <3>2
    <3>4. l + u <= k
      BY <1>10, <1>11, <2>2, <3>3
    <3>5. RaftOK(s, l + u)
      <4>1. /\ s.unstable = r.unstable /\ s.offset = o /\ Len(s.unstable) = u
        BY <1>6, <1>8
      <4>2. RaftOK(s, l)
        BY <1>6, <1>7
      <4>3. o \in 1..(l + u + 1)
        BY <3>3
      <4>4. s.unstable = <<>> => o = l + u + 1
        <5>1. s.unstable = <<>> => u = 0
          BY <4>1
        <5> QED BY <3>3, <5>1
      <4> HIDE DEF s
      <4> QED BY <4>1, <4>2, <4>3, <4>4 DEF RaftOK
    <3> QED BY <3>2, <3>4, <3>5
  <2> QED BY <2>1, <2>2
<1> HIDE DEF s
<1>13. NodeLogInv(i)'
  <2>1. k \in Len(c)..MaxIndex
    BY <1>11, <1>12, <1>m
  <2>2. HardStateOK(hs[i], s.prevHs)
    BY <1>2, <1>5 DEF NodeLogInv
  <2>3. applied[i] \in Seq(Entry)
    BY <1>2 DEF NodeLogInv
  <2> QED BY <1>3, <1>4, <1>10, <1>11, <1>12, <2>1, <2>2, <2>3 DEF NodeLogInv
<1>14. \A x \in raw'[i].msgs : LogMessage(x)
  BY <1>3, <1>5
<1>15. chosen' \subseteq Entry /\ \A x \in transit' : x \in transit
  BY <1>1 DEF LogInv
<1> QED BY <1>3, <1>13, <1>14, <1>15, LogStep

\* A start: raft-rs is a follower with the term and vote of the disk.
LEMMA FollowerGood ==
  ASSUME NEW i \in Node, NEW h, NEW n, NEW b, h.term \in 0..b, h.vote \in Node \cup {NoNode}
  PROVE  Good(i, RawNode(h, n), b)
<1> DEFINE s == RawNode(h, n)
<1>1. /\ DOMAIN s = RawFields /\ s.role = "follower" /\ s.term = h.term /\ s.vote = h.vote
      /\ s.leader = NoNode /\ s.msgs = {}
  BY DEF RawNode, Follower, RawFields
<1>2. NoNode # i
  BY ClusterAssumption DEF ClusterAssumption
<1> HIDE DEF s
<1>3. Good(i, s, b)
  BY <1>1, <1>2 DEF Good, VoterOK
<1> QED BY <1>3 DEF s

LEMMA FollowerOK ==
  ASSUME NEW h, NEW n \in Nat, h.commit \in Nat, h.commit <= n
  PROVE  /\ RaftOK(RawNode(h, n), n) /\ RawNode(h, n).msgs = {} /\ RawNode(h, n).prevHs = h
<1> DEFINE s == RawNode(h, n)
<1>1. /\ s.unstable = <<>> /\ s.offset = n + 1 /\ s.persisted = n /\ s.committed = h.commit
      /\ s.handed = 0 /\ s.match = NoMatch /\ s.msgs = {} /\ s.prevHs = h
  BY DEF RawNode, Follower
<1>2. Len(<<>>) = 0 /\ <<>> \in Seq(Entry) /\ Numbered(<<>>, n + 1)
  BY DEF Numbered
<1>3. n + 1 \in 1..(n + 1) /\ n < n + 1 /\ h.commit < n + 1 + 0 /\ 0 <= h.commit /\ 0 <= n
  OBVIOUS
<1> HIDE DEF s
<1>4. RaftOK(s, n)
  BY <1>1, <1>2, <1>3, MatchTypes DEF RaftOK
<1> QED BY <1>1, <1>4 DEF s

\* What a start of node i finds on the disk d.
Loaded(d) == Store(d, <<>>)!load_entries
Started(i, d) == RawNode(hs[i], Store(d, Loaded(d))!last_index)

LEMMA RestartWrites ==
  ASSUME NEW i, NEW n, restart(i, n)
  PROVE  LET d == Put(disk[i], SubSeq(raw[i].unstable, 1, n))
         IN  /\ disk' = [disk EXCEPT ![i] = d]
             /\ cache' = [cache EXCEPT ![i] = Loaded(d)]
             /\ raw' = [raw EXCEPT ![i] = Started(i, d)]
             /\ applied' = [applied EXCEPT ![i] = <<>>]
             /\ hs' = hs /\ campaigns' = campaigns /\ chosen' = chosen
             /\ transit' \subseteq transit
BY DEF restart, Loaded, Started, Live

LEMMA RestartVoter ==
  ASSUME VoterInv, campaigns \in Nat, NEW i \in Node, NEW n, restart(i, n)
  PROVE  VoterInv'
<1> DEFINE d == Put(disk[i], SubSeq(raw[i].unstable, 1, n))
           s == Started(i, d)
<1>1. /\ raw' = [raw EXCEPT ![i] = s] /\ hs' = hs /\ campaigns' = campaigns
      /\ transit' \subseteq transit
  BY RestartWrites
<1>2. DOMAIN raw = Node /\ DOMAIN hs = Node
      /\ hs[i].term \in 0..campaigns /\ hs[i].vote \in Node \cup {NoNode}
  BY DEF VoterInv
<1>3. Good(i, s, campaigns)
  BY <1>2, FollowerGood DEF Started
<1> HIDE DEF s
<1>4. /\ DOMAIN raw' = Node /\ DOMAIN hs' = Node
      /\ \A j \in Node \ {i} : raw'[j] = raw[j] /\ hs'[j] = hs[j]
      /\ raw'[i] = s /\ hs'[i] = hs[i]
  BY <1>1, <1>2
<1> QED BY <1>1, <1>2, <1>3, <1>4, VoterStep

LEMMA RestartLog ==
  ASSUME VoterInv, LogInv, NEW i \in Node, NEW m \in 0..Len(raw[i].unstable), restart(i, m)
  PROVE  LogInv'
<1> DEFINE r == raw[i]
           puts == SubSeq(r.unstable, 1, m)
           d == Put(disk[i], puts)
           c == Loaded(d)
           s == Started(i, d)
<1>m. MaxIndex \in Nat
  BY ClusterAssumption DEF ClusterAssumption
<1>1. /\ disk' = [disk EXCEPT ![i] = d] /\ cache' = [cache EXCEPT ![i] = c]
      /\ raw' = [raw EXCEPT ![i] = s] /\ applied' = [applied EXCEPT ![i] = <<>>]
      /\ hs' = hs /\ chosen' = chosen /\ transit' \subseteq transit
  BY RestartWrites
<1>2. /\ DOMAIN raw = Node /\ DOMAIN hs = Node
      /\ DOMAIN disk = Node /\ DOMAIN cache = Node /\ DOMAIN applied = Node
      /\ NodeLogInv(i) /\ Fits(i, r)
  BY FitsNow DEF VoterInv, LogInv
<1>3. /\ raw'[i] = s /\ hs'[i] = hs[i] /\ disk'[i] = d /\ cache'[i] = c
      /\ applied'[i] = <<>>
      /\ DOMAIN disk' = Node /\ DOMAIN cache' = Node /\ DOMAIN applied' = Node
      /\ \A j \in Node \ {i} : /\ disk'[j] = disk[j] /\ cache'[j] = cache[j]
                               /\ applied'[j] = applied[j]
                               /\ hs'[j] = hs[j] /\ raw'[j] = raw[j]
  <2> HIDE DEF s, c, d
  <2> QED BY <1>1, <1>2
<1>4. PICK n \in Nat, l \in Nat :
        /\ l = Len(cache[i]) /\ l <= n /\ n <= MaxIndex
        /\ Stored(disk[i], n) /\ hs[i].commit <= n /\ hs[i].commit \in Nat
  BY DiskNow
<1>5. PICK u \in Nat, o \in Nat :
        /\ u = Len(r.unstable) /\ o = r.offset /\ o >= 1 /\ o <= l + 1 /\ m \in 0..u
        /\ r.unstable \in Seq(Entry) /\ Numbered(r.unstable, o)
  <2>1. /\ r.unstable \in Seq(Entry) /\ Numbered(r.unstable, r.offset)
        /\ r.offset \in 1..(l + 1)
    BY <1>2, <1>4 DEF Fits, RaftOK
  <2>2. Len(r.unstable) \in Nat
    BY <2>1, EntrySeq
  <2>3. r.offset \in Nat /\ r.offset >= 1 /\ r.offset <= l + 1
    BY <2>1
  <2> HIDE DEF s, c, d, puts
  <2> QED BY <2>1, <2>2, <2>3
<1>6. puts \in Seq(Entry) /\ Len(puts) = m /\ Numbered(puts, o)
  <2>1. /\ puts \in Seq(Entry) /\ Len(puts) = m + 1 - 1 /\ Numbered(puts, o + 1 - 1)
    <3>1. m \in Nat /\ m <= Len(r.unstable) /\ 1 \in Nat /\ 1 <= m + 1
      BY <1>5
    <3> HIDE DEF s, c, d
    <3> QED BY <1>5, <3>1, SubSeqNumbered
  <2> HIDE DEF puts
  <2>2. m \in Nat /\ m + 1 - 1 = m /\ o + 1 - 1 = o
    BY <1>5
  <2> QED BY <2>1, <2>2
<1> HIDE DEF puts
<1>7. PICK k \in n..MaxIndex : Stored(d, k)
  <2>1. o <= n + 1
    BY <1>4, <1>5
  <2> QED BY <1>4, <1>5, <1>6, <2>1, PutStored
<1>8. k \in Nat /\ k <= MaxIndex /\ n <= k /\ hs[i].commit <= k
  BY <1>4, <1>7, <1>m
<1> HIDE DEF d, r
<1>9. /\ c \in Seq(Entry) /\ Len(c) = k /\ Numbered(c, 1)
      /\ Store(d, c)!last_index = k
  BY <1>7, <1>8, LoadStored DEF Loaded
<1>10. s = RawNode(hs[i], k)
  BY <1>9 DEF Started
<1> HIDE DEF c, s
<1>11. RaftOK(s, k) /\ s.msgs = {} /\ s.prevHs = hs[i]
  BY <1>4, <1>8, <1>10, FollowerOK
<1>12. HardStateOK(hs[i], hs[i])
  BY <1>2, <1>4 DEF NodeLogInv, HardStateOK
<1>13. NodeLogInv(i)'
  <2>1. k \in Len(c)..MaxIndex /\ <<>> \in Seq(Entry)
    BY <1>8, <1>9, <1>m
  <2> QED BY <1>3, <1>7, <1>8, <1>9, <1>11, <1>12, <2>1 DEF NodeLogInv
<1>14. \A x \in raw'[i].msgs : LogMessage(x)
  BY <1>3, <1>11
<1>15. chosen' \subseteq Entry /\ \A x \in transit' : x \in transit
  BY <1>1 DEF LogInv
<1> QED BY <1>3, <1>13, <1>14, <1>15, LogStep

-----------------------------------------------------------------------------
(* The tick branch *)

LEMMA NotRepeated ==
  ASSUME NEW c \in Seq(Entry), ~Repeats(c)
  PROVE  Numbered(c, 1)
<1>1. DOMAIN c = 1..Len(c) /\ Len(c) \in Nat
  BY EntrySeq
<1>2. \A p \in DOMAIN c : c[p].index = p /\ p = 1 + p - 1
  BY <1>1 DEF Repeats
<1> QED BY <1>2 DEF Numbered

LEMMA TickKeeps ==
  ASSUME VoterInv, campaigns \in Nat, campaigns' \in Nat, campaigns <= campaigns',
         NEW i \in Node, NEW r, Good(i, r, campaigns'), r.prevHs = raw[i].prevHs,
         LogInv => Fits(i, r),
         \/ handle_ready(i, r)
         \/ \E n \in 0..Len(raw[i].unstable) : handle_ready_fails(i, r, n)
  PROVE  VoterInv' /\ (LogInv /\ ~Repeats(cache'[i]) => LogInv')
<1>1. ASSUME LogInv
      PROVE  /\ DOMAIN cache = Node /\ cache[i] \in Seq(Entry)
             /\ cache[i] \o r.unstable \in Seq(Entry)
  <2>1. DOMAIN cache = Node /\ cache[i] \in Seq(Entry) /\ r.unstable \in Seq(Entry)
    BY <1>1 DEF LogInv, NodeLogInv, Fits, RaftOK
  <2> QED BY <2>1, ConcatFacts
<1>2. CASE handle_ready(i, r)
  <2>1. VoterInv'
    BY <1>2, ReadyVoter
  <2>2. ASSUME LogInv, ~Repeats(cache'[i])
        PROVE  LogInv'
    <3>1. cache' = [cache EXCEPT ![i] = cache[i] \o r.unstable]
      BY <1>2, ReadyWrites DEF ReadyCache
    <3>2. cache'[i] \in Seq(Entry)
      BY <1>1, <2>2, <3>1
    <3>3. Numbered(cache'[i], 1)
      BY <2>2, <3>2, NotRepeated
    <3> QED BY <1>2, <2>2, <3>3, ReadyLog
  <2> QED BY <2>1, <2>2
<1>3. ASSUME NEW n \in 0..Len(raw[i].unstable), handle_ready_fails(i, r, n)
      PROVE  VoterInv' /\ (LogInv /\ ~Repeats(cache'[i]) => LogInv')
  <2>1. VoterInv'
    BY <1>3, FailsVoter
  <2>2. ASSUME LogInv, ~Repeats(cache'[i])
        PROVE  LogInv'
    <3>1. \/ cache' = [cache EXCEPT ![i] = cache[i] \o r.unstable]
          \/ cache' = [cache EXCEPT ![i] = cache[i]]
      BY <1>3, FailsWrites DEF FailedCache
    <3>2. cache'[i] \in Seq(Entry)
      BY <1>1, <2>2, <3>1
    <3>3. Numbered(cache'[i], 1)
      BY <2>2, <3>2, NotRepeated
    <3>4. n \in Nat
      OBVIOUS
    <3> QED BY <1>3, <2>2, <3>3, <3>4, FailsLog
  <2> QED BY <2>1, <2>2
<1> QED BY <1>2, <1>3

\* The parts of the state that the panic in ready() and the put handlers that
\* are not proposing leave alone.
LEMMA LogsStay ==
  ASSUME UNCHANGED <<storeVars, raw, transit, chosen, applied>>,
         campaigns \in Nat, campaigns' \in Nat, campaigns <= campaigns', VoterInv
  PROVE  VoterInv' /\ (LogInv => LogInv')
<1>1. /\ disk' = disk /\ hs' = hs /\ cache' = cache /\ raw' = raw /\ transit' = transit
      /\ chosen' = chosen /\ applied' = applied
  BY DEF storeVars
<1>2. LogInv => LogInv'
  BY <1>1 DEF LogInv, NodeLogInv
<1>3. \A m : Sound(m, campaigns) => Sound(m, campaigns')
  <2>1. \A t : t \in 0..campaigns => t \in 0..campaigns'
    OBVIOUS
  <2> QED BY <2>1 DEF Sound
<1>4. ASSUME NEW i \in Node
      PROVE  Good(i, raw[i], campaigns') /\ hs[i].term \in 0..campaigns'
             /\ hs[i].vote \in Node \cup {NoNode}
  <2>1. Good(i, raw[i], campaigns) /\ hs[i].term \in 0..campaigns
        /\ hs[i].vote \in Node \cup {NoNode}
    BY GoodNow DEF VoterInv
  <2>2. hs[i].term \in 0..campaigns'
    BY <2>1
  <2> QED BY <2>1, <2>2, GoodLater
<1>5. VoterInv'
  BY <1>1, <1>3, <1>4 DEF VoterInv, Good
<1> QED BY <1>2, <1>5

\* Node i asks for votes in term t.
Candidate(i, t, asks) ==
  [BecomeFollower(raw[i], t, NoNode) EXCEPT
     !.role = "candidate", !.vote = i, !.votes = {i}, !.msgs = @ \cup asks]

LEMMA CandidateGood ==
  ASSUME VoterInv, campaigns \in Nat, campaigns' \in Nat, campaigns <= campaigns',
         NEW i \in Node, NEW asks, \A m \in asks : Sound(m, campaigns') /\ m.from = i,
         NEW t \in 1..campaigns'
  PROVE  /\ Good(i, Candidate(i, t, asks), campaigns')
         /\ Candidate(i, t, asks).prevHs = raw[i].prevHs
<1> DEFINE r == raw[i]
           f == BecomeFollower(r, t, NoNode)
           s == Candidate(i, t, asks)
<1>1. Good(i, r, campaigns) /\ DOMAIN r = RawFields /\ r.term \in 0..campaigns
  BY GoodNow DEF Good, VoterOK
<1>2. Good(i, r, campaigns')
  BY <1>1, GoodLater
<1>3. t \in 0..campaigns' /\ t >= 1
  OBVIOUS
<1>4. NoNode # i /\ NoNode \in Node \cup {NoNode}
  BY ClusterAssumption DEF ClusterAssumption
<1>5. /\ DOMAIN f = RawFields /\ f.term = t /\ f.leader = NoNode
      /\ f.msgs = r.msgs /\ f.prevHs = r.prevHs
  BY <1>1, BecomeFollowerFields
<1> HIDE DEF f
<1>6. /\ DOMAIN s = RawFields /\ s.role = "candidate" /\ s.term = t
      /\ s.leader = NoNode /\ s.vote = i /\ s.prevHs = r.prevHs
      /\ s.msgs = r.msgs \cup asks
  BY <1>5 DEF f, RawFields, Candidate
<1> HIDE DEF s
<1>7. \A m \in s.msgs : Sound(m, campaigns') /\ m.from = i
  BY <1>2, <1>6 DEF Good
<1>8. VoterOK(i, s, campaigns')
  BY <1>3, <1>4, <1>6 DEF VoterOK
<1> QED BY <1>6, <1>7, <1>8 DEF Good, s

LEMMA CandidateFits ==
  ASSUME VoterInv, LogInv, NEW i \in Node, NEW asks, \A m \in asks : m.type = "Vote", NEW t
  PROVE  Fits(i, Candidate(i, t, asks))
<1> DEFINE f == BecomeFollower(raw[i], t, NoNode)
           s == Candidate(i, t, asks)
<1>1. DOMAIN raw[i] = RawFields /\ Fits(i, raw[i])
  BY FitsNow DEF VoterInv, VoterOK
<1>2. DOMAIN f = RawFields /\ Fits(i, f)
  BY <1>1, BecomeFollowerFields, FitsFollower
<1> HIDE DEF f
<1>3. /\ s.unstable = f.unstable /\ s.offset = f.offset /\ s.persisted = f.persisted
      /\ s.committed = f.committed /\ s.handed = f.handed /\ s.match = f.match
      /\ s.msgs = f.msgs \cup asks
  BY <1>2 DEF f, RawFields, Candidate
<1> HIDE DEF s
<1>4. \A m \in s.msgs : m \in f.msgs \/ LogMessage(m)
  BY <1>3 DEF LogMessage
<1>5. s.match \in [Node -> 0..MaxIndex]
  BY <1>2, <1>3 DEF Fits, RaftOK
<1> QED BY <1>2, <1>3, <1>4, <1>5, FitsSame DEF s

\* The state of node i in raft-rs after what the tick changes in it.
LEMMA QuietKeeps ==
  ASSUME VoterInv, campaigns \in Nat, NEW i \in Node, TickQuiet(i) \/ TickFails(i)
  PROVE  VoterInv' /\ (LogInv /\ ~Repeats(cache'[i]) => LogInv')
<1>1. campaigns' = campaigns /\ campaigns' \in Nat /\ campaigns <= campaigns'
  BY DEF TickQuiet, TickFails, envVars
<1>2. Good(i, raw[i], campaigns') /\ (LogInv => Fits(i, raw[i]))
  BY <1>1, GoodNow, FitsNow
<1>3. CASE handle_ready_dies(i, raw[i])
  BY <1>1, <1>3, LogsStay DEF handle_ready_dies, histVars
<1>4. \/ handle_ready_dies(i, raw[i])
      \/ handle_ready(i, raw[i])
      \/ \E n \in 0..Len(raw[i].unstable) : handle_ready_fails(i, raw[i], n)
  BY DEF TickQuiet, TickFails
<1>5. CASE ~handle_ready_dies(i, raw[i])
  BY <1>1, <1>2, <1>4, <1>5, TickKeeps
<1> QED BY <1>3, <1>5

LEMMA CampaignKeeps ==
  ASSUME VoterInv, campaigns \in Nat, NEW i \in Node, TickCampaign(i)
  PROVE  VoterInv' /\ (LogInv /\ ~Repeats(cache'[i]) => LogInv')
<1> DEFINE r == raw[i]
           last == LastIndex(r)
           ask(j) == [type |-> "Vote", from |-> i, to |-> j, term |-> r.term + 1,
                      index |-> last, logTerm |-> TermAt(i, r, last)]
           asks == {ask(j) : j \in Node \ {i}}
           s == Candidate(i, r.term + 1, asks)
<1>0. campaigns' = campaigns + 1
  BY DEF TickCampaign
<1>1. handle_ready(i, s) \/ \E n \in 0..Len(r.unstable) : handle_ready_fails(i, s, n)
  BY DEF TickCampaign, Candidate
<1>2. campaigns' \in Nat /\ campaigns <= campaigns'
  BY ONLY <1>0, campaigns \in Nat
<1>3. r.term + 1 \in 1..campaigns'
  <2>1. r.term \in 0..campaigns
    BY DEF VoterInv, VoterOK
  <2> QED BY ONLY <1>0, <2>1, campaigns \in Nat
<1>4. \A m \in asks : Sound(m, campaigns') /\ m.from = i /\ m.type = "Vote"
  BY <1>3 DEF Sound
<1> HIDE DEF asks
<1>5. Good(i, s, campaigns') /\ s.prevHs = raw[i].prevHs
  BY <1>2, <1>3, <1>4, CandidateGood
<1>6. LogInv => Fits(i, s)
  BY <1>4, CandidateFits
<1> HIDE DEF s
<1> QED BY <1>1, <1>2, <1>5, <1>6, TickKeeps

LEMMA StepDownKeeps ==
  ASSUME VoterInv, campaigns \in Nat, NEW i \in Node, TickCheckQuorum(i)
  PROVE  VoterInv' /\ (LogInv /\ ~Repeats(cache'[i]) => LogInv')
<1> DEFINE r == BecomeFollower(raw[i], raw[i].term, NoNode)
<1>1. campaigns' = campaigns /\ campaigns' \in Nat /\ campaigns <= campaigns'
  BY DEF TickCheckQuorum
<1>2. Good(i, raw[i], campaigns') /\ DOMAIN raw[i] = RawFields /\ raw[i].term \in 0..campaigns'
  BY <1>1, GoodNow DEF Good, VoterOK
<1>3. NoNode # i /\ NoNode \in Node \cup {NoNode}
  BY ClusterAssumption DEF ClusterAssumption
<1>4. Good(i, r, campaigns') /\ r.prevHs = raw[i].prevHs
  BY <1>2, <1>3, GoodFollower, BecomeFollowerFields
<1>5. LogInv => Fits(i, r)
  BY <1>2, FitsNow, FitsFollower
<1>6. \/ handle_ready(i, r)
      \/ \E n \in 0..Len(raw[i].unstable) : handle_ready_fails(i, r, n)
  <2>1. r.unstable = raw[i].unstable
    BY <1>2 DEF BecomeFollower, RawFields
  <2> QED BY <2>1 DEF TickCheckQuorum
<1> HIDE DEF r
<1> QED BY <1>1, <1>4, <1>5, <1>6, TickKeeps

\* put_key hands its proposal to raft-rs.
LEMMA ProposalKeeps ==
  ASSUME VoterInv, RequestInv, campaigns \in 0..MaxCampaigns, NEW c \in Client, propose(c)
  PROVE  VoterInv' /\ (LogInv => LogInv')
<1>a. PICK i : i = request[c].at
  OBVIOUS
<1> DEFINE n == proposal_index[i] + 1
           r == raw[i]
           p == [by |-> c, ctx |-> n]
           s == Propose(i, r, p)
<1>0. campaigns \in Nat
  BY ClusterAssumption DEF ClusterAssumption
<1>1. /\ request[c].pc = "leader" /\ (r.role = "leader" => LastIndex(r) < MaxIndex)
      /\ \/ Accepts(r) /\ raw' = [raw EXCEPT ![i] = s]
         \/ raw' = raw
      /\ hs' = hs /\ disk' = disk /\ cache' = cache /\ transit' = transit
      /\ campaigns' = campaigns /\ chosen' = chosen /\ applied' = applied
  BY <1>a DEF propose, storeVars, envVars, histVars
<1>2. i \in Node /\ n \in Nat
  BY <1>1, <1>a DEF RequestInv, RequestType
<1>3. p \in Payload
  BY <1>2 DEF Payload
<1>4. /\ Good(i, r, campaigns) /\ (LogInv => Fits(i, r)) /\ DOMAIN raw = Node /\ DOMAIN hs = Node
      /\ hs[i].term \in 0..campaigns /\ hs[i].vote \in Node \cup {NoNode}
  BY <1>2, GoodNow, FitsNow DEF VoterInv
<1> HIDE DEF n, p
<1>5. CASE raw' = raw
  BY <1>0, <1>1, <1>5, LogsStay DEF storeVars
<1>6. CASE Accepts(r) /\ raw' = [raw EXCEPT ![i] = s]
  <2>1. Good(i, s, campaigns) /\ s.prevHs = r.prevHs
    BY <1>2, <1>3, <1>4, <1>6, GoodPropose
  <2>2. LogInv => Fits(i, s)
    BY <1>1, <1>2, <1>3, <1>4, FitsPropose
  <2> HIDE DEF s
  <2>3. /\ DOMAIN raw' = Node /\ raw'[i] = s
        /\ \A j \in Node \ {i} : raw'[j] = raw[j]
    BY <1>2, <1>4, <1>6
  <2>4. VoterInv'
    BY <1>0, <1>1, <1>2, <1>4, <2>1, <2>3, VoterStep
  <2>5. ASSUME LogInv
        PROVE  LogInv'
    <3>1. NodeLogInv(i) /\ DOMAIN disk = Node /\ DOMAIN cache = Node /\ DOMAIN applied = Node
      BY <1>2, <2>5 DEF LogInv
    <3>2. /\ hs' = hs /\ disk' = disk /\ cache' = cache /\ transit' = transit
          /\ applied' = applied
      BY <1>1
    <3>3. RaftOK(s, Len(cache[i])) /\ HardStateOK(hs[i], s.prevHs)
      BY <2>1, <2>2, <2>5, <3>1 DEF Fits, NodeLogInv
    <3>4. NodeLogInv(i)'
      BY <2>3, <3>1, <3>2, <3>3 DEF NodeLogInv
    <3>5. \A x \in raw'[i].msgs : LogMessage(x)
      BY <2>2, <2>3, <2>5 DEF Fits
    <3>6. chosen' \subseteq Entry
      BY <1>1, <2>5 DEF LogInv
    <3> QED BY <1>2, <2>3, <2>5, <3>1, <3>2, <3>4, <3>5, <3>6, LogStep
  <2> QED BY <2>4, <2>5
<1> QED BY <1>1, <1>5, <1>6

\* A message that arrives.
LEMMA ArrivalKeeps ==
  ASSUME VoterInv, campaigns \in 0..MaxCampaigns, NEW m \in transit, step(m)
  PROVE  VoterInv' /\ (LogInv => LogInv')
<1>0. campaigns \in Nat
  BY ClusterAssumption DEF ClusterAssumption
<1>1. /\ StepsTo(m)
      /\ LogInv => chosen' \subseteq Entry
  <2>1. CASE HandleVote(m)
    BY <1>0, <2>1, VoteSteps DEF HandleVote, LogInv
  <2>2. CASE HandleVoteResp(m)
    BY <2>2, VoteRespSteps DEF HandleVoteResp, LogInv
  <2>3. CASE HandleAppend(m)
    <3>1. chosen' = chosen
      BY <2>3 DEF HandleAppend
    <3>2. StepsTo(m)
      BY <1>0, <2>3, AppendSteps
    <3> QED BY <3>1, <3>2 DEF LogInv
  <2>4. CASE HandleAppendResp(m)
    BY <2>4, AppendRespSteps
  <2>5. CASE HandleHeartbeat(m)
    BY <2>5, HeartbeatSteps DEF HandleHeartbeat, LogInv
  <2>6. CASE HandlePropose(m)
    BY <2>6, ProposeSteps DEF HandlePropose, LogInv
  <2> QED BY <2>1, <2>2, <2>3, <2>4, <2>5, <2>6 DEF step
<1>2. PICK r : /\ Step(m.to, m, r) /\ Good(m.to, r, campaigns)
               /\ r.prevHs = raw[m.to].prevHs /\ (LogInv => Fits(m.to, r))
  BY <1>1 DEF StepsTo
<1> QED BY <1>0, <1>1, <1>2, StepKeeps

-----------------------------------------------------------------------------
(* Requests, and what is bounded *)

LEMMA RequestsStay ==
  ASSUME RequestInv, UNCHANGED <<propVars, request>>
  PROVE  RequestInv'
BY DEF RequestInv, propVars

LEMMA NoOneWaits ==
  ASSUME NEW a \in {"none", "ok", "error"}
  PROVE  /\ Ended(a) \in RequestType /\ Ended(a).at = NoNode
         /\ Ended(a).pc \notin {"leader", "wait"}
BY DEF Ended, RequestType

\* A node loses waiters, and some requests end.
LEMMA RequestsEnd ==
  ASSUME RequestInv, proposal_index' = proposal_index,
         DOMAIN pending' = Node, \A j \in Node : pending'[j] \subseteq pending[j],
         DOMAIN request' = Client, request' = [c \in Client |-> request'[c]],
         \A c \in Client : request'[c] = request[c]
                           \/ \E a \in {"ok", "error"} : request'[c] = Ended(a)
  PROVE  RequestInv'
<1>1. \A c \in Client : /\ request'[c] \in RequestType
                        /\ request'[c].pc \in {"leader", "wait"} <=> request'[c].at # NoNode
  BY NoOneWaits DEF RequestInv
<1>2. request' \in [Client -> RequestType]
  BY <1>1
<1>3. \A j \in Node : pending'[j] \subseteq [id : 1..proposal_index'[j], client : Client]
  BY DEF RequestInv
<1> QED BY <1>1, <1>2, <1>3 DEF RequestInv

LEMMA RestartRequests ==
  ASSUME RequestInv, NEW i \in Node, NEW n, restart(i, n)
  PROVE  RequestInv'
<1>1. /\ proposal_index' = [proposal_index EXCEPT ![i] = 0]
      /\ pending' = [pending EXCEPT ![i] = {}]
      /\ request' = [c \in Client |-> IF request[c].at = i THEN Ended("error") ELSE request[c]]
  BY DEF restart
<1>2. proposal_index' \in [Node -> Nat] /\ DOMAIN pending' = Node
  BY <1>1 DEF RequestInv
<1>3. \A j \in Node : pending'[j] \subseteq [id : 1..proposal_index'[j], client : Client]
  <2>1. TAKE j \in Node
  <2>2. pending[j] \subseteq [id : 1..proposal_index[j], client : Client]
    BY DEF RequestInv
  <2>3. CASE j = i
    BY <1>1, <2>3 DEF RequestInv
  <2>4. CASE j # i
    BY <1>1, <2>2, <2>4 DEF RequestInv
  <2> QED BY <2>3, <2>4
<1>4. \A c \in Client : /\ request'[c] \in RequestType
                        /\ request'[c].pc \in {"leader", "wait"} <=> request'[c].at # NoNode
  BY <1>1, NoOneWaits DEF RequestInv
<1>5. request' \in [Client -> RequestType]
  BY <1>1, <1>4
<1> QED BY <1>2, <1>3, <1>4, <1>5 DEF RequestInv

LEMMA ReadyRequests ==
  ASSUME RequestInv, NEW i \in Node, NEW r, handle_ready(i, r)
  PROVE  RequestInv'
<1>1. \E answered :
        /\ pending' = [pending EXCEPT ![i] = @ \ answered]
        /\ request' = [x \in Client |->
             IF request[x].pc = "wait" /\ \E p \in answered : p.client = x
               THEN Ended("ok") ELSE request[x]]
        /\ proposal_index' = proposal_index
  BY DEF handle_ready
<1>2. DOMAIN pending = Node
  BY DEF RequestInv
<1>3. DOMAIN pending' = Node /\ \A j \in Node : pending'[j] \subseteq pending[j]
  BY <1>1, <1>2
<1>4. /\ DOMAIN request' = Client /\ request' = [c \in Client |-> request'[c]]
      /\ \A c \in Client : request'[c] = request[c] \/ request'[c] = Ended("ok")
  BY <1>1
<1> QED BY <1>1, <1>3, <1>4, RequestsEnd

LEMMA TimeoutRequests ==
  ASSUME RequestInv, NEW c \in Client, Timeout(c)
  PROVE  RequestInv'
<1> DEFINE i == request[c].at
<1>1. /\ pending' = [pending EXCEPT ![i] = {p \in @ : p.id # request[c].id}]
      /\ request' = [request EXCEPT ![c] = Ended("error")]
      /\ proposal_index' = proposal_index /\ request[c].pc = "wait"
  BY DEF Timeout
<1>2. DOMAIN pending = Node /\ i \in Node /\ request \in [Client -> RequestType]
  BY <1>1 DEF RequestInv, RequestType
<1> HIDE DEF i
<1>3. DOMAIN pending' = Node /\ \A j \in Node : pending'[j] \subseteq pending[j]
  BY <1>1, <1>2
<1>4. /\ DOMAIN request' = Client /\ request' = [x \in Client |-> request'[x]]
      /\ \A x \in Client : request'[x] = request[x] \/ request'[x] = Ended("error")
  BY <1>1, <1>2
<1> QED BY <1>1, <1>2, <1>3, <1>4, RequestsEnd

LEMMA DisconnectRequests ==
  ASSUME RequestInv, NEW c \in Client, Disconnect(c)
  PROVE  RequestInv'
<1>1. /\ pending' = pending /\ proposal_index' = proposal_index
      /\ request' = [request EXCEPT ![c] = Ended("error")]
  BY DEF Disconnect, propVars
<1>2. DOMAIN pending = Node /\ request \in [Client -> RequestType]
  BY DEF RequestInv
<1>3. DOMAIN pending' = Node /\ \A j \in Node : pending'[j] \subseteq pending[j]
  BY <1>1, <1>2
<1>4. /\ DOMAIN request' = Client /\ request' = [x \in Client |-> request'[x]]
      /\ \A x \in Client : request'[x] = request[x] \/ request'[x] = Ended("error")
  BY <1>1, <1>2
<1> QED BY <1>1, <1>3, <1>4, RequestsEnd

LEMMA CheckRequests ==
  ASSUME RequestInv, NEW i \in Node, NEW c \in Client, CheckLeader(c, i)
  PROVE  RequestInv'
<1>1. /\ request' = [request EXCEPT ![c] = [pc |-> "leader", at |-> i, id |-> 0]]
      /\ proposal_index' = proposal_index /\ pending' = pending
  BY DEF CheckLeader, propVars
<1>2. i # NoNode
  BY ClusterAssumption DEF ClusterAssumption
<1>3. [pc |-> "leader", at |-> i, id |-> 0] \in RequestType
  BY DEF RequestType
<1> QED BY <1>1, <1>2, <1>3 DEF RequestInv

LEMMA ProposalRequests ==
  ASSUME RequestInv, NEW c \in Client, propose(c)
  PROVE  RequestInv'
<1> DEFINE i == request[c].at
           n == proposal_index[i] + 1
           w == [id |-> n, client |-> c]
<1>1. /\ request[c].pc = "leader"
      /\ proposal_index' = [proposal_index EXCEPT ![i] = n]
      /\ pending' = [pending EXCEPT ![i] = @ \cup {w}]
      /\ \/ request' = [request EXCEPT ![c].pc = "wait", ![c].id = n]
         \/ request' = [request EXCEPT ![c] = Ended("error")]
  BY DEF propose
<1>2. /\ i \in Node /\ i # NoNode /\ proposal_index \in [Node -> Nat] /\ n \in Nat /\ n >= 1
      /\ DOMAIN pending = Node /\ request \in [Client -> RequestType]
  BY <1>1, ClusterAssumption DEF RequestInv, RequestType, ClusterAssumption
<1>3. proposal_index' \in [Node -> Nat] /\ DOMAIN pending' = Node
  <2> HIDE DEF i, n, w
  <2> QED BY <1>1, <1>2
<1>4. \A j \in Node : pending'[j] \subseteq [id : 1..proposal_index'[j], client : Client]
  <2>1. TAKE j \in Node
  <2>2. pending[j] \subseteq [id : 1..proposal_index[j], client : Client]
    BY DEF RequestInv
  <2>3. CASE j = i
    <3>1. pending'[j] = pending[j] \cup {w} /\ proposal_index'[j] = n
      <4> HIDE DEF i, n, w
      <4> QED BY <1>1, <1>2, <2>3
    <3>2. w \in [id : 1..n, client : Client]
      <4> HIDE DEF i, n
      <4> QED BY <1>2
    <3>3. \A x \in 1..proposal_index[j] : x \in 1..n
      BY <1>2, <2>3
    <3>4. \A p \in pending[j] : p \in [id : 1..n, client : Client]
      <4> HIDE DEF i, n, w
      <4> QED BY <2>2, <3>3
    <3> HIDE DEF i, n, w
    <3> QED BY <3>1, <3>2, <3>4
  <2>4. CASE j # i
    <3> HIDE DEF n, w, i
    <3> QED BY <1>1, <1>2, <2>2, <2>4
  <2> QED BY <2>3, <2>4
<1>5. \A x \in Client : /\ request'[x] \in RequestType
                        /\ request'[x].pc \in {"leader", "wait"} <=> request'[x].at # NoNode
  <2>1. CASE request' = [request EXCEPT ![c] = Ended("error")]
    BY <1>2, <2>1, NoOneWaits DEF RequestInv
  <2>2. CASE request' = [request EXCEPT ![c].pc = "wait", ![c].id = n]
    <3>1. request[c] \in RequestType /\ request[c].at = i
      BY <1>2
    <3> HIDE DEF i, n
    <3>2. /\ request'[c] \in RequestType /\ request'[c].pc = "wait" /\ request'[c].at = i
          /\ \A x \in Client \ {c} : request'[x] = request[x]
      BY <1>2, <2>2, <3>1 DEF RequestType
    <3> QED BY <1>2, <3>2 DEF RequestInv
  <2> QED BY <1>1, <2>1, <2>2
<1>6. request' \in [Client -> RequestType]
  <2>1. DOMAIN request' = Client /\ request' = [x \in Client |-> request'[x]]
    <3> HIDE DEF i, n
    <3> QED BY <1>1, <1>2
  <2> QED BY <1>5, <2>1
<1> QED BY <1>3, <1>4, <1>5, <1>6 DEF RequestInv

\* Who leads in which term, who is dead or has lost a Ready.
LEMMA ArrivalBounds ==
  ASSUME VoterInv, BoundInv, NEW m \in transit, step(m), mixed' \in BOOLEAN
  PROVE  BoundInv'
<1>1. m.to \in Node /\ raw[m.to].term \in 0..campaigns
  BY TransitSound DEF VoterInv, VoterOK
<1>2. \A t \in 0..campaigns : t \in 0..MaxCampaigns
  BY ClusterAssumption DEF BoundInv, ClusterAssumption
<1>3. campaigns' = campaigns /\ faults' = faults /\ lost' = lost
  BY DEF step, HandleVote, HandleVoteResp, HandleAppend, HandleAppendResp, HandleHeartbeat,
         HandlePropose, Step, envVars
<1>4. dead' \subseteq dead \cup {m.to}
  BY DEF step, HandleVote, HandleVoteResp, HandleAppend, HandleAppendResp, HandleHeartbeat,
         HandlePropose
<1>5. elected' = elected \/ elected' = elected \cup {<<raw[m.to].term, m.to>>}
  <2>1. CASE HandleVoteResp(m)
    <3>1. [raw[m.to] EXCEPT !.votes = @ \cup {m.from}].term = raw[m.to].term
      BY <1>1 DEF VoterInv, VoterOK, RawFields
    <3> QED BY <2>1, <3>1 DEF HandleVoteResp
  <2>2. CASE ~HandleVoteResp(m)
    BY <2>2 DEF step, HandleVote, HandleAppend, HandleAppendResp, HandleHeartbeat, HandlePropose
  <2> QED BY <2>1, <2>2
<1> QED BY <1>1, <1>2, <1>3, <1>4, <1>5 DEF BoundInv

LEMMA FaultBounds ==
  ASSUME BoundInv, Fault
  PROVE  faults' \in 0..MaxFaults
BY ClusterAssumption DEF BoundInv, Fault, ClusterAssumption

\* What one handle_ready, if it fails or not, does to them.
LEMMA TickBounds ==
  ASSUME BoundInv, NEW i \in Node, NEW r,
         handle_ready(i, r) \/ handle_ready_dies(i, r) \/ \E n : handle_ready_fails(i, r, n)
  PROVE  /\ dead' \subseteq Node /\ lost' \subseteq Node
         /\ elected' \subseteq (0..MaxCampaigns) \X Node
<1>1. dead' \in {dead, dead \cup {i}} /\ lost' \in {lost, lost \cup {i}} /\ elected' = elected
  BY DEF handle_ready, handle_ready_dies, handle_ready_fails, DropReady, histVars
<1> QED BY <1>1 DEF BoundInv

LEMMA NodeBounds ==
  ASSUME BoundInv, NEW i \in Node, mixed' \in BOOLEAN,
         TickQuiet(i) \/ TickFails(i) \/ TickCampaign(i) \/ TickCheckQuorum(i)
  PROVE  BoundInv'
<1>1. campaigns' = campaigns \/ (campaigns < MaxCampaigns /\ campaigns' = campaigns + 1)
  BY DEF TickQuiet, TickFails, TickCampaign, TickCheckQuorum, envVars, handle_ready_fails,
         DropReady
<1>2. campaigns' \in 0..MaxCampaigns
  BY <1>1, ClusterAssumption DEF BoundInv, ClusterAssumption
<1>3. faults' = faults \/ Fault
  BY DEF TickQuiet, TickFails, TickCampaign, TickCheckQuorum, envVars, handle_ready_fails,
         DropReady
<1>4. faults' \in 0..MaxFaults
  BY <1>3, FaultBounds DEF BoundInv
<1>5. \E r : handle_ready(i, r) \/ handle_ready_dies(i, r) \/ \E n : handle_ready_fails(i, r, n)
  BY DEF TickQuiet, TickFails, TickCampaign, TickCheckQuorum
<1> QED BY <1>2, <1>4, <1>5, TickBounds DEF BoundInv

LEMMA NodeRequests ==
  ASSUME RequestInv, NEW i \in Node,
         TickQuiet(i) \/ TickFails(i) \/ TickCampaign(i) \/ TickCheckQuorum(i)
  PROVE  RequestInv'
<1>1. \E r : handle_ready(i, r) \/ handle_ready_dies(i, r) \/ \E n : handle_ready_fails(i, r, n)
  BY DEF TickQuiet, TickFails, TickCampaign, TickCheckQuorum
<1>2. ASSUME NEW r, handle_ready_dies(i, r) \/ \E n : handle_ready_fails(i, r, n)
      PROVE  RequestInv'
  <2>1. UNCHANGED <<propVars, request>>
    BY <1>2 DEF handle_ready_dies, handle_ready_fails, DropReady
  <2> QED BY <2>1, RequestsStay
<1> QED BY <1>1, <1>2, ReadyRequests

-----------------------------------------------------------------------------
(* The invariant *)

LEMMA InitTypes ==
  ASSUME Init
  PROVE  TypeInv
<1>0. /\ NoNode \notin Node /\ MaxCampaigns \in Nat /\ MaxFaults \in Nat /\ MaxIndex \in Nat
      /\ NoEntry \notin Entry
  BY ClusterAssumption DEF ClusterAssumption
<1> DEFINE r0 == RawNode(NoHardState, 0)
<1>1. /\ disk = [i \in Node |-> [n \in Index |-> NoEntry]]
      /\ hs = [i \in Node |-> NoHardState] /\ cache = [i \in Node |-> <<>>]
      /\ raw = [i \in Node |-> r0] /\ transit = {} /\ campaigns = 0
      /\ chosen = {} /\ applied = [i \in Node |-> <<>>]
  BY DEF Init
<1>2. /\ NoHardState.term \in 0..0 /\ NoHardState.vote \in Node \cup {NoNode}
      /\ NoHardState.commit \in Nat /\ NoHardState.commit <= 0
      /\ Plain(NoHardState) /\ NoHardState.commit = 0
  BY DEF NoHardState, Plain
<1>3. RaftOK(r0, 0) /\ r0.msgs = {} /\ r0.prevHs = NoHardState
  BY <1>2, FollowerOK
<1>4. \A i \in Node : Good(i, r0, 0)
  BY <1>2, FollowerGood
<1> HIDE DEF r0
<1>5. VoterInv
  BY <1>1, <1>2, <1>3, <1>4 DEF VoterInv, Good
<1>6. RequestInv
  <2>1. /\ proposal_index = [i \in Node |-> 0] /\ pending = [i \in Node |-> {}]
        /\ request = [c \in Client |-> Ended("none")]
    BY DEF Init
  <2> QED BY <2>1, NoOneWaits DEF RequestInv
<1>7. BoundInv
  <2>1. /\ dead = {} /\ lost = {} /\ elected = {} /\ mixed = FALSE
        /\ campaigns = 0 /\ faults = 0
    BY DEF Init
  <2>2. 0 \in 0..MaxCampaigns /\ 0 \in 0..MaxFaults
    BY <1>0
  <2> QED BY <2>1, <2>2 DEF BoundInv
<1>8. LogInv
  <2>1. Stored([n \in Index |-> NoEntry], 0)
    BY <1>0 DEF Stored, Index
  <2>2. /\ <<>> \in Seq(Entry) /\ Len(<<>>) = 0 /\ Numbered(<<>>, 1) /\ 0 \in 0..MaxIndex
    BY <1>0 DEF Numbered
  <2>3. HardStateOK(NoHardState, NoHardState)
    BY <1>2 DEF HardStateOK
  <2>4. ASSUME NEW i \in Node
        PROVE  NodeLogInv(i) /\ raw[i].msgs = {}
    <3>1. /\ disk[i] = [n \in Index |-> NoEntry] /\ hs[i] = NoHardState /\ cache[i] = <<>>
          /\ raw[i] = r0 /\ applied[i] = <<>>
      BY <1>1
    <3> QED BY <1>2, <1>3, <2>1, <2>2, <2>3, <3>1 DEF NodeLogInv
  <2> QED BY <1>1, <2>4 DEF LogInv
<1> QED BY <1>5, <1>6, <1>7, <1>8 DEF TypeInv

LEMMA MixedStep ==
  ASSUME TypeInv, Next
  PROVE  /\ mixed' \in BOOLEAN
         /\ ~mixed' => /\ ~mixed /\ LogInv
                       /\ \A i \in Node : ~Repeats(cache'[i]) /\ ~Patches(disk[i], disk'[i])
<1>1. mixed' = (mixed \/ \E i \in Node : Repeats(cache'[i]) \/ Patches(disk[i], disk'[i]))
  BY DEF Next
<1> QED BY <1>1 DEF TypeInv, BoundInv

LEMMA NextTypes ==
  ASSUME TypeInv, Next
  PROVE  TypeInv'
<1>1. VoterInv /\ RequestInv /\ BoundInv /\ campaigns \in 0..MaxCampaigns /\ campaigns \in Nat
  BY ClusterAssumption DEF TypeInv, BoundInv, ClusterAssumption
<1>2. /\ mixed' \in BOOLEAN
      /\ ~mixed' => LogInv /\ \A i \in Node : ~Repeats(cache'[i])
  BY MixedStep
<1> DEFINE OK == VoterInv' /\ RequestInv' /\ BoundInv' /\ (~mixed' => LogInv')
<1>3. ASSUME NEW i \in Node, NEW n \in 0..Len(raw[i].unstable), restart(i, n)
      PROVE  OK
  <2>1. VoterInv' /\ RequestInv' /\ (~mixed' => LogInv')
    BY <1>1, <1>2, <1>3, RestartVoter, RestartRequests, RestartLog
  <2>2. Fault /\ dead' = dead \ {i} /\ lost' = lost \ {i} /\ campaigns' = campaigns
        /\ elected' = elected
    BY <1>3 DEF restart
  <2>3. BoundInv'
    BY <1>1, <1>2, <2>2, FaultBounds DEF BoundInv
  <2> QED BY <2>1, <2>3
<1>4. ASSUME NEW i \in Node,
             TickQuiet(i) \/ TickFails(i) \/ TickCampaign(i) \/ TickCheckQuorum(i)
      PROVE  OK
  <2>1. VoterInv' /\ (LogInv /\ ~Repeats(cache'[i]) => LogInv')
    BY <1>1, <1>4, QuietKeeps, CampaignKeeps, StepDownKeeps
  <2>2. RequestInv' /\ BoundInv'
    BY <1>1, <1>2, <1>4, NodeRequests, NodeBounds
  <2> QED BY <1>2, <2>1, <2>2
<1>5. ASSUME NEW i \in Node, NEW c \in Client, CheckLeader(c, i)
      PROVE  OK
  <2>1. /\ UNCHANGED <<storeVars, raw, transit, chosen, applied>> /\ campaigns' = campaigns
        /\ faults' = faults /\ dead' = dead /\ lost' = lost /\ elected' = elected
    BY <1>5 DEF CheckLeader, histVars, envVars
  <2>2. VoterInv' /\ (LogInv => LogInv')
    BY <1>1, <2>1, LogsStay
  <2>3. RequestInv' /\ BoundInv'
    BY <1>1, <1>2, <1>5, <2>1, CheckRequests DEF BoundInv
  <2> QED BY <1>2, <2>2, <2>3
<1>6. ASSUME NEW m \in transit, step(m)
      PROVE  OK
  <2>1. VoterInv' /\ (LogInv => LogInv')
    BY <1>1, <1>6, ArrivalKeeps
  <2>2. UNCHANGED <<propVars, request>>
    BY <1>6 DEF step, HandleVote, HandleVoteResp, HandleAppend, HandleAppendResp,
                HandleHeartbeat, HandlePropose, Step
  <2>3. RequestInv' /\ BoundInv'
    BY <1>1, <1>2, <1>6, <2>2, RequestsStay, ArrivalBounds
  <2> QED BY <1>2, <2>1, <2>3
<1>7. ASSUME NEW c \in Client, propose(c)
      PROVE  OK
  <2>1. VoterInv' /\ (LogInv => LogInv') /\ RequestInv'
    BY <1>1, <1>7, ProposalKeeps, ProposalRequests
  <2>2. /\ campaigns' = campaigns /\ faults' = faults /\ dead' = dead /\ lost' = lost
        /\ elected' = elected
    BY <1>7 DEF propose, histVars, envVars
  <2>3. BoundInv'
    BY <1>1, <1>2, <2>2 DEF BoundInv
  <2> QED BY <1>2, <2>1, <2>3
<1>8. ASSUME NEW c \in Client, Timeout(c) \/ Disconnect(c)
      PROVE  OK
  <2>1. /\ UNCHANGED <<storeVars, raw, transit, chosen, applied>> /\ campaigns' = campaigns
        /\ Fault /\ dead' = dead /\ lost' = lost /\ elected' = elected
    BY <1>8 DEF Timeout, Disconnect, histVars
  <2>2. VoterInv' /\ (LogInv => LogInv')
    BY <1>1, <2>1, LogsStay
  <2>3. RequestInv' /\ BoundInv'
    BY <1>1, <1>2, <1>8, <2>1, TimeoutRequests, DisconnectRequests, FaultBounds DEF BoundInv
  <2> QED BY <1>2, <2>2, <2>3
<1>9. OK
  BY <1>3, <1>4, <1>5, <1>6, <1>7, <1>8 DEF Next
<1> QED BY <1>2, <1>9 DEF TypeInv

LEMMA TypesStay ==
  ASSUME TypeInv, UNCHANGED vars
  PROVE  TypeInv'
<1>1. /\ UNCHANGED <<storeVars, raw, transit, chosen, applied>> /\ campaigns' = campaigns
      /\ UNCHANGED <<propVars, request>>
      /\ faults' = faults /\ dead' = dead /\ lost' = lost /\ elected' = elected
      /\ mixed' = mixed
  BY DEF vars, envVars, histVars
<1>2. campaigns \in Nat
  BY ClusterAssumption DEF TypeInv, BoundInv, ClusterAssumption
<1>3. VoterInv' /\ (LogInv => LogInv') /\ RequestInv'
  BY <1>1, <1>2, LogsStay, RequestsStay DEF TypeInv
<1>4. BoundInv'
  BY <1>1 DEF BoundInv, TypeInv
<1> QED BY <1>1, <1>3, <1>4 DEF TypeInv

LEMMA FitsTogether ==
  ASSUME TypeInv, LogInv, NEW i \in Node
  PROVE  LogOK(i)
<1> DEFINE r == raw[i]
           h == hs[i]
           p == r.prevHs
<1>1. NodeLogInv(i) /\ Fits(i, r)
  BY FitsNow DEF LogInv
<1>2. PICK n \in Nat, l \in Nat :
        /\ l = Len(cache[i]) /\ l <= n /\ n <= MaxIndex
        /\ Stored(disk[i], n) /\ h.commit <= n /\ h.commit \in Nat
  BY DiskNow
<1>3. MaxIndex \in Nat /\ campaigns \in 0..MaxCampaigns /\ MaxCampaigns \in Nat
  BY ClusterAssumption DEF ClusterAssumption, TypeInv, BoundInv
<1>4. /\ LastIndex(r) \in 0..MaxIndex /\ r.committed \in 0..MaxIndex
      /\ r.committed <= LastIndex(r)
  BY <1>1, LastWithin
<1>5. /\ h.term \in 0..MaxCampaigns /\ h.vote \in Node \cup {NoNode} /\ h.commit \in 0..MaxIndex
      /\ r.term \in 0..MaxCampaigns /\ r.vote \in Node \cup {NoNode}
  <2>1. /\ h.term \in 0..campaigns /\ h.vote \in Node \cup {NoNode}
        /\ r.term \in 0..campaigns /\ r.vote \in Node \cup {NoNode}
    BY DEF TypeInv, VoterInv, VoterOK
  <2>2. \A t \in 0..campaigns : t \in 0..MaxCampaigns
    BY <1>3
  <2>3. h.commit \in 0..MaxIndex
    BY <1>2, <1>3
  <2> QED BY <2>1, <2>2, <2>3
<1>6. /\ Plain(h) /\ Plain(p)
      /\ h.term = p.term /\ h.vote = p.vote /\ h.commit <= p.commit
  BY <1>1 DEF NodeLogInv, HardStateOK
<1>7. /\ disk[i] \in [Index -> Entry \cup {NoEntry}]
      /\ cache[i] \in Seq(Entry) /\ applied[i] \in Seq(Entry) /\ r.unstable \in Seq(Entry)
      /\ r.match \in [Node -> 0..MaxIndex]
      /\ r.handed <= r.committed /\ r.handed <= r.persisted /\ r.persisted < r.offset
      /\ \A k \in DOMAIN r.unstable : r.unstable[k].index = r.offset + k - 1
  BY <1>1, <1>2 DEF NodeLogInv, Stored, Fits, RaftOK, Numbered
<1>8. /\ h \in [term : 0..MaxCampaigns, vote : Node \cup {NoNode}, commit : 0..MaxIndex]
      /\ HardStateOf(r) \in [term : 0..MaxCampaigns, vote : Node \cup {NoNode}, commit : 0..MaxIndex]
  <2> HIDE DEF r, h
  <2>1. h = [term |-> h.term, vote |-> h.vote, commit |-> h.commit]
    BY <1>6 DEF Plain
  <2> QED BY <1>4, <1>5, <2>1 DEF HardStateOf
<1>9. h = [p EXCEPT !.commit = h.commit]
  <2> HIDE DEF h, p
  <2>1. /\ h = [term |-> h.term, vote |-> h.vote, commit |-> h.commit]
        /\ p = [term |-> h.term, vote |-> h.vote, commit |-> p.commit]
    BY <1>6 DEF Plain
  <2>2. [[term |-> h.term, vote |-> h.vote, commit |-> p.commit] EXCEPT !.commit = h.commit]
          = [term |-> h.term, vote |-> h.vote, commit |-> h.commit]
    OBVIOUS
  <2> QED BY <2>1, <2>2
<1> QED BY <1>4, <1>6, <1>7, <1>8, <1>9 DEF LogOK

LEMMA TypesOfInv ==
  ASSUME TypeInv
  PROVE  TypeOK
<1>1. MaxCampaigns \in Nat /\ VoterInv /\ RequestInv /\ BoundInv
  BY ClusterAssumption DEF ClusterAssumption, TypeInv
<1>2. \A t \in 0..campaigns : t \in 0..MaxCampaigns
  BY <1>1 DEF BoundInv
<1>3. ASSUME NEW i \in Node
      PROVE  /\ raw[i].role \in {"follower", "candidate", "leader"}
             /\ {raw[i].term, hs[i].term} \subseteq 0..MaxCampaigns
             /\ {raw[i].vote, hs[i].vote} \subseteq Node \cup {NoNode}
             /\ pending[i] \subseteq [id : 1..proposal_index[i], client : Client]
  BY <1>1, <1>2 DEF VoterInv, VoterOK, RequestInv
<1>4. \A m \in transit : m.from # m.to /\ {m.from, m.to} \subseteq Node
  BY <1>1 DEF VoterInv, Sound
<1>5. \A c \in Client : /\ request[c].pc \in {"none", "leader", "wait", "ok", "error"}
                        /\ request[c].pc \in {"leader", "wait"} <=> request[c].at # NoNode
  BY <1>1 DEF RequestInv, RequestType
<1>6. mixed \/ (chosen \subseteq Entry /\ \A i \in Node : LogOK(i))
  BY FitsTogether DEF TypeInv, LogInv
<1>7. /\ dead \subseteq Node /\ lost \subseteq Node
      /\ elected \subseteq (0..MaxCampaigns) \X Node
      /\ mixed \in BOOLEAN
      /\ campaigns \in 0..MaxCampaigns /\ faults \in 0..MaxFaults
  BY <1>1 DEF BoundInv
<1> QED BY <1>3, <1>4, <1>5, <1>6, <1>7 DEF TypeOK

LEMMA CommitOfInv ==
  ASSUME TypeInv
  PROVE  CommitWithinDisk
<1>1. ASSUME LogInv, NEW i \in Node, NEW x \in 1..hs[i].commit
      PROVE  disk[i][x] # NoEntry
  <2>1. PICK n \in Nat : /\ n <= MaxIndex /\ Stored(disk[i], n)
                         /\ hs[i].commit <= n /\ hs[i].commit \in Nat
    BY <1>1, DiskNow
  <2>2. x \in Index /\ x <= n
    BY <2>1, ClusterAssumption DEF ClusterAssumption, Index
  <2> QED BY <2>1, <2>2 DEF Stored
<1> QED BY <1>1 DEF TypeInv, CommitWithinDisk

-----------------------------------------------------------------------------

\* The inductive invariant: the types, and on each node the disk, the cache and
\* raft-rs fit together until a log is mixed.
THEOREM TypesHold == Spec => []TypeInv
<1>1. Init => TypeInv
  BY InitTypes
<1>2. TypeInv /\ [Next]_vars => TypeInv'
  BY NextTypes, TypesStay
<1> QED BY <1>1, <1>2, PTL DEF Spec

\* Types, and how disk, adapter and raft-rs of a node fit together through
\* conflicts, crashes within append_entries and failing puts: what is unstable
\* continues something stored, and handed out <= committed <= last index.
THEOREM TypeCorrect == Spec => []TypeOK
<1>1. TypeInv => TypeOK
  BY TypesOfInv
<1> QED BY <1>1, TypesHold, PTL

\* The commit index that save_hard_state has written never exceeds what
\* append_entries has written, so that RaftNode::new finds every entry that
\* the hard state calls committed, until a log is mixed.
THEOREM CommitOnDisk == Spec => []CommitWithinDisk
<1>1. TypeInv => CommitWithinDisk
  BY CommitOfInv
<1> QED BY <1>1, TypesHold, PTL

=============================================================================
