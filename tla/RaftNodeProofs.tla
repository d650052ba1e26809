--------------------------- MODULE RaftNodeProofs ---------------------------
(***************************************************************************)
(* Proofs about RaftNode, for any number of requests, keys, restarts,      *)
(* failing puts, indexes and terms.                                        *)
(*                                                                         *)
(* The entries of the log are in up to five places at once: raft-rs's      *)
(* unstable entries, the Ready in progress, the batch being put, the disk  *)
(* and the adapter's cache.  Every property of the node rests on how these *)
(* overlap at each await of handle_ready, and on what a failed put, a      *)
(* panic or a crash leaves of it.                                          *)
(***************************************************************************)
EXTENDS RaftNode, IntervalFacts, FiniteSetTheorems, SequenceTheorems, TLAPS

LOCAL INSTANCE SequencesExt   \* Max

Numbered(s, first) == \A k \in DOMAIN s : s[k].index = first + k - 1

\* s holds the beginning of t.
Starts(s, t) == Len(s) <= Len(t) /\ \A k \in 1..Len(s) : s[k] = t[k]

OnDisk(i) == dbLog[i] # NoEntry

Own(term) == IF term = 0 THEN 0 ELSE Self

\* Where handle_ready is between its two locked sections.
Persisting == loop \in {"append", "hard_state", "advance"}

\* A put of the first Ready of a leader failed after its entries were pushed:
\* the next ready() panics.
Doomed == loop \in {"tick", "ready"} /\ unfinished /\ prevRole = "follower" /\ role = "leader"

\* How many of the unstable entries the adapter has stored.
Pushed == Len(log) + 1 - offset

\* The calls of the adapter, as handle_ready makes them.
CallInv ==
  /\ phase # "idle" => open
  /\ phase # "put" => nput = 0
  /\ phase = "put" => loop = "append" /\ batch = ready.entries /\ batch # <<>>
  /\ phase \in {"hs_put", "hs_cache"} =>
       loop = "hard_state" /\ newHs = ready.hs /\ newHs # prevHs
  /\ loop \in {"hard_state", "advance"} => batch = <<>>
  /\ loop = "append" => Len(batch) <= Len(ready.entries)
  /\ open => entries = log

\* The disk: the keys 1..n and no other, with the log, and beyond its end what
\* was put of the batch.
DiskInv ==
  /\ Numbered(log, 1)
  /\ \E n \in Len(log)..MaxIndex : \A i \in Adapter!Index : OnDisk(i) <=> i <= n
  /\ \A i \in 1..Len(log) : dbLog[i] = log[i]
  /\ \A i \in Adapter!Index : OnDisk(i) /\ i > Len(log) =>
       i - Len(log) \in DOMAIN batch /\ dbLog[i] = batch[i - Len(log)]
  /\ phase = "put" => \A k \in 1..nput : dbLog[Len(log) + k] = batch[k]

\* raft-rs: what is stored of its unstable entries, and what it will do again.
RawInv ==
  /\ Pushed \in 0..Len(unstable)
  /\ Numbered(unstable, offset)
  /\ \A k \in 1..Pushed : log[offset - 1 + k] = unstable[k]
  /\ Pushed = 0 \/ loop \in {"hard_state", "advance", "dead"} \/ Doomed
  /\ loop \in {"hard_state", "advance"} => Pushed = Len(ready.entries)
  /\ batch # <<>> => Pushed = 0 /\ Starts(batch, unstable)
  /\ Persisting => /\ Starts(ready.entries, unstable)
                   /\ ready.hs = HardStateNow
                   /\ ready.entries # <<>> => unfinished
  /\ loop = "append" => ready.entries # <<>>
  /\ role = "follower" => prevRole = "follower" /\ unstable = <<>>
  /\ prevHs = HardStateNow \/ (role = "leader" /\ prevRole = "follower")
  /\ prevRole = "follower" => committed = 0
  /\ handed = committed /\ committed < offset

\* Terms, and the hard states, which never hold a commit index.
TermInv ==
  /\ \A i, j \in DOMAIN log : i <= j => log[i].term <= log[j].term
  /\ \A i, j \in DOMAIN unstable : i <= j => unstable[i].term <= unstable[j].term
  /\ \A i \in DOMAIN log : \A j \in DOMAIN unstable :
       i < offset => log[i].term <= unstable[j].term
  /\ \A i \in DOMAIN log : log[i].term <= IF role = "leader" THEN curTerm ELSE curTerm + 1
  /\ \A j \in DOMAIN unstable : unstable[j].term <= curTerm
  /\ role = "leader" => curTerm >= 1
  /\ dbHardState.term = curTerm \/ (role = "leader" /\ dbHardState.term = curTerm - 1)
  /\ dbHardState.commit = 0 /\ dbHardState.vote = Own(dbHardState.term)
  /\ hard_state.commit = 0 /\ hard_state.term <= curTerm

\* What is left to apply follows what was applied last.
QueueInv ==
  /\ passed <= maxPassed /\ maxPassed <= Len(log)
  /\ loop \notin {"apply", "notify"} => queue = <<>> /\ passed = handed
  /\ loop = "apply" => /\ Len(queue) = handed - passed
                       /\ \A k \in DOMAIN queue : queue[k] = log[passed + k]
  /\ loop = "notify" => /\ Len(queue) = handed - passed + 1
                        /\ \A k \in DOMAIN queue : queue[k] = log[passed + k - 1]
                        /\ queue[1].data.by # NoClient /\ passed >= 1
  /\ loop \in {"apply", "notify"} => queue # <<>>

\* The entries made in this run of the process.
Made(e) ==
  \/ \E i \in DOMAIN log : i > loaded /\ log[i] = e
  \/ \E k \in DOMAIN unstable : unstable[k] = e

\* Where a request stands before raft-rs has got its proposal, and while it
\* uses its id.
Early == {"start", "exists", "leader", "numbered", "registered"}
UsesId == {"numbered", "registered", "wait"}

InPending(c) == \E p \in pending : p.client = c

\* The requests that have an id of this run.
HasId(c) ==
  \/ pc[c] \in UsesId
  \/ InPending(c)
  \/ \E e \in Adapter!Entry : Made(e) /\ e.data.by = c

IdInv ==
  /\ \A c \in Client : HasId(c) => id[c] \in 1..proposal_index
  /\ \A c, d \in Client : HasId(c) /\ HasId(d) /\ id[c] = id[d] => c = d
  /\ \A e \in Adapter!Entry : Made(e) /\ e.data.by # NoClient =>
       /\ e.data.ctx = id[e.data.by]
       /\ pc[e.data.by] \notin Early

\* The records of pending_proposals.
Record(c) == [id |-> id[c], client |-> c]

Rightful(p) ==
  /\ p.id = id[p.client] /\ answer[p.client] = "none"
  /\ Waits(p.client) \/ pc[p.client] = "broken"
  /\ ~PassedBy(p.client)

PendingInv ==
  /\ \A c \in Client : Waits(c) => Record(c) \in pending
  /\ \A p \in pending : Rightful(p)

RequestInv ==
  /\ ~open => \A c \in Client : pc[c] \in Outcomes \cup {"start"}
  /\ \A c \in Client :
       /\ pc[c] \in {"leader", "numbered", "registered", "wait"} => role = "leader"
       /\ pc[c] \in {"start", "exists", "leader", "numbered"} => answer[c] = "none"
       /\ pc[c] = "ok" => answer[c] = "ok"
  /\ open => PendingInv

AckInv ==
  /\ \A c \in fresh : pc[c] \in {"registered", "wait"} => ReplayDone
  /\ \A c \in fresh : pc[c] \notin {"start", "exists", "leader", "numbered"}
  /\ \A c \in fresh : pc[c] # "broken" /\ answer[c] = "ok" => Stored(c)

\* The loop reports what became of the entry it is done with.
ResultInv == loop = "notify" /\ result = "ok" => passed \in stored

Inv ==
  /\ TypeOK /\ CallInv /\ DiskInv /\ RawInv /\ TermInv /\ QueueInv
  /\ IdInv /\ RequestInv /\ AckInv /\ ResultInv /\ StoreFollowsLog

-----------------------------------------------------------------------------
(* Reading the log and the disk *)

LEMMA AdapterCardinality ==
  ASSUME NEW S
  PROVE  Adapter!Cardinality(S) = Cardinality(S)
BY DEF Adapter!Cardinality, Cardinality

\* Sorting an interval leaves it as it is.
LEMMA AscendingInterval ==
  ASSUME NEW lo \in Nat, NEW hi \in Nat, lo <= hi
  PROVE  Adapter!Ascending((lo + 1)..hi) = [k \in 1..(hi - lo) |-> lo + k]
<1>1. Cardinality((lo + 1)..hi) = hi - lo
  BY IntervalRank
<1>2. ASSUME NEW k \in 1..(hi - lo)
      PROVE  (CHOOSE x \in (lo + 1)..hi :
                Cardinality({y \in (lo + 1)..hi : y < x}) = k - 1) = lo + k
  BY IntervalRank
<1>3. Adapter!Cardinality((lo + 1)..hi) = hi - lo
  BY <1>1, AdapterCardinality
<1>4. ASSUME NEW k \in 1..(hi - lo)
      PROVE  (CHOOSE x \in (lo + 1)..hi :
                Adapter!Cardinality({y \in (lo + 1)..hi : y < x}) = k - 1) = lo + k
  <2>1. \A x \in (lo + 1)..hi :
          Adapter!Cardinality({y \in (lo + 1)..hi : y < x})
            = Cardinality({y \in (lo + 1)..hi : y < x})
    BY AdapterCardinality
  <2> QED BY <1>2, <2>1
<1> QED BY <1>3, <1>4 DEF Adapter!Ascending

\* The committed entries in (lo, hi] are those of the log.
LEMMA CommittedEntries ==
  ASSUME TypeOK, DiskInv, CallInv, open,
         NEW lo \in Nat, NEW hi \in Nat, lo <= hi, hi <= Len(log)
  PROVE  /\ Committed(lo, hi) \in Seq(Adapter!Entry)
         /\ Len(Committed(lo, hi)) = hi - lo
         /\ \A k \in 1..(hi - lo) : Committed(lo, hi)[k] = log[lo + k]
<1>1. log \in Seq(Adapter!Entry) /\ entries = log /\ \A k \in DOMAIN log : log[k].index = k
  <2>1. Adapter!TypeOK
    BY DEF TypeOK
  <2>2. log \in Seq(Adapter!Entry)
    BY <2>1 DEF Adapter!TypeOK
  <2>3. entries = log /\ Numbered(log, 1)
    BY DEF CallInv, DiskInv
  <2>4. DOMAIN log = 1..Len(log) /\ Len(log) \in Nat
    BY <2>2
  <2> QED BY <2>2, <2>3, <2>4 DEF Numbered
<1>2. DOMAIN log = 1..Len(log) /\ Len(log) \in Nat /\ \A k \in DOMAIN log : log[k] \in Adapter!Entry
  BY <1>1
<1>3. {p \in DOMAIN entries : lo + 1 <= entries[p].index /\ entries[p].index < hi + 1}
        = (lo + 1)..hi
  BY <1>1, <1>2
<1>4. Adapter!read_entries(lo + 1, hi + 1, NoLimit) = [k \in 1..(hi - lo) |-> log[lo + k]]
  <2> DEFINE hits == Adapter!Ascending((lo + 1)..hi)
  <2>1. hits = [k \in 1..(hi - lo) |-> lo + k]
    BY AscendingInterval
  <2> HIDE DEF hits
  <2>2. Adapter!read_entries(lo + 1, hi + 1, NoLimit) = [k \in DOMAIN hits |-> log[hits[k]]]
    BY <1>1, <1>3 DEF Adapter!read_entries, hits
  <2> QED BY <2>1, <2>2
<1>5. CASE lo < hi
  <2>1. Committed(lo, hi) = [k \in 1..(hi - lo) |-> log[lo + k]]
    BY <1>4, <1>5 DEF Committed
  <2>2. \A k \in 1..(hi - lo) : log[lo + k] \in Adapter!Entry
    BY <1>2
  <2> QED BY <2>1, <2>2
<1>6. CASE lo = hi
  <2>1. Committed(lo, hi) = <<>>
    BY <1>6 DEF Committed
  <2>2. <<>> \in Seq(Adapter!Entry) /\ Len(<<>>) = 0
    BY EmptySeq
  <2> QED BY <1>6, <2>1, <2>2
<1> QED BY <1>5, <1>6

\* load_entries returns what is under the keys 1..n: the log and, maybe, more.
LEMMA LoadEntries ==
  ASSUME TypeOK, DiskInv
  PROVE  \E n \in Len(log)..MaxIndex :
           /\ \A i \in Adapter!Index : OnDisk(i) <=> i <= n
           /\ Adapter!load_entries \in Seq(Adapter!Entry)
           /\ Len(Adapter!load_entries) = n
           /\ \A k \in 1..n : Adapter!load_entries[k] = dbLog[k]
<1>1. PICK n \in Len(log)..MaxIndex : \A i \in Adapter!Index : OnDisk(i) <=> i <= n
  BY DEF DiskInv
<1>2. n \in Nat /\ n <= MaxIndex
  BY NodeAssumption DEF NodeAssumption, TypeOK, Adapter!TypeOK
<1>3. {i \in Adapter!Index : dbLog[i] # NoEntry} = (0 + 1)..n
  BY <1>1, <1>2, NodeAssumption DEF Adapter!Index, OnDisk, NodeAssumption
<1>4. Adapter!Ascending((0 + 1)..n) = [k \in 1..(n - 0) |-> 0 + k]
  <2>1. 0 \in Nat /\ 0 <= n
    BY <1>2
  <2> QED BY <1>2, <2>1, AscendingInterval
<1>5. Adapter!load_entries = [k \in 1..n |-> dbLog[k]]
  <2> DEFINE order == Adapter!Ascending((0 + 1)..n)
  <2>1. order = [k \in 1..n |-> k]
    BY <1>2, <1>4
  <2> HIDE DEF order
  <2>2. Adapter!load_entries = [k \in DOMAIN order |-> dbLog[order[k]]]
    BY <1>3 DEF Adapter!load_entries, order
  <2> QED BY <2>1, <2>2
<1>6. \A k \in 1..n : dbLog[k] \in Adapter!Entry
  BY <1>1, <1>2, NodeAssumption
     DEF NodeAssumption, TypeOK, Adapter!TypeOK, Adapter!Index, OnDisk
<1>7. Adapter!load_entries \in Seq(Adapter!Entry) /\ Len(Adapter!load_entries) = n
  BY <1>2, <1>5, <1>6
<1> QED BY <1>1, <1>5, <1>7

-----------------------------------------------------------------------------
(* Types *)

LEMMA SeqFacts ==
  ASSUME NEW s \in Seq(Adapter!Entry)
  PROVE  /\ Len(s) \in Nat /\ DOMAIN s = 1..Len(s)
         /\ \A k \in 1..Len(s) : s[k] \in Adapter!Entry
         /\ s = <<>> <=> Len(s) = 0
BY EmptySeq

LEMMA EntryFacts ==
  ASSUME NEW e \in Adapter!Entry
  PROVE  /\ e.index \in 1..MaxIndex /\ e.term \in 1..MaxTerm
         /\ e.data.by \in Client \cup {NoClient} /\ e.data.ctx \in Nat
BY NodeAssumption DEF NodeAssumption, Adapter!Entry, Adapter!Index, Adapter!Term, Payload

\* An entry at the end of a sequence.
LEMMA AppendEntry ==
  ASSUME NEW s \in Seq(Adapter!Entry), NEW e \in Adapter!Entry
  PROVE  /\ Append(s, e) \in Seq(Adapter!Entry) /\ Append(s, e) # <<>>
         /\ Len(Append(s, e)) = Len(s) + 1
         /\ \A k \in 1..Len(s) : Append(s, e)[k] = s[k]
         /\ Append(s, e)[Len(s) + 1] = e
OBVIOUS

\* TypeOK in parts, each about the variables that the same actions change.
RawType ==
  /\ role \in {"follower", "leader"} /\ prevRole \in {"follower", "leader"}
  /\ curTerm \in 0..MaxTerm
  /\ unstable \in Seq(Adapter!Entry)
  /\ offset \in 1..(MaxIndex + 1)
  /\ LastIndex \in 0..MaxIndex
  /\ committed \in 0..MaxIndex /\ handed \in 0..MaxIndex
  /\ prevHs \in Adapter!HardState
  /\ unfinished \in BOOLEAN

LoopType ==
  /\ loop \in {"tick", "ready", "append", "hard_state", "advance", "apply", "notify", "dead"}
  /\ ready \in [entries : Seq(Adapter!Entry), hs : Adapter!HardState]
  /\ queue \in Seq(Adapter!Entry)
  /\ loop \in {"apply", "notify"} => queue # <<>>
  /\ result \in {"ok", "failed"}

ClientType ==
  /\ pc \in [Client -> Outcomes \cup {"start", "exists", "leader", "numbered", "registered", "wait"}]
  /\ id \in [Client -> Nat]
  /\ answer \in [Client -> {"none", "ok", "failed"}]
  /\ fresh \subseteq Client

PropType == proposal_index \in Nat /\ pending \subseteq [id : Nat, client : Client]

ApplyType ==
  /\ kv \in [Key -> Value \cup {Absent}]
  /\ passed \in 0..MaxIndex /\ maxPassed \in 0..MaxIndex
  /\ stored \subseteq 1..MaxIndex
  /\ skipped \in BOOLEAN

EnvType == restarts \in 0..MaxRestarts /\ failures \in 0..MaxFailures /\ loaded \in 0..MaxIndex

LEMMA TypeParts ==
  TypeOK <=> /\ Adapter!TypeOK
             /\ RawType /\ LoopType /\ ClientType /\ PropType /\ ApplyType /\ EnvType
BY DEF TypeOK, RawType, LoopType, ClientType, PropType, ApplyType, EnvType

LEMMA InitInv == Init => Inv
<1> SUFFICES ASSUME Init PROVE Inv
  OBVIOUS
<1> USE NodeAssumption DEF NodeAssumption
<1>1. <<>> \in Seq(Adapter!Entry) /\ Len(<<>>) = 0 /\ DOMAIN <<>> = {}
  BY EmptySeq
<1>2. Adapter!DefaultHardState \in Adapter!HardState
  BY DEF Adapter!DefaultHardState, Adapter!HardState, Adapter!Term
<1>3. Adapter!TypeOK
  <2>1. 0 \in 0..Len(<<>>)
    BY <1>1
  <2> QED BY <1>1, <1>2, <2>1 DEF Init, Adapter!Init, Adapter!TypeOK
<1>4. TypeOK
  <2>0. unfinished \in BOOLEAN /\ skipped \in BOOLEAN
    BY DEF Init
  <2>1. RawType
    BY <1>1, <1>2, <2>0 DEF Init, RawType, LastIndex
  <2>2. LoopType
    BY <1>1, <1>2 DEF Init, LoopType, Consumed
  <2>3. ClientType /\ PropType
    BY DEF Init, ClientType, PropType, Outcomes
  <2>4. ApplyType /\ EnvType
    BY <2>0 DEF Init, ApplyType, EnvType
  <2> QED BY <1>3, <2>1, <2>2, <2>3, <2>4, TypeParts
<1>5. CallInv
  BY <1>1 DEF Init, Adapter!Init, CallInv
<1>6. DiskInv
  <2>1. 0 \in 0..MaxIndex /\ \A i \in Adapter!Index : OnDisk(i) <=> i <= 0
    BY DEF Init, Adapter!Init, Adapter!Index, OnDisk
  <2> QED BY <1>1, <2>1 DEF Init, Adapter!Init, DiskInv, Numbered, OnDisk
<1>7. RawInv
  BY <1>1 DEF Init, Adapter!Init, RawInv, Pushed, Numbered, Persisting, HardStateNow,
              Adapter!DefaultHardState
<1>8. TermInv
  BY <1>1 DEF Init, Adapter!Init, TermInv, Own, Adapter!DefaultHardState
<1>9. QueueInv
  BY <1>1 DEF Init, Adapter!Init, QueueInv
<1>10. IdInv
  BY <1>1 DEF Init, Adapter!Init, IdInv, HasId, UsesId, Made, InPending
<1>11. RequestInv
  BY DEF Init, Adapter!Init, RequestInv, Outcomes
<1>12. AckInv /\ ResultInv
  BY DEF Init, AckInv, ResultInv
<1>13. StoreFollowsLog
  <2>1. ASSUME NEW k \in Key
        PROVE  Writers(k, 0) = {} /\ Effect(k, 0) = Absent
    BY DEF Writers, Effect
  <2>2. passed = 0 /\ maxPassed = 0 /\ \A k \in Key : kv[k] = Absent
    BY DEF Init
  <2> QED BY <2>1, <2>2 DEF StoreFollowsLog
<1> QED BY <1>4, <1>5, <1>6, <1>7, <1>8, <1>9, <1>10, <1>11, <1>12, <1>13 DEF Inv

-----------------------------------------------------------------------------
(* What the actions change *)

LEMMA AdapterSteps ==
  ASSUME Next
  PROVE  new \/ Crash \/ AppendEntries \/ SaveHardState \/ PersistFails \/ UNCHANGED adapterVars
BY DEF Next, Loop, Request, Handler, Disconnect, TickQuiet, TickCampaign, NoReady, TakeReady, TakeReadyPanics, Advance,
       AdvanceDies, SkipEntry, Apply, ApplyFails, Notify, CheckExists, CheckLeader, NextId,
       Register, Submit, Reply, Timeout

LEMMA RawSteps ==
  ASSUME Next
  PROVE  \/ new \/ TickCampaign \/ TakeReady \/ Advance
         \/ \E c \in Client : Submit(c)
         \/ UNCHANGED rawVars
BY DEF Next, Loop, Request, Handler, Disconnect, Crash, TickQuiet, NoReady, TakeReadyPanics, AppendEntries,
       SaveHardState, PersistFails, AdvanceDies, SkipEntry, Apply, ApplyFails, Notify,
       CheckExists, CheckLeader, NextId, Register, Reply, Timeout

\* The handlers do not touch the event loop.
LEMMA LoopSteps ==
  ASSUME Next
  PROVE  \/ new \/ TickQuiet \/ TickCampaign \/ NoReady \/ TakeReady \/ TakeReadyPanics
         \/ AppendEntries \/ SaveHardState \/ PersistFails \/ Advance \/ AdvanceDies
         \/ SkipEntry \/ Apply \/ ApplyFails \/ Notify
         \/ UNCHANGED loopVars
BY DEF Next, Loop, Request, Handler, Disconnect, Crash, CheckExists, CheckLeader, NextId, Register, Submit, Reply,
       Timeout

\* Putting an entry.
LEMMA PutEffect ==
  ASSUME Inv, Adapter!PutEntry
  PROVE  /\ phase = "put" /\ loop = "append"
         /\ batch \in Seq(Adapter!Entry) /\ nput + 1 \in 1..Len(batch)
         /\ batch[nput + 1] \in Adapter!Entry
         /\ batch[nput + 1].index = Len(log) + nput + 1
         /\ Len(log) + nput + 1 \in Adapter!Index
         /\ dbLog' = [dbLog EXCEPT ![Len(log) + nput + 1] = batch[nput + 1]]
         /\ Pushed = 0
<1>1. phase = "put" /\ loop = "append" /\ nput < Len(batch) /\ batch # <<>>
  BY DEF Adapter!PutEntry, Inv, CallInv
<1>2. batch \in Seq(Adapter!Entry) /\ nput \in 0..Len(batch) /\ unstable \in Seq(Adapter!Entry)
      /\ log \in Seq(Adapter!Entry) /\ offset \in Int
  BY DEF Inv, TypeOK, Adapter!TypeOK
<1>3. nput + 1 \in 1..Len(batch) /\ batch[nput + 1] \in Adapter!Entry
  BY <1>1, <1>2, SeqFacts
<1>4. Pushed = 0 /\ Starts(batch, unstable) /\ Numbered(unstable, offset)
  BY <1>1 DEF Inv, RawInv
<1>5. batch[nput + 1].index = Len(log) + nput + 1
  <2>1. batch[nput + 1] = unstable[nput + 1] /\ nput + 1 \in DOMAIN unstable
    BY <1>2, <1>3, <1>4, SeqFacts DEF Starts
  <2> QED BY <1>2, <1>4, <2>1, SeqFacts DEF Numbered, Pushed
<1>6. Len(log) + nput + 1 \in Adapter!Index
  BY <1>3, <1>5 DEF Adapter!Entry
<1>7. dbLog' = [dbLog EXCEPT ![batch[nput + 1].index] = batch[nput + 1]]
  BY DEF Adapter!PutEntry
<1> QED BY <1>1, <1>2, <1>3, <1>4, <1>5, <1>6, <1>7

\* The entries of the batch are pushed, and are the log from then on.
LEMMA PushEffect ==
  ASSUME Inv, Adapter!PushEntries
  PROVE  /\ phase = "put" /\ loop = "append" /\ Pushed = 0 /\ open
         /\ nput = Len(batch) /\ batch = ready.entries /\ Starts(batch, unstable)
         /\ batch \in Seq(Adapter!Entry) /\ Len(batch) > 0
         /\ log' \in Seq(Adapter!Entry) /\ Len(log') = Len(log) + Len(batch)
         /\ \A i \in 1..Len(log) : log'[i] = log[i]
         /\ \A k \in 1..Len(batch) : log'[Len(log) + k] = batch[k]
         /\ entries' = log'
<1>1. /\ phase = "put" /\ loop = "append" /\ nput = Len(batch) /\ batch # <<>>
      /\ batch = ready.entries /\ open /\ entries = log
  BY DEF Adapter!PushEntries, Inv, CallInv
<1>2. batch \in Seq(Adapter!Entry) /\ unstable \in Seq(Adapter!Entry)
      /\ log \in Seq(Adapter!Entry) /\ offset \in Int
  BY DEF Inv, TypeOK, Adapter!TypeOK
<1>3. Pushed = 0 /\ Starts(batch, unstable) /\ Numbered(unstable, offset)
  BY <1>1 DEF Inv, RawInv
<1>4. Len(batch) > 0 /\ batch[1] = unstable[1] /\ 1 \in DOMAIN unstable
  BY <1>1, <1>2, <1>3, SeqFacts DEF Starts
<1>5. batch[1].index - 1 = Len(log)
  BY <1>2, <1>3, <1>4, SeqFacts DEF Numbered, Pushed
<1>6. SubSeq(log, 1, Len(log)) = log
  BY <1>2
<1>7. log' = log \o batch /\ entries' = log \o batch
  BY <1>1, <1>5, <1>6 DEF Adapter!PushEntries
<1> QED BY <1>1, <1>2, <1>3, <1>4, <1>7

\* A start takes what is on disk for the log.
LEMMA NewEffect ==
  ASSUME Inv, new
  PROVE  /\ log' \in Seq(Adapter!Entry) /\ Len(log') \in Len(log)..MaxIndex
         /\ entries' = log'
         /\ \A i \in 1..Len(log') : log'[i] = dbLog[i]
         /\ \A i \in 1..Len(log) : log'[i] = log[i]
         /\ \A i \in Adapter!Index : OnDisk(i) <=> i <= Len(log')
<1>1. log' = Adapter!load_entries /\ entries' = log'
  BY DEF new, Adapter!new_with_bootstrap
<1>2. PICK n \in Len(log)..MaxIndex :
           /\ \A i \in Adapter!Index : OnDisk(i) <=> i <= n
           /\ Adapter!load_entries \in Seq(Adapter!Entry)
           /\ Len(Adapter!load_entries) = n
           /\ \A k \in 1..n : Adapter!load_entries[k] = dbLog[k]
  BY LoadEntries DEF Inv
<1>3. \A i \in 1..Len(log) : dbLog[i] = log[i]
  BY DEF Inv, DiskInv
<1>4. Len(log) \in Nat
  BY DEF Inv, TypeOK, Adapter!TypeOK
<1> QED BY <1>1, <1>2, <1>3, <1>4

\* What a state of the node is, in numbers.
LEMMA Facts ==
  ASSUME Inv
  PROVE  /\ log \in Seq(Adapter!Entry) /\ unstable \in Seq(Adapter!Entry)
         /\ batch \in Seq(Adapter!Entry) /\ queue \in Seq(Adapter!Entry)
         /\ ready.entries \in Seq(Adapter!Entry) /\ ready.hs \in Adapter!HardState
         /\ Len(log) \in 0..MaxIndex /\ MaxIndex \in Nat /\ MaxTerm \in Nat
         /\ offset \in 1..(MaxIndex + 1) /\ curTerm \in 0..MaxTerm
         /\ committed \in 0..MaxIndex /\ handed = committed
         /\ offset + Len(unstable) - 1 \in 0..MaxIndex
         /\ Len(log) + 1 >= offset /\ Len(log) + 1 - offset <= Len(unstable)
         /\ HardStateNow \in Adapter!HardState
<1> USE NodeAssumption DEF NodeAssumption
<1>1. Adapter!TypeOK /\ RawType /\ LoopType
  BY TypeParts DEF Inv
<1>2. /\ log \in Seq(Adapter!Entry) /\ unstable \in Seq(Adapter!Entry)
      /\ batch \in Seq(Adapter!Entry) /\ queue \in Seq(Adapter!Entry)
      /\ ready.entries \in Seq(Adapter!Entry) /\ ready.hs \in Adapter!HardState
  BY <1>1 DEF Adapter!TypeOK, RawType, LoopType
<1>3. /\ MaxIndex \in Nat /\ MaxTerm \in Nat
      /\ offset \in 1..(MaxIndex + 1) /\ curTerm \in 0..MaxTerm /\ committed \in 0..MaxIndex
      /\ offset + Len(unstable) - 1 \in 0..MaxIndex
  BY <1>1 DEF RawType, LastIndex
<1>4. Pushed \in 0..Len(unstable) /\ handed = committed
  BY DEF Inv, RawInv
<1>5. Len(log) \in Nat /\ Len(unstable) \in Nat
  BY <1>2
<1>6. Len(log) \in 0..MaxIndex /\ Len(log) + 1 >= offset /\ Len(log) + 1 - offset <= Len(unstable)
  BY <1>3, <1>4, <1>5 DEF Pushed
<1>7. HardStateNow \in Adapter!HardState
  BY <1>3 DEF HardStateNow, Adapter!HardState, Adapter!Term
<1> QED BY <1>2, <1>3, <1>4, <1>6, <1>7

\* The same about lengths and numbers only.
LEMMA Lens ==
  ASSUME Inv
  PROVE  /\ Len(log) \in Nat /\ DOMAIN log = 1..Len(log)
         /\ Len(unstable) \in Nat /\ DOMAIN unstable = 1..Len(unstable)
         /\ Len(batch) \in Nat /\ DOMAIN batch = 1..Len(batch)
         /\ Len(queue) \in Nat /\ DOMAIN queue = 1..Len(queue)
         /\ Len(ready.entries) \in Nat /\ DOMAIN ready.entries = 1..Len(ready.entries)
         /\ offset \in Nat /\ curTerm \in Nat /\ committed \in Nat /\ nput \in Nat
<1>1. nput \in 0..Len(batch) /\ batch \in Seq(Adapter!Entry)
  BY DEF Inv, TypeOK, Adapter!TypeOK
<1>2. Len(batch) \in Nat /\ DOMAIN batch = 1..Len(batch)
  BY <1>1, SeqFacts
<1>3. nput \in Nat
  BY <1>1, <1>2
<1>4. Len(log) \in Nat /\ DOMAIN log = 1..Len(log) /\ Len(unstable) \in Nat /\ DOMAIN unstable = 1..Len(unstable)
  BY Facts, SeqFacts
<1>5. Len(queue) \in Nat /\ DOMAIN queue = 1..Len(queue)
  BY Facts, SeqFacts
<1>6. Len(ready.entries) \in Nat /\ DOMAIN ready.entries = 1..Len(ready.entries)
  BY Facts, SeqFacts
<1>7. offset \in Nat /\ curTerm \in Nat /\ committed \in Nat
  BY Facts
<1> QED BY <1>2, <1>3, <1>4, <1>5, <1>6, <1>7

LEMMA Bounds ==
  ASSUME Inv
  PROVE  /\ MaxIndex \in Nat /\ MaxTerm \in Nat
         /\ Len(log) \in Nat /\ Len(log) <= MaxIndex
         /\ Len(unstable) \in Nat /\ offset + Len(unstable) <= MaxIndex + 1
         /\ offset \in Nat /\ offset >= 1 /\ offset <= MaxIndex + 1
         /\ curTerm \in Nat /\ curTerm <= MaxTerm
         /\ committed \in Nat /\ committed <= MaxIndex /\ handed = committed
         /\ offset <= Len(log) + 1 /\ Len(log) + 1 <= offset + Len(unstable)
<1>1. /\ MaxIndex \in Nat /\ MaxTerm \in Nat
      /\ Len(log) \in 0..MaxIndex /\ offset \in 1..(MaxIndex + 1)
      /\ curTerm \in 0..MaxTerm /\ committed \in 0..MaxIndex /\ handed = committed
  BY Facts
<1>2. Len(log) \in Nat /\ Len(unstable) \in Nat /\ offset \in Nat /\ offset >= 1
  BY <1>1, Lens
<1>3. offset + Len(unstable) <= MaxIndex + 1
  <2>1. offset + Len(unstable) - 1 \in 0..MaxIndex
    BY Facts
  <2> QED BY <1>1, <1>2, <2>1
<1>4. offset <= Len(log) + 1 /\ Len(log) + 1 <= offset + Len(unstable)
  <2>1. Len(log) + 1 >= offset /\ Len(log) + 1 - offset <= Len(unstable)
    BY Facts
  <2> QED BY <1>2, <2>1
<1>5. curTerm \in Nat /\ curTerm <= MaxTerm /\ committed \in Nat /\ committed <= MaxIndex
  BY <1>1
<1> QED BY <1>1, <1>2, <1>3, <1>4, <1>5

LEMMA Emptiness ==
  ASSUME Inv
  PROVE  /\ log = <<>> <=> Len(log) = 0
         /\ unstable = <<>> <=> Len(unstable) = 0
         /\ batch = <<>> <=> Len(batch) = 0
         /\ queue = <<>> <=> Len(queue) = 0
         /\ ready.entries = <<>> <=> Len(ready.entries) = 0
BY Facts, SeqFacts

\* A new leader appends its empty entry.
LEMMA CampaignEffect ==
  ASSUME Inv, TickCampaign
  PROVE  /\ open /\ loop = "tick" /\ role = "follower" /\ prevRole = "follower"
         /\ unstable = <<>> /\ Len(unstable) = 0 /\ Len(log) = offset - 1 /\ batch = <<>>
         /\ curTerm' = curTerm + 1 /\ curTerm' \in 1..MaxTerm
         /\ unstable' \in Seq(Adapter!Entry) /\ Len(unstable') = 1
         /\ unstable'[1].index = offset /\ unstable'[1].term = curTerm + 1
         /\ unstable'[1].data = Empty /\ unstable'[1] \in Adapter!Entry
         /\ offset <= MaxIndex
<1> DEFINE e == [index |-> LastIndex + 1, term |-> curTerm + 1, data |-> Empty]
<1>1. /\ open /\ loop = "tick" /\ role = "follower" /\ curTerm < MaxTerm /\ LastIndex < MaxIndex
      /\ curTerm' = curTerm + 1 /\ unstable' = Append(unstable, e)
  BY DEF TickCampaign, Idle
<1>2. unstable = <<>> /\ prevRole = "follower" /\ (batch # <<>> => Starts(batch, unstable))
  BY <1>1 DEF Inv, RawInv
<1>3. Len(unstable) = 0 /\ LastIndex = offset - 1 /\ Len(log) = offset - 1 /\ batch = <<>>
  <2>1. Len(unstable) = 0 /\ (batch # <<>> => Len(batch) <= Len(unstable))
    BY <1>2, Emptiness DEF Starts
  <2>2. batch = <<>>
    BY <2>1, Emptiness, Lens
  <2> QED BY <2>1, <2>2, Bounds DEF LastIndex
<1>4. curTerm' \in 1..MaxTerm /\ offset <= MaxIndex
  BY <1>1, <1>3, Bounds
<1>5. e \in Adapter!Entry
  BY <1>1, <1>3, <1>4, Facts DEF Adapter!Entry, Adapter!Index, Adapter!Term, Payload, Empty
<1>6. e.index = offset /\ e.term = curTerm + 1 /\ e.data = Empty
  BY <1>3, Lens
<1> HIDE DEF e
<1>7. Append(unstable, e) \in Seq(Adapter!Entry) /\ Len(Append(unstable, e)) = 1
      /\ Append(unstable, e)[1] = e
  BY <1>3, <1>5, Facts, AppendEntry
<1> QED BY <1>1, <1>2, <1>3, <1>4, <1>5, <1>6, <1>7

\* A proposal is appended; the node still leads.
LEMMA SubmitEffect ==
  ASSUME Inv, NEW c \in Client, Submit(c)
  PROVE  /\ open /\ role = "leader" /\ pc[c] = "registered"
         /\ pc' = [pc EXCEPT ![c] = "wait"]
         /\ unstable' \in Seq(Adapter!Entry) /\ Len(unstable') = Len(unstable) + 1
         /\ \A k \in 1..Len(unstable) : unstable'[k] = unstable[k]
         /\ unstable'[Len(unstable) + 1].index = offset + Len(unstable)
         /\ unstable'[Len(unstable) + 1].term = curTerm
         /\ unstable'[Len(unstable) + 1].data = [by |-> c, ctx |-> id[c]]
         /\ unstable'[Len(unstable) + 1] \in Adapter!Entry
         /\ offset + Len(unstable) <= MaxIndex
<1> DEFINE e == [index |-> LastIndex + 1, term |-> curTerm, data |-> [by |-> c, ctx |-> id[c]]]
<1>1. open /\ pc[c] = "registered" /\ LastIndex < MaxIndex
  BY DEF Submit, Moves
<1>2. role = "leader" /\ curTerm >= 1
  BY <1>1 DEF Inv, RequestInv, TermInv
<1>3. unstable' = Append(unstable, e) /\ pc' = [pc EXCEPT ![c] = "wait"]
  BY <1>2 DEF Submit, Moves
<1>4. LastIndex + 1 = offset + Len(unstable) /\ offset + Len(unstable) \in 1..MaxIndex
  <2>1. LastIndex + 1 = offset + Len(unstable)
    BY Bounds DEF LastIndex
  <2>2. offset + Len(unstable) \in Nat /\ offset + Len(unstable) >= 1
    BY Bounds
  <2>3. offset + Len(unstable) <= MaxIndex
    BY <1>1, Bounds DEF LastIndex
  <2> QED BY <2>1, <2>2, <2>3, Bounds
<1>5. id[c] \in Nat
  BY DEF Inv, TypeOK
<1>6. e \in Adapter!Entry
  BY <1>2, <1>4, <1>5, Facts DEF Adapter!Entry, Adapter!Index, Adapter!Term, Payload
<1>7. e.index = offset + Len(unstable) /\ e.term = curTerm /\ e.data = [by |-> c, ctx |-> id[c]]
  BY <1>4
<1> HIDE DEF e
<1>8. /\ Append(unstable, e) \in Seq(Adapter!Entry) /\ Len(Append(unstable, e)) = Len(unstable) + 1
      /\ \A k \in 1..Len(unstable) : Append(unstable, e)[k] = unstable[k]
      /\ Append(unstable, e)[Len(unstable) + 1] = e
  BY <1>6, Facts, AppendEntry
<1>9. offset + Len(unstable) <= MaxIndex
  BY <1>4, Bounds
<1> QED BY <1>1, <1>2, <1>3, <1>6, <1>7, <1>8, <1>9

\* advance() hands out what it commits: the entries that are stored.
LEMMA AdvanceEffect ==
  ASSUME Inv, Advance
  PROVE  /\ open /\ loop \in {"hard_state", "advance"} /\ phase = "idle" /\ batch = <<>>
         /\ \/ /\ ready.entries = <<>> /\ Len(log) = offset - 1
               /\ unstable' = unstable /\ offset' = offset /\ committed' = committed
            \/ /\ ready.entries # <<>> /\ Len(log) = offset + Len(unstable) - 1
               /\ unstable' = <<>> /\ offset' = Len(log) + 1 /\ committed' = Len(log)
         /\ committed <= committed' /\ committed' \in 0..Len(log) /\ handed' = committed'
         /\ queue' \in Seq(Adapter!Entry) /\ Len(queue') = committed' - committed
         /\ \A k \in 1..Len(queue') : queue'[k] = log[committed + k]
         /\ prevHs' = [ready.hs EXCEPT !.commit = committed'] /\ prevHs' = HardStateNow'
<1>1. /\ open /\ phase = "idle" /\ loop \in {"hard_state", "advance"}
      /\ ready.entries = <<>> \/ Len(unstable) = Len(ready.entries)
  BY DEF Advance, Advancing, AdvancePanics
<1>2. batch = <<>> /\ queue = <<>> /\ Pushed = Len(ready.entries) /\ ready.hs = HardStateNow
      /\ committed < offset
  BY <1>1 DEF Inv, CallInv, QueueInv, RawInv, Persisting
<1>3. /\ \/ /\ ready.entries = <<>> /\ Len(log) = offset - 1
            /\ unstable' = unstable /\ offset' = offset /\ committed' = committed
         \/ /\ ready.entries # <<>> /\ Len(log) = offset + Len(unstable) - 1
            /\ unstable' = <<>> /\ offset' = Len(log) + 1 /\ committed' = Len(log)
      /\ committed <= committed' /\ committed' \in 0..Len(log)
  <2>1. CASE ready.entries = <<>>
    <3>1. unstable' = unstable /\ offset' = offset /\ committed' = committed
      BY <2>1 DEF Advance
    <3>2. Len(log) = offset - 1
      BY <1>2, <2>1, Emptiness, Lens DEF Pushed
    <3>3. committed' \in 0..Len(log) /\ committed <= committed'
      <4>1. committed' = committed /\ committed \in Nat /\ Len(log) \in Nat
        BY <3>1, Bounds
      <4>2. committed <= Len(log)
        BY <1>2, <3>2, Bounds
      <4> QED BY <4>1, <4>2
    <3> QED BY <2>1, <3>1, <3>2, <3>3
  <2>2. CASE ready.entries # <<>>
    <3>1. Len(log) = offset + Len(unstable) - 1
      BY <1>1, <1>2, <2>2, Lens DEF Pushed
    <3>2. unstable' = <<>> /\ offset' = Len(log) + 1 /\ committed' = Len(log)
      BY <2>2, <3>1 DEF Advance, LastIndex
    <3>3. committed' \in 0..Len(log) /\ committed <= committed'
      <4>1. committed' = Len(log) /\ committed \in Nat /\ Len(log) \in Nat
        BY <3>2, Bounds
      <4>2. committed <= Len(log)
        BY <1>2, Bounds
      <4> QED BY <4>1, <4>2
    <3> QED BY <2>2, <3>1, <3>2, <3>3
  <2> QED BY <2>1, <2>2
<1>4. /\ queue' \in Seq(Adapter!Entry) /\ Len(queue') = committed' - committed
      /\ \A k \in 1..Len(queue') : queue'[k] = log[committed + k]
  <2> DEFINE q == Committed(handed, committed')
  <2>1. /\ q \in Seq(Adapter!Entry) /\ Len(q) = committed' - committed
        /\ \A k \in 1..(committed' - committed) : q[k] = log[committed + k]
    <3>1. committed \in Nat /\ committed' \in Nat /\ committed' <= Len(log) /\ handed = committed
      BY <1>3, Facts
    <3>2. Committed(committed, committed') = q
      BY <3>1
    <3> HIDE DEF q
    <3>3. TypeOK /\ DiskInv /\ CallInv
      BY DEF Inv
    <3> QED BY <1>1, <1>3, <3>1, <3>2, <3>3, CommittedEntries
  <2>2. queue' = <<>> \o q
    BY <1>2 DEF Advance
  <2> HIDE DEF q
  <2>3. queue' = q
    BY <2>1, <2>2
  <2> QED BY <2>1, <2>3
<1>5. handed' = committed' /\ prevHs' = [ready.hs EXCEPT !.commit = committed'] /\ curTerm' = curTerm
  BY DEF Advance
<1>6. prevHs' = HardStateNow'
  BY <1>2, <1>5 DEF HardStateNow
<1> QED BY <1>1, <1>2, <1>3, <1>4, <1>5, <1>6

-----------------------------------------------------------------------------
(* Types are kept *)

LEMMA AdapterTypeStep ==
  ASSUME Inv, Next
  PROVE  Adapter!TypeOK'
<1>0. Adapter!TypeOK
  BY DEF Inv, TypeOK
<1>1. /\ Adapter!DefaultHardState \in Adapter!HardState /\ <<>> \in Seq(Adapter!Entry)
      /\ Len(<<>>) = 0
  BY NodeAssumption, EmptySeq
     DEF NodeAssumption, Adapter!DefaultHardState, Adapter!HardState, Adapter!Term
<1>2. CASE new
  <2>1. log' \in Seq(Adapter!Entry) /\ entries' = log'
    BY <1>2, NewEffect
  <2>2. open' = TRUE /\ dbLog' = dbLog /\ dbHardState' = dbHardState
        /\ hard_state' = dbHardState /\ batch' = <<>> /\ phase' = phase
        /\ nput' = nput /\ newHs' = newHs
        /\ dbConfState' = (IF dbConfState = {} THEN {Self} ELSE dbConfState)
        /\ conf_state' = dbConfState'
    BY <1>2 DEF new, Adapter!new_with_bootstrap
  <2>3. ~open
    BY <1>2 DEF new, Adapter!new_with_bootstrap
  <2>4. nput = 0
    BY <2>3 DEF Inv, CallInv
  <2>5. open' \in BOOLEAN
    BY <2>2
  <2>6. nput' \in 0..Len(batch')
    BY <1>1, <2>2, <2>4
  <2> QED BY <1>0, <1>1, <2>1, <2>2, <2>5, <2>6 DEF Adapter!TypeOK
<1>3. CASE Crash
  <2>1. /\ open' = FALSE /\ entries' = <<>> /\ hard_state' = Adapter!DefaultHardState
        /\ conf_state' = {} /\ phase' = "idle" /\ nput' = 0
        /\ newHs' = Adapter!DefaultHardState
        /\ dbLog' = dbLog /\ dbHardState' = dbHardState /\ dbConfState' = dbConfState
        /\ batch' = batch /\ log' = log
    BY <1>3 DEF Crash, Adapter!Crash, Adapter!dbVars
  <2>2. open' \in BOOLEAN
    BY <2>1
  <2>3. nput' \in 0..Len(batch')
    BY <2>1, Facts, SeqFacts
  <2> QED BY <1>0, <1>1, <2>1, <2>2, <2>3 DEF Adapter!TypeOK
<1>4. CASE AppendEntries
  <2>1. CASE Adapter!append_entries(ready.entries)
    <3>1. ready.entries \in Seq(Adapter!Entry) /\ 0 \in 0..Len(ready.entries)
      BY Facts, SeqFacts
    <3> QED BY <1>0, <2>1, <3>1
            DEF Adapter!append_entries, Adapter!TypeOK, Adapter!dbVars, Adapter!memVars
  <2>2. CASE Adapter!PutEntry
    <3>1. dbLog' \in [Adapter!Index -> Adapter!Entry \cup {NoEntry}]
      BY <1>0, <2>2, PutEffect DEF Adapter!TypeOK
    <3>2. nput' \in 0..Len(batch')
      BY <2>2, PutEffect DEF Adapter!PutEntry
    <3> QED BY <1>0, <2>2, <3>1, <3>2 DEF Adapter!PutEntry, Adapter!TypeOK, Adapter!memVars
  <2>3. CASE Adapter!PushEntries
    <3>1. log' \in Seq(Adapter!Entry) /\ entries' \in Seq(Adapter!Entry)
      BY <2>3, PushEffect
    <3>2. 0 \in 0..Len(<<>>)
      BY <1>1
    <3> QED BY <1>0, <1>1, <2>3, <3>1, <3>2
            DEF Adapter!PushEntries, Adapter!TypeOK, Adapter!dbVars
  <2> QED BY <1>4, <2>1, <2>2, <2>3 DEF AppendEntries
<1>5. CASE SaveHardState
  <2>1. CASE Adapter!save_hard_state(ready.hs)
    BY <1>0, <2>1, Facts
       DEF Adapter!save_hard_state, Adapter!TypeOK, Adapter!dbVars, Adapter!memVars
  <2>2. CASE Adapter!PutHardState
    BY <1>0, <2>2 DEF Adapter!PutHardState, Adapter!TypeOK, Adapter!memVars
  <2>3. CASE Adapter!CacheHardState
    BY <1>0, <1>1, <2>3 DEF Adapter!CacheHardState, Adapter!TypeOK, Adapter!dbVars
  <2> QED BY <1>5, <2>1, <2>2, <2>3 DEF SaveHardState
<1>6. CASE PersistFails
  <2>1. 0 \in 0..Len(batch)
    BY Facts, SeqFacts
  <2> QED BY <1>0, <1>1, <1>6, <2>1
          DEF PersistFails, Adapter!PutFails, Adapter!TypeOK, Adapter!dbVars, Adapter!memVars
<1>7. CASE UNCHANGED adapterVars
  BY <1>0, <1>7 DEF adapterVars, Adapter!TypeOK
<1> QED BY <1>2, <1>3, <1>4, <1>5, <1>6, <1>7, AdapterSteps

LEMMA RawTypeStep ==
  ASSUME Inv, Next
  PROVE  RawType'
<1>0. RawType /\ Adapter!TypeOK
  BY TypeParts DEF Inv
<1>1. MaxIndex \in Nat /\ MaxTerm \in Nat
  BY Facts
<1>2. CASE new
  <2>1. /\ role' = "follower" /\ prevRole' = "follower" /\ unfinished' = FALSE
        /\ curTerm' = dbHardState.term /\ committed' = dbHardState.commit
        /\ unstable' = <<>> /\ offset' = Len(log') + 1 /\ handed' = 0 /\ prevHs' = dbHardState
    BY <1>2, NewEffect DEF new, Adapter!new_with_bootstrap
  <2>2. dbHardState.term \in 0..MaxTerm /\ dbHardState.commit \in 0..MaxIndex
    BY <1>0 DEF Adapter!TypeOK, Adapter!HardState, Adapter!Term
  <2>3. Len(log') \in 0..MaxIndex
    BY <1>2, Facts, NewEffect
  <2>4. LastIndex' \in 0..MaxIndex /\ offset' \in 1..(MaxIndex + 1) /\ unstable' \in Seq(Adapter!Entry)
    <3>1. Len(<<>>) = 0 /\ <<>> \in Seq(Adapter!Entry)
      BY EmptySeq
    <3> QED BY <1>1, <2>1, <2>3, <3>1 DEF LastIndex
  <2>5. unfinished' \in BOOLEAN
    BY <2>1
  <2> QED BY <1>0, <1>1, <2>1, <2>2, <2>4, <2>5 DEF RawType, Adapter!TypeOK
<1>3. CASE TickCampaign
  <2>1. LastIndex' \in 0..MaxIndex
    <3>1. offset' = offset /\ Len(unstable') = 1 /\ offset \in 1..MaxIndex
      BY <1>3, CampaignEffect, Facts DEF TickCampaign
    <3> QED BY <1>1, <3>1 DEF LastIndex
  <2> QED BY <1>0, <1>1, <1>3, <2>1, CampaignEffect DEF TickCampaign, RawType
<1>4. CASE TakeReady
  <2>1. unfinished' \in BOOLEAN
    BY <1>4 DEF TakeReady
  <2> QED BY <1>0, <1>4, <2>1 DEF TakeReady, RawType, LastIndex
<1>5. CASE Advance
  <2>1. role' = role /\ prevRole' = role /\ curTerm' = curTerm /\ unfinished' = FALSE
    BY <1>5 DEF Advance
  <2>2. unfinished' \in BOOLEAN
    BY <2>1
  <2>3. committed' \in 0..MaxIndex /\ handed' \in 0..MaxIndex
    BY <1>5, AdvanceEffect, Facts
  <2>4. prevHs' \in Adapter!HardState
    BY <1>5, <2>3, AdvanceEffect, Facts DEF Adapter!HardState
  <2>5. unstable' \in Seq(Adapter!Entry) /\ LastIndex' \in 0..MaxIndex
        /\ offset' \in 1..(MaxIndex + 1)
    <3>1. Len(<<>>) = 0 /\ <<>> \in Seq(Adapter!Entry)
      BY EmptySeq
    <3>2. CASE ready.entries = <<>>
      <4>1. unstable' = unstable /\ offset' = offset
        BY <1>5, <3>2, AdvanceEffect
      <4> QED BY <1>0, <4>1 DEF RawType, LastIndex
    <3>3. CASE ready.entries # <<>>
      <4>1. unstable' = <<>> /\ offset' = Len(log) + 1 /\ Len(log) \in 0..MaxIndex
        BY <1>5, <3>3, AdvanceEffect, Facts
      <4> QED BY <1>1, <3>1, <4>1 DEF LastIndex
    <3> QED BY <3>2, <3>3
  <2> QED BY <1>0, <2>1, <2>2, <2>3, <2>4, <2>5 DEF RawType
<1>6. ASSUME NEW c \in Client, Submit(c)
      PROVE  RawType'
  <2>1. LastIndex' \in 0..MaxIndex
    <3>1. /\ offset' = offset /\ Len(unstable') = Len(unstable) + 1
          /\ offset + Len(unstable) <= MaxIndex
      BY <1>6, SubmitEffect DEF Submit
    <3>2. offset \in Nat /\ Len(unstable) \in Nat
      BY Facts, SeqFacts
    <3> QED BY <1>1, <3>1, <3>2 DEF LastIndex
  <2> QED BY <1>0, <1>6, <2>1, SubmitEffect DEF Submit, RawType
<1>7. CASE UNCHANGED rawVars
  BY <1>0, <1>7 DEF rawVars, RawType, LastIndex
<1> QED BY <1>2, <1>3, <1>4, <1>5, <1>6, <1>7, RawSteps

LEMMA LoopTypeStep ==
  ASSUME Inv, Next
  PROVE  LoopType'
<1>0. LoopType /\ RawType
  BY TypeParts DEF Inv
<1>1. <<>> \in Seq(Adapter!Entry) /\ Consumed \in [entries : Seq(Adapter!Entry), hs : Adapter!HardState]
  <2>1. <<>> \in Seq(Adapter!Entry)
    BY EmptySeq
  <2>2. Adapter!DefaultHardState \in Adapter!HardState
    BY NodeAssumption
       DEF NodeAssumption, Adapter!DefaultHardState, Adapter!HardState, Adapter!Term
  <2> QED BY <2>1, <2>2 DEF Consumed
<1>2. CASE TickQuiet \/ TickCampaign \/ NoReady \/ TakeReadyPanics \/ AdvanceDies
  BY <1>0, <1>2 DEF TickQuiet, TickCampaign, NoReady, TakeReadyPanics, AdvanceDies, LoopType
<1>3. CASE new \/ PersistFails
  BY <1>0, <1>1, <1>3 DEF new, PersistFails, LoopType
<1>4. CASE TakeReady
  <2>1. open /\ loop = "ready" /\ queue' = Committed(handed, committed) /\ handed = committed
    BY <1>4, Facts DEF TakeReady
  <2>2. queue' = <<>>
    BY <2>1, Facts DEF Committed
  <2>3. ready' = [entries |-> unstable, hs |-> HardStateNow]
    BY <1>4 DEF TakeReady
  <2>4. ready' \in [entries : Seq(Adapter!Entry), hs : Adapter!HardState]
    BY <2>3, Facts
  <2>5. loop' \in {"append", "hard_state"} /\ result' = result
    BY <1>4 DEF TakeReady
  <2> QED BY <1>0, <1>1, <2>2, <2>4, <2>5 DEF LoopType
<1>5. CASE AppendEntries \/ SaveHardState
  BY <1>0, <1>5 DEF AppendEntries, SaveHardState, LoopType
<1>6. CASE Advance
  <2>1. queue' \in Seq(Adapter!Entry)
    BY <1>6, AdvanceEffect
  <2> QED BY <1>0, <1>1, <1>6, <2>1 DEF Advance, LoopType
<1>7. CASE SkipEntry \/ Notify
  <2>1. loop \in {"apply", "notify"} /\ queue' = Tail(queue) /\ loop' = AfterHead
        /\ ready' = ready /\ result' = result
    BY <1>7 DEF SkipEntry, Notify, Applying
  <2>2. queue \in Seq(Adapter!Entry) /\ queue # <<>>
    BY <1>0, <2>1 DEF LoopType
  <2>3. Tail(queue) \in Seq(Adapter!Entry) /\ (Len(queue) # 1 => Tail(queue) # <<>>)
    <3>1. Tail(queue) \in Seq(Adapter!Entry) /\ Len(Tail(queue)) = Len(queue) - 1
      BY <2>2
    <3>2. Tail(queue) = <<>> => Len(Tail(queue)) = 0
      BY <3>1, SeqFacts
    <3> QED BY <3>1, <3>2
  <2> QED BY <1>0, <2>1, <2>3 DEF LoopType, AfterHead
<1>8. CASE Apply \/ ApplyFails
  <2>1. loop \in {"apply", "notify"} /\ queue' = queue
    BY <1>8 DEF Apply, ApplyFails, Applying
  <2>2. loop' = "notify" /\ result' \in {"ok", "failed"} /\ ready' = ready
    BY <1>8 DEF Apply, ApplyFails
  <2> QED BY <1>0, <2>1, <2>2 DEF LoopType
<1>9. CASE UNCHANGED loopVars
  BY <1>0, <1>9 DEF loopVars, LoopType
<1> QED BY <1>2, <1>3, <1>4, <1>5, <1>6, <1>7, <1>8, <1>9, LoopSteps

\* The handlers, and what changes their part of the state.
LEMMA ClientSteps ==
  ASSUME Next
  PROVE  \/ Crash \/ Notify
         \/ \E c \in Client : Request(c)
         \/ UNCHANGED clientVars
BY DEF Next, Loop, new, TickQuiet, TickCampaign, NoReady, TakeReady, TakeReadyPanics,
       AppendEntries, SaveHardState, PersistFails, Advance, AdvanceDies, SkipEntry, Apply,
       ApplyFails

LEMMA PropSteps ==
  ASSUME Next
  PROVE  \/ new \/ Notify
         \/ \E c \in Client : NextId(c) \/ Register(c) \/ Timeout(c)
         \/ UNCHANGED propVars
BY DEF Next, Loop, Request, Handler, Disconnect, Crash, TickQuiet, TickCampaign, NoReady, TakeReady, TakeReadyPanics,
       AppendEntries, SaveHardState, PersistFails, Advance, AdvanceDies, SkipEntry, Apply,
       ApplyFails, CheckExists, CheckLeader, Submit, Reply, propVars

LEMMA ApplySteps ==
  ASSUME Next
  PROVE  new \/ SkipEntry \/ Apply \/ ApplyFails \/ UNCHANGED applyVars
BY DEF Next, Loop, Request, Handler, Disconnect, Crash, TickQuiet, TickCampaign, NoReady, TakeReady, TakeReadyPanics,
       AppendEntries, SaveHardState, PersistFails, Advance, AdvanceDies, Notify,
       CheckExists, CheckLeader, NextId, Register, Submit, Reply, Timeout

LEMMA ClientTypeStep ==
  ASSUME Inv, Next
  PROVE  ClientType' /\ PropType'
<1>0. ClientType /\ PropType /\ LoopType
  BY TypeParts DEF Inv
<1>1. CASE Crash
  <2>1. \A c \in Client : "broken" \in Outcomes
    BY DEF Outcomes
  <2>2. ClientType'
    BY <1>0, <1>1, <2>1 DEF Crash, ClientType
  <2> QED BY <1>0, <1>1, <2>2 DEF Crash, propVars, PropType
<1>2. CASE Notify
  <2>1. answer' \in [Client -> {"none", "ok", "failed"}]
    BY <1>0, <1>2 DEF Notify, ClientType, LoopType
  <2> QED BY <1>0, <1>2, <2>1 DEF Notify, ClientType, PropType
<1>3. ASSUME NEW c \in Client, Request(c)
      PROVE  ClientType' /\ PropType'
  <2>1. CASE CheckExists(c)
    BY <1>0, <2>1 DEF CheckExists, Moves, Outcomes, ClientType, PropType, propVars
  <2>2. CASE CheckLeader(c)
    BY <1>0, <2>2 DEF CheckLeader, Moves, Outcomes, ClientType, PropType, propVars
  <2>3. CASE NextId(c)
    BY <1>0, <2>3 DEF NextId, Moves, ClientType, PropType
  <2>4. CASE Register(c)
    BY <1>0, <2>4 DEF Register, Moves, ClientType, PropType
  <2>5. CASE Submit(c)
    BY <1>0, <2>5 DEF Submit, Moves, Outcomes, ClientType, PropType, propVars
  <2>6. CASE Reply(c)
    BY <1>0, <2>6 DEF Reply, Moves, Outcomes, ClientType, PropType, propVars
  <2>7. CASE Timeout(c)
    BY <1>0, <2>7 DEF Timeout, Moves, Outcomes, ClientType, PropType
  <2>8. CASE Disconnect(c)
    BY <1>0, <2>8 DEF Disconnect, Moves, Outcomes, ClientType, PropType, propVars
  <2> QED BY <1>3, <2>1, <2>2, <2>3, <2>4, <2>5, <2>6, <2>7, <2>8 DEF Request, Handler
<1>4. CASE UNCHANGED clientVars
  <2>1. ClientType'
    BY <1>0, <1>4 DEF clientVars, ClientType
  <2>2. PropType'
    <3>1. CASE new
      BY <3>1 DEF new, PropType
    <3>2. CASE UNCHANGED propVars
      BY <1>0, <3>2 DEF propVars, PropType
    <3> QED BY <1>2, <1>3, <3>1, <3>2, PropSteps DEF Request, Handler
  <2> QED BY <2>1, <2>2
<1> QED BY <1>1, <1>2, <1>3, <1>4, ClientSteps

LEMMA NextApplied ==
  ASSUME Inv, SkipEntry \/ Apply \/ ApplyFails
  PROVE  /\ open /\ loop = "apply" /\ queue # <<>> /\ Head(queue) = queue[1]
         /\ passed + 1 \in 1..Len(log) /\ passed \in Nat /\ passed + 1 <= handed
         /\ queue[1] = log[passed + 1] /\ log[passed + 1] \in Adapter!Entry
         /\ passed' = passed + 1
         /\ maxPassed \in passed..Len(log)
         /\ maxPassed' = IF passed + 1 > maxPassed THEN passed + 1 ELSE maxPassed
<1>1. open /\ loop = "apply" /\ PassHead
  BY DEF SkipEntry, Apply, ApplyFails, Applying
<1>2. /\ passed \in 0..MaxIndex /\ maxPassed \in 0..MaxIndex /\ passed <= maxPassed
      /\ maxPassed <= Len(log)
  BY TypeParts DEF Inv, ApplyType, QueueInv
<1>3. /\ queue # <<>> /\ Len(queue) = handed - passed
      /\ \A k \in DOMAIN queue : queue[k] = log[passed + k]
  BY <1>1 DEF Inv, QueueInv
<1>4. Len(queue) \in Nat /\ Len(queue) >= 1 /\ 1 \in DOMAIN queue /\ Head(queue) = queue[1]
  <2>1. Len(queue) \in Nat /\ Len(queue) >= 1
    BY <1>3, Emptiness, Lens
  <2>2. queue \in Seq(Adapter!Entry)
    BY Facts
  <2> QED BY <1>3, <2>1, <2>2, Lens
<1>5. committed < offset
  BY DEF Inv, RawInv
<1>6. passed + 1 \in 1..Len(log) /\ passed + 1 <= handed
  <2>1. passed \in Nat /\ handed \in Nat /\ Len(log) \in Nat
    BY <1>2, Bounds
  <2>2. passed + 1 <= handed
    BY <1>3, <1>4, <2>1
  <2>3. handed <= Len(log)
    BY <1>5, Bounds
  <2> QED BY <2>1, <2>2, <2>3
<1>7. queue[1] = log[passed + 1] /\ log[passed + 1] \in Adapter!Entry
  BY <1>3, <1>4, <1>6, Facts, SeqFacts
<1>8. log[passed + 1].index = passed + 1
  <2>1. Numbered(log, 1)
    BY DEF Inv, DiskInv
  <2>2. \A k \in 1..Len(log) : log[k].index = 1 + k - 1
    BY <2>1, Lens DEF Numbered
  <2>3. passed \in Nat
    BY <1>2
  <2> QED BY <1>6, <2>2, <2>3
<1>9. passed' = passed + 1
  BY <1>1, <1>4, <1>7, <1>8 DEF PassHead
<1> QED BY <1>1, <1>2, <1>3, <1>4, <1>6, <1>7, <1>9 DEF PassHead

LEMMA ApplyTypeStep ==
  ASSUME Inv, Next
  PROVE  ApplyType' /\ EnvType'
<1>0. ApplyType /\ EnvType
  BY TypeParts DEF Inv
<1>1. MaxIndex \in Nat /\ Len(log) \in 0..MaxIndex
  BY Facts
<1>2. ApplyType'
  <2>1. CASE new
    BY <1>0, <1>1, <2>1 DEF new, ApplyType
  <2>2. CASE SkipEntry \/ Apply \/ ApplyFails
    <3>1. passed' \in 0..MaxIndex /\ maxPassed' \in 0..MaxIndex
      BY <1>1, <2>2, NextApplied
    <3>2. kv' \in [Key -> Value \cup {Absent}]
      <4>1. CASE Apply
        <5>1. Head(queue).data.by \in Client
          BY <4>1, NextApplied, EntryFacts DEF Apply
        <5>2. Command[Head(queue).data.by] \in [key : Key, value : Value \cup {Absent}]
          BY <5>1, NodeAssumption DEF NodeAssumption
        <5> QED BY <1>0, <4>1, <5>2 DEF Apply, ApplyType
      <4>2. CASE SkipEntry \/ ApplyFails
        BY <1>0, <4>2 DEF SkipEntry, ApplyFails, ApplyType
      <4> QED BY <2>2, <4>1, <4>2
    <3>3. skipped' \in BOOLEAN
      BY <1>0, <2>2 DEF SkipEntry, Apply, ApplyFails, ApplyType
    <3>4. stored' \subseteq 1..MaxIndex
      <4>1. stored' = stored \/ stored' = stored \cup {passed'}
        BY <2>2 DEF SkipEntry, Apply, ApplyFails
      <4>2. passed' \in 1..MaxIndex
        BY <1>1, <2>2, NextApplied
      <4> QED BY <1>0, <4>1, <4>2 DEF ApplyType
    <3> QED BY <3>1, <3>2, <3>3, <3>4 DEF ApplyType
  <2>3. CASE UNCHANGED applyVars
    BY <1>0, <2>3 DEF applyVars, ApplyType
  <2> QED BY <2>1, <2>2, <2>3, ApplySteps
<1>3. restarts' \in 0..MaxRestarts /\ failures' \in 0..MaxFailures
  <2>1. CASE Crash
    BY <1>0, <2>1, NodeAssumption DEF Crash, EnvType, NodeAssumption
  <2>2. CASE PersistFails
    BY <1>0, <2>2, NodeAssumption DEF PersistFails, EnvType, NodeAssumption
  <2>3. CASE ApplyFails
    BY <1>0, <2>3, NodeAssumption DEF ApplyFails, EnvType, NodeAssumption
  <2>4. CASE ~Crash /\ ~PersistFails /\ ~ApplyFails
    <3>1. restarts' = restarts /\ failures' = failures
      BY <2>4 DEF Next, Loop, Request, Handler, Disconnect, new, TickQuiet, TickCampaign, NoReady, TakeReady,
             TakeReadyPanics, AppendEntries, SaveHardState, Advance, AdvanceDies, SkipEntry,
             Apply, Notify, CheckExists, CheckLeader, NextId, Register, Submit, Reply, Timeout,
             envVars
    <3> QED BY <1>0, <3>1 DEF EnvType
  <2> QED BY <2>1, <2>2, <2>3, <2>4
<1>4. loaded' \in 0..MaxIndex
  <2>1. CASE new
    <3>1. loaded' = Len(log') /\ Len(log') \in Len(log)..MaxIndex
      BY <2>1, NewEffect DEF new
    <3> QED BY <1>1, <3>1
  <2>2. CASE ~new
    <3>1. loaded' = loaded
      BY <2>2 DEF Next, Loop, Request, Handler, Disconnect, Crash, TickQuiet, TickCampaign, NoReady, TakeReady,
             TakeReadyPanics, AppendEntries, SaveHardState, PersistFails, Advance, AdvanceDies,
             SkipEntry, Apply, ApplyFails, Notify, CheckExists, CheckLeader, NextId, Register,
             Submit, Reply, Timeout, envVars
    <3> QED BY <1>0, <3>1 DEF EnvType
  <2> QED BY <2>1, <2>2
<1> QED BY <1>2, <1>3, <1>4 DEF EnvType

LEMMA TypeStep ==
  ASSUME Inv, Next
  PROVE  TypeOK'
<1>1. TypeOK' <=> /\ Adapter!TypeOK'
                  /\ RawType' /\ LoopType' /\ ClientType' /\ PropType' /\ ApplyType' /\ EnvType'
  BY TypeParts, PTL
<1> QED BY <1>1, AdapterTypeStep, RawTypeStep, LoopTypeStep, ClientTypeStep, ApplyTypeStep

-----------------------------------------------------------------------------
(* The calls of the adapter *)

LEMMA HandlerKeeps ==
  ASSUME NEW c \in Client, Request(c)
  PROVE  /\ open /\ UNCHANGED <<adapterVars, loopVars, applyVars, envVars>>
         /\ UNCHANGED <<role, curTerm, offset, committed, handed, prevHs, prevRole, unfinished>>
         /\ Submit(c) \/ UNCHANGED unstable
<1>1. CASE Submit(c)
  BY <1>1 DEF Submit, Moves
<1>2. CASE ~Submit(c)
  BY <1>2 DEF Request, Handler, Disconnect, CheckExists, CheckLeader, NextId, Register, Reply, Timeout, Moves, rawVars
<1> QED BY <1>1, <1>2

\* Steps of the event loop that touch neither the adapter nor raft-rs.
Minor ==
  \/ TickQuiet \/ NoReady \/ TakeReadyPanics \/ AdvanceDies
  \/ SkipEntry \/ Apply \/ ApplyFails \/ Notify

LEMMA MinorKeeps ==
  ASSUME Inv, Minor
  PROVE  /\ open /\ phase = "idle" /\ UNCHANGED <<adapterVars, rawVars, ready>>
         /\ \/ loop \in {"tick", "ready"} /\ loop' \in {"tick", "ready"}
            \/ loop' = "dead"
            \/ loop \in {"apply", "notify"} /\ loop' \in {"tick", "apply", "notify"}
<1>1. /\ open /\ UNCHANGED <<adapterVars, rawVars, ready>>
      /\ \/ loop \in {"tick", "ready"} /\ loop' \in {"tick", "ready", "dead"}
         \/ phase = "idle" /\ loop' = "dead"
         \/ loop \in {"apply", "notify"} /\ loop' \in {"tick", "apply", "notify"}
  BY DEF Minor, TickQuiet, NoReady, TakeReadyPanics, AdvanceDies, SkipEntry, Apply, ApplyFails,
         Notify, Idle, Advancing, Applying, AfterHead
<1>2. loop \in {"tick", "ready", "apply", "notify"} => phase = "idle"
  BY DEF Inv, CallInv, TypeOK, Adapter!TypeOK
<1> QED BY <1>1, <1>2

LEMMA NextCases ==
  ASSUME Next
  PROVE  \/ new \/ Crash \/ TickCampaign \/ TakeReady \/ AppendEntries \/ SaveHardState
         \/ PersistFails \/ Advance \/ Minor
         \/ \E c \in Client : Request(c)
BY DEF Next, Loop, Minor

\* Between two calls.
LEMMA IdlePhase ==
  ASSUME Inv
  PROVE  /\ phase \in {"idle", "put", "hs_put", "hs_cache"}
         /\ ~open => phase = "idle"
         /\ loop \notin {"append", "hard_state"} => phase = "idle"
BY DEF Inv, CallInv, TypeOK, Adapter!TypeOK

LEMMA CallStep ==
  ASSUME Inv, Next
  PROVE  CallInv'
<1>0. CallInv
  BY DEF Inv
<1>1. Len(<<>>) = 0
  BY EmptySeq
<1>2. CASE new
  <2>1. phase = "idle" /\ nput = 0
    BY <1>0, <1>2, IdlePhase DEF new, Adapter!new_with_bootstrap, CallInv
  <2>2. phase' = phase /\ nput' = nput /\ loop' = "tick" /\ entries' = log'
    BY <1>2 DEF new, Adapter!new_with_bootstrap
  <2> QED BY <2>1, <2>2 DEF CallInv
<1>3. CASE Crash
  BY <1>0, <1>3 DEF Crash, Adapter!Crash, CallInv, loopVars
<1>4. CASE TickCampaign
  BY <1>0, <1>4, IdlePhase DEF TickCampaign, Idle, CallInv, adapterVars
<1>5. CASE TakeReady
  <2>1. phase = "idle" /\ UNCHANGED adapterVars
    BY <1>5, IdlePhase DEF TakeReady
  <2>2. batch = <<>> \/ Starts(batch, unstable)
    BY DEF Inv, RawInv
  <2>3. Len(batch) <= Len(unstable) /\ (unstable = <<>> => batch = <<>>)
    BY <2>2, Emptiness, Lens DEF Starts
  <2>4. ready'.entries = unstable /\ loop' = (IF unstable # <<>> THEN "append" ELSE "hard_state")
    BY <1>5 DEF TakeReady
  <2>5. nput = 0 /\ (open => entries = log)
    BY <1>0, <2>1 DEF CallInv
  <2>6. /\ phase' = "idle" /\ nput' = 0 /\ batch' = batch /\ (open' => entries' = log')
    BY <2>1, <2>5 DEF adapterVars
  <2> QED BY <2>3, <2>4, <2>6 DEF CallInv
<1>6. CASE AppendEntries
  <2>1. loop = "append" /\ ready' = ready /\ prevHs' = prevHs /\ ready.entries # <<>>
    BY <1>6 DEF AppendEntries, rawVars, Inv, RawInv
  <2>2. CASE Adapter!append_entries(ready.entries) /\ UNCHANGED loop
    BY <1>0, <2>1, <2>2
       DEF Adapter!append_entries, CallInv, Adapter!dbVars, Adapter!memVars
  <2>3. CASE Adapter!PutEntry /\ UNCHANGED loop
    BY <1>0, <2>1, <2>3 DEF Adapter!PutEntry, CallInv, Adapter!memVars
  <2>4. CASE Adapter!PushEntries /\ loop' = "hard_state"
    <3>1. entries' = log' /\ phase' = "idle" /\ nput' = 0 /\ batch' = <<>>
      BY <2>4, PushEffect DEF Adapter!PushEntries
    <3> QED BY <2>4, <3>1 DEF CallInv
  <2> QED BY <1>6, <2>2, <2>3, <2>4 DEF AppendEntries
<1>7. CASE SaveHardState
  <2>1. loop = "hard_state" /\ ready' = ready /\ prevHs' = prevHs /\ ready.hs # prevHs
    BY <1>7 DEF SaveHardState, rawVars
  <2>2. CASE Adapter!save_hard_state(ready.hs) /\ UNCHANGED loop
    BY <1>0, <2>1, <2>2
       DEF Adapter!save_hard_state, CallInv, Adapter!dbVars, Adapter!memVars
  <2>3. CASE Adapter!PutHardState /\ UNCHANGED loop
    BY <1>0, <2>1, <2>3 DEF Adapter!PutHardState, CallInv, Adapter!memVars
  <2>4. CASE Adapter!CacheHardState /\ loop' = "advance"
    BY <1>0, <2>1, <2>4 DEF Adapter!CacheHardState, CallInv, Adapter!dbVars
  <2> QED BY <1>7, <2>2, <2>3, <2>4 DEF SaveHardState
<1>8. CASE PersistFails
  BY <1>0, <1>8 DEF PersistFails, Adapter!PutFails, CallInv, Adapter!dbVars, Adapter!memVars
<1>9. CASE Advance
  BY <1>0, <1>9, AdvanceEffect DEF Advance, CallInv, adapterVars
<1>10. CASE Minor
  BY <1>0, <1>10, MinorKeeps DEF CallInv, adapterVars, rawVars
<1>11. ASSUME NEW c \in Client, Request(c)
       PROVE  CallInv'
  BY <1>0, <1>11, HandlerKeeps DEF CallInv, adapterVars, loopVars
<1> QED BY <1>2, <1>3, <1>4, <1>5, <1>6, <1>7, <1>8, <1>9, <1>10, <1>11, NextCases

-----------------------------------------------------------------------------
(* The disk *)

\* The log is only extended, and so is the disk.
LEMMA LogGrows ==
  ASSUME Inv, Next
  PROVE  /\ log' \in Seq(Adapter!Entry) /\ Len(log) <= Len(log')
         /\ \A i \in 1..Len(log) : log'[i] = log[i]
<1>0. log \in Seq(Adapter!Entry) /\ Len(log) \in Nat
  BY Facts
<1>1. CASE new
  BY <1>0, <1>1, NewEffect
<1>2. CASE Adapter!PushEntries
  BY <1>0, <1>2, PushEffect, SeqFacts
<1>3. CASE UNCHANGED log
  BY <1>0, <1>3
<1>4. CASE Crash \/ SaveHardState \/ PersistFails \/ UNCHANGED adapterVars
  <2>1. UNCHANGED log
    BY <1>4 DEF Crash, SaveHardState, PersistFails, adapterVars, Adapter!Crash,
                Adapter!save_hard_state, Adapter!PutHardState, Adapter!CacheHardState,
                Adapter!PutFails
  <2> QED BY <1>3, <2>1
<1>5. CASE AppendEntries
  BY <1>2, <1>3, <1>5 DEF AppendEntries, Adapter!append_entries, Adapter!PutEntry
<1> QED BY <1>1, <1>4, <1>5, AdapterSteps

LEMMA DiskGrows ==
  ASSUME Inv, Next
  PROVE  \A i \in Adapter!Index : OnDisk(i) => dbLog'[i] = dbLog[i]
<1>1. CASE Adapter!PutEntry
  <2> DEFINE n == Len(log) + nput + 1
  <2>1. /\ n \in Adapter!Index /\ nput + 1 \in 1..Len(batch)
        /\ dbLog' = [dbLog EXCEPT ![n] = batch[nput + 1]]
    BY <1>1, PutEffect
  <2>2. dbLog \in [Adapter!Index -> Adapter!Entry \cup {NoEntry}]
    BY DEF Inv, TypeOK, Adapter!TypeOK
  <2>3. n - Len(log) = nput + 1 /\ n > Len(log)
    BY <2>1, Lens
  <2>4. OnDisk(n) => dbLog[n] = batch[nput + 1]
    BY <2>1, <2>3 DEF Inv, DiskInv
  <2> HIDE DEF n
  <2> QED BY <2>1, <2>2, <2>4
<1>2. CASE UNCHANGED dbLog
  BY <1>2
<1>3. CASE AppendEntries
  BY <1>1, <1>2, <1>3
     DEF AppendEntries, Adapter!append_entries, Adapter!PushEntries, Adapter!dbVars
<1>4. CASE new \/ Crash \/ SaveHardState \/ PersistFails \/ UNCHANGED adapterVars
  <2>1. UNCHANGED dbLog
    BY <1>4 DEF new, Crash, SaveHardState, PersistFails, adapterVars, Adapter!new_with_bootstrap,
                Adapter!Crash, Adapter!save_hard_state, Adapter!PutHardState,
                Adapter!CacheHardState, Adapter!PutFails, Adapter!dbVars
  <2> QED BY <1>2, <2>1
<1> QED BY <1>3, <1>4, AdapterSteps

\* A batch continues the log.
LEMMA BatchNumbered ==
  ASSUME Inv
  PROVE  \A k \in 1..Len(batch) : batch[k].index = Len(log) + k
<1>1. batch # <<>> => Pushed = 0 /\ Starts(batch, unstable)
  BY DEF Inv, RawInv
<1>2. Numbered(unstable, offset)
  BY DEF Inv, RawInv
<1>3. ASSUME NEW k \in 1..Len(batch)
      PROVE  batch[k].index = Len(log) + k
  <2>1. batch # <<>>
    BY <1>3, Emptiness
  <2>2. Len(log) = offset - 1 /\ Starts(batch, unstable)
    BY <1>1, <2>1, Bounds DEF Pushed
  <2>3. k \in DOMAIN unstable /\ batch[k] = unstable[k]
    <3>1. Len(batch) <= Len(unstable) /\ \A j \in 1..Len(batch) : batch[j] = unstable[j]
      BY <2>2 DEF Starts
    <3> QED BY <3>1, Lens
  <2>4. unstable[k].index = offset + k - 1
    BY <1>2, <2>3 DEF Numbered
  <2> QED BY <2>2, <2>3, <2>4, Lens
<1> QED BY <1>3

\* An append begins, or begins again: what was put of the old batch is also
\* the beginning of the new one.
LEMMA RetryKeeps ==
  ASSUME Inv, loop = "append"
  PROVE  Len(batch) <= Len(ready.entries) /\ \A k \in 1..Len(batch) : ready.entries[k] = batch[k]
<1>1. Len(batch) <= Len(ready.entries) /\ Starts(ready.entries, unstable)
  BY DEF Inv, CallInv, RawInv, Persisting
<1>2. batch # <<>> => Starts(batch, unstable)
  BY DEF Inv, RawInv
<1>3. ASSUME NEW k \in 1..Len(batch)
      PROVE  ready.entries[k] = batch[k]
  <2>1. batch # <<>> /\ k \in 1..Len(ready.entries)
    BY <1>1, <1>3, Facts, SeqFacts
  <2> QED BY <1>1, <1>2, <2>1, Facts, SeqFacts DEF Starts
<1> QED BY <1>1, <1>3

LEMMA DiskStep ==
  ASSUME Inv, Next
  PROVE  DiskInv'
<1>0. DiskInv
  BY DEF Inv
<1>1. Len(log) \in 0..MaxIndex /\ MaxIndex \in Nat /\ DOMAIN log = 1..Len(log)
  BY Facts, SeqFacts
<1>2. DOMAIN <<>> = {}
  BY EmptySeq
<1>3. CASE new
  <2>1. /\ log' \in Seq(Adapter!Entry) /\ Len(log') \in Len(log)..MaxIndex
        /\ \A i \in 1..Len(log') : log'[i] = dbLog[i]
        /\ \A i \in Adapter!Index : OnDisk(i) <=> i <= Len(log')
    BY <1>3, NewEffect
  <2>2. dbLog' = dbLog /\ batch' = <<>> /\ phase' = "idle"
    BY <1>3, IdlePhase DEF new, Adapter!new_with_bootstrap
  <2>3. ASSUME NEW i \in 1..Len(log')
        PROVE  log'[i].index = i
    <3>1. i \in Adapter!Index /\ OnDisk(i) /\ log'[i] = dbLog[i]
      BY <1>1, <2>1, <2>3 DEF Adapter!Index
    <3>2. CASE i <= Len(log)
      BY <1>0, <1>1, <3>1, <3>2 DEF DiskInv, Numbered
    <3>3. CASE i > Len(log)
      <4>1. i - Len(log) \in DOMAIN batch /\ dbLog[i] = batch[i - Len(log)]
        BY <1>0, <3>1, <3>3 DEF DiskInv
      <4>2. batch[i - Len(log)].index = Len(log) + (i - Len(log))
        BY <4>1, BatchNumbered, Facts, SeqFacts
      <4> QED BY <1>1, <3>1, <4>1, <4>2
    <3> QED BY <1>1, <3>2, <3>3
  <2>4. Numbered(log', 1)
    <3>1. DOMAIN log' = 1..Len(log')
      BY <2>1, SeqFacts
    <3> QED BY <2>3, <3>1 DEF Numbered
  <2>5. Len(log') \in Len(log')..MaxIndex /\ \A i \in Adapter!Index : OnDisk(i)' <=> i <= Len(log')
    BY <1>1, <2>1, <2>2 DEF OnDisk
  <2>6. \A i \in 1..Len(log') : dbLog'[i] = log'[i]
    BY <2>1, <2>2
  <2>7. \A i \in Adapter!Index : ~(OnDisk(i)' /\ i > Len(log'))
    BY <1>1, <2>1, <2>5 DEF Adapter!Index
  <2> QED BY <2>2, <2>4, <2>5, <2>6, <2>7 DEF DiskInv, Numbered
<1>4. CASE Adapter!append_entries(ready.entries) /\ loop = "append"
  <2>1. /\ dbLog' = dbLog /\ log' = log /\ batch' = ready.entries /\ nput' = 0
    BY <1>4 DEF Adapter!append_entries, Adapter!dbVars
  <2>2. \A k \in DOMAIN batch : k \in DOMAIN batch' /\ batch'[k] = batch[k]
    BY <1>4, <2>1, RetryKeeps, Lens
  <2> QED BY <1>0, <2>1, <2>2 DEF DiskInv, Numbered, OnDisk
<1>5. CASE Adapter!PutEntry
  <2> DEFINE n == Len(log) + nput + 1
  <2>1. /\ phase = "put" /\ n \in Adapter!Index /\ nput + 1 \in 1..Len(batch)
        /\ dbLog' = [dbLog EXCEPT ![n] = batch[nput + 1]]
        /\ batch[nput + 1] \in Adapter!Entry /\ batch \in Seq(Adapter!Entry)
    BY <1>5, PutEffect
  <2>2. log' = log /\ batch' = batch /\ phase' = phase /\ nput' = nput + 1
    BY <1>5 DEF Adapter!PutEntry
  <2>3. dbLog \in [Adapter!Index -> Adapter!Entry \cup {NoEntry}] /\ nput \in Nat
    BY Facts, SeqFacts DEF Inv, TypeOK, Adapter!TypeOK
  <2>4. dbLog'[n] = batch[nput + 1] /\ \A i \in Adapter!Index : i # n => dbLog'[i] = dbLog[i]
    BY <2>1, <2>3
  <2>5. n = Len(log) + nput + 1 /\ n - Len(log) = nput + 1 /\ n > Len(log) /\ n \in 1..MaxIndex
    BY <1>1, <2>1, <2>3 DEF Adapter!Index
  <2>6. dbLog'[n] # NoEntry
    BY <2>1, <2>4, NoEntryAssumption DEF OnDisk
  <2> HIDE DEF n
  <2>7. PICK m \in Len(log)..MaxIndex : \A i \in Adapter!Index : OnDisk(i) <=> i <= m
    BY <1>0 DEF DiskInv
  <2>8. n <= m + 1
    <3>1. CASE nput = 0
      BY <1>1, <2>5, <2>7, <3>1
    <3>2. CASE nput # 0
      <4>1. nput \in 1..nput /\ dbLog[Len(log) + nput] = batch[nput] /\ nput \in 1..Len(batch)
        BY <1>0, <2>1, <2>3, <3>2 DEF DiskInv
      <4>2. Len(log) + nput \in Adapter!Index /\ batch[nput] \in Adapter!Entry
        BY <1>1, <2>1, <2>3, <2>5, <4>1, SeqFacts DEF Adapter!Index
      <4>3. OnDisk(Len(log) + nput)
        BY <4>1, <4>2, NoEntryAssumption DEF OnDisk
      <4> QED BY <1>1, <2>3, <2>5, <2>7, <4>2, <4>3
    <3> QED BY <3>1, <3>2
  <2>9. \E l \in Len(log)..MaxIndex : \A i \in Adapter!Index : OnDisk(i)' <=> i <= l
    <3> DEFINE l == IF n <= m THEN m ELSE n
    <3>1. l \in Len(log)..MaxIndex
      BY <1>1, <2>5, <2>7
    <3>2. ASSUME NEW i \in Adapter!Index
          PROVE  OnDisk(i)' <=> i <= l
      <4>1. CASE i = n
        <5>1. OnDisk(i)'
          BY <2>6, <4>1 DEF OnDisk
        <5>2. i <= l
          BY <1>1, <2>5, <2>7, <4>1
        <5> QED BY <5>1, <5>2
      <4>2. CASE i # n
        <5>1. OnDisk(i)' <=> i <= m
          BY <2>4, <2>7, <4>2 DEF OnDisk
        <5>2. i \in Nat /\ n \in Nat /\ m \in Nat
          BY <1>1, <2>5, <2>7 DEF Adapter!Index
        <5> QED BY <2>8, <4>2, <5>1, <5>2
      <4> QED BY <4>1, <4>2
    <3> HIDE DEF l
    <3> QED BY <3>1, <3>2
  <2>10. \A i \in 1..Len(log) : dbLog'[i] = log[i]
    <3>1. \A i \in 1..Len(log) : i \in Adapter!Index /\ i # n
      BY <1>1, <2>5 DEF Adapter!Index
    <3> QED BY <1>0, <2>4, <3>1 DEF DiskInv
  <2>11. ASSUME NEW i \in Adapter!Index, OnDisk(i)', i > Len(log)
         PROVE  i - Len(log) \in DOMAIN batch /\ dbLog'[i] = batch[i - Len(log)]
    <3>1. CASE i = n
      BY <2>1, <2>4, <2>5, <3>1, SeqFacts
    <3>2. CASE i # n
      BY <1>0, <2>4, <2>11, <3>2 DEF DiskInv, OnDisk
    <3> QED BY <3>1, <3>2
  <2>12. ASSUME NEW k \in 1..(nput + 1)
         PROVE  dbLog'[Len(log) + k] = batch[k]
    <3>1. CASE k = nput + 1
      BY <2>4, <2>5, <3>1
    <3>2. CASE k # nput + 1
      <4>1. k \in 1..nput /\ Len(log) + k \in Adapter!Index /\ Len(log) + k # n
        BY <1>1, <2>3, <2>5, <3>2 DEF Adapter!Index
      <4> QED BY <1>0, <2>1, <2>4, <4>1 DEF DiskInv
    <3> QED BY <3>1, <3>2
  <2>13. Numbered(log, 1)
    BY <1>0 DEF DiskInv
  <2> QED BY <2>2, <2>9, <2>10, <2>11, <2>12, <2>13 DEF DiskInv, Numbered, OnDisk
<1>6. CASE Adapter!PushEntries
  <2>1. /\ phase = "put" /\ nput = Len(batch) /\ batch \in Seq(Adapter!Entry)
        /\ log' \in Seq(Adapter!Entry) /\ Len(log') = Len(log) + Len(batch)
        /\ \A i \in 1..Len(log) : log'[i] = log[i]
        /\ \A k \in 1..Len(batch) : log'[Len(log) + k] = batch[k]
    BY <1>6, PushEffect
  <2>2. dbLog' = dbLog /\ batch' = <<>> /\ phase' = "idle"
    BY <1>6 DEF Adapter!PushEntries, Adapter!dbVars
  <2>3. Len(batch) \in Nat /\ DOMAIN log' = 1..Len(log') /\ DOMAIN batch = 1..Len(batch)
    BY <2>1, SeqFacts
  <2>4. ASSUME NEW i \in 1..Len(log')
        PROVE  log'[i].index = i /\ dbLog[i] = log'[i]
    <3>1. CASE i \in 1..Len(log)
      BY <1>0, <1>1, <2>1, <3>1 DEF DiskInv, Numbered
    <3>2. CASE i \notin 1..Len(log)
      <4>1. PICK k \in 1..Len(batch) : i = Len(log) + k
        <5>1. i - Len(log) \in 1..Len(batch) /\ i = Len(log) + (i - Len(log))
          BY <1>1, <2>1, <2>3, <3>2
        <5> QED BY <5>1
      <4> QED BY <1>0, <2>1, <4>1, BatchNumbered DEF DiskInv
    <3> QED BY <3>1, <3>2
  <2>5. ASSUME NEW i \in Adapter!Index, OnDisk(i), i > Len(log')
        PROVE  FALSE
    <3>1. i > Len(log) /\ i \in Nat
      BY <1>1, <2>1, <2>3, <2>5 DEF Adapter!Index
    <3>2. i - Len(log) \in 1..Len(batch)
      BY <1>0, <2>3, <2>5, <3>1 DEF DiskInv
    <3> QED BY <1>1, <2>1, <2>3, <2>5, <3>1, <3>2
  <2>6. PICK m \in Len(log)..MaxIndex : \A i \in Adapter!Index : OnDisk(i) <=> i <= m
    BY <1>0 DEF DiskInv
  <2>7. m \in Len(log')..MaxIndex
    <3>1. Len(log') <= MaxIndex
      <4>1. Len(batch) > 0 /\ Len(batch) \in 1..Len(batch) /\ batch[Len(batch)] \in Adapter!Entry
        BY <1>6, <2>3, PushEffect, SeqFacts
      <4>2. batch[Len(batch)].index = Len(log')
        BY <2>1, <4>1, BatchNumbered
      <4> QED BY <4>1, <4>2, EntryFacts
    <3>2. Len(log') \in Adapter!Index /\ OnDisk(Len(log'))
      <4>1. Len(batch) > 0 /\ Len(log') \in 1..Len(log')
        BY <1>1, <1>6, <2>1, <2>3, PushEffect
      <4>2. log'[Len(log')] \in Adapter!Entry
        BY <2>1, <4>1, SeqFacts
      <4> QED BY <1>1, <2>4, <3>1, <4>1, <4>2, NoEntryAssumption DEF Adapter!Index, OnDisk
    <3> QED BY <1>1, <2>1, <2>3, <2>6, <3>1, <3>2
  <2>8. Numbered(log', 1)
    BY <2>3, <2>4 DEF Numbered
  <2>9. \A i \in Adapter!Index : OnDisk(i)' <=> i <= m
    BY <2>2, <2>6 DEF OnDisk
  <2>10. \A i \in Adapter!Index : ~(OnDisk(i)' /\ i > Len(log'))
    BY <2>2, <2>5 DEF OnDisk
  <2>11. \A i \in 1..Len(log') : dbLog'[i] = log'[i]
    BY <2>2, <2>4
  <2> QED BY <2>2, <2>7, <2>8, <2>9, <2>10, <2>11 DEF DiskInv, Numbered
<1>7. CASE AppendEntries
  BY <1>4, <1>5, <1>6, <1>7 DEF AppendEntries
<1>8. CASE Crash \/ SaveHardState \/ PersistFails
  <2>1. dbLog' = dbLog /\ log' = log /\ batch' = batch /\ phase' # "put"
    BY <1>8 DEF Crash, SaveHardState, PersistFails, Adapter!Crash, Adapter!save_hard_state,
                Adapter!PutHardState, Adapter!CacheHardState, Adapter!PutFails, Adapter!dbVars
  <2> QED BY <1>0, <2>1 DEF DiskInv, Numbered, OnDisk
<1>9. CASE UNCHANGED adapterVars
  BY <1>0, <1>9 DEF adapterVars, DiskInv, Numbered, OnDisk
<1> QED BY <1>3, <1>7, <1>8, <1>9, AdapterSteps

-----------------------------------------------------------------------------
(* raft-rs's unstable entries *)

LEMMA RawStep ==
  ASSUME Inv, Next
  PROVE  RawInv'
<1>0. RawInv
  BY DEF Inv
<1>1. Len(<<>>) = 0 /\ DOMAIN <<>> = {}
  BY EmptySeq
<1>2. CASE new
  <2>1. /\ role' = "follower" /\ prevRole' = "follower" /\ loop' = "tick" /\ batch' = <<>>
        /\ unstable' = <<>> /\ offset' = Len(log') + 1 /\ handed' = 0
        /\ curTerm' = dbHardState.term /\ committed' = dbHardState.commit /\ prevHs' = dbHardState
    <3>1. entries' = log'
      BY <1>2, NewEffect
    <3> QED BY <1>2, <3>1 DEF new, Adapter!new_with_bootstrap
  <2>2. Len(log') \in Nat
    BY <1>2, NewEffect, SeqFacts
  <2>3. Pushed' = 0 /\ committed' = 0
    BY <2>1, <2>2 DEF Pushed, Inv, TermInv
  <2>4. prevHs' = HardStateNow'
    <3>1. dbHardState = [term |-> dbHardState.term, vote |-> Own(dbHardState.term), commit |-> 0]
      BY DEF Inv, TermInv, TypeOK, Adapter!TypeOK, Adapter!HardState
    <3> QED BY <2>1, <2>3, <3>1 DEF HardStateNow, Own
  <2> QED BY <1>1, <2>1, <2>2, <2>3, <2>4 DEF RawInv, Numbered, Persisting
<1>3. CASE Crash
  BY <1>0, <1>3 DEF Crash, Adapter!Crash, rawVars, loopVars, RawInv, Pushed, Persisting, Doomed,
                    HardStateNow
<1>4. CASE TickCampaign
  <2>1. /\ unstable = <<>> /\ Len(log) = offset - 1 /\ batch = <<>> /\ prevRole = "follower"
        /\ Len(unstable') = 1 /\ unstable'[1].index = offset
        /\ unstable' \in Seq(Adapter!Entry)
    BY <1>4, CampaignEffect
  <2>2. /\ role' = "leader" /\ loop' = "ready"
        /\ UNCHANGED <<log, batch, offset, committed, handed, prevRole, ready>>
    BY <1>4 DEF TickCampaign, adapterVars
  <2>3. Pushed' = 0
    BY <2>1, <2>2, Lens DEF Pushed
  <2>4. Numbered(unstable', offset')
    <3>1. DOMAIN unstable' = 1..1
      BY <2>1, SeqFacts
    <3> QED BY <2>1, <2>2, <3>1, Lens DEF Numbered
  <2> QED BY <1>0, <2>1, <2>2, <2>3, <2>4 DEF RawInv, Numbered, Persisting
<1>5. CASE TakeReady
  <2>1. /\ loop = "ready" /\ ready'.entries = unstable /\ ready'.hs = HardStateNow
        /\ handed' = committed /\ unfinished' = (unfinished \/ unstable # <<>>)
        /\ loop' = (IF unstable # <<>> THEN "append" ELSE "hard_state")
        /\ UNCHANGED <<log, batch, role, curTerm, unstable, offset, committed, prevHs, prevRole>>
    BY <1>5 DEF TakeReady, adapterVars
  <2>2. ~Doomed
    BY <1>5 DEF TakeReady, ReadyPanics, Doomed
  <2>3. Pushed = 0
    BY <1>0, <2>1, <2>2 DEF RawInv
  <2>4. Pushed' = 0 /\ HardStateNow' = HardStateNow
    BY <2>1, <2>3 DEF Pushed, HardStateNow
  <2>5. Starts(ready'.entries, unstable')
    BY <2>1, Lens DEF Starts
  <2>6. Len(unstable) \in Nat /\ (unstable = <<>> => Len(unstable) = 0)
    BY Lens, <1>1
  <2> QED BY <1>0, <2>1, <2>3, <2>4, <2>5, <2>6 DEF RawInv, Persisting, Starts, Numbered
<1>6. CASE AppendEntries
  <2>1. /\ loop = "append" /\ Pushed = 0
        /\ UNCHANGED <<role, curTerm, unstable, offset, committed, handed, prevHs, prevRole,
                       unfinished, ready>>
    BY <1>0, <1>6 DEF AppendEntries, rawVars, RawInv, Doomed
  <2>2. /\ Starts(ready.entries, unstable) /\ ready.hs = HardStateNow
        /\ ready.entries # <<>> /\ unfinished
    BY <1>0, <2>1 DEF RawInv, Persisting
  <2>3. HardStateNow' = HardStateNow
    BY <2>1 DEF HardStateNow
  <2>4. CASE Adapter!append_entries(ready.entries) /\ UNCHANGED loop
    <3>1. batch' = ready.entries /\ log' = log /\ loop' = loop
      BY <2>4 DEF Adapter!append_entries
    <3>2. Pushed' = 0
      BY <2>1, <3>1 DEF Pushed
    <3> QED BY <1>0, <2>1, <2>2, <2>3, <3>1, <3>2 DEF RawInv, Starts, Numbered, Persisting
  <2>5. CASE Adapter!PutEntry /\ UNCHANGED loop
    <3>1. batch' = batch /\ log' = log /\ loop' = loop
      BY <2>5 DEF Adapter!PutEntry
    <3>2. Pushed' = 0
      BY <2>1, <3>1 DEF Pushed
    <3> QED BY <1>0, <2>1, <2>2, <2>3, <3>1, <3>2 DEF RawInv, Starts, Numbered, Persisting
  <2>6. CASE Adapter!PushEntries /\ loop' = "hard_state"
    <3>1. batch' = <<>> /\ batch = ready.entries /\ Len(log') = Len(log) + Len(batch)
      BY <2>6, PushEffect DEF Adapter!PushEntries
    <3>2. Len(log) = offset - 1
      BY <2>1, Lens DEF Pushed
    <3>3. Pushed' = Len(ready.entries) /\ Pushed' \in 0..Len(unstable)
      <4>1. Pushed' = Len(log') + 1 - offset
        BY <2>1 DEF Pushed
      <4>2. Pushed' = Len(batch)
        <5>1. Len(log) \in Nat /\ Len(batch) \in Nat /\ offset \in Nat
          BY Lens
        <5>2. Len(log') = Len(log) + Len(batch)
          BY <3>1
        <5> QED BY <3>2, <4>1, <5>1, <5>2
      <4>3. Len(ready.entries) <= Len(unstable)
        BY <2>2 DEF Starts
      <4> QED BY <3>1, <4>2, <4>3, Lens
    <3>4. \A k \in 1..Pushed' : log'[offset - 1 + k] = unstable[k]
      <4>1. \A k \in 1..Len(batch) : log'[Len(log) + k] = batch[k]
        BY <2>6, PushEffect
      <4>2. \A k \in 1..Len(batch) : batch[k] = unstable[k]
        BY <2>2, <3>1 DEF Starts
      <4> QED BY <3>1, <3>2, <3>3, <4>1, <4>2, Lens
    <3> QED BY <1>0, <2>1, <2>2, <2>3, <2>6, <3>1, <3>3, <3>4
            DEF RawInv, Starts, Numbered, Persisting
  <2> QED BY <1>6, <2>4, <2>5, <2>6 DEF AppendEntries
<1>7. CASE SaveHardState
  <2>1. /\ loop = "hard_state" /\ loop' \in {"hard_state", "advance"}
        /\ UNCHANGED <<role, curTerm, unstable, offset, committed, handed, prevHs, prevRole,
                       unfinished, ready, batch, log>>
    BY <1>7 DEF SaveHardState, rawVars, Adapter!save_hard_state, Adapter!PutHardState,
                Adapter!CacheHardState
  <2>2. HardStateNow' = HardStateNow /\ Pushed' = Pushed
    BY <2>1 DEF HardStateNow, Pushed
  <2> QED BY <1>0, <2>1, <2>2 DEF RawInv, Starts, Numbered, Persisting
<1>8. CASE PersistFails
  <2>1. /\ loop' = "tick" /\ ready'.entries = <<>>
        /\ UNCHANGED <<role, curTerm, unstable, offset, committed, handed, prevHs, prevRole,
                       unfinished, batch, log>>
    BY <1>8 DEF PersistFails, rawVars, Adapter!PutFails, Consumed
  <2>2. HardStateNow' = HardStateNow /\ Pushed' = Pushed
    BY <2>1 DEF HardStateNow, Pushed
  <2>3. phase = "put" \/ phase = "hs_put"
    BY <1>8 DEF PersistFails, Adapter!PutFails
  <2>4. Pushed' = 0 \/ Doomed'
    <3>1. CASE phase = "put"
      <4>1. loop = "append"
        BY <3>1 DEF Inv, CallInv
      <4> QED BY <1>0, <2>2, <4>1 DEF RawInv, Doomed
    <3>2. CASE phase = "hs_put"
      <4>1. loop = "hard_state" /\ newHs = ready.hs /\ newHs # prevHs
        BY <3>2 DEF Inv, CallInv
      <4>2. ready.hs = HardStateNow /\ (ready.entries # <<>> => unfinished)
            /\ Pushed = Len(ready.entries)
        BY <1>0, <4>1 DEF RawInv, Persisting
      <4>3. role = "leader" /\ prevRole = "follower"
        BY <1>0, <4>1, <4>2 DEF RawInv
      <4>4. CASE ready.entries = <<>>
        BY <1>1, <2>2, <4>2, <4>4
      <4>5. CASE ready.entries # <<>>
        BY <2>1, <4>2, <4>3, <4>5 DEF Doomed
      <4> QED BY <4>4, <4>5
    <3> QED BY <2>3, <3>1, <3>2
  <2> QED BY <1>0, <2>1, <2>2, <2>4 DEF RawInv, Starts, Numbered, Persisting
<1>9. CASE Advance
  <2>1. /\ batch = <<>> /\ UNCHANGED <<log, batch, role>> /\ prevRole' = role
        /\ loop' \in {"tick", "apply"} /\ ready'.entries = <<>>
    BY <1>9, AdvanceEffect DEF Advance, adapterVars, Consumed
  <2>2. handed' = committed' /\ prevHs' = HardStateNow' /\ loop \in {"hard_state", "advance"}
    BY <1>9, AdvanceEffect
  <2>3. role \in {"follower", "leader"}
    BY DEF Inv, TypeOK
  <2>4. CASE ready.entries = <<>>
    <3>1. UNCHANGED <<unstable, offset, committed>> /\ Len(log) = offset - 1
      BY <1>9, <2>4, AdvanceEffect
    <3>2. Pushed' = 0
      BY <2>1, <3>1, Lens DEF Pushed
    <3> QED BY <1>0, <2>1, <2>2, <2>3, <3>1, <3>2, Lens DEF RawInv, Numbered, Persisting
  <2>5. CASE ready.entries # <<>>
    <3>1. unstable' = <<>> /\ offset' = Len(log) + 1 /\ committed' = Len(log)
      BY <1>9, <2>5, AdvanceEffect
    <3>2. Pushed' = 0
      BY <2>1, <3>1, Lens DEF Pushed
    <3>3. role = "leader"
      <4>1. Len(ready.entries) > 0
        BY <2>5, Facts, SeqFacts
      <4>2. Len(ready.entries) <= Len(unstable)
        BY <1>0, <2>2 DEF RawInv, Starts, Persisting
      <4>3. unstable # <<>>
        BY <1>1, <4>1, <4>2, Lens
      <4> QED BY <1>0, <2>3, <4>3 DEF RawInv
    <3>4. committed' < offset'
      BY <3>1, Lens
    <3> QED BY <1>1, <2>1, <2>2, <3>1, <3>2, <3>3, <3>4 DEF RawInv, Numbered, Persisting
  <2> QED BY <2>4, <2>5
<1>10. CASE Minor
  <2>1. UNCHANGED <<role, curTerm, unstable, offset, committed, handed, prevHs, prevRole,
                    unfinished, batch, log, ready>>
    BY <1>10, MinorKeeps DEF adapterVars, rawVars
  <2>2. HardStateNow' = HardStateNow /\ Pushed' = Pushed
    BY <2>1 DEF HardStateNow, Pushed
  <2>3. Pushed' = 0 \/ loop' = "dead" \/ Doomed'
    BY <1>0, <1>10, <2>1, <2>2, MinorKeeps DEF RawInv, Doomed
  <2>4. loop' \notin {"append", "hard_state", "advance"}
    BY <1>10, MinorKeeps
  <2> QED BY <1>0, <2>1, <2>2, <2>3, <2>4 DEF RawInv, Starts, Numbered, Persisting
<1>11. ASSUME NEW c \in Client, Request(c)
       PROVE  RawInv'
  <2>1. UNCHANGED <<role, curTerm, offset, committed, handed, prevHs, prevRole,
                    unfinished, batch, log, ready, loop>>
    BY <1>11, HandlerKeeps DEF adapterVars, loopVars
  <2>2. HardStateNow' = HardStateNow /\ Pushed' = Pushed /\ Doomed' = Doomed
    BY <2>1 DEF HardStateNow, Pushed, Doomed
  <2>3. CASE Submit(c)
    <3>1. /\ role = "leader" /\ Len(unstable') = Len(unstable) + 1
          /\ unstable' \in Seq(Adapter!Entry)
          /\ \A k \in 1..Len(unstable) : unstable'[k] = unstable[k]
          /\ unstable'[Len(unstable) + 1].index = offset + Len(unstable)
      BY <2>3, SubmitEffect
    <3>2. DOMAIN unstable' = 1..(Len(unstable) + 1)
      BY <3>1, SeqFacts
    <3>3. Numbered(unstable', offset)
      <4>1. \A k \in DOMAIN unstable : unstable[k].index = offset + k - 1
        BY <1>0 DEF RawInv, Numbered
      <4>2. \A k \in 1..(Len(unstable) + 1) : k \in 1..Len(unstable) \/ k = Len(unstable) + 1
        BY Lens
      <4>3. \A k \in 1..Len(unstable) : unstable'[k].index = offset + k - 1
        BY <3>1, <4>1, Lens
      <4>4. unstable'[Len(unstable) + 1].index = offset + (Len(unstable) + 1) - 1
        BY <3>1, Lens
      <4> QED BY <3>2, <4>2, <4>3, <4>4 DEF Numbered
    <3>4. /\ Starts(batch, unstable) => Starts(batch, unstable')
          /\ Starts(ready.entries, unstable) => Starts(ready.entries, unstable')
      <4>1. Len(unstable) \in Nat /\ Len(batch) \in Nat /\ Len(ready.entries) \in Nat
        BY Lens
      <4>2. Starts(batch, unstable) => Starts(batch, unstable')
        BY <3>1, <4>1 DEF Starts
      <4>3. Starts(ready.entries, unstable) => Starts(ready.entries, unstable')
        BY <3>1, <4>1 DEF Starts
      <4> QED BY <4>2, <4>3
    <3>5. Pushed \in 0..Len(unstable') /\ \A k \in 1..Pushed : log[offset - 1 + k] = unstable'[k]
      BY <1>0, <3>1, Lens DEF RawInv
    <3> QED BY <1>0, <2>1, <2>2, <3>1, <3>3, <3>4, <3>5 DEF RawInv, Numbered, Persisting, Starts
  <2>4. CASE UNCHANGED unstable
    BY <1>0, <2>1, <2>2, <2>4 DEF RawInv, Numbered, Persisting, Starts
  <2> QED BY <1>11, <2>3, <2>4, HandlerKeeps
<1> QED BY <1>2, <1>3, <1>4, <1>5, <1>6, <1>7, <1>8, <1>9, <1>10, <1>11, NextCases

-----------------------------------------------------------------------------
(* Terms and hard states *)

\* The terms of the unstable entries do not go down, and follow those of the
\* log before them.
UnstableTerms ==
  /\ \A i, j \in DOMAIN unstable : i <= j => unstable[i].term <= unstable[j].term
  /\ \A i \in DOMAIN log : \A j \in DOMAIN unstable :
       i < offset => log[i].term <= unstable[j].term
  /\ \A j \in DOMAIN unstable : unstable[j].term <= curTerm

\* One more unstable entry, of a term no other one exceeds.
LEMMA UnstableGrows ==
  ASSUME Inv, log' = log, offset' = offset,
         unstable' \in Seq(Adapter!Entry), Len(unstable') = Len(unstable) + 1,
         \A k \in 1..Len(unstable) : unstable'[k] = unstable[k],
         unstable'[Len(unstable) + 1].term = curTerm',
         curTerm' \in Nat, curTerm' >= curTerm,
         \A i \in DOMAIN log : i < offset => log[i].term <= curTerm'
  PROVE  UnstableTerms'
<1> DEFINE m == Len(unstable) + 1
<1>1. DOMAIN unstable' = 1..m /\ DOMAIN unstable = 1..Len(unstable) /\ Len(unstable) \in Nat
  BY Lens, SeqFacts
<1>2. /\ \A j \in 1..Len(unstable) : unstable'[j] = unstable[j] /\ unstable[j].term <= curTerm
      /\ \A j \in 1..Len(unstable) : unstable[j].term \in Nat
      /\ curTerm \in Nat
  <2>1. \A j \in 1..Len(unstable) : unstable[j] \in Adapter!Entry
    BY Facts, SeqFacts
  <2>2. \A j \in 1..Len(unstable) : unstable[j].term \in 1..MaxTerm
    BY <2>1, EntryFacts
  <2>3. \A j \in 1..Len(unstable) : unstable[j].term \in Nat
    BY <2>2
  <2>4. \A j \in 1..Len(unstable) : unstable[j].term <= curTerm
    BY <1>1 DEF Inv, TermInv
  <2>5. curTerm \in Nat
    BY Lens
  <2> QED BY <2>3, <2>4, <2>5
<1>3. \A j \in 1..m : unstable'[j].term <= curTerm' /\ unstable'[j].term \in Nat
  <2>1. TAKE j \in 1..m
  <2>2. CASE j = m
    BY <2>2
  <2>3. CASE j # m
    <3>1. j \in 1..Len(unstable)
      BY <1>1, <2>3
    <3> QED BY <1>2, <3>1
  <2> QED BY <2>2, <2>3
<1>4. \A i, j \in 1..m : i <= j => unstable'[i].term <= unstable'[j].term
  <2>1. TAKE i, j \in 1..m
  <2>2. CASE j = m
    BY <1>3, <2>2
  <2>3. CASE j # m /\ i <= j
    <3>1. i \in 1..Len(unstable) /\ j \in 1..Len(unstable)
      BY <1>1, <2>3
    <3> QED BY <1>1, <1>2, <2>3, <3>1 DEF Inv, TermInv
  <2> QED BY <2>2, <2>3
<1>5. ASSUME NEW i \in DOMAIN log, NEW j \in 1..m, i < offset
      PROVE  log[i].term <= unstable'[j].term
  <2>1. CASE j = m
    BY <1>5, <2>1
  <2>2. CASE j # m
    <3>1. j \in 1..Len(unstable)
      BY <1>1, <2>2
    <3> QED BY <1>1, <1>2, <1>5, <3>1 DEF Inv, TermInv
  <2> QED BY <2>1, <2>2
<1> HIDE DEF m
<1> QED BY <1>1, <1>3, <1>4, <1>5 DEF UnstableTerms

\* The terms of what is stored: of the log and of the unstable entries that
\* were just pushed onto it, or found on disk by a restart.
StoredTerms ==
  /\ \A i, j \in DOMAIN log : i <= j => log[i].term <= log[j].term
  /\ \A i \in DOMAIN log : log[i].term <= IF role = "leader" THEN curTerm ELSE curTerm + 1

LEMMA TermParts ==
  TermInv <=> /\ StoredTerms /\ UnstableTerms
              /\ role = "leader" => curTerm >= 1
              /\ dbHardState.term = curTerm \/ (role = "leader" /\ dbHardState.term = curTerm - 1)
              /\ dbHardState.commit = 0 /\ dbHardState.vote = Own(dbHardState.term)
              /\ hard_state.commit = 0 /\ hard_state.term <= curTerm
BY DEF TermInv, StoredTerms, UnstableTerms

\* What is stored past the log is a beginning of the unstable entries, so the
\* whole has terms that do not go down.
LEMMA ExtendedTerms ==
  ASSUME Inv, NEW t \in Seq(Adapter!Entry), Len(log) <= Len(t),
         \A i \in 1..Len(log) : t[i] = log[i],
         Len(t) > Len(log) => Pushed = 0,
         \A k \in 1..(Len(t) - Len(log)) : k \in DOMAIN unstable /\ t[Len(log) + k] = unstable[k]
  PROVE  /\ \A i, j \in DOMAIN t : i <= j => t[i].term <= t[j].term
         /\ \A i \in DOMAIN t : t[i].term \in 1..MaxTerm
         /\ \A i \in DOMAIN t : i > Len(log) => t[i].term <= curTerm
<1>1. /\ DOMAIN t = 1..Len(t) /\ Len(t) \in Nat /\ DOMAIN log = 1..Len(log) /\ Len(log) \in Nat
      /\ DOMAIN unstable = 1..Len(unstable) /\ Len(unstable) \in Nat
  BY Lens, SeqFacts
<1>2. \A i \in DOMAIN t : t[i].term \in 1..MaxTerm
  <2>1. \A i \in DOMAIN t : t[i] \in Adapter!Entry
    BY SeqFacts
  <2> QED BY <2>1, EntryFacts
<1>3. \A i \in DOMAIN t : i > Len(log) =>
        i - Len(log) \in DOMAIN unstable /\ t[i] = unstable[i - Len(log)]
  <2>1. TAKE i \in DOMAIN t
  <2>2. CASE i > Len(log)
    <3>1. i - Len(log) \in 1..(Len(t) - Len(log)) /\ Len(log) + (i - Len(log)) = i
      BY <1>1, <2>2
    <3> QED BY <3>1
  <2> QED BY <2>2
<1>4. ASSUME NEW i \in DOMAIN t, NEW j \in DOMAIN t, i <= j
      PROVE  t[i].term <= t[j].term
  <2>1. CASE j <= Len(log)
    <3>1. i \in DOMAIN log /\ j \in DOMAIN log
      BY <1>1, <1>4, <2>1
    <3> QED BY <1>1, <1>4, <3>1 DEF Inv, TermInv
  <2>2. CASE i <= Len(log) /\ j > Len(log)
    <3>1. Len(log) = offset - 1
      BY <1>1, <2>2, Lens DEF Pushed
    <3>2. i \in DOMAIN log /\ i < offset /\ t[i] = log[i]
      BY <1>1, <2>2, <3>1, Lens
    <3> QED BY <1>3, <2>2, <3>2 DEF Inv, TermInv
  <2>3. CASE i > Len(log)
    <3>1. j > Len(log) /\ i - Len(log) <= j - Len(log)
      BY <1>1, <1>4, <2>3
    <3> QED BY <1>3, <2>3, <3>1 DEF Inv, TermInv
  <2> QED BY <1>1, <2>1, <2>2, <2>3
<1>5. \A i \in DOMAIN t : i > Len(log) => t[i].term <= curTerm
  BY <1>3 DEF Inv, TermInv
<1> QED BY <1>2, <1>4, <1>5

\* What a restart finds past the log is the beginning of the unstable entries.
LEMMA NewTail ==
  ASSUME Inv, new
  PROVE  /\ Len(log') > Len(log) => Pushed = 0
         /\ \A k \in 1..(Len(log') - Len(log)) :
              k \in DOMAIN unstable /\ log'[Len(log) + k] = unstable[k]
<1>1. /\ Len(log') \in Len(log)..MaxIndex /\ MaxIndex \in Nat
      /\ \A i \in 1..Len(log') : log'[i] = dbLog[i]
      /\ \A i \in Adapter!Index : OnDisk(i) <=> i <= Len(log')
  BY NewEffect, Facts
<1>2. ASSUME NEW k \in 1..(Len(log') - Len(log))
      PROVE  Pushed = 0 /\ k \in DOMAIN unstable /\ log'[Len(log) + k] = unstable[k]
  <2> DEFINE i == Len(log) + k
  <2>1. /\ i \in 1..Len(log') /\ i \in Adapter!Index /\ i > Len(log) /\ i - Len(log) = k
        /\ i <= Len(log')
    BY <1>1, <1>2, Lens DEF Adapter!Index
  <2> HIDE DEF i
  <2>2. k \in DOMAIN batch /\ dbLog[i] = batch[k]
    BY <1>1, <2>1 DEF Inv, DiskInv
  <2>3. batch # <<>> /\ k \in 1..Len(batch)
    BY <2>2, Lens, EmptySeq
  <2>4. Pushed = 0 /\ Starts(batch, unstable)
    BY <2>3 DEF Inv, RawInv
  <2>5. Len(batch) <= Len(unstable) /\ batch[k] = unstable[k]
    BY <2>3, <2>4 DEF Starts
  <2> QED BY <1>1, <2>1, <2>2, <2>3, <2>4, <2>5, Lens DEF i
<1>3. Len(log') > Len(log) => 1 \in 1..(Len(log') - Len(log))
  BY <1>1, Lens
<1> QED BY <1>2, <1>3

LEMMA TermStep ==
  ASSUME Inv, Next
  PROVE  TermInv'
<1>0. TermInv
  BY DEF Inv
<1>1. DOMAIN <<>> = {}
  BY EmptySeq
<1>2. /\ role \in {"follower", "leader"} /\ Len(log) \in Nat /\ DOMAIN log = 1..Len(log)
      /\ curTerm \in Nat /\ offset \in Nat /\ dbHardState.term \in Nat
  BY Lens, NodeAssumption
     DEF Inv, TypeOK, Adapter!TypeOK, Adapter!HardState, Adapter!Term, NodeAssumption
<1>3. /\ StoredTerms /\ UnstableTerms
      /\ role = "leader" => curTerm >= 1
      /\ dbHardState.term = curTerm \/ (role = "leader" /\ dbHardState.term = curTerm - 1)
      /\ dbHardState.commit = 0 /\ dbHardState.vote = Own(dbHardState.term)
      /\ hard_state.commit = 0 /\ hard_state.term <= curTerm
  BY <1>0, TermParts
<1>4. TermInv' <=>
        /\ StoredTerms' /\ UnstableTerms'
        /\ role' = "leader" => curTerm' >= 1
        /\ dbHardState'.term = curTerm' \/ (role' = "leader" /\ dbHardState'.term = curTerm' - 1)
        /\ dbHardState'.commit = 0 /\ dbHardState'.vote = Own(dbHardState'.term)
        /\ hard_state'.commit = 0 /\ hard_state'.term <= curTerm'
  BY DEF TermInv, StoredTerms, UnstableTerms
<1>5. CASE UNCHANGED <<log, unstable, offset, role, curTerm, dbHardState, hard_state>>
  BY <1>0, <1>5 DEF TermInv
<1>6. CASE new
  <2>1. /\ role' = "follower" /\ unstable' = <<>> /\ curTerm' = dbHardState.term
        /\ dbHardState' = dbHardState /\ hard_state' = dbHardState
    BY <1>6 DEF new, Adapter!new_with_bootstrap
  <2>2. /\ log' \in Seq(Adapter!Entry) /\ Len(log) <= Len(log') /\ Len(log') \in Nat
        /\ \A i \in 1..Len(log) : log'[i] = log[i]
        /\ DOMAIN log' = 1..Len(log')
    BY <1>6, LogGrows, SeqFacts
  <2>3. /\ \A i, j \in DOMAIN log' : i <= j => log'[i].term <= log'[j].term
        /\ \A i \in DOMAIN log' : log'[i].term \in 1..MaxTerm
        /\ \A i \in DOMAIN log' : i > Len(log) => log'[i].term <= curTerm
    BY <1>6, <2>2, NewTail, ExtendedTerms
  <2>4. ASSUME NEW i \in DOMAIN log'
        PROVE  log'[i].term <= dbHardState.term + 1
    <3>1. log'[i].term \in Nat
      BY <2>3
    <3>2. CASE i > Len(log)
      BY <1>2, <1>3, <2>3, <3>1, <3>2
    <3>3. CASE i <= Len(log)
      <4>1. i \in DOMAIN log /\ log'[i] = log[i]
        BY <1>2, <2>2, <3>3
      <4>2. log'[i].term <= IF role = "leader" THEN curTerm ELSE curTerm + 1
        BY <1>3, <4>1 DEF StoredTerms
      <4> QED BY <1>2, <1>3, <3>1, <4>2
    <3> QED BY <1>2, <2>2, <3>2, <3>3
  <2>5. StoredTerms'
    BY <2>1, <2>3, <2>4 DEF StoredTerms
  <2>6. UnstableTerms'
    BY <1>1, <2>1 DEF UnstableTerms
  <2> QED BY <1>2, <1>3, <1>4, <2>1, <2>5, <2>6
<1>7. CASE Crash
  <2>1. /\ UNCHANGED <<log, unstable, offset, role, curTerm, dbHardState>>
        /\ hard_state'.commit = 0 /\ hard_state'.term = 0
    BY <1>7 DEF Crash, rawVars, Adapter!Crash, Adapter!dbVars, Adapter!DefaultHardState
  <2> QED BY <1>0, <1>2, <2>1 DEF TermInv
<1>8. CASE TickCampaign
  <2>1. /\ role = "follower" /\ role' = "leader" /\ curTerm' = curTerm + 1
        /\ UNCHANGED <<log, offset, dbHardState, hard_state>>
    BY <1>8 DEF TickCampaign, adapterVars
  <2>2. \A i \in DOMAIN log : log[i].term <= curTerm + 1
    BY <1>3, <2>1 DEF StoredTerms
  <2>3. /\ Len(unstable) = 0 /\ unstable' \in Seq(Adapter!Entry) /\ Len(unstable') = 1
        /\ unstable'[1].term = curTerm + 1
    BY <1>8, CampaignEffect
  <2>4. UnstableTerms'
    <3>1. /\ Len(unstable') = Len(unstable) + 1 /\ unstable'[Len(unstable) + 1].term = curTerm'
          /\ \A k \in 1..Len(unstable) : unstable'[k] = unstable[k]
      BY <2>1, <2>3
    <3>2. curTerm' \in Nat /\ curTerm' >= curTerm
      BY <1>2, <2>1
    <3> QED BY <2>1, <2>2, <2>3, <3>1, <3>2, UnstableGrows
  <2>5. StoredTerms'
    BY <1>3, <2>1, <2>2 DEF StoredTerms
  <2>6. /\ curTerm' >= 1 /\ dbHardState'.term = curTerm' - 1 /\ hard_state'.term <= curTerm'
        /\ dbHardState' = dbHardState /\ hard_state' = hard_state
    <3>1. hard_state.term \in Nat
      BY NodeAssumption
         DEF Inv, TypeOK, Adapter!TypeOK, Adapter!HardState, Adapter!Term, NodeAssumption
    <3> QED BY <1>2, <1>3, <2>1, <3>1
  <2> QED BY <1>3, <1>4, <2>1, <2>4, <2>5, <2>6
<1>9. CASE AppendEntries
  <2>1. UNCHANGED <<unstable, offset, role, curTerm, dbHardState, hard_state>>
    BY <1>9 DEF AppendEntries, rawVars, Adapter!append_entries, Adapter!PutEntry,
                Adapter!PushEntries, Adapter!dbVars, Adapter!memVars
  <2>2. CASE UNCHANGED log
    BY <1>5, <2>1, <2>2
  <2>3. CASE Adapter!PushEntries
    <3>1. /\ Pushed = 0 /\ Len(log') = Len(log) + Len(batch) /\ log' \in Seq(Adapter!Entry)
          /\ \A i \in 1..Len(log) : log'[i] = log[i]
          /\ \A k \in 1..Len(batch) : log'[Len(log) + k] = batch[k]
          /\ Starts(batch, unstable)
      BY <2>3, PushEffect
    <3>2. /\ Len(batch) \in Nat /\ Len(log) = offset - 1 /\ Len(batch) <= Len(unstable)
          /\ \A k \in 1..Len(batch) : k \in DOMAIN unstable /\ batch[k] = unstable[k]
      <4>1. Len(batch) <= Len(unstable) /\ \A k \in 1..Len(batch) : batch[k] = unstable[k]
        BY <3>1 DEF Starts
      <4> QED BY <3>1, <4>1, Lens DEF Pushed
    <3>3. /\ Len(log) <= Len(log') /\ Len(log') - Len(log) = Len(batch)
          /\ Len(log') > Len(log) => Pushed = 0
      BY <1>2, <3>1, <3>2
    <3>4. \A k \in 1..(Len(log') - Len(log)) :
            k \in DOMAIN unstable /\ log'[Len(log) + k] = unstable[k]
      BY <3>1, <3>2, <3>3
    <3>5. /\ \A i, j \in DOMAIN log' : i <= j => log'[i].term <= log'[j].term
          /\ \A i \in DOMAIN log' : log'[i].term \in 1..MaxTerm
          /\ \A i \in DOMAIN log' : i > Len(log) => log'[i].term <= curTerm
      BY <3>1, <3>3, <3>4, ExtendedTerms
    <3>6. DOMAIN log' = 1..Len(log') /\ Len(log') \in Nat
      BY <3>1, SeqFacts
    <3>7. \A i \in DOMAIN log' : i <= Len(log) => i \in DOMAIN log /\ log'[i] = log[i]
      BY <1>2, <3>1, <3>6
    <3>8. StoredTerms'
      <4>1. ASSUME NEW i \in DOMAIN log'
            PROVE  log'[i].term <= IF role = "leader" THEN curTerm ELSE curTerm + 1
        <5>1. log'[i].term \in Nat
          BY <3>5
        <5>2. CASE i > Len(log)
          BY <1>2, <3>5, <5>1, <5>2
        <5>3. CASE i <= Len(log)
          BY <1>3, <3>7, <5>3 DEF StoredTerms
        <5> QED BY <1>2, <3>6, <5>2, <5>3
      <4> QED BY <2>1, <3>5, <4>1 DEF StoredTerms
    <3>9. UnstableTerms'
      <4>1. \A i \in DOMAIN log' : i < offset => i \in DOMAIN log /\ log'[i] = log[i]
        BY <1>2, <3>2, <3>6, <3>7
      <4> QED BY <1>3, <2>1, <4>1 DEF UnstableTerms
    <3> QED BY <1>3, <1>4, <2>1, <3>8, <3>9
  <2> QED BY <1>9, <2>2, <2>3 DEF AppendEntries, Adapter!append_entries, Adapter!PutEntry
<1>10. CASE SaveHardState
  <2>1. UNCHANGED <<log, unstable, offset, role, curTerm>> /\ loop = "hard_state"
    BY <1>10 DEF SaveHardState, rawVars, Adapter!save_hard_state, Adapter!PutHardState,
                 Adapter!CacheHardState
  <2>2. CASE UNCHANGED <<dbHardState, hard_state>>
    BY <1>5, <2>1, <2>2
  <2>3. CASE Adapter!PutHardState \/ Adapter!CacheHardState
    <3>1. newHs = ready.hs /\ newHs # prevHs /\ ready.hs = HardStateNow
      BY <2>1, <2>3 DEF Adapter!PutHardState, Adapter!CacheHardState, Inv, CallInv, RawInv,
                        Persisting
    <3>2. newHs = HardStateNow /\ committed = 0
      BY <3>1 DEF Inv, RawInv
    <3>3. newHs.term = curTerm /\ newHs.vote = Own(curTerm) /\ newHs.commit = 0
      BY <3>2 DEF HardStateNow, Own
    <3>4. \/ dbHardState' = newHs /\ hard_state' = hard_state
          \/ dbHardState' = dbHardState /\ hard_state' = newHs
      BY <2>3 DEF Adapter!PutHardState, Adapter!CacheHardState, Adapter!dbVars, Adapter!memVars
    <3>5. StoredTerms' /\ UnstableTerms'
      BY <1>3, <2>1 DEF StoredTerms, UnstableTerms
    <3> QED BY <1>2, <1>3, <1>4, <2>1, <3>3, <3>4, <3>5
  <2> QED BY <1>10, <2>2, <2>3
          DEF SaveHardState, Adapter!save_hard_state, Adapter!dbVars, Adapter!memVars
<1>11. CASE Advance
  <2>1. UNCHANGED <<log, role, curTerm, dbHardState, hard_state>>
    BY <1>11 DEF Advance, adapterVars
  <2>2. UNCHANGED <<unstable, offset>> \/ unstable' = <<>>
    BY <1>11, AdvanceEffect
  <2>3. CASE unstable' = <<>>
    BY <1>0, <1>1, <2>1, <2>3 DEF TermInv
  <2> QED BY <1>5, <2>1, <2>2, <2>3
<1>12. ASSUME NEW c \in Client, Request(c)
       PROVE  TermInv'
  <2>1. UNCHANGED <<log, offset, role, curTerm, dbHardState, hard_state>>
    BY <1>12, HandlerKeeps DEF adapterVars
  <2>2. CASE Submit(c)
    <3>1. /\ role = "leader" /\ Len(unstable') = Len(unstable) + 1
          /\ unstable' \in Seq(Adapter!Entry)
          /\ \A k \in 1..Len(unstable) : unstable'[k] = unstable[k]
          /\ unstable'[Len(unstable) + 1].term = curTerm
      BY <2>2, SubmitEffect
    <3>2. \A i \in DOMAIN log : log[i].term <= curTerm
      BY <1>3, <3>1 DEF StoredTerms
    <3>3. curTerm' = curTerm /\ curTerm' >= curTerm
      BY <1>2, <2>1
    <3>4. UnstableTerms'
      BY <1>2, <2>1, <3>1, <3>2, <3>3, UnstableGrows
    <3>5. StoredTerms'
      BY <1>3, <2>1 DEF StoredTerms
    <3> QED BY <1>3, <1>4, <2>1, <3>4, <3>5
  <2> QED BY <1>5, <1>12, <2>1, <2>2, HandlerKeeps
<1>13. CASE TakeReady \/ PersistFails \/ Minor
  <2>1. UNCHANGED <<log, unstable, offset, role, curTerm, dbHardState, hard_state>>
    BY <1>13, MinorKeeps DEF TakeReady, PersistFails, Adapter!PutFails, adapterVars, rawVars,
              Adapter!dbVars, Adapter!memVars
  <2> QED BY <1>5, <2>1
<1> QED BY <1>6, <1>7, <1>8, <1>9, <1>10, <1>11, <1>12, <1>13, NextCases

-----------------------------------------------------------------------------
(* What is left to apply *)

LEMMA TailFacts ==
  ASSUME NEW s \in Seq(Adapter!Entry), s # <<>>
  PROVE  /\ Tail(s) \in Seq(Adapter!Entry) /\ Len(Tail(s)) = Len(s) - 1
         /\ \A k \in 1..(Len(s) - 1) : Tail(s)[k] = s[k + 1]
         /\ Len(s) >= 1 /\ (Tail(s) = <<>> <=> Len(s) = 1)
<1>1. Len(s) \in Nat /\ Len(s) # 0
  BY SeqFacts
<1>2. /\ Tail(s) \in Seq(Adapter!Entry) /\ Len(Tail(s)) = Len(s) - 1
      /\ \A k \in 1..(Len(s) - 1) : Tail(s)[k] = s[k + 1]
  OBVIOUS
<1>3. Tail(s) = <<>> <=> Len(Tail(s)) = 0
  BY <1>2, SeqFacts
<1> QED BY <1>1, <1>2, <1>3

LEMMA AppliedFacts ==
  ASSUME Inv
  PROVE  /\ passed \in Nat /\ maxPassed \in Nat /\ loaded \in Nat
         /\ passed <= maxPassed /\ maxPassed <= Len(log)
         /\ handed \in Nat /\ handed <= Len(log)
<1>1. passed \in Nat /\ maxPassed \in Nat /\ loaded \in Nat /\ handed \in Nat
  BY NodeAssumption DEF Inv, TypeOK, NodeAssumption
<1>2. handed < offset /\ Pushed \in 0..Len(unstable)
  BY DEF Inv, RawInv
<1>3. handed <= Len(log)
  BY <1>1, <1>2, Lens DEF Pushed
<1> QED BY <1>1, <1>3 DEF Inv, QueueInv

\* The rest of the queue, after its head was skipped or notified.
LEMMA RestFollows ==
  ASSUME Inv, loop \in {"apply", "notify"}, UNCHANGED <<log, handed>>,
         queue' = Tail(queue), loop' = AfterHead,
         loop = "apply" => passed' = passed + 1,
         loop = "notify" => passed' = passed,
         passed' <= maxPassed' /\ maxPassed' <= Len(log)
  PROVE  QueueInv'
<1>1. /\ queue # <<>> /\ Len(queue) = handed - passed' + 1
      /\ \A k \in DOMAIN queue : queue[k] = log[passed' + k - 1]
  <2>1. CASE loop = "apply"
    <3>1. /\ queue # <<>> /\ Len(queue) = handed - passed /\ passed' = passed + 1
          /\ \A k \in DOMAIN queue : queue[k] = log[passed + k]
      BY <2>1 DEF Inv, QueueInv
    <3>2. \A k \in DOMAIN queue : passed + k = passed' + k - 1
      BY <3>1, AppliedFacts, Lens
    <3> QED BY <3>1, <3>2, AppliedFacts
  <2>2. CASE loop = "notify"
    BY <2>2 DEF Inv, QueueInv
  <2> QED BY <2>1, <2>2
<1>2. /\ Len(queue') = Len(queue) - 1 /\ Len(queue) >= 1 /\ (queue' = <<>> <=> Len(queue) = 1)
      /\ queue' \in Seq(Adapter!Entry)
      /\ \A k \in 1..(Len(queue) - 1) : queue'[k] = queue[k + 1]
  BY <1>1, Facts, TailFacts
<1>3. passed' \in Nat
  BY AppliedFacts
<1>4. /\ DOMAIN queue' = 1..(Len(queue) - 1) /\ Len(queue) \in Nat /\ DOMAIN queue = 1..Len(queue)
  BY <1>2, SeqFacts, Lens
<1>5. Len(queue') = handed - passed' /\ \A k \in DOMAIN queue' : queue'[k] = log[passed' + k]
  <2>1. ASSUME NEW k \in DOMAIN queue'
        PROVE  queue'[k] = log[passed' + k]
    <3>1. k \in 1..(Len(queue) - 1) /\ k + 1 \in DOMAIN queue /\ passed' + (k + 1) - 1 = passed' + k
      BY <1>3, <1>4, <2>1
    <3> QED BY <1>1, <1>2, <3>1
  <2> QED BY <1>1, <1>2, <1>3, <2>1, AppliedFacts
<1>6. loop' = IF queue' = <<>> THEN "tick" ELSE "apply"
  BY <1>2 DEF AfterHead
<1>7. queue' = <<>> => passed' = handed
  BY <1>1, <1>2, <1>3, AppliedFacts
<1> QED BY <1>5, <1>6, <1>7 DEF QueueInv

LEMMA QueueStep ==
  ASSUME Inv, Next
  PROVE  QueueInv'
<1>0. QueueInv
  BY DEF Inv
<1>1. /\ Len(log) <= Len(log') /\ Len(log') \in Nat /\ Len(log) \in Nat
      /\ \A i \in 1..Len(log) : log'[i] = log[i]
  BY LogGrows, Lens, SeqFacts
<1>2. maxPassed <= Len(log')
  BY <1>1, AppliedFacts
<1>3. CASE UNCHANGED <<queue, passed, maxPassed, handed, loop, log>>
  BY <1>0, <1>3 DEF QueueInv
<1>4. CASE /\ UNCHANGED <<passed, maxPassed, handed>> /\ queue' = <<>>
           /\ loop \notin {"apply", "notify"} /\ loop' \notin {"apply", "notify"}
  BY <1>0, <1>2, <1>4 DEF QueueInv
<1>5. loop \notin {"apply", "notify"} => queue = <<>> /\ passed = handed
  BY <1>0 DEF QueueInv
<1>6. CASE new
  <2>1. loop' = "tick" /\ queue' = <<>> /\ passed' = 0 /\ handed' = 0 /\ maxPassed' = maxPassed
    BY <1>6 DEF new
  <2> QED BY <1>2, <2>1, AppliedFacts DEF QueueInv
<1>7. CASE Crash
  BY <1>3, <1>7 DEF Crash, Adapter!Crash, rawVars, loopVars, applyVars
<1>8. CASE TickCampaign
  BY <1>4, <1>5, <1>8 DEF TickCampaign, Idle, applyVars
<1>9. CASE TakeReady
  <2>1. handed = committed /\ ~(handed < committed)
    BY Facts
  <2>2. /\ queue' = Committed(handed, committed) /\ handed' = committed
        /\ loop = "ready" /\ loop' \in {"append", "hard_state"}
        /\ UNCHANGED <<passed, maxPassed>>
    BY <1>9 DEF TakeReady, applyVars
  <2> QED BY <1>4, <2>1, <2>2 DEF Committed
<1>10. CASE AppendEntries
  BY <1>4, <1>5, <1>10 DEF AppendEntries, rawVars, applyVars
<1>11. CASE SaveHardState
  BY <1>4, <1>5, <1>11 DEF SaveHardState, rawVars, applyVars
<1>12. CASE PersistFails
  <2>1. loop \notin {"apply", "notify"}
    BY <1>12, IdlePhase DEF PersistFails, Adapter!PutFails
  <2> QED BY <1>4, <1>12, <2>1 DEF PersistFails, rawVars, applyVars
<1>13. CASE Advance
  <2>1. /\ loop \in {"hard_state", "advance"} /\ committed <= committed' /\ committed' \in 0..Len(log)
        /\ handed' = committed' /\ queue' \in Seq(Adapter!Entry)
        /\ Len(queue') = committed' - committed
        /\ \A k \in 1..Len(queue') : queue'[k] = log[committed + k]
    BY <1>13, AdvanceEffect
  <2>2. /\ UNCHANGED <<log, passed, maxPassed>>
        /\ loop' = IF queue' = <<>> THEN "tick" ELSE "apply"
    BY <1>13 DEF Advance, adapterVars, applyVars
  <2>3. passed = committed /\ DOMAIN queue' = 1..Len(queue') /\ (queue' = <<>> <=> Len(queue') = 0)
    BY <1>5, <2>1, SeqFacts, Facts
  <2>4. queue' = <<>> => passed = handed'
    BY <2>1, <2>3, Lens
  <2> QED BY <1>0, <2>1, <2>2, <2>3, <2>4 DEF QueueInv
<1>14. CASE TickQuiet \/ NoReady \/ TakeReadyPanics \/ AdvanceDies
  BY <1>4, <1>5, <1>14
     DEF TickQuiet, NoReady, TakeReadyPanics, AdvanceDies, Idle, Advancing, rawVars, applyVars
<1>15. CASE SkipEntry
  <2>1. UNCHANGED <<log, handed>> /\ queue' = Tail(queue) /\ loop' = AfterHead /\ loop = "apply"
    BY <1>15 DEF SkipEntry, Applying, adapterVars, rawVars
  <2>2. passed' = passed + 1 /\ passed' <= maxPassed' /\ maxPassed' <= Len(log)
    BY <1>15, NextApplied, AppliedFacts
  <2> QED BY <2>1, <2>2, RestFollows
<1>16. CASE Apply \/ ApplyFails
  <2>1. UNCHANGED <<log, handed, queue>> /\ loop' = "notify" /\ loop = "apply"
        /\ Head(queue).data.by # NoClient
    BY <1>16 DEF Apply, ApplyFails, Applying, adapterVars, rawVars
  <2>2. /\ passed' = passed + 1 /\ passed' <= maxPassed' /\ maxPassed' <= Len(log)
        /\ Head(queue) = queue[1] /\ passed' \in Nat /\ passed' >= 1
    BY <1>16, NextApplied, AppliedFacts
  <2>3. queue # <<>> /\ Len(queue) = handed - passed /\ \A k \in DOMAIN queue : queue[k] = log[passed + k]
    BY <1>0, <2>1 DEF QueueInv
  <2>4. \A k \in DOMAIN queue : passed + k = passed' + k - 1
    BY <2>2, AppliedFacts, Lens
  <2>5. Len(queue) = handed - passed' + 1
    BY <2>2, <2>3, AppliedFacts
  <2> QED BY <2>1, <2>2, <2>3, <2>4, <2>5 DEF QueueInv
<1>17. CASE Notify
  <2>1. /\ UNCHANGED <<log, handed, passed, maxPassed>> /\ queue' = Tail(queue)
        /\ loop' = AfterHead /\ loop = "notify"
    BY <1>17 DEF Notify, adapterVars, rawVars, applyVars
  <2> QED BY <2>1, AppliedFacts, RestFollows
<1>18. ASSUME NEW c \in Client, Request(c)
       PROVE  QueueInv'
  BY <1>3, <1>18, HandlerKeeps DEF adapterVars, loopVars, applyVars
<1> QED BY <1>6, <1>7, <1>8, <1>9, <1>10, <1>11, <1>12, <1>13, <1>14, <1>15, <1>16, <1>17, <1>18,
           NextCases DEF Minor

-----------------------------------------------------------------------------
(* The proposal ids *)

LEMMA MadeFacts ==
  ASSUME Inv
  PROVE  /\ \A c \in Client : HasId(c) => id[c] \in 1..proposal_index
         /\ \A c, d \in Client : HasId(c) /\ HasId(d) /\ id[c] = id[d] => c = d
         /\ \A e \in Adapter!Entry : Made(e) /\ e.data.by # NoClient =>
              e.data.ctx = id[e.data.by] /\ pc[e.data.by] \notin Early
         /\ \A c \in Client : c # NoClient
         /\ \A e \in Adapter!Entry : e.data.by # NoClient => e.data.by \in Client
         /\ proposal_index \in Nat
BY EntryFacts, NodeAssumption DEF Inv, IdInv, NodeAssumption, TypeOK

\* Only an election and a proposal make an entry.
LEMMA MadeBefore ==
  ASSUME Inv, Next, NEW e \in Adapter!Entry, Made(e)', ~Made(e)
  PROVE  TickCampaign \/ \E c \in Client : Submit(c)
<1>1. CASE UNCHANGED <<log, loaded>> /\ (unstable' = unstable \/ unstable' = <<>>)
  <2>1. DOMAIN <<>> = {}
    BY EmptySeq
  <2> QED BY <1>1, <2>1 DEF Made
<1>2. CASE new
  <2>1. unstable' = <<>> /\ loaded' = Len(entries') /\ entries' = log'
    BY <1>2, NewEffect DEF new
  <2>2. DOMAIN unstable' = {} /\ DOMAIN log' = 1..Len(log') /\ Len(log') \in Nat
    BY <2>1, LogGrows, SeqFacts, EmptySeq
  <2> QED BY <2>1, <2>2 DEF Made
<1>3. CASE Crash
  BY <1>1, <1>3 DEF Crash, Adapter!Crash, rawVars
<1>4. CASE TakeReady
  BY <1>1, <1>4 DEF TakeReady, adapterVars, envVars
<1>5. CASE AppendEntries
  <2>1. unstable' = unstable /\ loaded' = loaded
    BY <1>5 DEF AppendEntries, rawVars, envVars
  <2>2. CASE UNCHANGED log
    BY <1>1, <2>1, <2>2
  <2>3. CASE Adapter!PushEntries
    <3>1. /\ log' \in Seq(Adapter!Entry) /\ Len(log') = Len(log) + Len(batch)
          /\ \A i \in 1..Len(log) : log'[i] = log[i]
          /\ \A k \in 1..Len(batch) : log'[Len(log) + k] = batch[k]
          /\ Starts(batch, unstable)
      BY <2>3, PushEffect
    <3>2. \A k \in 1..Len(batch) : k \in DOMAIN unstable /\ batch[k] = unstable[k]
      <4>1. Len(batch) <= Len(unstable) /\ \A k \in 1..Len(batch) : batch[k] = unstable[k]
        BY <3>1 DEF Starts
      <4> QED BY <4>1, Lens
    <3>3. ASSUME NEW i \in DOMAIN log', i > loaded, log'[i] = e
          PROVE  Made(e)
      <4>1. i \in 1..Len(log')
        BY <3>1, <3>3, SeqFacts
      <4>2. CASE i \in 1..Len(log)
        BY <3>1, <3>3, <4>2, Lens DEF Made
      <4>3. CASE i \notin 1..Len(log)
        <5>1. i - Len(log) \in 1..Len(batch) /\ i = Len(log) + (i - Len(log))
          BY <3>1, <4>1, <4>3, Lens
        <5>2. i - Len(log) \in DOMAIN unstable /\ e = unstable[i - Len(log)]
          BY <3>1, <3>2, <3>3, <5>1
        <5> QED BY <5>2 DEF Made
      <4> QED BY <4>2, <4>3
    <3> QED BY <2>1, <3>3 DEF Made
  <2> QED BY <1>5, <2>2, <2>3 DEF AppendEntries, Adapter!append_entries, Adapter!PutEntry
<1>6. CASE SaveHardState
  BY <1>1, <1>6 DEF SaveHardState, rawVars, envVars, Adapter!save_hard_state,
                    Adapter!PutHardState, Adapter!CacheHardState
<1>7. CASE PersistFails
  BY <1>1, <1>7 DEF PersistFails, rawVars, Adapter!PutFails
<1>8. CASE Advance
  <2>1. unstable' = unstable \/ unstable' = <<>>
    BY <1>8, AdvanceEffect
  <2> QED BY <1>1, <1>8, <2>1 DEF Advance, adapterVars, envVars
<1>9. CASE Minor
  <2>1. loaded' = loaded
    BY <1>9 DEF Minor, TickQuiet, NoReady, TakeReadyPanics, AdvanceDies, SkipEntry, Apply,
                ApplyFails, Notify, envVars
  <2> QED BY <1>1, <1>9, <2>1, MinorKeeps DEF adapterVars, rawVars
<1>10. ASSUME NEW c \in Client, Request(c)
       PROVE  TickCampaign \/ \E d \in Client : Submit(d)
  BY <1>1, <1>10, HandlerKeeps DEF adapterVars, envVars
<1> QED BY <1>2, <1>3, <1>4, <1>5, <1>6, <1>7, <1>8, <1>9, <1>10, NextCases

\* A proposal gets into pending_proposals with the id its handler has taken.
LEMMA PendingBefore ==
  ASSUME Inv, Next, NEW c \in Client, InPending(c)'
  PROVE  HasId(c)
<1>1. CASE pending' \subseteq pending
  BY <1>1 DEF InPending, HasId
<1>2. CASE new
  BY <1>2 DEF new, InPending
<1>3. CASE Notify
  BY <1>1, <1>3 DEF Notify
<1>4. ASSUME NEW d \in Client, NextId(d) \/ Register(d) \/ Timeout(d)
      PROVE  HasId(c)
  <2>1. CASE NextId(d)
    BY <1>1, <2>1 DEF NextId
  <2>2. CASE Timeout(d)
    BY <1>1, <2>2 DEF Timeout
  <2>3. CASE Register(d)
    <3>1. /\ pc[d] = "numbered"
          /\ pending' = {p \in pending : p.id # id[d]} \cup {[id |-> id[d], client |-> d]}
      BY <2>3 DEF Register, Moves
    <3>2. PICK p \in pending' : p.client = c
      BY DEF InPending
    <3>3. CASE p \in pending
      BY <3>2, <3>3 DEF InPending, HasId
    <3>4. CASE p \notin pending
      BY <3>1, <3>2, <3>4 DEF HasId, UsesId
    <3> QED BY <3>3, <3>4
  <2> QED BY <1>4, <2>1, <2>2, <2>3
<1>5. CASE UNCHANGED propVars
  BY <1>1, <1>5 DEF propVars
<1> QED BY <1>2, <1>3, <1>4, <1>5, PropSteps

\* A step that makes no entry of a request and gives out no id.
LEMMA IdsKept ==
  ASSUME Inv, Next, id' = id, proposal_index' = proposal_index,
         \A e \in Adapter!Entry : Made(e)' => Made(e) \/ e.data.by = NoClient,
         \A c \in Client : pc'[c] \in UsesId => pc[c] \in UsesId,
         \A c \in Client : pc[c] \notin Early => pc'[c] \notin Early
  PROVE  IdInv'
<1>1. \A c \in Client : HasId(c)' => HasId(c)
  <2>1. \A c \in Client : InPending(c)' => HasId(c)
    BY PendingBefore
  <2> QED BY <2>1, MadeFacts DEF HasId
<1>2. \A c \in Client : HasId(c)' => id'[c] \in 1..proposal_index'
  BY <1>1, MadeFacts
<1>3. \A c, d \in Client : HasId(c)' /\ HasId(d)' /\ id'[c] = id'[d] => c = d
  BY <1>1, MadeFacts
<1>4. \A e \in Adapter!Entry : Made(e)' /\ e.data.by # NoClient =>
        e.data.ctx = id'[e.data.by] /\ pc'[e.data.by] \notin Early
  BY MadeFacts
<1> QED BY <1>2, <1>3, <1>4 DEF IdInv, Early

LEMMA HandlerIds ==
  ASSUME Inv, Next, NEW c \in Client, Request(c)
  PROVE  IdInv'
<1>0. /\ pc \in [Client -> Outcomes \cup {"start", "exists", "leader", "numbered", "registered", "wait"}]
      /\ id \in [Client -> Nat]
  BY DEF Inv, TypeOK
<1>1. CASE ~Submit(c) /\ ~NextId(c)
  <2>1. id' = id /\ proposal_index' = proposal_index /\ \A d \in Client : d # c => pc'[d] = pc[d]
    BY <1>0, <1>1 DEF Request, Handler, Disconnect, CheckExists, CheckLeader, Register, Reply, Timeout, Moves, propVars
  <2>2. \A e \in Adapter!Entry : Made(e)' => Made(e)
    <3>1. UNCHANGED <<log, loaded, unstable>>
      BY <1>1, HandlerKeeps DEF adapterVars, envVars
    <3> QED BY <3>1 DEF Made
  <2>3. pc'[c] \in UsesId => pc[c] \in UsesId
    <3>1. answer[c] \in {"none", "ok", "failed"}
      BY DEF Inv, TypeOK
    <3> QED BY <1>0, <1>1, <3>1
            DEF Request, Handler, Disconnect, CheckExists, CheckLeader, Register, Reply, Timeout, Moves, UsesId
  <2>4. pc[c] \notin Early => pc'[c] \notin Early
    <3>1. answer[c] \in {"none", "ok", "failed"}
      BY DEF Inv, TypeOK
    <3> QED BY <1>0, <1>1, <3>1
            DEF Request, Handler, Disconnect, CheckExists, CheckLeader, Register, Reply, Timeout, Moves, Early
  <2>5. /\ \A d \in Client : pc'[d] \in UsesId => pc[d] \in UsesId
        /\ \A d \in Client : pc[d] \notin Early => pc'[d] \notin Early
    BY <2>1, <2>3, <2>4
  <2> QED BY <2>1, <2>2, <2>5, IdsKept
<1>2. CASE Submit(c)
  <2>1. /\ pc[c] = "registered" /\ pc' = [pc EXCEPT ![c] = "wait"]
        /\ unstable' \in Seq(Adapter!Entry) /\ Len(unstable') = Len(unstable) + 1
        /\ \A k \in 1..Len(unstable) : unstable'[k] = unstable[k]
        /\ unstable'[Len(unstable) + 1].data = [by |-> c, ctx |-> id[c]]
    BY <1>2, SubmitEffect
  <2>2. UNCHANGED <<log, loaded, id, proposal_index>>
    BY <1>2 DEF Submit, adapterVars, envVars, propVars
  <2>3. \A e \in Adapter!Entry : Made(e)' => Made(e) \/ e.data = [by |-> c, ctx |-> id[c]]
    <3>1. \A k \in DOMAIN unstable' : k \in DOMAIN unstable \/ k = Len(unstable) + 1
      BY <2>1, SeqFacts, Lens
    <3>2. \A k \in DOMAIN unstable : unstable'[k] = unstable[k]
      BY <2>1, Lens
    <3> QED BY <2>1, <2>2, <3>1, <3>2 DEF Made
  <2>4. pc'[c] = "wait" /\ \A d \in Client : d # c => pc'[d] = pc[d]
    BY <1>0, <2>1
  <2>5. \A d \in Client : HasId(d)' => HasId(d)
    <3>1. HasId(c)
      BY <2>1 DEF HasId, UsesId
    <3>2. \A d \in Client : InPending(d)' => HasId(d)
      BY PendingBefore
    <3> QED BY <2>3, <2>4, <3>1, <3>2 DEF HasId, UsesId
  <2>6. \A e \in Adapter!Entry : Made(e)' /\ e.data.by # NoClient =>
          e.data.ctx = id[e.data.by] /\ pc'[e.data.by] \notin Early
    <3>1. TAKE e \in Adapter!Entry
    <3>2. CASE e.data = [by |-> c, ctx |-> id[c]]
      BY <2>4, <3>2 DEF Early
    <3>3. CASE Made(e) /\ e.data.by # NoClient
      BY <2>1, <2>4, <3>3, MadeFacts DEF Early
    <3> QED BY <2>3, <3>2, <3>3
  <2> QED BY <2>2, <2>5, <2>6, MadeFacts DEF IdInv, Early
<1>3. CASE NextId(c)
  <2>1. /\ pc[c] = "leader" /\ pc' = [pc EXCEPT ![c] = "numbered"]
        /\ proposal_index' = proposal_index + 1 /\ id' = [id EXCEPT ![c] = proposal_index + 1]
        /\ UNCHANGED <<log, loaded, unstable>>
    BY <1>3 DEF NextId, Moves, adapterVars, rawVars, envVars
  <2>2. \A e \in Adapter!Entry : Made(e)' <=> Made(e)
    BY <2>1 DEF Made
  <2>3. \A e \in Adapter!Entry : Made(e) => e.data.by # c
    BY <2>1, MadeFacts DEF Early
  <2>4. /\ id'[c] = proposal_index + 1 /\ pc'[c] = "numbered"
        /\ \A d \in Client : d # c => id'[d] = id[d] /\ pc'[d] = pc[d]
    BY <1>0, <2>1
  <2>5. \A d \in Client : d # c /\ HasId(d)' => id'[d] \in 1..proposal_index /\ HasId(d)
    <3>1. \A d \in Client : InPending(d)' => HasId(d)
      BY PendingBefore
    <3>2. \A d \in Client : d # c /\ HasId(d)' => HasId(d)
      BY <2>2, <2>4, <3>1 DEF HasId
    <3> QED BY <2>4, <3>2, MadeFacts
  <2>6. \A d \in Client : HasId(d)' => id'[d] \in 1..(proposal_index + 1)
    BY <2>4, <2>5, MadeFacts
  <2>7. ASSUME NEW d1 \in Client, NEW d2 \in Client, HasId(d1)', HasId(d2)', id'[d1] = id'[d2]
        PROVE  d1 = d2
    <3>1. CASE d1 # c /\ d2 # c
      BY <2>4, <2>5, <2>7, <3>1, MadeFacts
    <3>2. CASE d1 = c \/ d2 = c
      BY <2>4, <2>5, <2>7, <3>2, MadeFacts
    <3> QED BY <3>1, <3>2
  <2>8. \A e \in Adapter!Entry : Made(e)' /\ e.data.by # NoClient =>
          e.data.ctx = id'[e.data.by] /\ pc'[e.data.by] \notin Early
    BY <2>2, <2>3, <2>4, MadeFacts
  <2> QED BY <2>1, <2>6, <2>7, <2>8 DEF IdInv, Early
<1> QED BY <1>1, <1>2, <1>3

LEMMA IdStep ==
  ASSUME Inv, Next
  PROVE  IdInv'
<1>0. pc \in [Client -> Outcomes \cup {"start", "exists", "leader", "numbered", "registered", "wait"}]
  BY DEF Inv, TypeOK
<1>1. CASE new
  <2>1. /\ unstable' = <<>> /\ loaded' = Len(log') /\ pc' = pc /\ ~open
    BY <1>1, NewEffect DEF new, Adapter!new_with_bootstrap, clientVars
  <2>2. DOMAIN unstable' = {} /\ DOMAIN log' = 1..Len(log') /\ Len(log') \in Nat
    BY <2>1, LogGrows, SeqFacts, EmptySeq
  <2>3. \A e \in Adapter!Entry : ~Made(e)'
    BY <2>1, <2>2 DEF Made
  <2>4. \A c \in Client : ~HasId(c)'
    <3>1. pending' = {}
      BY <1>1 DEF new
    <3> QED BY <2>1, <2>3, <3>1 DEF HasId, InPending, UsesId, Inv, RequestInv, Outcomes
  <2> QED BY <2>3, <2>4 DEF IdInv
<1>2. CASE Crash
  <2>1. \A e \in Adapter!Entry : Made(e)' => Made(e)
    BY <1>2 DEF Crash, Adapter!Crash, rawVars, Made
  <2>2. id' = id /\ proposal_index' = proposal_index
    BY <1>2 DEF Crash, propVars
  <2>3. \A c \in Client : pc'[c] = pc[c] \/ pc'[c] = "broken"
    BY <1>0, <1>2 DEF Crash
  <2>4. /\ \A c \in Client : pc'[c] \in UsesId => pc[c] \in UsesId
        /\ \A c \in Client : pc[c] \notin Early => pc'[c] \notin Early
    BY <2>3 DEF UsesId, Early
  <2> QED BY <2>1, <2>2, <2>4, IdsKept
<1>3. CASE TickCampaign
  <2>1. /\ unstable = <<>> /\ Len(unstable') = 1 /\ unstable' \in Seq(Adapter!Entry)
        /\ unstable'[1].data = Empty
    BY <1>3, CampaignEffect
  <2>2. UNCHANGED <<log, loaded, id, proposal_index, pc>>
    BY <1>3 DEF TickCampaign, adapterVars, envVars, clientVars, propVars
  <2>3. \A e \in Adapter!Entry : Made(e)' => Made(e) \/ e.data.by = NoClient
    <3>1. DOMAIN unstable' = 1..1
      BY <2>1, SeqFacts
    <3> QED BY <2>1, <2>2, <3>1 DEF Made, Empty
  <2> QED BY <2>2, <2>3, IdsKept
<1>4. ASSUME NEW c \in Client, Request(c)
      PROVE  IdInv'
  BY <1>4, HandlerIds
<1>5. CASE /\ TakeReady \/ AppendEntries \/ SaveHardState \/ PersistFails \/ Advance \/ Minor
           /\ ~TickCampaign /\ ~\E c \in Client : Request(c)
  <2>1. UNCHANGED <<id, proposal_index, pc>>
    BY <1>5 DEF TakeReady, AppendEntries, SaveHardState, PersistFails, Advance, Minor, TickQuiet,
                NoReady, TakeReadyPanics, AdvanceDies, SkipEntry, Apply, ApplyFails, Notify,
                clientVars, propVars
  <2>2. \A e \in Adapter!Entry : Made(e)' => Made(e)
    BY <1>5, MadeBefore DEF Request, Handler, Disconnect
  <2> QED BY <2>1, <2>2, IdsKept
<1> QED BY <1>1, <1>2, <1>3, <1>4, <1>5, NextCases

-----------------------------------------------------------------------------
(* The requests and pending_proposals *)

LEMMA PendingFacts ==
  ASSUME Inv, open
  PROVE  /\ \A c \in Client : Waits(c) => Record(c) \in pending
         /\ \A p \in pending : Rightful(p) /\ p = Record(p.client) /\ p.client \in Client
<1>1. PendingInv /\ pending \subseteq [id : Nat, client : Client]
  BY DEF Inv, RequestInv, TypeOK
<1> QED BY <1>1 DEF PendingInv, Rightful, Record

\* Two requests that use an id use different ones, and no one else's record
\* is under it.
LEMMA WaitingIds ==
  ASSUME Inv
  PROVE  /\ \A c, d \in Client : pc[c] \in UsesId /\ pc[d] \in UsesId /\ id[c] = id[d] => c = d
         /\ \A c \in Client : Waits(c) => pc[c] \in UsesId
         /\ \A c \in Client : pc[c] \in UsesId => HasId(c)
         /\ \A p \in pending : HasId(p.client)
<1>1. /\ \A c \in Client : pc[c] \in UsesId => HasId(c)
      /\ \A p \in pending : HasId(p.client)
  BY DEF HasId, InPending
<1> QED BY <1>1, MadeFacts DEF Waits, UsesId

LEMMA RequestFacts ==
  ASSUME Inv
  PROVE  /\ ~open => \A c \in Client : pc[c] \in Outcomes \cup {"start"}
         /\ \A c \in Client :
              /\ pc[c] \in {"leader", "numbered", "registered", "wait"} => role = "leader"
              /\ pc[c] \in {"start", "exists", "leader", "numbered"} => answer[c] = "none"
              /\ pc[c] = "ok" => answer[c] = "ok"
         /\ \A c \in Client : answer[c] \in {"none", "ok", "failed"}
         /\ result \in {"ok", "failed"} /\ DOMAIN answer = Client
         /\ pc \in [Client -> Outcomes \cup {"start", "exists", "leader", "numbered", "registered", "wait"}]
         /\ id \in [Client -> Nat]
BY DEF Inv, RequestInv, TypeOK

\* The entry that is notified is the last one passed.
LEMMA NotifyHead ==
  ASSUME Inv, Notify
  PROVE  /\ open /\ loop = "notify" /\ passed \in Nat /\ passed \in 1..Len(log)
         /\ Head(queue) = log[passed] /\ log[passed] \in Adapter!Entry
         /\ log[passed].data.by # NoClient
         /\ passed > loaded => Made(log[passed])
<1>1. open /\ loop = "notify"
  BY DEF Notify
<1>2. passed >= 1 /\ passed \in Nat /\ passed <= Len(log)
  BY <1>1, AppliedFacts, Lens DEF Inv, QueueInv
<1>3. /\ queue # <<>> /\ queue \in Seq(Adapter!Entry) /\ queue[1].data.by # NoClient
      /\ \A k \in DOMAIN queue : queue[k] = log[passed + k - 1]
  BY <1>1, Facts DEF Inv, QueueInv
<1>4. Head(queue) = queue[1] /\ 1 \in DOMAIN queue
  BY <1>3, SeqFacts
<1>5. queue[1] = log[passed] /\ passed \in DOMAIN log /\ passed \in 1..Len(log)
  <2>1. passed + 1 - 1 = passed
    BY <1>2
  <2>2. queue[1] = log[passed + 1 - 1]
    BY <1>3, <1>4
  <2>3. passed \in DOMAIN log /\ passed \in 1..Len(log)
    BY <1>2, Lens
  <2> QED BY <2>1, <2>2, <2>3
<1>6. log[passed] \in Adapter!Entry
  BY <1>5, Facts, SeqFacts
<1>7. passed > loaded => Made(log[passed])
  BY <1>5 DEF Made
<1> QED BY <1>1, <1>2, <1>3, <1>4, <1>5, <1>6, <1>7

\* Only a notification gets the loop through with an entry of a request.
LEMMA PassedLater ==
  ASSUME Inv, Next, open, NEW c \in Client, PassedBy(c)', ~PassedBy(c)
  PROVE  Notify /\ passed > loaded /\ log[passed].data.by = c
<1>1. ~new
  BY DEF new, Adapter!new_with_bootstrap
<1>2. loaded' = loaded
  BY <1>1 DEF Next, Loop, Request, Handler, Disconnect, Crash, TickQuiet, TickCampaign, NoReady,
         TakeReady, TakeReadyPanics, AppendEntries, SaveHardState, PersistFails, Advance,
         AdvanceDies, SkipEntry, Apply, ApplyFails, Notify, CheckExists, CheckLeader, NextId,
         Register, Submit, Reply, Timeout, envVars
<1>3. PICK i \in (loaded' + 1)..passed' :
        log'[i].data.by = c /\ (i < passed' \/ loop' # "notify")
  BY DEF PassedBy
<1>4. loaded \in Nat /\ passed \in Nat /\ passed <= Len(log) /\ Len(log) \in Nat
  BY AppliedFacts, Lens
<1>5. \A k \in 1..Len(log) : log'[k] = log[k]
  BY LogGrows
<1>6. CASE SkipEntry \/ Apply \/ ApplyFails
  <2>1. /\ passed' = passed + 1 /\ loop = "apply" /\ passed + 1 \in 1..Len(log)
        /\ Head(queue) = log[passed + 1]
    BY <1>6, NextApplied
  <2>2. i \in Int /\ i >= loaded + 1 /\ i <= passed + 1
    BY <1>2, <1>3, <1>4, <2>1
  <2>3. CASE i <= passed
    <3>1. i \in (loaded + 1)..passed /\ log'[i] = log[i]
      BY <1>4, <1>5, <2>2, <2>3
    <3> QED BY <1>3, <2>1, <3>1 DEF PassedBy
  <2>4. CASE i = passed + 1
    <3>1. loop' # "notify" /\ log[passed + 1].data.by = c
      BY <1>3, <1>4, <1>5, <2>1, <2>4
    <3>2. SkipEntry
      BY <1>6, <3>1 DEF Apply, ApplyFails
    <3>3. log[passed + 1].data.by = NoClient
      BY <2>1, <3>2 DEF SkipEntry
    <3> QED BY <3>1, <3>3, NodeAssumption DEF NodeAssumption
  <2> QED BY <1>4, <2>2, <2>3, <2>4
<1>7. CASE ~(SkipEntry \/ Apply \/ ApplyFails)
  <2>1. passed' = passed
    BY <1>1, <1>7, ApplySteps DEF applyVars
  <2>2. i \in (loaded + 1)..passed /\ i \in 1..Len(log) /\ log[i].data.by = c
    <3>1. i \in (loaded + 1)..passed
      BY <1>2, <1>3, <2>1
    <3>2. i \in 1..Len(log)
      BY <1>4, <3>1
    <3> QED BY <1>3, <1>5, <3>1, <3>2
  <2>3. i = passed /\ loop = "notify" /\ loop' # "notify"
    <3>1. ~(i < passed \/ loop # "notify")
      BY <2>2 DEF PassedBy
    <3> QED BY <1>3, <1>4, <2>1, <2>2, <3>1
  <2>4. Notify
    <3>1. phase = "idle"
      BY <2>3, IdlePhase
    <3>2. ~PersistFails
      BY <3>1 DEF PersistFails, Adapter!PutFails
    <3> QED BY <1>1, <1>7, <2>3, <3>2, LoopSteps
            DEF TickQuiet, TickCampaign, NoReady, TakeReady, TakeReadyPanics, AppendEntries, Idle,
                SaveHardState, Advance, Advancing, AdvanceDies, loopVars
  <2> QED BY <1>4, <2>2, <2>3, <2>4
<1> QED BY <1>6, <1>7

LEMMA NotifyRequests ==
  ASSUME Inv, Next, Notify
  PROVE  RequestInv'
<1> DEFINE ctx == Head(queue).data.ctx
           hit == {p \in pending : p.id = ctx}
<1>1. /\ open /\ open' = open /\ pc' = pc /\ id' = id /\ role' = role /\ pending' = pending \ hit
      /\ answer' = [c \in Client |-> IF \E p \in hit : p.client = c THEN result ELSE answer[c]]
  BY DEF Notify, adapterVars, rawVars
<1>2. \A p \in pending : /\ p.id = id[p.client] /\ answer[p.client] = "none" /\ p.client \in Client
                         /\ Waits(p.client) \/ pc[p.client] = "broken"
                         /\ ~PassedBy(p.client)
  BY <1>1, PendingFacts DEF Rightful
<1>3. \A c \in Client : answer'[c] = answer[c] \/ \E p \in hit : p.client = c
  BY <1>1
<1>4. ASSUME NEW c \in Client, Waits(c)'
      PROVE  Record(c)' \in pending'
  <2>1. answer'[c] = "none" /\ pc[c] \in {"registered", "wait"}
    BY <1>1, <1>4 DEF Waits
  <2>2. ~\E p \in hit : p.client = c
    BY <1>1, <2>1, RequestFacts
  <2>3. Waits(c) /\ Record(c) \in pending
    BY <1>1, <1>3, <2>1, <2>2, PendingFacts DEF Waits
  <2> QED BY <1>1, <2>2, <2>3 DEF Record
<1>5. ASSUME NEW p \in pending'
      PROVE  Rightful(p)'
  <2>1. p \in pending /\ p.id # ctx
    BY <1>1
  <2>2. answer'[p.client] = answer[p.client]
    <3>1. ~\E q \in hit : q.client = p.client
      BY <1>2, <2>1
    <3> QED BY <1>2, <1>3, <2>1, <3>1
  <2>3. ~PassedBy(p.client)'
    <3>1. SUFFICES ASSUME PassedBy(p.client)'
                   PROVE  FALSE
      OBVIOUS
    <3>2. passed > loaded /\ log[passed].data.by = p.client
      BY <1>1, <1>2, <2>1, <3>1, PassedLater
    <3>3. log[passed].data.ctx = id[p.client]
      BY <1>2, <2>1, <3>2, NotifyHead, MadeFacts
    <3> QED BY <1>2, <2>1, <3>3, NotifyHead
  <2>4. Waits(p.client)' \/ pc'[p.client] = "broken"
    BY <1>1, <1>2, <2>1, <2>2 DEF Waits
  <2> QED BY <1>1, <1>2, <2>1, <2>2, <2>3, <2>4 DEF Rightful
<1>6. PendingInv'
  BY <1>4, <1>5 DEF PendingInv
<1>7. \A c \in Client : /\ pc[c] \in {"start", "exists", "leader", "numbered"} => answer'[c] = "none"
                        /\ pc[c] = "ok" => answer'[c] = "ok"
  <2>1. TAKE c \in Client
  <2>2. CASE pc[c] \in {"start", "exists", "leader", "numbered", "ok"}
    <3>1. ~Waits(c) /\ pc[c] # "broken"
      BY <2>2 DEF Waits
    <3> QED BY <1>2, <1>3, <2>2, <3>1, RequestFacts
  <2> QED BY <2>2
<1> HIDE DEF hit, ctx
<1> QED BY <1>1, <1>6, <1>7, RequestFacts DEF RequestInv

LEMMA HandlerMoves ==
  ASSUME Inv, NEW c \in Client, Request(c)
  PROVE  /\ open /\ open' = open /\ role' = role /\ answer' = answer
         /\ \A d \in Client : d # c => pc'[d] = pc[d]
         /\ \/ /\ pc[c] \in {"start", "exists"} /\ pc'[c] \in {"exists", "missing", "not_leader", "leader"}
               /\ pc'[c] = "leader" => role = "leader"
               /\ UNCHANGED <<id, pending>>
            \/ /\ pc[c] = "leader" /\ pc'[c] = "numbered"
               /\ UNCHANGED pending /\ \A d \in Client : d # c => id'[d] = id[d]
            \/ /\ pc[c] = "numbered" /\ pc'[c] = "registered" /\ id' = id
               /\ pending' = {p \in pending : p.id # id[c]} \cup {Record(c)}
            \/ /\ pc[c] = "registered" /\ pc'[c] = "wait" /\ UNCHANGED <<id, pending>>
            \/ /\ pc[c] = "wait" /\ answer[c] # "none" /\ pc'[c] = answer[c] /\ UNCHANGED <<id, pending>>
            \/ /\ pc[c] = "wait" /\ pc'[c] = "timeout" /\ id' = id
               /\ pending' = {p \in pending : p.id # id[c]}
            \/ /\ pc[c] = "wait" /\ pc'[c] = "broken" /\ UNCHANGED <<id, pending>>
<1>1. open' = open /\ role' = role /\ open
  BY HandlerKeeps DEF adapterVars
<1>2. answer' = answer
  BY DEF Request, Handler, Disconnect, CheckExists, CheckLeader, NextId, Register, Submit, Reply, Timeout
<1>3. \A d \in Client : d # c => pc'[d] = pc[d]
  BY RequestFacts DEF Request, Handler, Disconnect, CheckExists, CheckLeader, NextId, Register, Submit, Reply, Timeout, Moves
<1>4. CASE CheckExists(c)
  BY <1>1, <1>2, <1>3, <1>4, RequestFacts DEF CheckExists, Moves, propVars
<1>5. CASE CheckLeader(c)
  BY <1>1, <1>2, <1>3, <1>5, RequestFacts DEF CheckLeader, Moves, propVars
<1>6. CASE NextId(c)
  BY <1>1, <1>2, <1>3, <1>6, RequestFacts DEF NextId, Moves
<1>7. CASE Register(c)
  BY <1>1, <1>2, <1>3, <1>7, RequestFacts DEF Register, Moves, Record
<1>8. CASE Submit(c)
  <2>1. pc[c] = "registered" /\ pc' = [pc EXCEPT ![c] = "wait"]
    BY <1>8, SubmitEffect
  <2> QED BY <1>1, <1>2, <1>3, <1>8, <2>1, RequestFacts DEF Submit, propVars
<1>9. CASE Reply(c)
  BY <1>1, <1>2, <1>3, <1>9, RequestFacts DEF Reply, Moves, propVars
<1>10. CASE Timeout(c)
  BY <1>1, <1>2, <1>3, <1>10, RequestFacts DEF Timeout, Moves
<1>11. CASE Disconnect(c)
  BY <1>1, <1>2, <1>3, <1>11, RequestFacts DEF Disconnect, Moves, propVars
<1> QED BY <1>4, <1>5, <1>6, <1>7, <1>8, <1>9, <1>10, <1>11 DEF Request, Handler

LEMMA HandlerRequests ==
  ASSUME Inv, Next, NEW c \in Client, Request(c)
  PROVE  RequestInv'
<1>1. /\ open /\ open' = open /\ role' = role /\ answer' = answer
      /\ \A d \in Client : d # c => pc'[d] = pc[d]
  BY HandlerMoves
<1>2. \A p \in pending : /\ p.id = id[p.client] /\ answer[p.client] = "none" /\ p.client \in Client
                         /\ Waits(p.client) \/ pc[p.client] = "broken"
                         /\ ~PassedBy(p.client)
  BY <1>1, PendingFacts DEF Rightful
<1>3. \A d \in Client : role' = "leader" \/ pc'[d] \notin {"leader", "numbered", "registered", "wait"}
  <2>1. role' = "leader" \/ pc'[c] \notin {"leader", "numbered", "registered", "wait"}
    BY HandlerMoves, RequestFacts
  <2> QED BY <1>1, <2>1, RequestFacts
<1>4. \A d \in Client : /\ pc'[d] \in {"start", "exists", "leader", "numbered"} => answer'[d] = "none"
                        /\ pc'[d] = "ok" => answer'[d] = "ok"
  <2>1. /\ pc'[c] \in {"start", "exists", "leader", "numbered"} => answer'[c] = "none"
        /\ pc'[c] = "ok" => answer'[c] = "ok"
    BY HandlerMoves, RequestFacts
  <2> QED BY <1>1, <2>1, RequestFacts
<1>5. \A d \in Client : PassedBy(d)' => PassedBy(d)
  <2>1. UNCHANGED <<log, loop, passed, loaded>>
    BY HandlerKeeps DEF adapterVars, loopVars, applyVars, envVars
  <2> QED BY <2>1 DEF PassedBy
<1>6. \A d \in Client : d # c => (Waits(d)' <=> Waits(d))
  BY <1>1 DEF Waits
<1>7. CASE /\ pending' \subseteq pending /\ \A d \in Client : d # c => id'[d] = id[d]
           /\ \A p \in pending : p.client # c => p \in pending'
           /\ ~Waits(c)'
           /\ \A p \in pending' : p.client = c => pc'[c] = "broken" /\ id'[c] = id[c]
  <2>1. \A d \in Client : Waits(d)' => Record(d)' \in pending'
    <3>1. TAKE d \in Client
    <3>2. HAVE Waits(d)'
    <3>3. d # c
      BY <1>7, <3>2
    <3>4. Record(d) \in pending /\ Record(d).client = d /\ Record(d)' = Record(d)
      BY <1>1, <1>6, <1>7, <3>2, <3>3, PendingFacts DEF Record
    <3> QED BY <1>7, <3>3, <3>4
  <2>2. \A p \in pending' : Rightful(p)'
    <3>1. TAKE p \in pending'
    <3>2. CASE p.client = c
      BY <1>1, <1>2, <1>5, <1>7, <3>2 DEF Rightful
    <3>3. CASE p.client # c
      BY <1>1, <1>2, <1>5, <1>6, <1>7, <3>3 DEF Rightful
    <3> QED BY <3>2, <3>3
  <2> QED BY <1>1, <1>3, <1>4, <2>1, <2>2 DEF RequestInv, PendingInv
<1>8. CASE /\ pc[c] \in {"start", "exists", "leader"}
           /\ pc'[c] \in {"exists", "missing", "not_leader", "leader", "numbered"}
           /\ UNCHANGED pending /\ \A d \in Client : d # c => id'[d] = id[d]
  <2>1. ~Waits(c)' /\ \A p \in pending : p.client # c
    BY <1>2, <1>8 DEF Waits
  <2> QED BY <1>7, <1>8, <2>1
<1>9. CASE /\ pc[c] = "numbered" /\ pc'[c] = "registered" /\ id' = id
           /\ pending' = {p \in pending : p.id # id[c]} \cup {Record(c)}
  <2>1. Waits(c)' /\ answer[c] = "none"
    BY <1>1, <1>9, RequestFacts DEF Waits
  <2>2. \A p \in pending : p.client # c
    BY <1>2, <1>9 DEF Waits
  <2>3. \A p \in pending : p.id # id[c]
    BY <1>2, <1>9, <2>2, WaitingIds, MadeFacts DEF UsesId
  <2>4. ~PassedBy(c)
    <3>1. SUFFICES ASSUME NEW i \in (loaded + 1)..passed, log[i].data.by = c
                   PROVE  FALSE
      BY DEF PassedBy
    <3>2. i \in 1..Len(log) /\ i > loaded
      BY <3>1, AppliedFacts, Lens
    <3>3. log[i] \in Adapter!Entry /\ Made(log[i])
      BY <3>2, Facts, SeqFacts DEF Made
    <3> QED BY <1>9, <3>1, <3>3, MadeFacts DEF Early
  <2>5. Record(c) = [id |-> id[c], client |-> c]
    BY DEF Record
  <2>6. \A d \in Client : Waits(d)' => Record(d)' \in pending'
    <3>1. TAKE d \in Client
    <3>2. HAVE Waits(d)'
    <3>3. Record(d)' = Record(d)
      BY <1>9 DEF Record
    <3>4. CASE d # c
      BY <1>1, <1>6, <1>9, <2>3, <3>2, <3>3, <3>4, PendingFacts
    <3> QED BY <1>9, <3>3, <3>4
  <2>7. \A p \in pending' : Rightful(p)'
    <3>1. TAKE p \in pending'
    <3>2. CASE p = Record(c)
      BY <1>1, <1>5, <1>9, <2>1, <2>4, <2>5, <3>2 DEF Rightful
    <3>3. CASE p \in pending
      BY <1>1, <1>2, <1>5, <1>6, <1>9, <2>2, <3>3 DEF Rightful
    <3> QED BY <1>9, <3>2, <3>3
  <2> QED BY <1>1, <1>3, <1>4, <2>6, <2>7 DEF RequestInv, PendingInv
<1>10. CASE pc[c] = "registered" /\ pc'[c] = "wait" /\ UNCHANGED <<id, pending>>
  <2>1. Waits(c)' <=> Waits(c)
    BY <1>1, <1>10 DEF Waits
  <2>2. \A d \in Client : Waits(d)' => Record(d)' \in pending'
    BY <1>1, <1>6, <1>10, <2>1, PendingFacts DEF Record
  <2>3. \A p \in pending' : Rightful(p)'
    <3>1. TAKE p \in pending'
    <3>2. Waits(p.client)' \/ pc'[p.client] = "broken"
      BY <1>1, <1>2, <1>6, <1>10, <2>1
    <3> QED BY <1>1, <1>2, <1>5, <1>10, <3>2 DEF Rightful
  <2> QED BY <1>1, <1>3, <1>4, <2>2, <2>3 DEF RequestInv, PendingInv
<1>11. CASE /\ pc[c] = "wait" /\ answer[c] # "none" /\ pc'[c] = answer[c]
            /\ UNCHANGED <<id, pending>>
  <2>1. ~Waits(c)' /\ \A p \in pending : p.client # c
    BY <1>1, <1>2, <1>11 DEF Waits
  <2> QED BY <1>7, <1>11, <2>1
<1>12. CASE /\ pc[c] = "wait" /\ pc'[c] = "timeout" /\ id' = id
            /\ pending' = {p \in pending : p.id # id[c]}
  <2>1. ~Waits(c)'
    BY <1>12 DEF Waits
  <2>2. \A p \in pending : p.client # c => p.id # id[c]
    BY <1>2, <1>12, WaitingIds, MadeFacts DEF UsesId
  <2>3. \A p \in pending' : p.client # c
    BY <1>2, <1>12
  <2> QED BY <1>7, <1>12, <2>1, <2>2, <2>3
<1>13. CASE pc[c] = "wait" /\ pc'[c] = "broken" /\ UNCHANGED <<id, pending>>
  <2>1. ~Waits(c)'
    BY <1>13 DEF Waits
  <2> QED BY <1>7, <1>13, <2>1
<1> QED BY <1>8, <1>9, <1>10, <1>11, <1>12, <1>13, HandlerMoves

LEMMA RequestStep ==
  ASSUME Inv, Next
  PROVE  RequestInv'
<1>1. CASE new
  <2>1. ~open /\ open' /\ pending' = {} /\ UNCHANGED <<pc, id, answer>>
    BY <1>1 DEF new, Adapter!new_with_bootstrap, clientVars
  <2>2. \A c \in Client : pc[c] \in Outcomes \cup {"start"}
    BY <2>1, RequestFacts
  <2>3. \A c \in Client : ~Waits(c)'
    BY <2>1, <2>2 DEF Waits, Outcomes
  <2> QED BY <2>1, <2>2, <2>3, RequestFacts DEF RequestInv, PendingInv, Outcomes
<1>2. CASE Crash
  <2>1. /\ open' = FALSE /\ UNCHANGED answer
        /\ pc' = [c \in Client |-> IF pc[c] \in Outcomes \cup {"start"} THEN pc[c] ELSE "broken"]
    BY <1>2 DEF Crash, Adapter!Crash
  <2>2. \A c \in Client : pc'[c] = IF pc[c] \in Outcomes \cup {"start"} THEN pc[c] ELSE "broken"
    BY <2>1
  <2>3. \A c \in Client : /\ pc'[c] \in Outcomes \cup {"start"}
                          /\ pc'[c] # "broken" => pc'[c] = pc[c]
    BY <2>2 DEF Outcomes
  <2> QED BY <2>1, <2>3, RequestFacts DEF RequestInv, Outcomes
<1>3. CASE /\ UNCHANGED <<open, pc, id, answer, pending>>
           /\ role' = role \/ role' = "leader"
           /\ ~Notify
  <2>1. open => PendingInv'
    <3>1. SUFFICES ASSUME open
                   PROVE  PendingInv'
      OBVIOUS
    <3>2. \A c \in Client : Waits(c)' => Record(c)' \in pending'
      BY <1>3, <3>1, PendingFacts DEF Waits, Record
    <3>3. \A p \in pending' : ~PassedBy(p.client)'
      BY <1>3, <3>1, PendingFacts, PassedLater DEF Rightful
    <3>4. \A p \in pending' : Rightful(p)'
      BY <1>3, <3>1, <3>3, PendingFacts DEF Rightful, Waits
    <3> QED BY <3>2, <3>4 DEF PendingInv
  <2> QED BY <1>3, <2>1, RequestFacts DEF RequestInv
<1>4. CASE TickCampaign /\ ~Notify
  BY <1>3, <1>4 DEF TickCampaign, adapterVars, clientVars, propVars
<1>5. CASE TakeReady /\ ~Notify
  BY <1>3, <1>5 DEF TakeReady, adapterVars, clientVars, propVars
<1>6. CASE AppendEntries /\ ~Notify
  BY <1>3, <1>6 DEF AppendEntries, rawVars, clientVars, propVars, Adapter!append_entries,
                    Adapter!PutEntry, Adapter!PushEntries, Adapter!dbVars
<1>7. CASE SaveHardState /\ ~Notify
  BY <1>3, <1>7 DEF SaveHardState, rawVars, clientVars, propVars, Adapter!save_hard_state,
                    Adapter!PutHardState, Adapter!CacheHardState, Adapter!dbVars
<1>8. CASE PersistFails /\ ~Notify
  BY <1>3, <1>8 DEF PersistFails, rawVars, clientVars, propVars, Adapter!PutFails, Adapter!dbVars
<1>9. CASE Advance /\ ~Notify
  BY <1>3, <1>9 DEF Advance, adapterVars, clientVars, propVars
<1>10. CASE Minor /\ ~Notify
  BY <1>3, <1>10 DEF Minor, TickQuiet, NoReady, TakeReadyPanics, AdvanceDies, SkipEntry, Apply,
         ApplyFails, adapterVars, rawVars, clientVars, propVars
<1>11. ASSUME NEW c \in Client, Request(c)
       PROVE  RequestInv'
  BY <1>11, HandlerRequests
<1> QED BY <1>1, <1>2, <1>4, <1>5, <1>6, <1>7, <1>8, <1>9, <1>10, <1>11, NotifyRequests, NextCases

-----------------------------------------------------------------------------
(* The acknowledged writes *)

LEMMA StoredStable ==
  ASSUME Inv, Next, NEW c \in Client, Stored(c)
  PROVE  Stored(c)'
<1>1. PICK i \in stored : OnDisk(i) /\ dbLog[i].data.by = c
  BY DEF Stored, OnDisk
<1>2. i \in Adapter!Index
  BY TypeParts DEF Inv, ApplyType, Adapter!Index
<1>3. dbLog'[i] = dbLog[i]
  BY <1>1, <1>2, DiskGrows
<1>4. i \in stored'
  BY ApplySteps DEF new, SkipEntry, Apply, ApplyFails, applyVars
<1> QED BY <1>1, <1>3, <1>4 DEF Stored, OnDisk

\* The loop says ok only of what the store has taken.
LEMMA ResultStep ==
  ASSUME Inv, Next
  PROVE  ResultInv'
<1>1. CASE Apply
  BY <1>1 DEF Apply, ResultInv
<1>2. CASE ApplyFails
  BY <1>2 DEF ApplyFails, ResultInv
<1>3. CASE SkipEntry \/ new \/ Notify
  BY <1>3 DEF SkipEntry, new, Notify, AfterHead, ResultInv
<1>4. CASE ~(Apply \/ ApplyFails \/ SkipEntry \/ new \/ Notify)
  <2>1. passed' = passed /\ stored' = stored
    BY <1>4, ApplySteps DEF applyVars
  <2>2. loop' # "notify" \/ (loop' = loop /\ result' = result)
    BY <1>4, LoopSteps
       DEF TickQuiet, TickCampaign, NoReady, TakeReady, TakeReadyPanics, AppendEntries,
           SaveHardState, PersistFails, Advance, AdvanceDies, loopVars
  <2> QED BY <2>1, <2>2 DEF Inv, ResultInv
<1> QED BY <1>1, <1>2, <1>3, <1>4

\* Once the log found at the start has been applied, it stays so until the
\* next start.
LEMMA ReplayStable ==
  ASSUME Inv, Next, ~new, ReplayDone
  PROVE  ReplayDone'
<1>1. loaded' = loaded
  BY DEF Next, Loop, Request, Handler, Disconnect, Crash, TickQuiet, TickCampaign, NoReady, TakeReady,
         TakeReadyPanics, AppendEntries, SaveHardState, PersistFails, Advance, AdvanceDies,
         SkipEntry, Apply, ApplyFails, Notify, CheckExists, CheckLeader, NextId, Register,
         Submit, Reply, Timeout, envVars
<1>2. CASE SkipEntry \/ Apply \/ ApplyFails
  <2>1. passed' = passed + 1
    BY <1>2, NextApplied
  <2> QED BY <1>1, <2>1, AppliedFacts DEF ReplayDone
<1>3. CASE ~(SkipEntry \/ Apply \/ ApplyFails)
  <2>1. passed' = passed
    BY <1>3, ApplySteps DEF applyVars
  <2>2. loop' = loop \/ loop' # "notify"
    BY <1>3, LoopSteps
       DEF TickQuiet, TickCampaign, NoReady, TakeReady, TakeReadyPanics, AppendEntries,
           SaveHardState, PersistFails, Advance, AdvanceDies, Notify, AfterHead, loopVars
  <2> QED BY <1>1, <2>1, <2>2 DEF ReplayDone
<1> QED BY <1>2, <1>3

\* Who is notified while it is fresh has made the entry that was applied.
LEMMA NotifiedStored ==
  ASSUME Inv, Notify, NEW c \in fresh, Waits(c), id[c] = Head(queue).data.ctx, result = "ok"
  PROVE  Stored(c)
<1>1. /\ open /\ loop = "notify" /\ c \in Client
  BY DEF Notify, Inv, TypeOK
<1>2. ReplayDone
  BY DEF Inv, AckInv, Waits
<1>3. passed > loaded
  BY <1>1, <1>2, AppliedFacts DEF ReplayDone
<1>4. log[passed].data.by = c
  <2> DEFINE d == log[passed].data.by
  <2>1. d \in Client /\ log[passed].data.ctx = id[d]
    BY <1>3, NotifyHead, MadeFacts
  <2>2. HasId(d) /\ HasId(c)
    BY <1>1, <1>3, <2>1, NotifyHead, WaitingIds DEF HasId
  <2>3. id[c] = id[d]
    BY <2>1, NotifyHead
  <2> HIDE DEF d
  <2>4. d = c
    BY <1>1, <2>1, <2>2, <2>3, MadeFacts
  <2> QED BY <2>4 DEF d
<1>5. passed \in stored /\ dbLog[passed] = log[passed]
  BY <1>1, NotifyHead DEF Inv, ResultInv, DiskInv
<1>6. dbLog[passed] # NoEntry
  BY <1>5, NotifyHead, NoEntryAssumption
<1> QED BY <1>4, <1>5, <1>6 DEF Stored

LEMMA AckStep ==
  ASSUME Inv, Next
  PROVE  AckInv'
<1>0. /\ \A c \in fresh : pc[c] \in {"registered", "wait"} => ReplayDone
      /\ \A c \in fresh : pc[c] \notin {"start", "exists", "leader", "numbered"}
      /\ \A c \in fresh : pc[c] # "broken" /\ answer[c] = "ok" => Stored(c)
      /\ fresh \subseteq Client
  BY DEF Inv, AckInv, TypeOK
<1>1. CASE new
  <2>1. ~open /\ UNCHANGED <<pc, answer, fresh>>
    BY <1>1 DEF new, Adapter!new_with_bootstrap, clientVars
  <2>2. \A c \in fresh : pc[c] \notin {"registered", "wait"}
    BY <1>0, <2>1, RequestFacts DEF Outcomes
  <2>3. \A c \in fresh : pc[c] # "broken" /\ answer[c] = "ok" => Stored(c)'
    BY <1>0, StoredStable
  <2> QED BY <1>0, <2>1, <2>2, <2>3 DEF AckInv
<1>2. CASE ~new /\ UNCHANGED <<pc, answer, fresh>>
  <2>1. \A c \in fresh : pc[c] # "broken" /\ answer[c] = "ok" => Stored(c)'
    BY <1>0, StoredStable
  <2> QED BY <1>0, <1>2, <2>1, ReplayStable DEF AckInv
<1>3. CASE Crash
  <2>1. /\ open /\ open' = FALSE /\ UNCHANGED <<answer, fresh>>
        /\ pc' = [c \in Client |-> IF pc[c] \in Outcomes \cup {"start"} THEN pc[c] ELSE "broken"]
    BY <1>3 DEF Crash, Adapter!Crash
  <2>2. \A c \in Client : pc'[c] = IF pc[c] \in Outcomes \cup {"start"} THEN pc[c] ELSE "broken"
    BY <2>1
  <2>3. \A c \in fresh : pc'[c] \notin {"registered", "wait", "start", "exists", "leader", "numbered"}
    BY <1>0, <2>2 DEF Outcomes
  <2>4. \A c \in fresh : pc[c] # "broken" /\ answer[c] = "ok" => Stored(c)'
    BY <1>0, StoredStable
  <2>5. \A c \in Client : pc[c] = "broken" => pc'[c] = "broken"
    BY <2>2
  <2>6. \A c \in fresh : pc'[c] # "broken" /\ answer[c] = "ok" => Stored(c)'
    BY <1>0, <2>4, <2>5
  <2> QED BY <2>1, <2>3, <2>6 DEF AckInv
<1>4. ASSUME NEW c \in Client, Request(c)
      PROVE  AckInv'
  <2>1. /\ open /\ answer' = answer /\ \A d \in Client : d # c => pc'[d] = pc[d]
        /\ pc[c] # "broken"
    BY <1>4, HandlerMoves
  <2>2. ~new /\ (ReplayDone' <=> ReplayDone)
    <3>1. UNCHANGED <<loop, passed, loaded>>
      BY <1>4, HandlerKeeps DEF loopVars, applyVars, envVars
    <3> QED BY <2>1, <3>1 DEF new, Adapter!new_with_bootstrap, ReplayDone
  <2>3. \A d \in fresh : pc[d] # "broken" /\ answer[d] = "ok" => Stored(d)'
    BY <1>0, StoredStable
  <2>4. CASE Register(c)
    <3>1. /\ pc[c] = "numbered" /\ pc'[c] = "registered" /\ answer[c] = "none"
          /\ fresh' = IF ReplayDone THEN fresh \cup {c} ELSE fresh
      BY <2>4, RequestFacts DEF Register, Moves
    <3>2. c \notin fresh
      BY <1>0, <3>1
    <3> QED BY <1>0, <2>1, <2>2, <2>3, <3>1, <3>2 DEF AckInv
  <2>5. CASE ~Register(c)
    <3>1. fresh' = fresh
      BY <1>4, <2>5 DEF Request, Handler, Disconnect, CheckExists, CheckLeader, NextId, Submit, Reply, Timeout
    <3>2. c \in fresh => /\ pc'[c] \notin {"start", "exists", "leader", "numbered"}
                         /\ pc'[c] \in {"registered", "wait"} => pc[c] \in {"registered", "wait"}
      <4>1. c \in fresh => pc[c] \notin {"start", "exists", "leader", "numbered"}
        BY <1>0
      <4>2. answer[c] \in {"none", "ok", "failed"}
        BY RequestFacts
      <4> QED BY <1>4, <4>1, <4>2, HandlerMoves
    <3> QED BY <1>0, <2>1, <2>2, <2>3, <3>1, <3>2 DEF AckInv
  <2> QED BY <2>4, <2>5
<1>5. CASE Notify
  <2>1. UNCHANGED <<pc, fresh>> /\ open /\ ~new
    BY <1>5 DEF Notify, new, Adapter!new_with_bootstrap
  <2>2. \A c \in Client : \/ answer'[c] = answer[c] \/ pc[c] = "broken"
                         \/ (Waits(c) /\ id[c] = Head(queue).data.ctx /\ answer'[c] = result)
    <3> DEFINE hit == {p \in pending : p.id = Head(queue).data.ctx}
    <3>1. answer' = [c \in Client |-> IF \E p \in hit : p.client = c THEN result ELSE answer[c]]
      BY <1>5 DEF Notify
    <3>2. ASSUME NEW c \in Client, NEW p \in hit, p.client = c
          PROVE  /\ Waits(c) \/ pc[c] = "broken"
                 /\ id[c] = Head(queue).data.ctx
      BY <2>1, <3>2, PendingFacts DEF Rightful
    <3> HIDE DEF hit
    <3> QED BY <3>1, <3>2
  <2>3. \A c \in fresh : pc[c] # "broken" /\ answer'[c] = "ok" => Stored(c)
    BY <1>0, <1>5, <2>2, NotifiedStored
  <2>4. \A c \in fresh : pc[c] # "broken" /\ answer'[c] = "ok" => Stored(c)'
    BY <1>0, <2>3, StoredStable
  <2> QED BY <1>0, <2>1, <2>4, ReplayStable DEF AckInv
<1>6. CASE /\ TickCampaign \/ TakeReady \/ AppendEntries \/ SaveHardState \/ PersistFails
              \/ Advance \/ Minor
           /\ ~Notify /\ ~new
  BY <1>2, <1>6
     DEF TickCampaign, TakeReady, AppendEntries, SaveHardState, PersistFails, Advance, Minor,
         TickQuiet, NoReady, TakeReadyPanics, AdvanceDies, SkipEntry, Apply, ApplyFails, clientVars
<1> QED BY <1>1, <1>3, <1>4, <1>5, <1>6, NextCases

-----------------------------------------------------------------------------
(* The store *)

LEMMA MaxFacts ==
  ASSUME NEW n \in Nat, NEW S \in SUBSET (1..n), S # {}
  PROVE  Max(S) \in S /\ \A y \in S : y <= Max(S)
<1>1. Max(S) \in S /\ \A y \in S : Max(S) >= y
  BY GreatestElement DEF Max
<1>2. \A y \in S : y \in Int
  OBVIOUS
<1> QED BY <1>1, <1>2

\* Writers and Effect of the log l.
WritersOf(l, k, n) == {i \in 1..n : l[i].data.by # NoClient /\ Command[l[i].data.by].key = k}
EffectOf(l, k, n) ==
  IF WritersOf(l, k, n) = {} THEN Absent ELSE Command[l[Max(WritersOf(l, k, n))].data.by].value

\* StoreFollowsLog of one key, with its log and counters spelled out.
Follows(l, k, a, m, v) ==
  /\ WritersOf(l, k, a) # {} => v = EffectOf(l, k, a)
  /\ \E n \in 0..m : v = EffectOf(l, k, n)
  /\ a = m => v = EffectOf(l, k, a)

LEMMA StoreForm ==
  /\ StoreFollowsLog <=> (~skipped => \A k \in Key : Follows(log, k, passed, maxPassed, kv[k]))
  /\ StoreFollowsLog' <=> (~skipped' => \A k \in Key : Follows(log', k, passed', maxPassed', kv'[k]))
<1>1. StoreFollowsLog <=> (~skipped => \A k \in Key : Follows(log, k, passed, maxPassed, kv[k]))
  BY DEF StoreFollowsLog, Follows, Writers, Effect, WritersOf, EffectOf
<1>2. StoreFollowsLog' <=> (~skipped' => \A k \in Key : Follows(log', k, passed', maxPassed', kv'[k]))
  BY DEF StoreFollowsLog, Follows, Writers, Effect, WritersOf, EffectOf
<1> QED BY <1>1, <1>2

\* The effect of a log does not depend on what comes after.
LEMMA EffectExtends ==
  ASSUME NEW l, NEW l2, NEW m \in Nat, \A i \in 1..m : l2[i] = l[i]
  PROVE  \A k : \A n \in 0..m : /\ WritersOf(l2, k, n) = WritersOf(l, k, n)
                               /\ EffectOf(l2, k, n) = EffectOf(l, k, n)
<1> SUFFICES ASSUME NEW k, NEW n \in 0..m
             PROVE  /\ WritersOf(l2, k, n) = WritersOf(l, k, n)
                    /\ EffectOf(l2, k, n) = EffectOf(l, k, n)
  OBVIOUS
<1>1. \A i \in 1..n : i \in 1..m
  OBVIOUS
<1>2. WritersOf(l2, k, n) = WritersOf(l, k, n)
  BY <1>1 DEF WritersOf
<1>3. CASE WritersOf(l, k, n) = {}
  BY <1>2, <1>3 DEF EffectOf
<1>4. CASE WritersOf(l, k, n) # {}
  <2>1. WritersOf(l, k, n) \in SUBSET (1..n) /\ n \in Nat
    BY DEF WritersOf
  <2>2. Max(WritersOf(l, k, n)) \in 1..n
    BY <1>4, <2>1, MaxFacts
  <2>3. l2[Max(WritersOf(l, k, n))] = l[Max(WritersOf(l, k, n))]
    BY <1>1, <2>2
  <2> QED BY <1>2, <2>3 DEF EffectOf
<1> QED BY <1>2, <1>3, <1>4

\* One more entry of the log.
LEMMA EffectStep ==
  ASSUME NEW l, NEW k, NEW n \in Nat
  PROVE  /\ l[n + 1].data.by # NoClient /\ Command[l[n + 1].data.by].key = k =>
              EffectOf(l, k, n + 1) = Command[l[n + 1].data.by].value
         /\ ~(l[n + 1].data.by # NoClient /\ Command[l[n + 1].data.by].key = k) =>
              /\ WritersOf(l, k, n + 1) = WritersOf(l, k, n)
              /\ EffectOf(l, k, n + 1) = EffectOf(l, k, n)
<1>1. ASSUME l[n + 1].data.by # NoClient, Command[l[n + 1].data.by].key = k
      PROVE  EffectOf(l, k, n + 1) = Command[l[n + 1].data.by].value
  <2> DEFINE W == WritersOf(l, k, n + 1)
  <2>1. n + 1 \in W /\ W \in SUBSET (1..(n + 1)) /\ n + 1 \in Nat
    BY <1>1 DEF WritersOf
  <2> HIDE DEF W
  <2>2. Max(W) \in W /\ n + 1 <= Max(W)
    BY <2>1, MaxFacts
  <2>3. Max(W) = n + 1
    <3>1. Max(W) \in 1..(n + 1)
      BY <2>1, <2>2
    <3> QED BY <2>2, <3>1
  <2> QED BY <2>1, <2>3 DEF EffectOf, W
<1>2. ASSUME ~(l[n + 1].data.by # NoClient /\ Command[l[n + 1].data.by].key = k)
      PROVE  WritersOf(l, k, n + 1) = WritersOf(l, k, n)
  <2>1. \A i : i \in 1..(n + 1) <=> (i \in 1..n \/ i = n + 1)
    OBVIOUS
  <2>2. \A i : i \in WritersOf(l, k, n + 1) <=> i \in WritersOf(l, k, n)
    BY <1>2, <2>1 DEF WritersOf
  <2> QED BY <2>2
<1> QED BY <1>1, <1>2 DEF EffectOf

\* Nothing wrote to k yet.
LEMMA EffectNone ==
  ASSUME NEW l, NEW k, NEW m \in Nat, WritersOf(l, k, m) = {}, NEW n \in 0..m
  PROVE  EffectOf(l, k, n) = Absent
<1>1. \A i \in 1..n : i \in 1..m
  OBVIOUS
<1>2. WritersOf(l, k, n) = {}
  BY <1>1 DEF WritersOf
<1> QED BY <1>2 DEF EffectOf

LEMMA StoreStep ==
  ASSUME Inv, Next
  PROVE  StoreFollowsLog'
<1> SUFFICES ASSUME ~skipped', NEW k \in Key
             PROVE  Follows(log', k, passed', maxPassed', kv'[k])
  BY StoreForm
<1>1. ~skipped
  <2>1. skipped' = skipped \/ skipped' = TRUE
    BY ApplySteps DEF new, SkipEntry, Apply, ApplyFails, applyVars
  <2> QED BY <2>1
<1>2. Follows(log, k, passed, maxPassed, kv[k])
  BY <1>1, StoreForm DEF Inv
<1>3. /\ passed \in Nat /\ maxPassed \in Nat /\ passed <= maxPassed /\ maxPassed <= Len(log)
      /\ Len(log) \in Nat /\ \A i \in 1..Len(log) : log'[i] = log[i]
  BY AppliedFacts, LogGrows, Lens
<1>4. \A n \in 0..maxPassed : /\ WritersOf(log', k, n) = WritersOf(log, k, n)
                               /\ EffectOf(log', k, n) = EffectOf(log, k, n)
  <2>1. TAKE n \in 0..maxPassed
  <2>2. n \in 0..Len(log)
    BY <1>3
  <2>3. Len(log) \in Nat /\ \A i \in 1..Len(log) : log'[i] = log[i]
    BY <1>3
  <2> DEFINE l2 == log'
  <2>4. Len(log) \in Nat /\ \A i \in 1..Len(log) : l2[i] = log[i]
    BY <2>3
  <2> HIDE DEF l2
  <2>5. \A key : \A j \in 0..Len(log) : /\ WritersOf(l2, key, j) = WritersOf(log, key, j)
                                       /\ EffectOf(l2, key, j) = EffectOf(log, key, j)
    BY <2>4, EffectExtends
  <2>6. WritersOf(l2, k, n) = WritersOf(log, k, n) /\ EffectOf(l2, k, n) = EffectOf(log, k, n)
    BY <2>2, <2>5
  <2> QED BY <2>6 DEF l2
<1>5. passed \in 0..maxPassed /\ 0 \in 0..maxPassed
  BY <1>3
<1>6. CASE UNCHANGED applyVars
  BY <1>2, <1>4, <1>5, <1>6 DEF applyVars, Follows
<1>7. CASE new
  <2>1. passed' = 0 /\ kv' = kv /\ maxPassed' = maxPassed
    BY <1>7 DEF new
  <2>2. WritersOf(log', k, 0) = {}
    BY DEF WritersOf
  <2>3. PICK n \in 0..maxPassed : kv[k] = EffectOf(log, k, n)
    BY <1>2 DEF Follows
  <2>4. kv[k] = EffectOf(log', k, n)
    BY <1>4, <2>3
  <2>5. maxPassed = 0 => n = 0
    BY <2>3
  <2> QED BY <2>1, <2>2, <2>4, <2>5 DEF Follows
<1>8. CASE SkipEntry \/ Apply
  <2> DEFINE b == passed + 1
             by == log[b].data.by
  <2>1. /\ passed' = b /\ b \in 1..Len(log) /\ b <= handed /\ Head(queue) = log[b]
        /\ maxPassed' = IF b > maxPassed THEN b ELSE maxPassed
    BY <1>8, NextApplied
  <2>2. log' = log
    BY <1>8 DEF SkipEntry, Apply, adapterVars
  <2>3. b \in Nat /\ maxPassed' \in Nat /\ b \in 0..maxPassed' /\ \A n \in 0..maxPassed : n \in 0..maxPassed'
    BY <1>3, <2>1
  <2>4. CASE by # NoClient /\ Command[by].key = k
    <3>1. EffectOf(log, k, b) = Command[by].value
      BY <1>3, <2>4, EffectStep
    <3>2. Apply
      BY <1>8, <2>1, <2>4 DEF SkipEntry
    <3>3. kv' = [kv EXCEPT ![Command[by].key] = Command[by].value]
      BY <2>1, <3>2 DEF Apply
    <3>4. kv'[k] = Command[by].value
      BY <2>4, <3>3 DEF Inv, TypeOK
    <3> HIDE DEF b, by
    <3> QED BY <2>1, <2>2, <2>3, <3>1, <3>4 DEF Follows
  <2>5. CASE ~(by # NoClient /\ Command[by].key = k)
    <3>1. WritersOf(log, k, b) = WritersOf(log, k, passed) /\ EffectOf(log, k, b) = EffectOf(log, k, passed)
      BY <1>3, <2>5, EffectStep
    <3>2. kv'[k] = kv[k]
      <4>1. CASE SkipEntry
        BY <4>1 DEF SkipEntry
      <4>2. CASE Apply
        <5>1. by # NoClient /\ kv' = [kv EXCEPT ![Command[by].key] = Command[by].value]
          BY <2>1, <4>2 DEF Apply
        <5> HIDE DEF by
        <5> QED BY <2>5, <5>1 DEF Inv, TypeOK
      <4> QED BY <1>8, <4>1, <4>2
    <3>3. \E n \in 0..maxPassed' : kv'[k] = EffectOf(log, k, n)
      BY <1>2, <2>3, <3>2 DEF Follows
    <3>4. ASSUME b = maxPassed'
          PROVE  kv'[k] = EffectOf(log, k, b)
      <4>1. CASE passed = maxPassed
        BY <1>2, <3>1, <3>2, <4>1 DEF Follows
      <4>2. CASE WritersOf(log, k, passed) # {}
        BY <1>2, <3>1, <3>2, <4>2 DEF Follows
      <4>3. CASE passed # maxPassed /\ WritersOf(log, k, passed) = {}
        <5>1. maxPassed = b
          BY <1>3, <2>1, <3>4, <4>3
        <5>2. PICK n \in 0..b : kv[k] = EffectOf(log, k, n)
          BY <1>2, <5>1 DEF Follows
        <5>3. EffectOf(log, k, n) = Absent
          BY <2>3, <3>1, <4>3, EffectNone
        <5>4. EffectOf(log, k, b) = Absent
          BY <3>1, <4>3 DEF EffectOf
        <5> QED BY <3>2, <5>2, <5>3, <5>4
      <4> QED BY <4>1, <4>2, <4>3
    <3> HIDE DEF b, by
    <3> QED BY <1>2, <2>1, <2>2, <3>1, <3>2, <3>3, <3>4 DEF Follows
  <2> QED BY <2>4, <2>5
<1>9. CASE ApplyFails
  BY <1>9 DEF ApplyFails
<1> QED BY <1>6, <1>7, <1>8, <1>9, ApplySteps

-----------------------------------------------------------------------------
(* The inductive invariant *)

LEMMA NextInv == Inv /\ [Next]_vars => Inv'
<1> SUFFICES ASSUME Inv, [Next]_vars
             PROVE  Inv'
  OBVIOUS
<1>1. CASE Next
  BY <1>1, TypeStep, CallStep, DiskStep, RawStep, TermStep, QueueStep, IdStep, RequestStep,
     AckStep, ResultStep, StoreStep DEF Inv
<1>2. CASE UNCHANGED vars
  <2> USE <1>2 DEF vars, adapterVars, rawVars, loopVars, clientVars, propVars, applyVars, envVars
  <2>1. TypeOK'
    <3>1. /\ Adapter!TypeOK
          /\ RawType /\ LoopType /\ ClientType /\ PropType /\ ApplyType /\ EnvType
      BY TypeParts DEF Inv
    <3>2. Adapter!TypeOK' /\ LoopType'
      BY <3>1 DEF Adapter!TypeOK, LoopType
    <3>3. RawType'
      BY <3>1 DEF RawType, LastIndex
    <3>4. ClientType' /\ PropType' /\ EnvType'
      BY <3>1 DEF ClientType, PropType, EnvType
    <3>5. ApplyType'
      BY <3>1 DEF ApplyType
    <3>6. TypeOK' <=>
            /\ Adapter!TypeOK'
            /\ RawType' /\ LoopType' /\ ClientType' /\ PropType' /\ ApplyType' /\ EnvType'
      BY TypeParts, PTL
    <3> QED BY <3>2, <3>3, <3>4, <3>5, <3>6
  <2>2. CallInv' /\ DiskInv'
    BY DEF Inv, CallInv, DiskInv, Numbered, OnDisk
  <2>3. RawInv' /\ TermInv'
    BY DEF Inv, RawInv, TermInv, Pushed, Numbered, Starts, Doomed, Persisting, HardStateNow
  <2>4. QueueInv' /\ IdInv'
    BY DEF Inv, QueueInv, IdInv, HasId, InPending, Made
  <2>5. RequestInv' /\ AckInv' /\ ResultInv'
    BY DEF Inv, RequestInv, PendingInv, Rightful, Record, PassedBy, Waits, AckInv, ReplayDone,
           Stored, ResultInv
  <2>6. StoreFollowsLog'
    <3>1. log' = log /\ kv' = kv /\ passed' = passed /\ maxPassed' = maxPassed /\ skipped' = skipped
      OBVIOUS
    <3> QED BY <3>1, StoreForm DEF Inv
  <2> QED BY <2>1, <2>2, <2>3, <2>4, <2>5, <2>6 DEF Inv
<1> QED BY <1>1, <1>2

\* The inductive invariant: where every entry is at each await of handle_ready,
\* which ids are in use, and what of the log the store holds.
THEOREM InvHolds == Spec => []Inv
<1>1. Init => Inv
  BY InitInv
<1>2. Inv /\ [Next]_vars => Inv'
  BY NextInv
<1> QED BY <1>1, <1>2, PTL DEF Spec

\* Every variable of the node keeps its type; in particular no index and no
\* term of an entry leaves its bound (new, tick, propose, handle_ready).
THEOREM TypeCorrect == Spec => []TypeOK
<1>1. Inv => TypeOK
  BY DEF Inv
<1> QED BY <1>1, InvHolds, PTL

\* What is committed is on the node's disk at every await of handle_ready and
\* after every failed put, because advance() comes after append_entries.
THEOREM CommittedIsStored == Spec => []CommittedIsOnDisk
<1>1. Inv => CommittedIsOnDisk
  <2> SUFFICES ASSUME Inv, NEW i \in 1..committed
               PROVE  dbLog[i] # NoEntry
    BY DEF CommittedIsOnDisk
  <2>1. committed < offset /\ Pushed \in 0..Len(unstable)
    BY DEF Inv, RawInv
  <2>2. i \in 1..Len(log)
    BY <2>1, Lens DEF Pushed
  <2>3. dbLog[i] = log[i] /\ log[i] \in Adapter!Entry
    BY <2>2, Facts, SeqFacts DEF Inv, DiskInv
  <2> QED BY <2>3, NoEntryAssumption
<1> QED BY <1>1, InvHolds, PTL

LEMMA SubSeqIs ==
  ASSUME NEW s \in Seq(Adapter!Entry), NEW t \in Seq(Adapter!Entry), NEW m \in Nat \ {0},
         NEW n \in Nat, n <= Len(t), m <= n + 1, Len(s) = n - m + 1,
         \A k \in DOMAIN s : s[k] = t[m + k - 1]
  PROVE  s = SubSeq(t, m, n)
<1>1. /\ Len(t) \in Nat /\ Len(s) \in Nat /\ DOMAIN s = 1..Len(s) /\ DOMAIN t = 1..Len(t)
      /\ \A i \in 1..Len(t) : t[i] \in Adapter!Entry
  BY SeqFacts
<1>2. \A i \in m..n : t[i] \in Adapter!Entry
  BY <1>1
<1>3. /\ SubSeq(t, m, n) \in Seq(Adapter!Entry)
      /\ Len(SubSeq(t, m, n)) = IF m <= n THEN n - m + 1 ELSE 0
      /\ \A i \in 1..(n - m + 1) : SubSeq(t, m, n)[i] = t[m + i - 1]
  <2>1. m \in Int /\ n \in Int
    OBVIOUS
  <2> QED BY <1>2, <2>1, SubSeqProperties
<1>4. Len(SubSeq(t, m, n)) = Len(s)
  BY <1>1, <1>3
<1> DEFINE u == SubSeq(t, m, n)
<1>5. u \in Seq(Adapter!Entry) /\ Len(u) = Len(s) /\ \A k \in 1..Len(s) : u[k] = s[k]
  BY <1>1, <1>3, <1>4
<1> HIDE DEF u
<1>6. u = s
  BY <1>5, SeqEqual
<1> QED BY <1>6 DEF u

\* Every committed entry is given to the store in the order of the log and once
\* in a run of the process, whatever was retried or replayed on the way; whether
\* the store takes it is another matter (handle_ready goes on after an error).
THEOREM AppliesInOrder == Spec => []ApplyFollowsLog
<1>1. Inv => ApplyFollowsLog
  <2> SUFFICES ASSUME Inv
               PROVE  ApplyFollowsLog
    OBVIOUS
  <2>1. /\ log \in Seq(Adapter!Entry) /\ queue \in Seq(Adapter!Entry) /\ handed = committed
        /\ passed \in Nat /\ handed \in Nat /\ handed <= Len(log) /\ Len(log) \in Nat
        /\ Len(queue) \in Nat /\ DOMAIN queue = 1..Len(queue)
    BY Facts, AppliedFacts, Lens
  <2>2. CASE loop \notin {"apply", "notify"}
    <3>1. queue = <<>> /\ passed = handed
      BY <2>2 DEF Inv, QueueInv
    <3>2. Len(queue) = handed - (passed + 1) + 1 /\ DOMAIN queue = {}
      BY <2>1, <3>1
    <3>3. queue = SubSeq(log, passed + 1, handed)
      BY <2>1, <3>1, <3>2, SubSeqIs
    <3> QED BY <2>1, <2>2, <3>3 DEF ApplyFollowsLog
  <2>3. CASE loop = "apply"
    <3>1. /\ queue # <<>> /\ Len(queue) = handed - passed
          /\ \A k \in DOMAIN queue : queue[k] = log[passed + k]
      BY <2>3 DEF Inv, QueueInv
    <3>2. Len(queue) = handed - (passed + 1) + 1 /\ passed + 1 <= handed + 1
      BY <2>1, <3>1
    <3>3. \A k \in DOMAIN queue : queue[k] = log[(passed + 1) + k - 1]
      <4>1. \A k \in DOMAIN queue : (passed + 1) + k - 1 = passed + k
        BY <2>1
      <4> QED BY <3>1, <4>1
    <3>4. queue = SubSeq(log, passed + 1, handed)
      <4>1. passed + 1 \in Nat \ {0}
        BY <2>1
      <4> QED BY <2>1, <3>2, <3>3, <4>1, SubSeqIs
    <3> QED BY <2>1, <2>3, <3>4 DEF ApplyFollowsLog
  <2>4. CASE loop = "notify"
    <3>1. /\ queue # <<>> /\ Len(queue) = handed - passed + 1 /\ passed >= 1
          /\ \A k \in DOMAIN queue : queue[k] = log[passed + k - 1]
      BY <2>4 DEF Inv, QueueInv
    <3>2. passed <= handed + 1 /\ passed \in Nat \ {0}
      BY <2>1, <3>1
    <3>3. queue = SubSeq(log, passed, handed)
      BY <2>1, <3>1, <3>2, SubSeqIs
    <3> QED BY <2>1, <2>4, <3>3 DEF ApplyFollowsLog
  <2> QED BY <2>2, <2>3, <2>4
<1> QED BY <1>1, InvHolds, PTL

\* Whatever crashed where, the store is what the applied log says: RaftNode::new
\* may apply the whole log again because a replay only passes through values
\* the log gave the keys, and ends where the last one did.
THEOREM StoreIsLog == Spec => []StoreFollowsLog
<1>1. Inv => StoreFollowsLog
  BY DEF Inv
<1> QED BY <1>1, InvHolds, PTL

\* Whoever waits unanswered is in pending_proposals under its own id, and what
\* a client left there when it went away stays only until the loop is through
\* with its entry (propose, its timeout, handle_ready).
THEOREM PendingIsAccountedFor == Spec => []PendingMatchesWaiters
<1>1. Inv => PendingMatchesWaiters
  BY PendingFacts DEF PendingMatchesWaiters, Record, Rightful
<1> QED BY <1>1, InvHolds, PTL

\* A 200 for a request registered after the replay was complete is truthful,
\* through every later crash: ids do not repeat within a run, so the entry that
\* was applied under the request's id is the request's own.
THEOREM AckIsTruthful == Spec => []AckedWriteStored
<1>1. Inv => AckedWriteStored
  <2> SUFFICES ASSUME Inv, NEW c \in fresh, pc[c] = "ok"
               PROVE  Stored(c)
    BY DEF AckedWriteStored
  <2>1. c \in Client
    BY DEF Inv, TypeOK
  <2>2. answer[c] = "ok"
    BY <2>1, RequestFacts
  <2> QED BY <2>2 DEF Inv, AckInv
<1> QED BY <1>1, InvHolds, PTL

\* No retry, new term or restart overwrites or removes what was persisted.
THEOREM DiskIsAppendOnly == Spec => DiskLogAppendOnly
<1>1. ASSUME Inv, [Next]_vars
      PROVE  [\A i \in DOMAIN dbLog : dbLog[i] # NoEntry => dbLog'[i] = dbLog[i]]_vars
  <2>1. CASE Next
    <3>1. DOMAIN dbLog = Adapter!Index
      BY <1>1 DEF Inv, TypeOK, Adapter!TypeOK
    <3> QED BY <1>1, <2>1, <3>1, DiskGrows DEF OnDisk
  <2>2. CASE UNCHANGED vars
    BY <2>2
  <2> QED BY <1>1, <2>1, <2>2
<1> QED BY <1>1, InvHolds, PTL DEF Spec, DiskLogAppendOnly

-----------------------------------------------------------------------------
(* handle_ready calls the adapter as the adapter requires *)

\* The entries of a Ready continue the log and repeat what a failed append
\* left over.
LEMMA BatchAllowed ==
  ASSUME Inv, loop = "append", open
  PROVE  Adapter!Batch(ready.entries)
<1> DEFINE b == ready.entries
<1>1. Pushed = 0 /\ Starts(b, unstable) /\ b # <<>> /\ entries = log
  BY DEF Inv, RawInv, CallInv, Doomed, Persisting
<1>2. /\ Len(log) = offset - 1 /\ Len(b) <= Len(unstable) /\ Len(b) \in Nat /\ DOMAIN b = 1..Len(b)
      /\ \A k \in 1..Len(b) : k \in DOMAIN unstable /\ b[k] = unstable[k]
  <2>1. Len(b) <= Len(unstable) /\ \A k \in 1..Len(b) : b[k] = unstable[k]
    BY <1>1 DEF Starts
  <2> QED BY <1>1, <2>1, Lens DEF Pushed
<1>3. b \in Seq(Adapter!Entry) /\ 1 \in 1..Len(b)
  BY <1>1, Facts, SeqFacts
<1> HIDE DEF b
<1>4. \A k \in 1..Len(b) : b[k].index = Len(log) + k
  <2>1. \A k \in DOMAIN unstable : unstable[k].index = offset + k - 1
    BY DEF Inv, RawInv, Numbered
  <2>2. \A k \in 1..Len(b) : b[k].index = offset + k - 1
    BY <1>2, <2>1
  <2> QED BY <1>2, <2>2, Lens
<1>5. b[1].index = Len(log) + 1
  BY <1>3, <1>4
<1>6. \A k \in DOMAIN b : b[k].index = (Len(log) + 1) + k - 1
  BY <1>2, <1>4, Lens
<1>7. \A k \in 2..Len(b) : b[k - 1].term <= b[k].term
  <2>1. TAKE k \in 2..Len(b)
  <2>2. k - 1 \in 1..Len(b) /\ k \in 1..Len(b) /\ k - 1 <= k
    BY <1>2
  <2> QED BY <1>2, <2>2 DEF Inv, TermInv
<1>8. Len(log) + 1 > 1 => log[Len(log) + 1 - 1].term <= b[1].term
  <2>1. Len(log) + 1 > 1 => Len(log) \in DOMAIN log /\ Len(log) < offset /\ Len(log) + 1 - 1 = Len(log)
    BY <1>2, Lens
  <2> QED BY <1>2, <1>3, <2>1 DEF Inv, TermInv
<1>9. Len(entries) + Len(b) <= MaxIndex
  <2>1. Len(entries) = offset - 1 /\ Len(b) <= Len(unstable) /\ Len(b) \in Nat
    BY <1>1, <1>2
  <2> QED BY <2>1, Bounds
<1>10. batch # <<>> => Len(log) + 1 <= batch[1].index
  <2>1. batch # <<>> => 1 \in 1..Len(batch)
    BY Lens, Emptiness
  <2> QED BY <2>1, BatchNumbered, Lens
<1>11. Adapter!IsPrefix(batch, b)
  <2>1. /\ Len(batch) <= Len(b) /\ \A k \in 1..Len(batch) : b[k] = batch[k]
        /\ batch \in Seq(Adapter!Entry) /\ Len(batch) \in Nat
    BY RetryKeeps, Facts, Lens DEF b
  <2>2. SubSeq(batch, 1, Len(batch)) = batch
    BY <2>1
  <2>3. batch = SubSeq(b, 1, Len(batch))
    <3>1. \A k \in DOMAIN batch : batch[k] = b[1 + k - 1]
      BY <2>1, Lens
    <3> QED BY <1>3, <2>1, <3>1, SubSeqIs
  <2> QED BY <2>1, <2>2, <2>3 DEF Adapter!IsPrefix
<1>12. Len(log) + 1 \in 1..(Len(log) + 1)
  BY Lens
<1>13. b # <<>>
  BY <1>1 DEF b
<1>14. Adapter!Batch(b)
  BY <1>5, <1>6, <1>7, <1>8, <1>9, <1>10, <1>11, <1>12, <1>13 DEF Adapter!Batch
<1> QED BY <1>14 DEF b

\* The hard state of a Ready does not go back, and is saved when no failed
\* append is left over.
LEMMA HardStateAllowed ==
  ASSUME Inv, loop = "hard_state"
  PROVE  Adapter!NextHardState(ready.hs)
<1>1. /\ batch = <<>> /\ ready.hs = HardStateNow
      /\ hard_state.commit = 0 /\ hard_state.term <= curTerm
      /\ committed < offset /\ Pushed \in 0..Len(unstable)
  BY DEF Inv, CallInv, RawInv, TermInv, Persisting
<1>2. ready.hs.term = curTerm /\ ready.hs.commit = committed
  BY <1>1 DEF HardStateNow
<1>3. committed >= 0 /\ committed <= Len(log)
  BY <1>1, Lens DEF Pushed
<1>4. hard_state.term \in Nat
  BY NodeAssumption
     DEF Inv, TypeOK, Adapter!TypeOK, Adapter!HardState, Adapter!Term, NodeAssumption
<1>5. curTerm >= hard_state.term
  BY <1>1, <1>4, Lens
<1> QED BY <1>1, <1>2, <1>3, <1>5 DEF Adapter!NextHardState

\* handle_ready, new and every failure between them use the adapter as its own
\* theorems require: entries extend the stored log, a failed batch is offered
\* again before any hard state is saved, and no hard state goes back.
THEOREM AdapterIsUsedCorrectly == Spec => AdapterUsedCorrectly
<1>1. Init => Adapter!Init
  BY DEF Init
<1>2. ASSUME Inv, [Next]_vars
      PROVE  [Adapter!Step(batch', newHs')]_Adapter!vars
  <2>1. CASE new
    BY <2>1 DEF new, Adapter!Step
  <2>2. CASE Crash
    BY <2>2 DEF Crash, Adapter!Step
  <2>3. CASE AppendEntries
    <3>1. CASE Adapter!append_entries(ready.entries)
      <4>1. open /\ batch' = ready.entries /\ loop = "append"
        BY <2>3, <3>1 DEF Adapter!append_entries, AppendEntries
      <4>2. Adapter!Batch(ready.entries)
        BY <1>2, <4>1, BatchAllowed
      <4> QED BY <3>1, <4>1, <4>2 DEF Adapter!Step
    <3>2. CASE Adapter!PutEntry \/ Adapter!PushEntries
      BY <3>2 DEF Adapter!Step
    <3> QED BY <2>3, <3>1, <3>2 DEF AppendEntries
  <2>4. CASE SaveHardState
    <3>1. CASE Adapter!save_hard_state(ready.hs)
      <4>1. newHs' = ready.hs /\ loop = "hard_state"
        BY <2>4, <3>1 DEF Adapter!save_hard_state, SaveHardState
      <4>2. Adapter!NextHardState(ready.hs)
        BY <1>2, <4>1, HardStateAllowed
      <4> QED BY <3>1, <4>1, <4>2 DEF Adapter!Step
    <3>2. CASE Adapter!PutHardState \/ Adapter!CacheHardState
      BY <3>2 DEF Adapter!Step
    <3> QED BY <2>4, <3>1, <3>2 DEF SaveHardState
  <2>5. CASE PersistFails
    BY <2>5 DEF PersistFails, Adapter!Step
  <2>6. CASE UNCHANGED adapterVars
    BY <2>6 DEF adapterVars, Adapter!vars, Adapter!dbVars, Adapter!memVars, Adapter!callVars
  <2>7. CASE UNCHANGED vars
    BY <2>6, <2>7 DEF vars
  <2> QED BY <1>2, <2>1, <2>2, <2>3, <2>4, <2>5, <2>6, <2>7, AdapterSteps
<1> QED BY <1>1, <1>2, InvHolds, PTL DEF Spec, AdapterUsedCorrectly, Adapter!Implemented

=============================================================================
