----------------------- MODULE NetworkTransportProofs -----------------------
(***************************************************************************)
(* Proofs about NetworkTransport, for any number of nodes, messages,       *)
(* connections and faults and any buffer size: frames stay in step, the    *)
(* transport is a lossy channel, and it is a queue between two nodes that  *)
(* no fault has come between.                                              *)
(*                                                                         *)
(* A message is in one place at a time: in its sender's outbox, as a body  *)
(* in one connection, or in its receiver's queue (PlaceInv).  For this the *)
(* writer must be known to write to a connection of its own that leads to  *)
(* the right node (SenderInv), and reader and writer to agree on where a   *)
(* frame begins (FrameInv, WriterInv).                                     *)
(***************************************************************************)
EXTENDS NetworkTransport, TLAPS

\* Where the event loop of node i is, and the connections it may use.
SenderOK(i) ==
  /\ pc[i] = "select" <=> outbox[i] = <<>>
  /\ pc[i] \in {"connect", "len", "body"} => Current(i).to # i
  /\ pc[i] = "connect" => connections[i][Current(i).to] = NoConn
  /\ pc[i] \in {"len", "body"} =>
       /\ cur[i] # NoConn
       /\ conns[cur[i]].from = i /\ conns[cur[i]].to = Current(i).to
       /\ connections[i][Current(i).to] \in {NoConn, cur[i]}
  /\ \A j \in Node : connections[i][j] # NoConn =>
       conns[connections[i][j]].from = i /\ conns[connections[i][j]].to = j
SenderInv ==
  /\ \A c \in DOMAIN conns : conns[c].from # conns[c].to
  /\ \A i \in Node : SenderOK(i)

\* In the data q of a connection with reader in state k lengths and bodies
\* alternate, and the reader expects what comes first.
Framed(q, k, cut) ==
  /\ q # <<>> /\ k # "done" => (q[1].kind = "body" <=> k = "body")
  /\ k = "done" => cut /\ q = <<>>
  /\ \A p \in DOMAIN q : p + 1 \in DOMAIN q => q[p].kind # q[p + 1].kind
FrameInv == \A c \in DOMAIN conns : Framed(conns[c].data, conns[c].reader, conns[c].cut)

\* The kind of the part written last, read or not.
LastOf(q, k) == IF q # <<>> THEN q[Len(q)].kind ELSE IF k = "body" THEN "len" ELSE "body"
LastKind(c) == LastOf(conns[c].data, conns[c].reader)

\* A connection that node i will write to ends where i thinks.
WriterOK(i) ==
  /\ \A j \in Node :
       LET c == connections[i][j]
       IN  c # NoConn /\ ~(pc[i] = "body" /\ cur[i] = c) => conns[c].cut \/ LastKind(c) = "body"
  /\ pc[i] = "len" => conns[cur[i]].cut \/ LastKind(cur[i]) = "body"
  /\ pc[i] = "body" => conns[cur[i]].cut \/ LastKind(cur[i]) = "len"
WriterInv == \A i \in Node : WriterOK(i)

\* Messages, and the bodies of frames, in the order of their numbers.
Ascending(s) == \A p, q \in DOMAIN s : p < q => s[p].id < s[q].id
AscendingBodies(s) ==
  \A p, q \in DOMAIN s :
    p < q /\ s[p].kind = "body" /\ s[q].kind = "body" => s[p].msg.id < s[q].msg.id
NoRepeat(s) == \A p, q \in DOMAIN s : s[p] = s[q] => p = q

\* m has left the outbox of its sender.
Gone(m) == m \in sent /\ m \notin Range(outbox[m.from])

\* Raft produces messages in order, and an outbox holds its newest ones.
OutboxInv ==
  /\ \A m \in sent, n \in Msg \ sent : m.from = n.from => m.id < n.id
  /\ \A i \in Node :
       /\ Ascending(outbox[i])
       /\ \A n \in Range(outbox[i]) :
            /\ n \in sent /\ n.from = i
            /\ \A m \in sent : m.from = i /\ Gone(m) => m.id < n.id

\* What is on the wire is on one connection, which leads to the right node.
WireInv ==
  \A c \in DOMAIN conns :
    /\ AscendingBodies(conns[c].data)
    /\ \A m \in Bodies(conns[c].data) :
         /\ Gone(m) /\ m.from = conns[c].from /\ m.to = conns[c].to
         /\ \A d \in DOMAIN conns : m \in Bodies(conns[d].data) => c = d

\* What is queued is at the right node, once, and no longer on the wire.
QueueInv ==
  \A j \in Node :
    /\ NoRepeat(message_rx[j])
    /\ \A m \in Range(message_rx[j]) :
         /\ Gone(m) /\ m.to = j
         /\ \A c \in DOMAIN conns : m \notin Bodies(conns[c].data)

PlaceInv == OutboxInv /\ WireInv /\ QueueInv

Inv == TypeOK /\ SenderInv /\ FrameInv /\ WriterInv /\ PlaceInv

\* The messages of node i to node j that Raft has got, that are queued for it,
\* that are on the wire and that are still to be sent.
Got(i, j) == {m \in Range(stepped[j]) : m.from = i}
Queue(i, j) == {m \in Range(message_rx[j]) : m.from = i}
Link(c, i, j) == conns[c].from = i /\ conns[c].to = j
Wire(i, j) == UNION {Bodies(conns[c].data) : c \in {d \in DOMAIN conns : Link(d, i, j)}}
Out(i, j) == {m \in Range(outbox[i]) : m.to = j}

Below(A, B) == \A m \in A, n \in B : m.id < n.id
Sorted(s, i) ==
  \A p, q \in DOMAIN s : p < q /\ s[p].from = i /\ s[q].from = i => s[p].id < s[q].id

\* Between undisturbed nodes there is one connection, no message is missing
\* and all of them are in order.
PairInv(i, j) ==
  /\ \A c \in DOMAIN conns : Link(c, i, j) =>
       connections[i][j] = c \/ (pc[i] \in {"len", "body"} /\ cur[i] = c)
  /\ \A m \in sent : m.from = i /\ m.to = j =>
       m \in Got(i, j) \union Queue(i, j) \union Wire(i, j) \union Out(i, j)
  /\ Sorted(stepped[j], i) /\ Sorted(message_rx[j], i)
  /\ Below(Got(i, j), Queue(i, j) \union Wire(i, j))
  /\ Below(Queue(i, j), Wire(i, j))
FifoInv ==
  /\ \A j \in Node : \A m \in Range(stepped[j]) : Gone(m)
  /\ \A i, j \in Node : Undisturbed(i, j) => PairInv(i, j)

-----------------------------------------------------------------------------
(* Types *)

LEMMA HeadTail ==
  ASSUME NEW S, NEW s \in Seq(S), s # <<>>
  PROVE  /\ Head(s) \in S /\ Head(s) = s[1] /\ 1 \in DOMAIN s
         /\ Tail(s) \in Seq(S) /\ Len(Tail(s)) = Len(s) - 1
         /\ DOMAIN Tail(s) = 1..(Len(s) - 1)
         /\ \A p \in DOMAIN Tail(s) : p + 1 \in DOMAIN s /\ Tail(s)[p] = s[p + 1]
OBVIOUS

LEMMA InRange ==
  ASSUME NEW s, NEW x
  PROVE  x \in Range(s) <=> \E p \in DOMAIN s : s[p] = x
BY DEF Range

PartType == [kind : {"len", "body"}, msg : Msg]

LEMMA InBodies ==
  ASSUME NEW q, NEW m
  PROVE  m \in Bodies(q) <=> \E p \in DOMAIN q : q[p].kind = "body" /\ q[p].msg = m
BY InRange DEF Bodies

LEMMA BodiesType ==
  ASSUME NEW q \in Seq(PartType)
  PROVE  Bodies(q) \subseteq Msg /\ (q # <<>> => Head(q).msg \in Msg)
<1>1. \A p \in DOMAIN q : q[p].msg \in Msg
  <2>1. \A p \in DOMAIN q : q[p] \in PartType
    OBVIOUS
  <2> QED BY <2>1 DEF PartType
<1>2. q # <<>> => Head(q) = q[1] /\ 1 \in DOMAIN q
  BY HeadTail
<1> QED BY <1>1, <1>2, InBodies

\* The current message exists while send_messages runs.
LEMMA CurrentMessage ==
  ASSUME TypeOK, SenderInv, NEW i \in Node, pc[i] # "select"
  PROVE  Current(i) \in Msg /\ Current(i) = outbox[i][1] /\ Len(outbox[i]) >= 1
<1>1. outbox[i] \in Seq(Msg) /\ outbox[i] # <<>>
  BY DEF TypeOK, SenderInv, SenderOK
<1> QED BY <1>1, HeadTail DEF Current

LEMMA DoneTypes ==
  ASSUME TypeOK, SenderInv, NEW i \in Node, pc[i] # "select", Done(i)
  PROVE  /\ outbox' \in [Node -> Seq(Msg)]
         /\ pc' \in [Node -> {"select", "send", "connect", "len", "body"}]
         /\ cur' \in [Node -> DOMAIN conns \union {NoConn}]
<1>1. outbox[i] \in Seq(Msg) /\ outbox[i] # <<>>
  BY DEF TypeOK, SenderInv, SenderOK
<1>2. Tail(outbox[i]) \in Seq(Msg)
  BY <1>1, HeadTail
<1> QED BY <1>2 DEF Done, TypeOK

\* Connection c goes to reader state k, is cut or not and has data q; its ends
\* and the other connections stay.
Becomes(c, k, b, q) ==
  /\ conns' \in Seq(Conn) /\ DOMAIN conns' = DOMAIN conns
  /\ \A d \in DOMAIN conns : d # c => conns'[d] = conns[d]
  /\ conns'[c].from = conns[c].from /\ conns'[c].to = conns[c].to
  /\ conns'[c].reader = k /\ conns'[c].cut = b /\ conns'[c].data = q

LEMMA ConnType ==
  ASSUME TypeOK, NEW c \in DOMAIN conns
  PROVE  /\ conns[c] \in Conn /\ conns[c].data \in Seq(PartType)
         /\ conns[c].from \in Node /\ conns[c].to \in Node
         /\ DOMAIN conns = 1..Len(conns) /\ Len(conns) \in Nat
         /\ DOMAIN conns[c].data = 1..Len(conns[c].data)
<1>1. conns \in Seq(Conn)
  BY DEF TypeOK
<1>2. conns[c] \in Conn /\ DOMAIN conns = 1..Len(conns) /\ Len(conns) \in Nat
  BY <1>1
<1>3. conns[c].data \in Seq(PartType) /\ conns[c].from \in Node /\ conns[c].to \in Node
  BY <1>2 DEF Conn, PartType
<1>4. DOMAIN conns[c].data = 1..Len(conns[c].data)
  BY <1>3
<1> QED BY <1>2, <1>3, <1>4

\* A connection is replaced by a new version of it.
LEMMA Replaced ==
  ASSUME TypeOK, NEW c \in DOMAIN conns, NEW updated \in Conn,
         updated.from = conns[c].from, updated.to = conns[c].to, conns' = [conns EXCEPT ![c] = updated]
  PROVE  Becomes(c, updated.reader, updated.cut, updated.data)
<1>1. conns \in Seq(Conn)
  BY DEF TypeOK
<1> QED BY <1>1 DEF Becomes

LEMMA AcceptsEffect ==
  ASSUME TypeOK, NEW c \in DOMAIN conns, NEW m \in Msg, NEW k \in {"len", "body"},
         Accepts(c, Part(k, m))
  PROVE  Becomes(c, conns[c].reader, conns[c].cut,
                 IF conns[c].cut THEN conns[c].data ELSE Append(conns[c].data, Part(k, m)))
<1>1. conns \in Seq(Conn) /\ conns[c] \in Conn /\ conns[c].data \in Seq(PartType)
  BY ConnType DEF TypeOK
<1>2. CASE conns[c].cut
  BY <1>1, <1>2 DEF Accepts, Becomes
<1>3. CASE ~conns[c].cut
  <2> DEFINE updated == [conns[c] EXCEPT !.data = Append(@, Part(k, m))]
  <2>1. Append(conns[c].data, Part(k, m)) \in Seq(PartType)
    BY <1>1 DEF Part, PartType
  <2>2. /\ updated \in Conn /\ updated.data = Append(conns[c].data, Part(k, m))
        /\ updated.from = conns[c].from /\ updated.to = conns[c].to
        /\ updated.cut = conns[c].cut /\ updated.reader = conns[c].reader
    BY <1>1, <2>1 DEF Conn, PartType
  <2>3. conns' = [conns EXCEPT ![c] = updated]
    BY <1>3 DEF Accepts
  <2> HIDE DEF updated
  <2> QED BY <1>3, <2>2, <2>3, Replaced
<1> QED BY <1>2, <1>3

LEMMA ConnEffect ==
  ASSUME TypeOK, NEW c \in DOMAIN conns, NEW q \in Seq(PartType)
  PROVE  /\ \A k \in {"backlog", "len", "body", "done"} :
              conns' = [conns EXCEPT ![c].reader = k, ![c].data = q] =>
                Becomes(c, k, conns[c].cut, q)
         /\ conns' = [conns EXCEPT ![c].cut = TRUE, ![c].data = q] =>
              Becomes(c, conns[c].reader, TRUE, q)
         /\ conns' = [conns EXCEPT ![c].closed = TRUE] =>
              Becomes(c, conns[c].reader, conns[c].cut, conns[c].data)
         /\ conns' = [conns EXCEPT ![c].reader = "len"] =>
              Becomes(c, "len", conns[c].cut, conns[c].data)
         /\ Hangup(c) => Becomes(c, "done", TRUE, <<>>)
<1>1. conns \in Seq(Conn) /\ conns[c] \in Conn
  BY ConnType DEF TypeOK
<1>2. ASSUME NEW k \in {"backlog", "len", "body", "done"},
             conns' = [conns EXCEPT ![c].reader = k, ![c].data = q]
      PROVE  Becomes(c, k, conns[c].cut, q)
  <2> DEFINE updated == [conns[c] EXCEPT !.reader = k, !.data = q]
  <2>1. /\ updated \in Conn /\ updated.data = q /\ updated.cut = conns[c].cut /\ updated.reader = k
        /\ updated.from = conns[c].from /\ updated.to = conns[c].to
    BY <1>1 DEF Conn, PartType
  <2>2. conns' = [conns EXCEPT ![c] = updated]
    BY <1>1, <1>2
  <2> HIDE DEF updated
  <2> QED BY <2>1, <2>2, Replaced
<1>3. ASSUME conns' = [conns EXCEPT ![c].cut = TRUE, ![c].data = q]
      PROVE  Becomes(c, conns[c].reader, TRUE, q)
  <2> DEFINE updated == [conns[c] EXCEPT !.cut = TRUE, !.data = q]
  <2>1. /\ updated \in Conn /\ updated.data = q /\ updated.cut = TRUE /\ updated.reader = conns[c].reader
        /\ updated.from = conns[c].from /\ updated.to = conns[c].to
    BY <1>1 DEF Conn, PartType
  <2>2. conns' = [conns EXCEPT ![c] = updated]
    BY <1>1, <1>3
  <2> HIDE DEF updated
  <2> QED BY <2>1, <2>2, Replaced
<1>4. ASSUME conns' = [conns EXCEPT ![c].closed = TRUE]
      PROVE  Becomes(c, conns[c].reader, conns[c].cut, conns[c].data)
  <2> DEFINE updated == [conns[c] EXCEPT !.closed = TRUE]
  <2>1. /\ updated \in Conn /\ updated.data = conns[c].data /\ updated.cut = conns[c].cut
        /\ updated.reader = conns[c].reader /\ updated.from = conns[c].from /\ updated.to = conns[c].to
    BY <1>1 DEF Conn, PartType
  <2>2. conns' = [conns EXCEPT ![c] = updated]
    BY <1>1, <1>4
  <2> HIDE DEF updated
  <2> QED BY <2>1, <2>2, Replaced
<1>5. ASSUME conns' = [conns EXCEPT ![c].reader = "len"]
      PROVE  Becomes(c, "len", conns[c].cut, conns[c].data)
  <2> DEFINE updated == [conns[c] EXCEPT !.reader = "len"]
  <2>1. /\ updated \in Conn /\ updated.data = conns[c].data /\ updated.cut = conns[c].cut
        /\ updated.reader = "len" /\ updated.from = conns[c].from /\ updated.to = conns[c].to
    BY <1>1 DEF Conn, PartType
  <2>2. conns' = [conns EXCEPT ![c] = updated]
    BY <1>1, <1>5
  <2> HIDE DEF updated
  <2> QED BY <2>1, <2>2, Replaced
<1>6. ASSUME Hangup(c)
      PROVE  Becomes(c, "done", TRUE, <<>>)
  <2> DEFINE updated == [conns[c] EXCEPT !.reader = "done", !.cut = TRUE, !.data = <<>>]
  <2>1. /\ updated \in Conn /\ updated.data = <<>> /\ updated.cut = TRUE
        /\ updated.reader = "done" /\ updated.from = conns[c].from /\ updated.to = conns[c].to
    <3>1. <<>> \in Seq(PartType)
      OBVIOUS
    <3> QED BY <1>1, <3>1 DEF Conn, PartType
  <2>2. conns' = [conns EXCEPT ![c] = updated]
    BY <1>1, <1>6 DEF Hangup
  <2> HIDE DEF updated
  <2> QED BY <2>1, <2>2, Replaced
<1> QED BY <1>2, <1>3, <1>4, <1>5, <1>6

\* What the readers and the network do to connection c.
LEMMA ReadEffect ==
  ASSUME TypeOK, NEW c \in DOMAIN conns
  PROVE  /\ accept(c) => Becomes(c, "len", conns[c].cut, conns[c].data)
         /\ ReadLength(c) =>
              \/ /\ Head(conns[c].data).kind = "len"
                 /\ Becomes(c, "body", conns[c].cut, Tail(conns[c].data))
                 /\ UNCHANGED excused
              \/ Becomes(c, "done", TRUE, <<>>)
         /\ ReadBody(c) => Becomes(c, "len", conns[c].cut, Tail(conns[c].data))
         /\ ReadEnds(c) => Becomes(c, "done", TRUE, <<>>)
         /\ Break(c) => \E k \in 0..Len(conns[c].data) :
              Becomes(c, conns[c].reader, TRUE, SubSeq(conns[c].data, 1, k))
<1>1. conns[c].data \in Seq(PartType) /\ <<>> \in Seq(PartType)
  BY ConnType
<1>2. conns[c].data # <<>> => Tail(conns[c].data) \in Seq(PartType)
  BY <1>1, HeadTail
<1>3. ASSUME ReadLength(c)
      PROVE  \/ /\ Head(conns[c].data).kind = "len"
                /\ Becomes(c, "body", conns[c].cut, Tail(conns[c].data))
                /\ UNCHANGED excused
             \/ Becomes(c, "done", TRUE, <<>>)
  <2>1. CASE Hangup(c)
    BY <1>1, <2>1, ConnEffect
  <2>2. CASE ~Hangup(c)
    <3>1. /\ Head(conns[c].data).kind = "len" /\ conns[c].data # <<>> /\ UNCHANGED excused
          /\ conns' = [conns EXCEPT ![c].reader = "body", ![c].data = Tail(conns[c].data)]
      BY <1>3, <2>2 DEF ReadLength
    <3> QED BY <1>2, <3>1, ConnEffect
  <2> QED BY <2>1, <2>2
<1>4. ASSUME ReadBody(c)
      PROVE  Becomes(c, "len", conns[c].cut, Tail(conns[c].data))
  <2>1. /\ conns[c].data # <<>>
        /\ conns' = [conns EXCEPT ![c].reader = "len", ![c].data = Tail(conns[c].data)]
    BY <1>4 DEF ReadBody
  <2> QED BY <1>2, <2>1, ConnEffect
<1>5. ASSUME Break(c)
      PROVE  \E k \in 0..Len(conns[c].data) :
               Becomes(c, conns[c].reader, TRUE, SubSeq(conns[c].data, 1, k))
  <2>1. PICK k \in 0..Len(conns[c].data) :
          conns' = [conns EXCEPT ![c].cut = TRUE, ![c].data = SubSeq(conns[c].data, 1, k)]
    BY <1>5 DEF Break
  <2>2. SubSeq(conns[c].data, 1, k) \in Seq(PartType)
    BY <1>1
  <2> QED BY <2>1, <2>2, ConnEffect
<1>6. accept(c) => Becomes(c, "len", conns[c].cut, conns[c].data)
  BY <1>1, ConnEffect DEF accept
<1>7. ReadEnds(c) => Becomes(c, "done", TRUE, <<>>)
  BY <1>1, ConnEffect DEF ReadEnds
<1> QED BY <1>3, <1>4, <1>5, <1>6, <1>7

\* What the writer does to its connection.
LEMMA WriteEffect ==
  ASSUME TypeOK, SenderInv, NEW i \in Node
  PROVE  LET c == cur[i]
             grown(k) == IF conns[c].cut THEN conns[c].data
                         ELSE Append(conns[c].data, Part(k, Current(i)))
         IN  /\ Sending(i, "len") \/ Sending(i, "body") =>
                  /\ c \in DOMAIN conns /\ c # NoConn /\ Current(i) \in Msg
                  /\ conns[c].from = i /\ conns[c].to = Current(i).to
             /\ WriteLength(i) => Becomes(c, conns[c].reader, conns[c].cut, grown("len"))
             /\ WriteBody(i) => Becomes(c, conns[c].reader, conns[c].cut, grown("body"))
             /\ WriteFails(i) => Becomes(c, conns[c].reader, conns[c].cut, conns[c].data)
<1>1. ASSUME Sending(i, "len") \/ Sending(i, "body")
      PROVE  /\ cur[i] \in DOMAIN conns /\ cur[i] # NoConn /\ Current(i) \in Msg
             /\ conns[cur[i]].from = i /\ conns[cur[i]].to = Current(i).to
  BY <1>1, CurrentMessage DEF Sending, SenderInv, SenderOK, TypeOK
<1>2. <<>> \in Seq(PartType)
  OBVIOUS
<1>3. WriteFails(i) => Becomes(cur[i], conns[cur[i]].reader, conns[cur[i]].cut, conns[cur[i]].data)
  BY <1>1, <1>2, ConnEffect DEF WriteFails
<1> QED BY <1>1, <1>3, AcceptsEffect DEF WriteLength, WriteBody

\* A new connection.
LEMMA ConnectEffect ==
  ASSUME TypeOK, SenderInv, NEW i \in Node, Connect(i)
  PROVE  LET n == Len(conns) + 1
         IN  /\ conns' \in Seq(Conn) /\ DOMAIN conns' = DOMAIN conns \union {n} /\ n \notin DOMAIN conns
             /\ n \in Nat /\ n # NoConn
             /\ \A d \in DOMAIN conns : conns'[d] = conns[d]
             /\ conns'[n].from = i /\ conns'[n].to = Current(i).to
             /\ conns'[n].reader = "backlog" /\ ~conns'[n].cut /\ conns'[n].data = <<>>
<1> DEFINE updated == [from |-> i, to |-> Current(i).to, data |-> <<>>, closed |-> FALSE,
                   cut |-> FALSE, reader |-> "backlog"]
<1>1. Current(i).to \in Node
  BY CurrentMessage, TransportAssumption DEF Connect, Sending
<1>2. <<>> \in Seq(PartType)
  OBVIOUS
<1>3. updated \in Conn
  BY <1>1, <1>2 DEF Conn, PartType
<1>4. conns' = Append(conns, updated) /\ conns \in Seq(Conn)
  BY DEF Connect, TypeOK
<1>5. /\ updated.from = i /\ updated.to = Current(i).to /\ updated.reader = "backlog" /\ ~updated.cut
      /\ updated.data = <<>>
  OBVIOUS
<1> HIDE DEF updated
<1> QED BY <1>3, <1>4, <1>5, TransportAssumption

\* A crash.
LEMMA CrashEffect ==
  ASSUME TypeOK, NEW i \in Node, Crash(i)
  PROVE  /\ conns' \in Seq(Conn) /\ DOMAIN conns' = DOMAIN conns
         /\ \A c \in DOMAIN conns :
              /\ conns'[c].from = conns[c].from /\ conns'[c].to = conns[c].to
              /\ conns[c].to = i =>
                   conns'[c].reader = "done" /\ conns'[c].cut = TRUE /\ conns'[c].data = <<>>
              /\ conns[c].to # i => /\ conns'[c].reader = conns[c].reader
                                    /\ conns'[c].cut = conns[c].cut
                                    /\ conns'[c].data = conns[c].data
<1>1. conns \in Seq(Conn) /\ DOMAIN conns = 1..Len(conns)
  BY DEF TypeOK
<1>2. DOMAIN conns' = DOMAIN conns
  BY DEF Crash
<1>3. ASSUME NEW c \in DOMAIN conns
      PROVE  /\ conns'[c] \in Conn
             /\ conns'[c].from = conns[c].from /\ conns'[c].to = conns[c].to
             /\ conns[c].to = i =>
                  conns'[c].reader = "done" /\ conns'[c].cut = TRUE /\ conns'[c].data = <<>>
             /\ conns[c].to # i => /\ conns'[c].reader = conns[c].reader
                                   /\ conns'[c].cut = conns[c].cut
                                   /\ conns'[c].data = conns[c].data
  <2>1. conns[c] \in Conn
    BY <1>1
  <2>2. CASE conns[c].to = i
    <3>1. conns'[c] = [conns[c] EXCEPT !.reader = "done", !.cut = TRUE, !.data = <<>>]
      BY <2>2 DEF Crash
    <3>2. <<>> \in Seq(PartType)
      OBVIOUS
    <3> QED BY <2>1, <2>2, <3>1, <3>2 DEF Conn, PartType
  <2>3. CASE conns[c].to # i
    <3>1. conns'[c] = [conns[c] EXCEPT !.closed = @ \/ conns[c].from = i]
      BY <2>3 DEF Crash
    <3> DEFINE b == conns[c].closed \/ conns[c].from = i
    <3>2. b \in BOOLEAN /\ conns'[c] = [conns[c] EXCEPT !.closed = b]
      BY <3>1
    <3> HIDE DEF b
    <3> QED BY <2>1, <2>3, <3>2 DEF Conn
  <2> QED BY <2>2, <2>3
<1>4. conns' \in Seq(Conn)
  <2>1. conns' = [c \in 1..Len(conns) |-> conns'[c]]
    BY <1>1 DEF Crash
  <2>2. conns' \in [1..Len(conns) -> Conn]
    BY <1>1, <1>3, <2>1
  <2> QED BY <1>1, <2>2
<1> QED BY <1>2, <1>3, <1>4

\* The connections after a step: none disappears, changes its ends or heals.
ConnsKept ==
  /\ conns' \in Seq(Conn) /\ DOMAIN conns \subseteq DOMAIN conns'
  /\ \A d \in DOMAIN conns :
       /\ conns'[d].from = conns[d].from /\ conns'[d].to = conns[d].to
       /\ conns[d].cut => conns'[d].cut

LEMMA ConnsGrow ==
  ASSUME TypeOK, SenderInv, [Next]_vars
  PROVE  ConnsKept
<1>1. conns \in Seq(Conn)
  BY DEF TypeOK
<1>2. ASSUME UNCHANGED conns
      PROVE  ConnsKept
  BY <1>1, <1>2 DEF ConnsKept
<1>3. ASSUME NEW c \in DOMAIN conns, NEW k, NEW b, NEW q, Becomes(c, k, b, q), conns[c].cut => b
      PROVE  ConnsKept
  BY <1>3 DEF Becomes, ConnsKept
<1>4. ASSUME NEW i \in Node, SendStep(i)
      PROVE  ConnsKept
  <2>1. CASE SendToSelf(i) \/ DropUnknownPeer(i) \/ send_to_peer(i) \/ ConnectFails(i)
    BY <1>2, <2>1 DEF SendToSelf, DropUnknownPeer, send_to_peer, ConnectFails
  <2>2. CASE Connect(i)
    BY <2>2, ConnectEffect DEF ConnsKept
  <2>3. CASE WriteLength(i) \/ WriteBody(i) \/ WriteFails(i)
    BY <1>3, <2>3, WriteEffect DEF WriteLength, WriteBody, WriteFails
  <2> QED BY <1>4, <2>1, <2>2, <2>3 DEF SendStep
<1>5. ASSUME NEW c \in DOMAIN conns, ReadStep(c) \/ Break(c)
      PROVE  ConnsKept
  BY <1>3, <1>5, ReadEffect DEF ReadStep
<1>6. ASSUME NEW i \in Node, Crash(i)
      PROVE  ConnsKept
  BY <1>6, CrashEffect DEF ConnsKept
<1>7. ASSUME NEW i \in Node, NEW j \in Node,
             send_messages(i) \/ recv_message(i) \/ new(i) \/ add_peer(i, j) \/ remove_peer(i, j)
      PROVE  UNCHANGED conns
  BY <1>7 DEF send_messages, recv_message, new, add_peer, remove_peer
<1>8. CASE UNCHANGED vars
  BY <1>2, <1>8 DEF vars
<1> QED BY <1>2, <1>4, <1>5, <1>6, <1>7, <1>8 DEF Next

LEMMA TypeStep ==
  ASSUME TypeOK, SenderInv, [Next]_vars
  PROVE  TypeOK'
<1>1. conns' \in Seq(Conn) /\ DOMAIN conns \subseteq DOMAIN conns'
  BY ConnsGrow DEF ConnsKept
<1>2. /\ connections \in [Node -> [Node -> DOMAIN conns' \union {NoConn}]]
      /\ cur \in [Node -> DOMAIN conns' \union {NoConn}]
  <2>1. DOMAIN conns \union {NoConn} \subseteq DOMAIN conns' \union {NoConn}
    BY <1>1
  <2> QED BY <2>1 DEF TypeOK
<1>3. /\ MaxFaults \in Nat /\ crashes \in 0..faults /\ faults \in 0..MaxFaults
      /\ Peers \in [Node -> SUBSET Node] /\ \A m \in Msg : m.from \in Node /\ m.to \in Node
  BY TransportAssumption DEF TypeOK
<1>4. ASSUME NEW i \in Node, SendStep(i)
      PROVE  TypeOK'
  <2>1. pc[i] # "select"
    BY <1>4 DEF SendStep, SendToSelf, DropUnknownPeer, send_to_peer, Connect, ConnectFails,
                WriteLength, WriteBody, WriteFails, Sending
  <2>2. Current(i) \in Msg /\ Current(i).to \in Node
    BY <1>3, <2>1, CurrentMessage
  <2>3. Done(i) => /\ outbox' \in [Node -> Seq(Msg)]
                   /\ pc' \in [Node -> {"select", "send", "connect", "len", "body"}]
                   /\ cur' \in [Node -> DOMAIN conns' \union {NoConn}]
    BY <1>2, <2>1, DoneTypes DEF Done
  <2>4. CASE SendToSelf(i)
    <3>1. message_rx' \in [Node -> Seq(Msg)]
      BY <2>2, <2>4 DEF TypeOK, SendToSelf
    <3> QED BY <1>1, <1>2, <2>3, <2>4, <3>1 DEF TypeOK, SendToSelf, counters
  <2>5. CASE DropUnknownPeer(i)
    BY <1>1, <1>2, <2>2, <2>3, <2>5 DEF TypeOK, DropUnknownPeer, counters
  <2>6. CASE send_to_peer(i)
    <3>1. connections[i][Current(i).to] \in DOMAIN conns' \union {NoConn}
      BY <1>2, <2>2
    <3>2. cur' \in [Node -> DOMAIN conns' \union {NoConn}]
      BY <1>2, <2>6, <3>1 DEF send_to_peer
    <3> QED BY <1>1, <1>2, <2>6, <3>2 DEF TypeOK, send_to_peer, counters
  <2>7. CASE Connect(i)
    <3>1. Len(conns) + 1 \in DOMAIN conns'
      BY <2>7, ConnectEffect
    <3>2. cur' \in [Node -> DOMAIN conns' \union {NoConn}]
      BY <1>2, <2>7, <3>1 DEF Connect
    <3> QED BY <1>1, <1>2, <2>7, <3>2 DEF TypeOK, Connect, counters
  <2>8. CASE ConnectFails(i)
    <3>1. connections' \in [Node -> [Node -> DOMAIN conns' \union {NoConn}]]
      BY <1>2, <2>2, <2>8 DEF ConnectFails
    <3>2. faults' \in 0..MaxFaults /\ crashes' \in 0..faults'
      BY <1>3, <2>8 DEF ConnectFails, Fault
    <3> QED BY <1>1, <2>2, <2>3, <2>8, <3>1, <3>2 DEF TypeOK, ConnectFails
  <2>9. CASE WriteLength(i)
    BY <1>1, <1>2, <2>9 DEF TypeOK, WriteLength, counters
  <2>10. CASE WriteBody(i)
    <3>1. connections' \in [Node -> [Node -> DOMAIN conns' \union {NoConn}]]
      BY <1>2, <2>2, <2>10 DEF WriteBody
    <3> QED BY <1>1, <2>2, <2>3, <2>10, <3>1 DEF TypeOK, WriteBody, counters
  <2>11. CASE WriteFails(i)
    <3>1. connections' \in [Node -> [Node -> DOMAIN conns' \union {NoConn}]]
      BY <1>2, <2>2, <2>11 DEF WriteFails
    <3>2. /\ outbox' \in [Node -> Seq(Msg)]
          /\ pc' \in [Node -> {"select", "send", "connect", "len", "body"}]
          /\ cur' \in [Node -> DOMAIN conns' \union {NoConn}]
          /\ excused' \subseteq Msg
      BY <1>2, <2>2, <2>3, <2>11 DEF WriteFails, TypeOK
    <3> QED BY <1>1, <2>11, <3>1, <3>2 DEF TypeOK, WriteFails, counters
  <2> QED BY <1>4, <2>4, <2>5, <2>6, <2>7, <2>8, <2>9, <2>10, <2>11 DEF SendStep
<1>5. ASSUME NEW c \in DOMAIN conns, ReadStep(c) \/ Break(c)
      PROVE  TypeOK'
  <2>1. conns[c].data \in Seq(PartType) /\ conns[c].to \in Node
    BY ConnType
  <2>2. ASSUME NEW q \in Seq(PartType)
        PROVE  Bodies(q) \subseteq Msg /\ (q # <<>> => Head(q).msg \in Msg)
    BY BodiesType
  <2>3. CASE accept(c) \/ ReadEnds(c)
    BY <1>1, <1>2, <2>3 DEF TypeOK, accept, ReadEnds, counters, loopVars
  <2>4. CASE ReadLength(c)
    <3>1. Bodies(conns[c].data) \subseteq Msg /\ Head(conns[c].data).msg \in Msg
      BY <2>1, <2>2, <2>4 DEF ReadLength
    <3>2. excused' \subseteq excused \union Bodies(conns[c].data) \union {Head(conns[c].data).msg}
      BY <2>4 DEF ReadLength
    <3>3. excused' \subseteq Msg
      BY <3>1, <3>2 DEF TypeOK
    <3> QED BY <1>1, <1>2, <2>4, <3>3 DEF TypeOK, ReadLength, counters, loopVars
  <2>5. CASE ReadBody(c)
    <3>1. message_rx' \in [Node -> Seq(Msg)]
      BY <2>1, <2>2, <2>5 DEF ReadBody, TypeOK
    <3> QED BY <1>1, <1>2, <2>5, <3>1 DEF TypeOK, ReadBody, counters, loopVars
  <2>6. CASE Break(c)
    <3>1. PICK k \in 0..Len(conns[c].data) :
            excused' = excused \union Bodies(SubSeq(conns[c].data, k + 1, Len(conns[c].data)))
      BY <2>6 DEF Break
    <3>2. SubSeq(conns[c].data, k + 1, Len(conns[c].data)) \in Seq(PartType)
      BY <2>1
    <3>3. excused' \subseteq Msg
      BY <2>2, <3>1, <3>2 DEF TypeOK
    <3>4. faults' \in 0..MaxFaults /\ crashes' \in 0..faults'
      BY <1>3, <2>6 DEF Break, Fault
    <3> QED BY <1>1, <1>2, <2>6, <3>3, <3>4 DEF TypeOK, Break, loopVars
  <2> QED BY <1>5, <2>3, <2>4, <2>5, <2>6 DEF ReadStep
<1>6. ASSUME NEW i \in Node, Crash(i)
      PROVE  TypeOK'
  <2>1. excused' \subseteq Msg
    <3>1. Range(outbox[i]) \subseteq Msg /\ Range(message_rx[i]) \subseteq Msg
      BY InRange DEF TypeOK
    <3>2. \A c \in DOMAIN conns : Bodies(conns[c].data) \subseteq Msg
      BY ConnType, BodiesType
    <3>3. UNION {Bodies(conns[c].data) : c \in {d \in DOMAIN conns : conns[d].to = i}} \subseteq Msg
      BY <3>2
    <3> QED BY <1>6, <3>1, <3>3 DEF Crash, TypeOK
  <2>2. faults' \in 0..MaxFaults /\ crashes' \in 0..faults'
    <3>1. faults < MaxFaults /\ faults' = faults + 1 /\ crashes' = crashes + 1
      BY <1>6 DEF Crash, Fault
    <3> QED BY <1>3, <3>1
  <2>3. connections' \in [Node -> [Node -> DOMAIN conns' \union {NoConn}]]
    BY <1>2, <1>6 DEF Crash
  <2>4. cur' \in [Node -> DOMAIN conns' \union {NoConn}]
    BY <1>2, <1>6 DEF Crash
  <2>5. <<>> \in Seq(Msg)
    OBVIOUS
  <2> QED BY <1>1, <1>6, <2>1, <2>2, <2>3, <2>4, <2>5 DEF TypeOK, Crash
<1>7. ASSUME NEW i \in Node, send_messages(i)
      PROVE  TypeOK'
  <2>1. PICK n \in 1..MaxBatch : \E b \in [1..n -> {m \in Msg \ sent : m.from = i}] :
          outbox' = [outbox EXCEPT ![i] = b] /\ sent' = sent \union Range(b)
    BY <1>7 DEF send_messages
  <2>2. PICK batch \in [1..n -> {m \in Msg \ sent : m.from = i}] :
          outbox' = [outbox EXCEPT ![i] = batch] /\ sent' = sent \union Range(batch)
    BY <2>1
  <2>3. batch \in Seq(Msg) /\ Range(batch) \subseteq Msg
    BY TransportAssumption DEF Range
  <2> QED BY <1>1, <1>2, <1>7, <2>2, <2>3 DEF TypeOK, send_messages, counters
<1>8. ASSUME NEW i \in Node, recv_message(i)
      PROVE  TypeOK'
  <2>1. message_rx[i] \in Seq(Msg) /\ message_rx[i] # <<>>
    BY <1>8 DEF recv_message, TypeOK
  <2>2. Head(message_rx[i]) \in Msg /\ Tail(message_rx[i]) \in Seq(Msg)
    BY <2>1, HeadTail
  <2> QED BY <1>1, <1>2, <1>8, <2>2 DEF TypeOK, recv_message, counters, loopVars
<1>9. ASSUME NEW i \in Node, new(i)
      PROVE  TypeOK'
  BY <1>1, <1>2, <1>3, <1>9 DEF TypeOK, new, counters, loopVars
<1>10. ASSUME NEW i \in Node, NEW j \in Node, add_peer(i, j) \/ remove_peer(i, j)
       PROVE  TypeOK'
  <2>1. faults' \in 0..MaxFaults /\ crashes' \in 0..faults'
    BY <1>3, <1>10 DEF add_peer, remove_peer, Fault
  <2>2. peers' \in [Node -> SUBSET Node]
    <3>1. peers[i] \union {j} \in SUBSET Node /\ peers[i] \ {j} \in SUBSET Node
      BY DEF TypeOK
    <3> QED BY <1>10, <3>1 DEF add_peer, remove_peer, TypeOK
  <2> QED BY <1>1, <1>2, <1>10, <2>1, <2>2 DEF TypeOK, add_peer, remove_peer, loopVars
<1>11. CASE UNCHANGED vars
  BY <1>11 DEF TypeOK, vars
<1> QED BY <1>4, <1>5, <1>6, <1>7, <1>8, <1>9, <1>10, <1>11 DEF Next

-----------------------------------------------------------------------------
(* The sender *)

LEMMA SenderKept ==
  ASSUME TypeOK, SenderInv, ConnsKept, NEW k \in Node, pc'[k] = pc[k], outbox'[k] = outbox[k],
         cur'[k] = cur[k], connections'[k] = connections[k]
  PROVE  SenderOK(k)'
<1>1. SenderOK(k) /\ \A j \in Node : connections[k][j] \in DOMAIN conns \union {NoConn}
  BY DEF SenderInv, TypeOK
<1>2. cur[k] \in DOMAIN conns \union {NoConn}
  BY DEF TypeOK
<1> QED BY <1>1, <1>2 DEF SenderOK, ConnsKept, Current

\* send_message has returned.
LEMMA SenderDone ==
  ASSUME TypeOK, SenderInv, ConnsKept, NEW i \in Node, pc[i] # "select", Done(i),
         \A j \in Node :
           \/ connections'[i][j] \in {connections[i][j], NoConn}
           \/ /\ connections'[i][j] = cur[i] /\ cur[i] \in DOMAIN conns
              /\ conns[cur[i]].from = i /\ conns[cur[i]].to = j
  PROVE  SenderOK(i)'
<1>1. outbox[i] \in Seq(Msg) /\ outbox[i] # <<>>
  BY DEF TypeOK, SenderInv, SenderOK
<1>2. /\ outbox'[i] = Tail(outbox[i])
      /\ pc'[i] = IF Len(outbox[i]) = 1 THEN "select" ELSE "send"
  BY DEF Done, TypeOK
<1>3. Tail(outbox[i]) = <<>> <=> Len(outbox[i]) = 1
  <2>1. /\ Tail(outbox[i]) \in Seq(Msg) /\ Len(Tail(outbox[i])) = Len(outbox[i]) - 1
        /\ Len(outbox[i]) \in Nat
    BY <1>1, HeadTail
  <2>2. \A q \in Seq(Msg) : q = <<>> <=> Len(q) = 0
    OBVIOUS
  <2>3. Tail(outbox[i]) = <<>> <=> Len(Tail(outbox[i])) = 0
    <3> DEFINE q == Tail(outbox[i])
    <3>1. q \in Seq(Msg)
      BY <2>1
    <3> HIDE DEF q
    <3>2. q = <<>> <=> Len(q) = 0
      BY <2>2, <3>1
    <3> QED BY <3>2 DEF q
  <2> QED BY <2>1, <2>3
<1>4. ASSUME NEW j \in Node, connections'[i][j] # NoConn
      PROVE  conns'[connections'[i][j]].from = i /\ conns'[connections'[i][j]].to = j
  <2>1. CASE connections'[i][j] = connections[i][j]
    <3>1. connections[i][j] \in DOMAIN conns
      BY <1>4, <2>1 DEF TypeOK
    <3> QED BY <1>4, <2>1, <3>1 DEF SenderInv, SenderOK, ConnsKept
  <2>2. CASE connections'[i][j] # connections[i][j]
    BY <1>4, <2>2 DEF ConnsKept
  <2> QED BY <2>1, <2>2
<1> QED BY <1>2, <1>3, <1>4 DEF SenderOK

LEMMA SenderStep ==
  ASSUME TypeOK, SenderInv, [Next]_vars
  PROVE  SenderInv'
<1>1. ConnsKept
  BY ConnsGrow
<1>2. TypeOK'
  BY TypeStep
<1>3. \A c \in DOMAIN conns' : conns'[c].from # conns'[c].to
  <2>1. CASE DOMAIN conns' = DOMAIN conns
    BY <1>1, <2>1 DEF ConnsKept, SenderInv
  <2>2. CASE \E i \in Node : Connect(i)
    <3>1. PICK i \in Node : Connect(i)
      BY <2>2
    <3>2. Current(i).to # i
      BY <3>1 DEF Connect, Sending, SenderInv, SenderOK
    <3> QED BY <3>1, <3>2, ConnectEffect DEF SenderInv
  <2>3. ASSUME NEW i \in Node, SendStep(i), ~Connect(i)
        PROVE  DOMAIN conns' = DOMAIN conns
    <3>1. CASE WriteLength(i) \/ WriteBody(i) \/ WriteFails(i)
      BY <3>1, WriteEffect DEF Becomes
    <3> QED BY <2>3, <3>1 DEF SendStep, SendToSelf, DropUnknownPeer, send_to_peer, ConnectFails
  <2>4. ASSUME NEW c \in DOMAIN conns, ReadStep(c) \/ Break(c)
        PROVE  DOMAIN conns' = DOMAIN conns
    BY <2>4, ReadEffect DEF ReadStep, Becomes
  <2>5. ASSUME NEW i \in Node, Crash(i)
        PROVE  DOMAIN conns' = DOMAIN conns
    BY <2>5, CrashEffect
  <2>6. ASSUME NEW i \in Node, NEW j \in Node,
               send_messages(i) \/ recv_message(i) \/ new(i) \/ add_peer(i, j) \/ remove_peer(i, j)
        PROVE  DOMAIN conns' = DOMAIN conns
    BY <2>6 DEF send_messages, recv_message, new, add_peer, remove_peer
  <2>7. CASE UNCHANGED vars
    BY <2>1, <2>7 DEF vars
  <2> QED BY <2>1, <2>2, <2>3, <2>4, <2>5, <2>6, <2>7 DEF Next
<1>4. SUFFICES ASSUME NEW k \in Node
               PROVE  SenderOK(k)'
  BY <1>3 DEF SenderInv
<1>5. ASSUME pc'[k] = pc[k], outbox'[k] = outbox[k], cur'[k] = cur[k], connections'[k] = connections[k]
      PROVE  SenderOK(k)'
  BY <1>1, <1>5, SenderKept
<1>6. ASSUME NEW i \in Node, SendStep(i)
      PROVE  SenderOK(k)'
  <2>1. CASE i # k
    BY <1>5, <1>6, <2>1 DEF SendStep, SendToSelf, DropUnknownPeer, send_to_peer, Connect,
                ConnectFails, WriteLength, WriteBody, WriteFails, Done, TypeOK
  <2>2. CASE i = k
    <3>1. pc[i] # "select" /\ SenderOK(i)
      BY <1>6 DEF SendStep, SendToSelf, DropUnknownPeer, send_to_peer, Connect, ConnectFails,
                  WriteLength, WriteBody, WriteFails, Sending, SenderInv
    <3>2. Current(i) \in Msg /\ Current(i).to \in Node
      BY <3>1, CurrentMessage, TransportAssumption
    <3>3. CASE SendToSelf(i) \/ DropUnknownPeer(i)
      <4>1. connections' = connections /\ Done(i)
        BY <3>3 DEF SendToSelf, DropUnknownPeer
      <4> QED BY <1>1, <2>2, <3>1, <4>1, SenderDone
    <3>4. CASE send_to_peer(i)
      <4>1. /\ cur'[i] = connections[i][Current(i).to] /\ connections' = connections
            /\ outbox' = outbox /\ conns' = conns /\ Current(i).to # i
            /\ pc'[i] = IF connections[i][Current(i).to] = NoConn THEN "connect" ELSE "len"
        BY <3>4 DEF send_to_peer, TypeOK
      <4> QED BY <2>2, <3>1, <3>2, <4>1 DEF SenderOK, Current
    <3>5. CASE Connect(i)
      <4> DEFINE n == Len(conns) + 1
      <4>1. /\ cur'[i] = n /\ connections' = connections /\ outbox' = outbox /\ pc'[i] = "len"
            /\ pc[i] = "connect"
        BY <3>5 DEF Connect, TypeOK, Sending
      <4>2. n # NoConn /\ conns'[n].from = i /\ conns'[n].to = Current(i).to
        BY <3>5, ConnectEffect
      <4>3. \A j \in Node : connections[i][j] \in DOMAIN conns \union {NoConn}
        BY DEF TypeOK
      <4> HIDE DEF n
      <4> QED BY <1>1, <2>2, <3>1, <3>2, <4>1, <4>2, <4>3 DEF SenderOK, Current, ConnsKept
    <3>6. CASE ConnectFails(i)
      <4>1. \A j \in Node : connections'[i][j] \in {connections[i][j], NoConn}
        BY <3>2, <3>6 DEF ConnectFails, TypeOK
      <4> QED BY <1>1, <2>2, <3>1, <3>6, <4>1, SenderDone DEF ConnectFails
    <3>7. CASE WriteLength(i)
      <4>1. cur'[i] = cur[i] /\ connections' = connections /\ outbox' = outbox
            /\ pc'[i] = "body" /\ pc[i] = "len"
        BY <3>7 DEF WriteLength, TypeOK, Sending
      <4>2. \A j \in Node : connections[i][j] \in DOMAIN conns \union {NoConn}
        BY DEF TypeOK
      <4>3. cur[i] \in DOMAIN conns \union {NoConn}
        BY DEF TypeOK
      <4> QED BY <1>1, <2>2, <3>1, <4>1, <4>2, <4>3 DEF SenderOK, Current, ConnsKept
    <3>8. CASE WriteBody(i)
      <4>1. cur[i] \in DOMAIN conns /\ conns[cur[i]].from = i /\ conns[cur[i]].to = Current(i).to
        BY <3>8, WriteEffect DEF WriteBody
      <4>2. \A j \in Node : connections'[i][j] = IF j = Current(i).to THEN cur[i] ELSE connections[i][j]
        BY <3>2, <3>8 DEF WriteBody, TypeOK
      <4> QED BY <1>1, <2>2, <3>1, <3>8, <4>1, <4>2, SenderDone DEF WriteBody
    <3>9. CASE WriteFails(i)
      <4>1. \A j \in Node : connections'[i][j] = IF j = Current(i).to THEN NoConn ELSE connections[i][j]
        BY <3>2, <3>9 DEF WriteFails, TypeOK
      <4>2. CASE Done(i)
        BY <1>1, <2>2, <3>1, <4>1, <4>2, SenderDone
      <4>3. CASE ~Done(i)
        <5>1. pc'[i] = "connect" /\ outbox' = outbox /\ pc[i] \in {"len", "body"}
          BY <3>9, <4>3 DEF WriteFails, TypeOK, Sending
        <5>2. \A j \in Node : connections[i][j] \in DOMAIN conns \union {NoConn}
          BY DEF TypeOK
        <5> QED BY <1>1, <2>2, <3>1, <3>2, <4>1, <5>1, <5>2 DEF SenderOK, Current, ConnsKept
      <4> QED BY <4>2, <4>3
    <3> QED BY <1>6, <3>3, <3>4, <3>5, <3>6, <3>7, <3>8, <3>9 DEF SendStep
  <2> QED BY <2>1, <2>2
<1>7. ASSUME NEW c \in DOMAIN conns, ReadStep(c) \/ Break(c)
      PROVE  SenderOK(k)'
  BY <1>5, <1>7 DEF ReadStep, accept, ReadLength, ReadBody, ReadEnds, Break, loopVars
<1>8. ASSUME NEW i \in Node, Crash(i)
      PROVE  SenderOK(k)'
  <2>1. CASE i # k
    BY <1>5, <1>8, <2>1 DEF Crash, TypeOK
  <2>2. CASE i = k
    <3>1. pc'[k] = "select" /\ outbox'[k] = <<>> /\ \A j \in Node : connections'[k][j] = NoConn
      BY <1>8, <2>2 DEF Crash, TypeOK
    <3> QED BY <3>1 DEF SenderOK
  <2> QED BY <2>1, <2>2
<1>9. ASSUME NEW i \in Node, send_messages(i)
      PROVE  SenderOK(k)'
  <2>1. CASE i # k
    BY <1>5, <1>9, <2>1 DEF send_messages, TypeOK
  <2>2. CASE i = k
    <3>1. PICK n \in 1..MaxBatch : \E b \in [1..n -> {m \in Msg \ sent : m.from = i}] :
            outbox' = [outbox EXCEPT ![i] = b]
      BY <1>9 DEF send_messages
    <3>2. PICK b \in [1..n -> {m \in Msg \ sent : m.from = i}] : outbox' = [outbox EXCEPT ![i] = b]
      BY <3>1
    <3>3. b # <<>> /\ outbox'[i] = b
      BY <3>2, TransportAssumption DEF TypeOK
    <3>4. pc'[i] = "send" /\ connections' = connections /\ conns' = conns
      BY <1>9 DEF send_messages, TypeOK
    <3> QED BY <2>2, <3>3, <3>4 DEF SenderInv, SenderOK
  <2> QED BY <2>1, <2>2
<1>10. ASSUME NEW i \in Node, NEW j \in Node,
              recv_message(i) \/ new(i) \/ add_peer(i, j) \/ remove_peer(i, j)
       PROVE  SenderOK(k)'
  BY <1>5, <1>10 DEF recv_message, new, add_peer, remove_peer, loopVars
<1>11. CASE UNCHANGED vars
  BY <1>5, <1>11 DEF vars
<1> QED BY <1>6, <1>7, <1>8, <1>9, <1>10, <1>11 DEF Next

-----------------------------------------------------------------------------
(* Frames *)

LEMMA FramedAppend ==
  ASSUME NEW q \in Seq(PartType), NEW k, NEW cut, Framed(q, k, cut), k # "done",
         NEW m \in Msg, NEW kind \in {"len", "body"}, LastOf(q, k) # kind
  PROVE  LET t == Append(q, Part(kind, m))
         IN  Framed(t, k, cut) /\ LastOf(t, k) = kind
<1> DEFINE t == Append(q, Part(kind, m))
<1>1. /\ DOMAIN q = 1..Len(q) /\ Len(q) \in Nat
      /\ DOMAIN t = 1..(Len(q) + 1) /\ Len(t) = Len(q) + 1 /\ t # <<>>
      /\ t[Len(q) + 1] = Part(kind, m) /\ \A p \in 1..Len(q) : t[p] = q[p]
  BY DEF Part, PartType
<1>2. Part(kind, m).kind = kind
  BY DEF Part
<1>3. \A p \in 1..Len(q) : q[p].kind \in {"len", "body"}
  <2>1. \A p \in 1..Len(q) : q[p] \in PartType
    OBVIOUS
  <2> QED BY <2>1 DEF PartType
<1> HIDE DEF t
<1>4. t[1].kind = "body" <=> k = "body"
  <2>1. CASE q = <<>>
    <3>1. Len(q) = 0
      BY <2>1
    <3> QED BY <1>1, <1>2, <2>1, <3>1 DEF LastOf
  <2>2. CASE q # <<>>
    <3>1. Len(q) >= 1
      BY <2>2
    <3> QED BY <1>1, <2>2, <3>1 DEF Framed
  <2> QED BY <2>1, <2>2
<1>5. ASSUME NEW p \in DOMAIN t, p + 1 \in DOMAIN t
      PROVE  t[p].kind # t[p + 1].kind
  <2>1. CASE p = Len(q)
    <3>1. q # <<>> /\ q[Len(q)].kind # kind
      BY <1>1, <1>5, <2>1 DEF LastOf
    <3> QED BY <1>1, <1>2, <1>5, <2>1, <3>1
  <2>2. CASE p # Len(q)
    BY <1>1, <1>5, <2>2 DEF Framed
  <2> QED BY <2>1, <2>2
<1> QED BY <1>1, <1>2, <1>4, <1>5 DEF Framed, LastOf, t

LEMMA FramedTail ==
  ASSUME NEW q \in Seq(PartType), q # <<>>, NEW k \in {"len", "body"}, NEW cut, Framed(q, k, cut)
  PROVE  LET l == IF k = "len" THEN "body" ELSE "len"
         IN  /\ Framed(Tail(q), l, cut) /\ LastOf(Tail(q), l) = LastOf(q, k)
             /\ q[1].kind = k
<1> DEFINE l == IF k = "len" THEN "body" ELSE "len"
           t == Tail(q)
<1>1. /\ DOMAIN q = 1..Len(q) /\ Len(q) \in Nat /\ Len(q) >= 1
      /\ t \in Seq(PartType) /\ Len(t) = Len(q) - 1 /\ DOMAIN t = 1..(Len(q) - 1)
      /\ \A p \in DOMAIN t : t[p] = q[p + 1]
  BY HeadTail
<1>2. \A p \in 1..Len(q) : q[p].kind \in {"len", "body"}
  <2>1. \A p \in 1..Len(q) : q[p] \in PartType
    OBVIOUS
  <2> QED BY <2>1 DEF PartType
<1>3. t = <<>> <=> Len(t) = 0
  BY <1>1
<1> HIDE DEF t
<1>4. q[1].kind = k
  BY <1>1, <1>2 DEF Framed
<1>5. Framed(t, l, cut)
  BY <1>1, <1>2, <1>3, <1>4 DEF Framed
<1>6. LastOf(t, l) = LastOf(q, k)
  <2>1. CASE t = <<>>
    <3>0. Len(t) = 0
      BY <1>3, <2>1
    <3>1. Len(q) = 1
      <4>1. Len(t) = Len(q) - 1 /\ Len(q) \in Nat
        BY <1>1
      <4> QED BY <3>0, <4>1
    <3>2. LastOf(q, k) = k
      BY <1>4, <3>1 DEF LastOf
    <3> QED BY <2>1, <3>2 DEF LastOf
  <2>2. CASE t # <<>>
    <3>1. Len(q) - 1 \in DOMAIN t /\ t[Len(q) - 1] = q[Len(q)]
      BY <1>1, <1>3, <2>2
    <3> QED BY <1>1, <2>2, <3>1 DEF LastOf
  <2> QED BY <2>1, <2>2
<1> QED BY <1>4, <1>5, <1>6 DEF t

LEMMA FramedPrefix ==
  ASSUME NEW q \in Seq(PartType), NEW k, NEW cut, Framed(q, k, cut), NEW n \in 0..Len(q)
  PROVE  Framed(SubSeq(q, 1, n), k, TRUE)
<1> DEFINE t == SubSeq(q, 1, n)
<1>1. /\ DOMAIN q = 1..Len(q) /\ Len(q) \in Nat
      /\ t \in Seq(PartType) /\ DOMAIN t = 1..n /\ \A p \in 1..n : t[p] = q[p]
  OBVIOUS
<1>2. t = <<>> <=> n = 0
  BY <1>1
<1>3. q = <<>> <=> Len(q) = 0
  OBVIOUS
<1> HIDE DEF t
<1> QED BY <1>1, <1>2, <1>3 DEF Framed, t

LEMMA FrameStep ==
  ASSUME TypeOK, SenderInv, FrameInv, WriterInv, [Next]_vars
  PROVE  FrameInv'
<1>1. ASSUME UNCHANGED conns
      PROVE  FrameInv'
  BY <1>1 DEF FrameInv, Framed
<1>2. ASSUME NEW c \in DOMAIN conns, NEW k, NEW b, NEW q, Becomes(c, k, b, q), Framed(q, k, b)
      PROVE  FrameInv'
  <2>1. SUFFICES ASSUME NEW d \in DOMAIN conns
                 PROVE  Framed(conns'[d].data, conns'[d].reader, conns'[d].cut)
    BY <1>2 DEF FrameInv, Becomes, Framed
  <2> QED BY <1>2, <2>1 DEF FrameInv, Becomes
<1>3. ASSUME NEW i \in Node, SendStep(i)
      PROVE  FrameInv'
  <2>1. CASE SendToSelf(i) \/ DropUnknownPeer(i) \/ send_to_peer(i) \/ ConnectFails(i)
    BY <1>1, <2>1 DEF SendToSelf, DropUnknownPeer, send_to_peer, ConnectFails
  <2>2. CASE Connect(i)
    <3>1. Framed(<<>>, "backlog", FALSE)
      BY DEF Framed
    <3>2. SUFFICES ASSUME NEW d \in DOMAIN conns \union {Len(conns) + 1}
                   PROVE  Framed(conns'[d].data, conns'[d].reader, conns'[d].cut)
      BY <2>2, ConnectEffect DEF FrameInv, Framed
    <3>3. CASE d \in DOMAIN conns
      BY <2>2, <3>3, ConnectEffect DEF FrameInv
    <3>4. CASE d = Len(conns) + 1
      <4>1. conns'[d].data = <<>> /\ conns'[d].reader = "backlog"
        BY <2>2, <3>4, ConnectEffect
      <4> QED BY <4>1 DEF Framed
    <3> QED BY <3>2, <3>3, <3>4
  <2>3. ASSUME Sending(i, "len") \/ Sending(i, "body"), NEW kind \in {"len", "body"},
               ~conns[cur[i]].cut => LastKind(cur[i]) # kind
        PROVE  LET c == cur[i]
               IN  Framed(IF conns[c].cut THEN conns[c].data
                          ELSE Append(conns[c].data, Part(kind, Current(i))),
                          conns[c].reader, conns[c].cut)
    <3> DEFINE c == cur[i]
    <3>1. c \in DOMAIN conns /\ Current(i) \in Msg
      BY <2>3, WriteEffect
    <3>2. Framed(conns[c].data, conns[c].reader, conns[c].cut) /\ conns[c].data \in Seq(PartType)
      BY <3>1, ConnType DEF FrameInv
    <3>3. ~conns[c].cut => conns[c].reader # "done"
      BY <3>2 DEF Framed
    <3>4. LastKind(c) = LastOf(conns[c].data, conns[c].reader)
      BY DEF LastKind
    <3> QED BY <2>3, <3>1, <3>2, <3>3, <3>4, FramedAppend
  <2>4. CASE WriteLength(i)
    <3>1. ~conns[cur[i]].cut => LastKind(cur[i]) # "len"
      BY <2>4 DEF WriteLength, Sending, WriterInv, WriterOK
    <3>2. cur[i] \in DOMAIN conns
      BY <2>4, WriteEffect DEF WriteLength
    <3> DEFINE q == IF conns[cur[i]].cut THEN conns[cur[i]].data
                    ELSE Append(conns[cur[i]].data, Part("len", Current(i)))
    <3>3. Framed(q, conns[cur[i]].reader, conns[cur[i]].cut)
      BY <2>3, <2>4, <3>1 DEF WriteLength
    <3>4. Becomes(cur[i], conns[cur[i]].reader, conns[cur[i]].cut, q)
      BY <2>4, WriteEffect
    <3> HIDE DEF q
    <3> QED BY <1>2, <3>2, <3>3, <3>4
  <2>5. CASE WriteBody(i)
    <3>1. ~conns[cur[i]].cut => LastKind(cur[i]) # "body"
      BY <2>5 DEF WriteBody, Sending, WriterInv, WriterOK
    <3>2. cur[i] \in DOMAIN conns
      BY <2>5, WriteEffect DEF WriteBody
    <3> DEFINE q == IF conns[cur[i]].cut THEN conns[cur[i]].data
                    ELSE Append(conns[cur[i]].data, Part("body", Current(i)))
    <3>3. Framed(q, conns[cur[i]].reader, conns[cur[i]].cut)
      BY <2>3, <2>5, <3>1 DEF WriteBody
    <3>4. Becomes(cur[i], conns[cur[i]].reader, conns[cur[i]].cut, q)
      BY <2>5, WriteEffect
    <3> HIDE DEF q
    <3> QED BY <1>2, <3>2, <3>3, <3>4
  <2>6. CASE WriteFails(i)
    <3>1. cur[i] \in DOMAIN conns
      BY <2>6, WriteEffect DEF WriteFails
    <3> QED BY <1>2, <2>6, <3>1, WriteEffect DEF FrameInv
  <2> QED BY <1>3, <2>1, <2>2, <2>4, <2>5, <2>6 DEF SendStep
<1>4. ASSUME NEW c \in DOMAIN conns, ReadStep(c) \/ Break(c)
      PROVE  FrameInv'
  <2>1. Framed(conns[c].data, conns[c].reader, conns[c].cut) /\ conns[c].data \in Seq(PartType)
    BY ConnType DEF FrameInv
  <2>2. Framed(<<>>, "done", TRUE)
    BY DEF Framed
  <2>3. CASE accept(c)
    <3>1. Framed(conns[c].data, "len", conns[c].cut)
      BY <2>1, <2>3 DEF accept, Reading, Framed
    <3> QED BY <1>2, <2>3, <3>1, ReadEffect
  <2>4. CASE ReadLength(c)
    <3>1. conns[c].reader = "len" /\ conns[c].data # <<>>
      BY <2>4 DEF ReadLength, Reading
    <3>2. Framed(Tail(conns[c].data), "body", conns[c].cut)
      BY <2>1, <3>1, FramedTail
    <3> QED BY <1>2, <2>2, <2>4, <3>2, ReadEffect
  <2>5. CASE ReadBody(c)
    <3>1. conns[c].reader = "body" /\ conns[c].data # <<>>
      BY <2>5 DEF ReadBody, Reading
    <3>2. Framed(Tail(conns[c].data), "len", conns[c].cut)
      BY <2>1, <3>1, FramedTail
    <3> QED BY <1>2, <2>5, <3>2, ReadEffect
  <2>6. CASE ReadEnds(c)
    BY <1>2, <2>2, <2>6, ReadEffect
  <2>7. CASE Break(c)
    <3>1. PICK k \in 0..Len(conns[c].data) :
            Becomes(c, conns[c].reader, TRUE, SubSeq(conns[c].data, 1, k))
      BY <2>7, ReadEffect
    <3>2. Framed(SubSeq(conns[c].data, 1, k), conns[c].reader, TRUE)
      BY <2>1, FramedPrefix
    <3> QED BY <1>2, <3>1, <3>2
  <2> QED BY <1>4, <2>3, <2>4, <2>5, <2>6, <2>7 DEF ReadStep
<1>5. ASSUME NEW i \in Node, Crash(i)
      PROVE  FrameInv'
  <2>1. SUFFICES ASSUME NEW d \in DOMAIN conns
                 PROVE  Framed(conns'[d].data, conns'[d].reader, conns'[d].cut)
    BY <1>5, CrashEffect DEF FrameInv, Framed
  <2>2. CASE conns[d].to = i
    <3>1. conns'[d].reader = "done" /\ conns'[d].cut = TRUE /\ conns'[d].data = <<>>
      BY <1>5, <2>2, CrashEffect
    <3> QED BY <3>1 DEF Framed
  <2>3. CASE conns[d].to # i
    BY <1>5, <2>3, CrashEffect DEF FrameInv
  <2> QED BY <2>2, <2>3
<1>6. ASSUME NEW i \in Node, NEW j \in Node,
             send_messages(i) \/ recv_message(i) \/ new(i) \/ add_peer(i, j) \/ remove_peer(i, j)
      PROVE  UNCHANGED conns
  BY <1>6 DEF send_messages, recv_message, new, add_peer, remove_peer
<1>7. CASE UNCHANGED vars
  BY <1>1, <1>7 DEF vars
<1> QED BY <1>1, <1>3, <1>4, <1>5, <1>6, <1>7 DEF Next

\* Connection d ends as before, or is cut.
EndsAlike(d) ==
  \/ conns'[d].cut
  \/ ~conns[d].cut /\ LastOf(conns'[d].data, conns'[d].reader) = LastKind(d)

LEMMA ReadersKeepEnd ==
  ASSUME TypeOK, FrameInv, NEW c \in DOMAIN conns, ReadStep(c) \/ Break(c), NEW d \in DOMAIN conns
  PROVE  EndsAlike(d)
<1>1. conns'[d] = conns[d] => EndsAlike(d)
  BY DEF EndsAlike, LastKind
<1>2. ASSUME NEW k, NEW b, NEW q, Becomes(c, k, b, q), LastOf(q, k) = LastKind(c) \/ b = TRUE,
             conns[c].cut => b
      PROVE  EndsAlike(d)
  <2>1. CASE d # c
    BY <1>1, <1>2, <2>1 DEF Becomes
  <2>2. CASE d = c
    <3>1. conns'[c].reader = k /\ conns'[c].cut = b /\ conns'[c].data = q
      BY <1>2 DEF Becomes
    <3> QED BY <1>2, <2>2, <3>1 DEF EndsAlike
  <2> QED BY <2>1, <2>2
<1>3. /\ Framed(conns[c].data, conns[c].reader, conns[c].cut) /\ conns[c].data \in Seq(PartType)
      /\ LastKind(c) = LastOf(conns[c].data, conns[c].reader)
  BY ConnType DEF FrameInv, LastKind
<1>4. CASE accept(c)
  <2>1. LastOf(conns[c].data, "len") = LastKind(c)
    BY <1>3, <1>4 DEF accept, Reading, LastOf
  <2> QED BY <1>2, <1>4, <2>1, ReadEffect
<1>5. CASE ReadLength(c)
  <2>1. conns[c].reader = "len" /\ conns[c].data # <<>>
    BY <1>5 DEF ReadLength, Reading
  <2>2. LastOf(Tail(conns[c].data), "body") = LastKind(c)
    BY <1>3, <2>1, FramedTail
  <2> QED BY <1>2, <1>5, <2>2, ReadEffect
<1>6. CASE ReadBody(c)
  <2>1. conns[c].reader = "body" /\ conns[c].data # <<>>
    BY <1>6 DEF ReadBody, Reading
  <2>2. LastOf(Tail(conns[c].data), "len") = LastKind(c)
    BY <1>3, <2>1, FramedTail
  <2> QED BY <1>2, <1>6, <2>2, ReadEffect
<1>7. CASE ReadEnds(c)
  BY <1>2, <1>7, ReadEffect
<1>8. CASE Break(c)
  BY <1>2, <1>8, ReadEffect
<1> QED BY <1>4, <1>5, <1>6, <1>7, <1>8 DEF ReadStep

LEMMA WriterKept ==
  ASSUME TypeOK, SenderInv, WriterInv, NEW k \in Node, pc'[k] = pc[k],
         cur'[k] = cur[k], connections'[k] = connections[k],
         \A d \in DOMAIN conns : conns[d].from = k => EndsAlike(d)
  PROVE  WriterOK(k)'
<1>1. /\ SenderOK(k) /\ WriterOK(k)
      /\ \A j \in Node : connections[k][j] \in DOMAIN conns \union {NoConn}
  BY DEF SenderInv, WriterInv, TypeOK
<1>2. cur[k] \in DOMAIN conns \union {NoConn}
  BY DEF TypeOK
<1>3. ASSUME NEW d \in DOMAIN conns, conns[d].from = k, NEW kind,
             conns[d].cut \/ LastKind(d) = kind
      PROVE  conns'[d].cut \/ LastKind(d)' = kind
  BY <1>3 DEF EndsAlike, LastKind
<1>4. ASSUME NEW j \in Node, connections[k][j] # NoConn,
             ~(pc[k] = "body" /\ cur[k] = connections[k][j]), NEW d, d = connections[k][j]
      PROVE  conns'[d].cut \/ LastKind(d)' = "body"
  <2>1. d \in DOMAIN conns /\ conns[d].from = k
    BY <1>1, <1>4 DEF SenderOK
  <2>2. conns[d].cut \/ LastKind(d) = "body"
    BY <1>1, <1>4 DEF WriterOK
  <2> QED BY <1>3, <2>1, <2>2
<1>5. ASSUME pc[k] \in {"len", "body"}, NEW d, d = cur[k]
      PROVE  /\ pc[k] = "len" => conns'[d].cut \/ LastKind(d)' = "body"
             /\ pc[k] = "body" => conns'[d].cut \/ LastKind(d)' = "len"
  <2>1. d \in DOMAIN conns /\ conns[d].from = k
    BY <1>1, <1>2, <1>5 DEF SenderOK
  <2>2. /\ pc[k] = "len" => conns[d].cut \/ LastKind(d) = "body"
        /\ pc[k] = "body" => conns[d].cut \/ LastKind(d) = "len"
    BY <1>1, <1>5 DEF WriterOK
  <2> QED BY <1>3, <2>1, <2>2
<1> QED BY <1>4, <1>5 DEF WriterOK, LastKind

EndsWithBody(conn) == conn.cut \/ LastOf(conn.data, conn.reader) = "body"

\* Node i goes on to another message, or to a new connection.
LEMMA WriterDone ==
  ASSUME TypeOK, SenderInv, WriterInv, NEW i \in Node, pc'[i] \notin {"len", "body"},
         \A j \in Node : connections'[i][j] # NoConn =>
           \/ EndsWithBody(conns'[connections'[i][j]])
           \/ /\ connections'[i][j] = connections[i][j] /\ EndsAlike(connections[i][j])
              /\ ~(pc[i] = "body" /\ cur[i] = connections[i][j])
  PROVE  WriterOK(i)'
<1>1. ASSUME NEW j \in Node, connections'[i][j] # NoConn
      PROVE  EndsWithBody(conns'[connections'[i][j]])
  <2>1. CASE /\ connections'[i][j] = connections[i][j] /\ EndsAlike(connections[i][j])
             /\ ~(pc[i] = "body" /\ cur[i] = connections[i][j])
    <3>1. conns[connections[i][j]].cut \/ LastKind(connections[i][j]) = "body"
      BY <1>1, <2>1 DEF WriterInv, WriterOK
    <3> QED BY <2>1, <3>1 DEF EndsAlike, LastKind, EndsWithBody
  <2> QED BY <1>1, <2>1
<1> QED BY <1>1 DEF WriterOK, EndsWithBody, LastKind

\* A write to the current connection: how it ends, and that others are as before.
LEMMA WriteEnds ==
  ASSUME TypeOK, SenderInv, FrameInv, WriterInv, NEW i \in Node,
         WriteLength(i) \/ WriteBody(i) \/ WriteFails(i)
  PROVE  /\ \A d \in DOMAIN conns : d # cur[i] => EndsAlike(d)
         /\ WriteLength(i) =>
              conns'[cur[i]].cut \/ LastOf(conns'[cur[i]].data, conns'[cur[i]].reader) = "len"
         /\ WriteBody(i) => EndsWithBody(conns'[cur[i]])
<1> DEFINE c == cur[i]
<1>1. /\ c \in DOMAIN conns /\ Current(i) \in Msg
      /\ \A d \in DOMAIN conns : d # c => conns'[d] = conns[d]
  BY WriteEffect DEF WriteLength, WriteBody, WriteFails, Becomes
<1>2. \A d \in DOMAIN conns : d # c => EndsAlike(d)
  BY <1>1 DEF EndsAlike, LastKind
<1>3. Framed(conns[c].data, conns[c].reader, conns[c].cut) /\ conns[c].data \in Seq(PartType)
  BY <1>1, ConnType DEF FrameInv
<1>4. ~conns[c].cut => conns[c].reader # "done"
  BY <1>3 DEF Framed
<1>5. LastKind(c) = LastOf(conns[c].data, conns[c].reader)
  BY DEF LastKind
<1>6. ASSUME WriteLength(i), ~conns[c].cut
      PROVE  LastOf(conns'[c].data, conns'[c].reader) = "len"
  <2>1. LastKind(c) # "len"
    BY <1>6 DEF WriteLength, Sending, WriterInv, WriterOK
  <2>2. LastOf(Append(conns[c].data, Part("len", Current(i))), conns[c].reader) = "len"
    BY <1>1, <1>3, <1>4, <1>5, <1>6, <2>1, FramedAppend
  <2>3. /\ conns'[c].data = Append(conns[c].data, Part("len", Current(i)))
        /\ conns'[c].reader = conns[c].reader
    BY <1>6, WriteEffect DEF Becomes
  <2> QED BY <2>2, <2>3
<1>7. ASSUME WriteBody(i), ~conns[c].cut
      PROVE  LastOf(conns'[c].data, conns'[c].reader) = "body"
  <2>1. LastKind(c) # "body"
    BY <1>7 DEF WriteBody, Sending, WriterInv, WriterOK
  <2>2. LastOf(Append(conns[c].data, Part("body", Current(i))), conns[c].reader) = "body"
    BY <1>1, <1>3, <1>4, <1>5, <1>7, <2>1, FramedAppend
  <2>3. /\ conns'[c].data = Append(conns[c].data, Part("body", Current(i)))
        /\ conns'[c].reader = conns[c].reader
    BY <1>7, WriteEffect DEF Becomes
  <2> QED BY <2>2, <2>3
<1>8. WriteLength(i) \/ WriteBody(i) => conns'[c].cut = conns[c].cut
  BY WriteEffect DEF Becomes
<1> QED BY <1>2, <1>6, <1>7, <1>8 DEF EndsWithBody

LEMMA WriterStep ==
  ASSUME TypeOK, SenderInv, FrameInv, WriterInv, [Next]_vars
  PROVE  WriterInv'
<1>1. SUFFICES ASSUME NEW k \in Node
               PROVE  WriterOK(k)'
  BY DEF WriterInv
<1>2. ASSUME UNCHANGED conns, NEW d \in DOMAIN conns
      PROVE  EndsAlike(d)
  BY <1>2 DEF EndsAlike, LastKind
<1>3. \A j \in Node : connections[k][j] \in DOMAIN conns \union {NoConn}
  BY DEF TypeOK
<1>4. ASSUME NEW i \in Node, SendStep(i)
      PROVE  WriterOK(k)'
  <2>1. CASE i # k
    <3>1. pc'[k] = pc[k] /\ cur'[k] = cur[k] /\ connections'[k] = connections[k]
      BY <1>4, <2>1 DEF SendStep, SendToSelf, DropUnknownPeer, send_to_peer, Connect,
                  ConnectFails, WriteLength, WriteBody, WriteFails, Done, TypeOK
    <3>2. ASSUME NEW d \in DOMAIN conns, conns[d].from = k
          PROVE  EndsAlike(d)
      <4>1. CASE SendToSelf(i) \/ DropUnknownPeer(i) \/ send_to_peer(i) \/ ConnectFails(i)
        BY <1>2, <4>1 DEF SendToSelf, DropUnknownPeer, send_to_peer, ConnectFails
      <4>2. CASE Connect(i)
        BY <4>2, ConnectEffect DEF EndsAlike, LastKind
      <4>3. CASE WriteLength(i) \/ WriteBody(i) \/ WriteFails(i)
        <5>1. conns[cur[i]].from = i
          BY <4>3, WriteEffect DEF WriteLength, WriteBody, WriteFails
        <5> QED BY <2>1, <3>2, <4>3, <5>1, WriteEnds
      <4> QED BY <1>4, <4>1, <4>2, <4>3 DEF SendStep
    <3> QED BY <3>1, <3>2, WriterKept
  <2>2. CASE i = k
    <3>1. pc[i] # "select" /\ SenderOK(i) /\ WriterOK(i)
      BY <1>4 DEF SendStep, SendToSelf, DropUnknownPeer, send_to_peer, Connect, ConnectFails,
                  WriteLength, WriteBody, WriteFails, Sending, SenderInv, WriterInv
    <3>2. Current(i) \in Msg /\ Current(i).to \in Node
      BY <3>1, CurrentMessage, TransportAssumption
    <3>3. Done(i) => pc'[i] \notin {"len", "body"}
      BY DEF Done, TypeOK
    <3>4. CASE SendToSelf(i) \/ DropUnknownPeer(i)
      <4>1. connections' = connections /\ Done(i) /\ UNCHANGED conns /\ pc[i] = "send"
        BY <3>4 DEF SendToSelf, DropUnknownPeer, Sending
      <4> QED BY <1>2, <1>3, <2>2, <3>3, <4>1, WriterDone
    <3>5. CASE send_to_peer(i)
      <4> DEFINE c == connections[i][Current(i).to]
      <4>1. /\ cur'[i] = c /\ connections' = connections /\ UNCHANGED conns /\ pc[i] = "send"
            /\ pc'[i] = IF c = NoConn THEN "connect" ELSE "len"
        BY <3>5 DEF send_to_peer, TypeOK, Sending
      <4>2. \A j \in Node : connections[i][j] # NoConn =>
              conns[connections[i][j]].cut \/ LastKind(connections[i][j]) = "body"
        BY <3>1, <4>1 DEF WriterOK
      <4> QED BY <2>2, <3>2, <4>1, <4>2 DEF WriterOK, LastKind
    <3>6. CASE Connect(i)
      <4> DEFINE n == Len(conns) + 1
      <4>1. cur'[i] = n /\ connections' = connections /\ pc'[i] = "len" /\ pc[i] = "connect"
        BY <3>6 DEF Connect, TypeOK, Sending
      <4>2. LastOf(conns'[n].data, conns'[n].reader) = "body"
        BY <3>6, ConnectEffect DEF LastOf
      <4>3. \A j \in Node : connections[i][j] # NoConn =>
              conns[connections[i][j]].cut \/ LastKind(connections[i][j]) = "body"
        BY <3>1, <4>1 DEF WriterOK
      <4>4. \A d \in DOMAIN conns : conns'[d] = conns[d]
        BY <3>6, ConnectEffect
      <4> HIDE DEF n
      <4> QED BY <1>3, <2>2, <4>1, <4>2, <4>3, <4>4 DEF WriterOK, LastKind
    <3>7. CASE ConnectFails(i)
      <4>1. \A j \in Node : connections'[i][j] \in {connections[i][j], NoConn}
        BY <3>2, <3>7 DEF ConnectFails, TypeOK
      <4>2. Done(i) /\ UNCHANGED conns /\ pc[i] = "connect"
        BY <3>7 DEF ConnectFails, Sending
      <4> QED BY <1>2, <1>3, <2>2, <3>3, <4>1, <4>2, WriterDone
    <3>8. CASE WriteLength(i)
      <4>1. /\ cur'[i] = cur[i] /\ connections' = connections
            /\ pc'[i] = "body" /\ pc[i] = "len"
        BY <3>8 DEF WriteLength, TypeOK, Sending
      <4>2. ASSUME NEW j \in Node, connections[i][j] # NoConn, connections[i][j] # cur[i]
            PROVE  EndsWithBody(conns'[connections[i][j]])
        <5>1. EndsAlike(connections[i][j])
          BY <1>3, <2>2, <3>8, <4>2, WriteEnds
        <5>2. conns[connections[i][j]].cut \/ LastKind(connections[i][j]) = "body"
          BY <3>1, <4>1, <4>2 DEF WriterOK
        <5> QED BY <5>1, <5>2 DEF EndsAlike, EndsWithBody
      <4>3. conns'[cur[i]].cut \/ LastOf(conns'[cur[i]].data, conns'[cur[i]].reader) = "len"
        BY <3>8, WriteEnds
      <4> QED BY <2>2, <4>1, <4>2, <4>3 DEF WriterOK, LastKind, EndsWithBody
    <3>9. CASE WriteBody(i)
      <4>1. \A j \in Node : connections'[i][j] = IF j = Current(i).to THEN cur[i] ELSE connections[i][j]
        BY <3>2, <3>9 DEF WriteBody, TypeOK
      <4>2. EndsWithBody(conns'[cur[i]]) /\ conns[cur[i]].to = Current(i).to /\ Done(i)
        BY <3>9, WriteEnds, WriteEffect DEF WriteBody
      <4>3. ASSUME NEW j \in Node, j # Current(i).to, connections[i][j] # NoConn
            PROVE  connections[i][j] # cur[i] /\ EndsAlike(connections[i][j])
        BY <1>3, <2>2, <3>1, <3>9, <4>2, <4>3, WriteEnds DEF SenderOK
      <4> QED BY <2>2, <3>3, <4>1, <4>2, <4>3, WriterDone
    <3>10. CASE WriteFails(i)
      <4>1. \A j \in Node : connections'[i][j] = IF j = Current(i).to THEN NoConn ELSE connections[i][j]
        BY <3>2, <3>10 DEF WriteFails, TypeOK
      <4>2. conns[cur[i]].to = Current(i).to /\ pc'[i] \notin {"len", "body"}
        BY <3>3, <3>10, WriteEffect DEF WriteFails, TypeOK
      <4>3. ASSUME NEW j \in Node, j # Current(i).to, connections[i][j] # NoConn
            PROVE  connections[i][j] # cur[i] /\ EndsAlike(connections[i][j])
        BY <1>3, <2>2, <3>1, <3>10, <4>2, <4>3, WriteEnds DEF SenderOK
      <4> QED BY <2>2, <4>1, <4>2, <4>3, WriterDone
    <3> QED BY <1>4, <3>4, <3>5, <3>6, <3>7, <3>8, <3>9, <3>10 DEF SendStep
  <2> QED BY <2>1, <2>2
<1>5. ASSUME NEW c \in DOMAIN conns, ReadStep(c) \/ Break(c)
      PROVE  WriterOK(k)'
  <2>1. pc' = pc /\ cur' = cur /\ connections' = connections
    BY <1>5 DEF ReadStep, accept, ReadLength, ReadBody, ReadEnds, Break, loopVars
  <2> QED BY <1>5, <2>1, ReadersKeepEnd, WriterKept
<1>6. ASSUME NEW i \in Node, Crash(i)
      PROVE  WriterOK(k)'
  <2>1. CASE i # k
    <3>1. pc'[k] = pc[k] /\ cur'[k] = cur[k] /\ connections'[k] = connections[k]
      BY <1>6, <2>1 DEF Crash, TypeOK
    <3>2. \A d \in DOMAIN conns : EndsAlike(d)
      BY <1>6, CrashEffect DEF EndsAlike, LastKind
    <3> QED BY <3>1, <3>2, WriterKept
  <2>2. CASE i = k
    <3>1. pc'[k] = "select" /\ \A j \in Node : connections'[k][j] = NoConn
      BY <1>6, <2>2 DEF Crash, TypeOK
    <3> QED BY <3>1 DEF WriterOK
  <2> QED BY <2>1, <2>2
<1>7. ASSUME NEW i \in Node, send_messages(i)
      PROVE  WriterOK(k)'
  <2>1. UNCHANGED <<cur, conns, connections>> /\ pc[i] = "select" /\ pc' = [pc EXCEPT ![i] = "send"]
    BY <1>7 DEF send_messages
  <2>2. CASE i # k
    BY <1>2, <2>1, <2>2, WriterKept DEF TypeOK
  <2>3. CASE i = k
    <3>1. pc'[k] = "send"
      BY <2>1, <2>3 DEF TypeOK
    <3> QED BY <1>2, <1>3, <2>1, <2>3, <3>1, WriterDone
  <2> QED BY <2>2, <2>3
<1>8. ASSUME NEW i \in Node, NEW j \in Node,
             recv_message(i) \/ new(i) \/ add_peer(i, j) \/ remove_peer(i, j)
      PROVE  WriterOK(k)'
  <2>1. UNCHANGED <<pc, cur, conns, connections>>
    BY <1>8 DEF recv_message, new, add_peer, remove_peer, loopVars
  <2> QED BY <1>2, <2>1, WriterKept
<1>9. CASE UNCHANGED vars
  <2>1. UNCHANGED <<pc, cur, conns, connections>>
    BY <1>9 DEF vars
  <2> QED BY <1>2, <2>1, WriterKept
<1> QED BY <1>4, <1>5, <1>6, <1>7, <1>8, <1>9 DEF Next

-----------------------------------------------------------------------------
(* Places *)

\* Taking the first message off a queue, and putting one at its end.
LEMMA Dequeue ==
  ASSUME NEW s \in Seq(Msg), s # <<>>, NoRepeat(s)
  PROVE  NoRepeat(Tail(s)) /\ Range(Tail(s)) = Range(s) \ {Head(s)} /\ Head(s) \in Range(s)
<1> DEFINE t == Tail(s)
<1>1. /\ DOMAIN s = 1..Len(s) /\ Len(s) \in Nat /\ Len(s) >= 1 /\ Head(s) = s[1]
      /\ DOMAIN t = 1..(Len(s) - 1) /\ \A p \in DOMAIN t : t[p] = s[p + 1]
  BY HeadTail
<1> HIDE DEF t
<1>2. NoRepeat(t)
  BY <1>1 DEF NoRepeat
<1>3. ASSUME NEW x
      PROVE  x \in Range(t) <=> x \in Range(s) /\ x # s[1]
  <2>1. ASSUME NEW p \in DOMAIN t
        PROVE  p + 1 \in DOMAIN s /\ t[p] = s[p + 1] /\ t[p] # s[1]
    BY <1>1 DEF NoRepeat
  <2>2. ASSUME NEW p \in DOMAIN s, s[p] # s[1]
        PROVE  p - 1 \in DOMAIN t /\ t[p - 1] = s[p]
    BY <1>1, <2>2
  <2> QED BY <2>1, <2>2, InRange
<1>4. Range(t) = Range(s) \ {s[1]}
  BY <1>3
<1> QED BY <1>1, <1>2, <1>4, InRange DEF t

LEMMA Enqueue ==
  ASSUME NEW s \in Seq(Msg), NEW m \in Msg
  PROVE  /\ Range(Append(s, m)) = Range(s) \union {m}
         /\ NoRepeat(s) /\ m \notin Range(s) => NoRepeat(Append(s, m))
<1> DEFINE t == Append(s, m)
<1>1. /\ DOMAIN s = 1..Len(s) /\ Len(s) \in Nat /\ DOMAIN t = 1..(Len(s) + 1)
      /\ t[Len(s) + 1] = m /\ \A p \in DOMAIN s : t[p] = s[p]
  OBVIOUS
<1> HIDE DEF t
<1>2. ASSUME NEW x
      PROVE  x \in Range(t) <=> x \in Range(s) \/ x = m
  <2>1. \A p \in DOMAIN t : p = Len(s) + 1 \/ p \in DOMAIN s
    BY <1>1
  <2>2. Len(s) + 1 \in DOMAIN t /\ \A p \in DOMAIN s : p \in DOMAIN t
    BY <1>1
  <2> QED BY <1>1, <2>1, <2>2, InRange
<1>3. Range(t) = Range(s) \union {m}
  BY <1>2
<1>4. ASSUME NoRepeat(s), m \notin Range(s)
      PROVE  NoRepeat(t)
  <2>1. \A p \in DOMAIN s : s[p] # m
    BY <1>4, InRange
  <2> QED BY <1>1, <1>4, <2>1 DEF NoRepeat
<1> QED BY <1>3, <1>4 DEF t

LEMMA AscendingHasNoRepeat ==
  ASSUME NEW s \in Seq(Msg), Ascending(s)
  PROVE  NoRepeat(s)
<1>1. DOMAIN s = 1..Len(s) /\ \A p \in DOMAIN s : s[p].id \in Nat
  BY TransportAssumption
<1> QED BY <1>1 DEF Ascending, NoRepeat

LEMMA AscendingTail ==
  ASSUME NEW s \in Seq(Msg), s # <<>>, Ascending(s)
  PROVE  Ascending(Tail(s)) /\ \A m \in Range(Tail(s)) : Head(s).id < m.id
<1> DEFINE t == Tail(s)
<1>1. /\ DOMAIN s = 1..Len(s) /\ Len(s) \in Nat /\ Len(s) >= 1 /\ Head(s) = s[1]
      /\ DOMAIN t = 1..(Len(s) - 1) /\ \A p \in DOMAIN t : t[p] = s[p + 1]
  BY HeadTail
<1> HIDE DEF t
<1>2. Ascending(t)
  BY <1>1 DEF Ascending
<1>3. ASSUME NEW p \in DOMAIN t
      PROVE  s[1].id < t[p].id
  BY <1>1 DEF Ascending
<1> QED BY <1>1, <1>2, <1>3, InRange DEF t

\* The same for the parts on a connection.
LEMMA BodiesTail ==
  ASSUME NEW q \in Seq(PartType), q # <<>>, AscendingBodies(q)
  PROVE  /\ AscendingBodies(Tail(q))
         /\ q[1].kind # "body" => Bodies(Tail(q)) = Bodies(q)
         /\ q[1].kind = "body" => /\ Bodies(Tail(q)) = Bodies(q) \ {q[1].msg}
                                  /\ q[1].msg \in Bodies(q)
                                  /\ \A m \in Bodies(Tail(q)) : q[1].msg.id < m.id
<1> DEFINE t == Tail(q)
<1>1. /\ DOMAIN q = 1..Len(q) /\ Len(q) \in Nat /\ Len(q) >= 1
      /\ DOMAIN t = 1..(Len(q) - 1) /\ \A p \in DOMAIN t : t[p] = q[p + 1]
  BY HeadTail
<1>2. \A p \in DOMAIN q : q[p].msg \in Msg /\ q[p].msg.id \in Nat
  <2>1. \A p \in DOMAIN q : q[p] \in PartType
    OBVIOUS
  <2> QED BY <2>1, TransportAssumption DEF PartType
<1> HIDE DEF t
<1>3. AscendingBodies(t)
  BY <1>1 DEF AscendingBodies
<1>4. ASSUME NEW p \in DOMAIN t
      PROVE  /\ p + 1 \in DOMAIN q /\ t[p] = q[p + 1]
             /\ q[1].kind = "body" /\ t[p].kind = "body" =>
                  q[1].msg.id < t[p].msg.id /\ q[1].msg # t[p].msg
  <2>1. p + 1 \in DOMAIN q /\ 1 \in DOMAIN q /\ 1 < p + 1 /\ t[p] = q[p + 1]
    BY <1>1
  <2>2. q[1].kind = "body" /\ t[p].kind = "body" => q[1].msg.id < t[p].msg.id
    BY <2>1 DEF AscendingBodies
  <2> QED BY <1>2, <2>1, <2>2
<1>5. ASSUME NEW p \in DOMAIN q, p # 1
      PROVE  p - 1 \in DOMAIN t /\ t[p - 1] = q[p]
  BY <1>1, <1>5
<1>6. ASSUME NEW m
      PROVE  /\ m \in Bodies(t) => m \in Bodies(q)
             /\ m \in Bodies(t) /\ q[1].kind = "body" => q[1].msg.id < m.id /\ m # q[1].msg
             /\ m \in Bodies(q) => m \in Bodies(t) \/ (q[1].kind = "body" /\ m = q[1].msg)
  BY <1>4, <1>5, InBodies
<1>7. q[1].kind = "body" => q[1].msg \in Bodies(q)
  BY <1>1, InBodies
<1> QED BY <1>3, <1>6, <1>7 DEF t

LEMMA BodiesAppend ==
  ASSUME NEW q \in Seq(PartType), AscendingBodies(q), NEW m \in Msg, NEW kind \in {"len", "body"}
  PROVE  LET t == Append(q, Part(kind, m))
         IN  /\ Bodies(t) = IF kind = "body" THEN Bodies(q) \union {m} ELSE Bodies(q)
             /\ (\A n \in Bodies(q) : n.id < m.id) => AscendingBodies(t)
             /\ kind = "len" => AscendingBodies(t)
<1> DEFINE t == Append(q, Part(kind, m))
           n == Len(q) + 1
<1>1. Part(kind, m) \in PartType /\ Part(kind, m).kind = kind /\ Part(kind, m).msg = m
  BY DEF Part, PartType
<1>2. /\ DOMAIN q = 1..Len(q) /\ Len(q) \in Nat /\ DOMAIN t = 1..n
      /\ t[n] = Part(kind, m) /\ \A p \in DOMAIN q : t[p] = q[p]
  BY <1>1
<1>3. n \in DOMAIN t /\ t[n].kind = kind /\ t[n].msg = m
  BY <1>1, <1>2
<1>4. \A p \in DOMAIN q : p \in DOMAIN t /\ t[p] = q[p]
  BY <1>2
<1>5. \A p \in DOMAIN t : p = n \/ p \in DOMAIN q
  BY <1>2
<1> HIDE DEF t, n
<1>6. ASSUME NEW x
      PROVE  x \in Bodies(t) <=> x \in Bodies(q) \/ (kind = "body" /\ x = m)
  BY <1>3, <1>4, <1>5, InBodies
<1>7. Bodies(t) = IF kind = "body" THEN Bodies(q) \union {m} ELSE Bodies(q)
  BY <1>6
<1>8. ASSUME (\A x \in Bodies(q) : x.id < m.id) \/ kind = "len"
      PROVE  AscendingBodies(t)
  <2>1. SUFFICES ASSUME NEW a \in DOMAIN t, NEW b \in DOMAIN t, a < b,
                        t[a].kind = "body", t[b].kind = "body"
                 PROVE  t[a].msg.id < t[b].msg.id
    BY DEF AscendingBodies
  <2>2. CASE b \in DOMAIN q
    <3>1. a \in DOMAIN q
      BY <1>2, <2>1, <2>2
    <3> QED BY <1>4, <2>1, <2>2, <3>1 DEF AscendingBodies
  <2>3. CASE b = n
    <3>1. a \in DOMAIN q /\ kind = "body" /\ t[b].msg = m
      BY <1>2, <1>3, <1>5, <2>1, <2>3
    <3>2. t[a].msg \in Bodies(q)
      BY <1>4, <2>1, <3>1, InBodies
    <3> QED BY <1>8, <3>1, <3>2
  <2> QED BY <1>5, <2>2, <2>3
<1> QED BY <1>7, <1>8 DEF t

LEMMA BodiesPrefix ==
  ASSUME NEW q \in Seq(PartType), AscendingBodies(q), NEW n \in 0..Len(q)
  PROVE  AscendingBodies(SubSeq(q, 1, n)) /\ Bodies(SubSeq(q, 1, n)) \subseteq Bodies(q)
<1> DEFINE t == SubSeq(q, 1, n)
<1>1. /\ DOMAIN q = 1..Len(q) /\ Len(q) \in Nat
      /\ DOMAIN t = 1..n /\ \A p \in DOMAIN t : t[p] = q[p]
  OBVIOUS
<1>2. \A p \in DOMAIN t : p \in DOMAIN q /\ t[p] = q[p]
  BY <1>1
<1> HIDE DEF t
<1>3. AscendingBodies(t)
  BY <1>2 DEF AscendingBodies
<1>4. \A m : m \in Bodies(t) => m \in Bodies(q)
  BY <1>2, InBodies
<1> QED BY <1>3, <1>4 DEF t

LEMMA EmptyPlaces ==
  /\ Bodies(<<>>) = {} /\ AscendingBodies(<<>>) /\ Range(<<>>) = {}
  /\ NoRepeat(<<>>) /\ Ascending(<<>>)
<1>1. \A m : m \notin Bodies(<<>>) /\ m \notin Range(<<>>)
  BY InBodies, InRange
<1>2. AscendingBodies(<<>>) /\ NoRepeat(<<>>) /\ Ascending(<<>>)
  BY DEF AscendingBodies, NoRepeat, Ascending
<1> QED BY <1>1, <1>2

\* send_message has returned: the outbox has lost its first message.
LEMMA OutboxDone ==
  ASSUME TypeOK, SenderInv, OutboxInv, NEW i \in Node, pc[i] # "select", Done(i)
  PROVE  /\ outbox'[i] = Tail(outbox[i]) /\ Ascending(outbox'[i])
         /\ \A k \in Node : k # i => outbox'[k] = outbox[k]
         /\ Range(outbox'[i]) = Range(outbox[i]) \ {Current(i)} /\ Current(i) \in Range(outbox[i])
         /\ \A n \in Range(outbox'[i]) : Current(i).id < n.id
<1>1. outbox[i] \in Seq(Msg) /\ outbox[i] # <<>> /\ Ascending(outbox[i])
  BY DEF TypeOK, SenderInv, SenderOK, OutboxInv
<1>2. outbox'[i] = Tail(outbox[i]) /\ \A k \in Node : k # i => outbox'[k] = outbox[k]
  BY DEF Done, TypeOK
<1>3. NoRepeat(outbox[i])
  BY <1>1, AscendingHasNoRepeat
<1> QED BY <1>1, <1>2, <1>3, Dequeue, AscendingTail DEF Current

\* Every step but send_messages only takes messages out of outboxes, the
\* oldest first.
LEMMA OutboxShrinks ==
  ASSUME TypeOK, SenderInv, OutboxInv, [Next]_vars, ~\E i \in Node : send_messages(i)
  PROVE  /\ sent' = sent
         /\ \A k \in Node :
              /\ Range(outbox'[k]) \subseteq Range(outbox[k]) /\ Ascending(outbox'[k])
              /\ \A m \in Range(outbox[k]), n \in Range(outbox'[k]) :
                   m \notin Range(outbox'[k]) => m.id < n.id
<1> DEFINE Taken(k) ==
      /\ Range(outbox'[k]) \subseteq Range(outbox[k]) /\ Ascending(outbox'[k])
      /\ \A m \in Range(outbox[k]), n \in Range(outbox'[k]) :
           m \notin Range(outbox'[k]) => m.id < n.id
<1>1. ASSUME NEW k \in Node, outbox'[k] = outbox[k] \/ outbox'[k] = <<>>
      PROVE  Taken(k)
  BY <1>1, EmptyPlaces DEF OutboxInv
<1>2. ASSUME NEW i \in Node, SendStep(i)
      PROVE  sent' = sent /\ \A k \in Node : Taken(k)
  <2>1. sent' = sent /\ pc[i] # "select" /\ (outbox' = outbox \/ Done(i))
    BY <1>2 DEF SendStep, SendToSelf, DropUnknownPeer, send_to_peer, Connect, ConnectFails,
                WriteLength, WriteBody, WriteFails, Sending
  <2>2. ASSUME Done(i)
        PROVE  Taken(i)
    BY <2>1, <2>2, OutboxDone
  <2>3. ASSUME NEW k \in Node, k # i \/ outbox' = outbox
        PROVE  Taken(k)
    BY <1>1, <2>1, <2>3, OutboxDone
  <2> QED BY <2>1, <2>2, <2>3
<1>3. ASSUME NEW c \in DOMAIN conns, ReadStep(c) \/ Break(c)
      PROVE  sent' = sent /\ outbox' = outbox
  BY <1>3 DEF ReadStep, accept, ReadLength, ReadBody, ReadEnds, Break, loopVars
<1>4. ASSUME NEW i \in Node, Crash(i)
      PROVE  sent' = sent /\ \A k \in Node : outbox'[k] = outbox[k] \/ outbox'[k] = <<>>
  BY <1>4 DEF Crash, TypeOK
<1>5. ASSUME NEW i \in Node, NEW j \in Node,
             recv_message(i) \/ new(i) \/ add_peer(i, j) \/ remove_peer(i, j)
      PROVE  sent' = sent /\ outbox' = outbox
  BY <1>5 DEF recv_message, new, add_peer, remove_peer, loopVars
<1>6. ASSUME UNCHANGED vars
      PROVE  sent' = sent /\ outbox' = outbox
  BY <1>6 DEF vars
<1> HIDE DEF Taken
<1>7. sent' = sent /\ \A k \in Node : Taken(k)
  BY <1>1, <1>2, <1>3, <1>4, <1>5, <1>6 DEF Next
<1> QED BY <1>7 DEF Taken

\* What send_messages does.
LEMMA SendEffect ==
  ASSUME TypeOK, SenderInv, OutboxInv, NEW i \in Node, send_messages(i)
  PROVE  /\ Range(outbox'[i]) \subseteq {m \in Msg \ sent : m.from = i}
         /\ sent' = sent \union Range(outbox'[i])
         /\ Ascending(outbox'[i])
         /\ \A m \in Msg \ sent' : m.from = i => \A n \in Range(outbox'[i]) : n.id < m.id
         /\ \A k \in Node : k # i => outbox'[k] = outbox[k]
         /\ outbox[i] = <<>>
<1> DEFINE unsent == {m \in Msg \ sent : m.from = i}
<1>1. PICK n \in 1..MaxBatch : \E b \in [1..n -> unsent] :
        /\ \A x, y \in 1..n : x < y => b[x].id < b[y].id
        /\ \A m \in unsent \ Range(b) : \A x \in 1..n : b[x].id < m.id
        /\ outbox' = [outbox EXCEPT ![i] = b]
        /\ sent' = sent \union Range(b)
  BY DEF send_messages
<1>2. PICK b \in [1..n -> unsent] :
        /\ \A x, y \in 1..n : x < y => b[x].id < b[y].id
        /\ \A m \in unsent \ Range(b) : \A x \in 1..n : b[x].id < m.id
        /\ outbox' = [outbox EXCEPT ![i] = b]
        /\ sent' = sent \union Range(b)
  BY <1>1
<1>3. outbox'[i] = b /\ \A k \in Node : k # i => outbox'[k] = outbox[k]
  BY <1>2 DEF TypeOK
<1>4. DOMAIN b = 1..n /\ \A x \in 1..n : b[x] \in unsent
  BY <1>2
<1>5. Range(b) \subseteq unsent
  BY <1>4, InRange
<1>6. Ascending(b)
  BY <1>2, <1>4 DEF Ascending
<1>7. ASSUME NEW m \in Msg \ sent', m.from = i, NEW k \in Range(b)
      PROVE  k.id < m.id
  <2>1. m \in unsent \ Range(b)
    BY <1>2, <1>7
  <2>2. PICK x \in 1..n : b[x] = k
    BY <1>4, <1>7, InRange
  <2> QED BY <1>2, <2>1, <2>2
<1>8. outbox[i] = <<>>
  BY DEF send_messages, SenderInv, SenderOK
<1> QED BY <1>2, <1>3, <1>5, <1>6, <1>7, <1>8

LEMMA OutboxStep ==
  ASSUME TypeOK, SenderInv, OutboxInv, [Next]_vars
  PROVE  OutboxInv' /\ \A m : Gone(m) /\ m.from \in Node => Gone(m)'
<1>1. sent \subseteq Msg /\ \A m \in Msg : m.id \in Nat /\ m.from \in Node
  BY TransportAssumption DEF TypeOK
<1>2. CASE \E i \in Node : send_messages(i)
  <2>1. PICK i \in Node : send_messages(i)
    BY <1>2
  <2>2. /\ Range(outbox'[i]) \subseteq {m \in Msg \ sent : m.from = i}
        /\ sent' = sent \union Range(outbox'[i])
        /\ Ascending(outbox'[i])
        /\ \A m \in Msg \ sent' : m.from = i => \A n \in Range(outbox'[i]) : n.id < m.id
        /\ \A k \in Node : k # i => outbox'[k] = outbox[k]
        /\ Range(outbox[i]) = {}
    BY <2>1, SendEffect, EmptyPlaces
  <2>3. ASSUME NEW m, m.from \in Node
        PROVE  /\ Gone(m) => Gone(m)'
               /\ Gone(m)' => Gone(m)
    <3>1. CASE m.from = i
      BY <2>2, <3>1 DEF Gone
    <3>2. CASE m.from # i
      BY <2>2, <2>3, <3>2 DEF Gone
    <3> QED BY <3>1, <3>2
  <2>4. ASSUME NEW m \in sent', NEW n \in Msg \ sent', m.from = n.from
        PROVE  m.id < n.id
    <3>1. CASE m \in sent
      BY <2>2, <2>4, <3>1 DEF OutboxInv
    <3>2. CASE m \in Range(outbox'[i])
      BY <2>2, <2>4, <3>2
    <3> QED BY <2>2, <2>4, <3>1, <3>2
  <2>5. ASSUME NEW k \in Node
        PROVE  /\ Ascending(outbox'[k])
               /\ \A n \in Range(outbox'[k]) :
                    /\ n \in sent' /\ n.from = k
                    /\ \A m \in sent' : m.from = k /\ Gone(m)' => m.id < n.id
    <3>1. CASE k = i
      <4>1. ASSUME NEW n \in Range(outbox'[i]), NEW m \in sent', m.from = i, Gone(m)'
            PROVE  m.id < n.id
        <5>1. m \in sent /\ n \in Msg \ sent /\ n.from = i
          BY <2>2, <2>3, <4>1 DEF Gone
        <5> QED BY <4>1, <5>1 DEF OutboxInv
      <4> QED BY <2>2, <3>1, <4>1
    <3>2. CASE k # i
      <4>1. outbox'[k] = outbox[k]
        BY <2>2, <3>2
      <4>2. ASSUME NEW n \in Range(outbox[k]), NEW m \in sent', m.from = k, Gone(m)'
            PROVE  m.id < n.id
        <5>1. Gone(m) /\ m \in sent
          BY <2>3, <4>2 DEF Gone
        <5> QED BY <4>2, <5>1 DEF OutboxInv
      <4> QED BY <2>2, <4>1, <4>2 DEF OutboxInv
    <3> QED BY <3>1, <3>2
  <2> QED BY <2>3, <2>4, <2>5 DEF OutboxInv
<1>3. CASE ~\E i \in Node : send_messages(i)
  <2>1. /\ sent' = sent
        /\ \A k \in Node :
             /\ Range(outbox'[k]) \subseteq Range(outbox[k]) /\ Ascending(outbox'[k])
             /\ \A m \in Range(outbox[k]), n \in Range(outbox'[k]) :
                  m \notin Range(outbox'[k]) => m.id < n.id
    BY <1>3, OutboxShrinks
  <2>2. ASSUME NEW m, m.from \in Node, Gone(m)
        PROVE  Gone(m)'
    BY <2>1, <2>2 DEF Gone
  <2>3. ASSUME NEW k \in Node, NEW n \in Range(outbox'[k])
        PROVE  /\ n \in sent' /\ n.from = k
               /\ \A m \in sent' : m.from = k /\ Gone(m)' => m.id < n.id
    <3>1. n \in Range(outbox[k])
      BY <2>1, <2>3
    <3>2. n \in sent' /\ n.from = k
      BY <2>1, <3>1 DEF OutboxInv
    <3>3. ASSUME NEW m \in sent, m.from = k, m \notin Range(outbox'[k])
          PROVE  m.id < n.id
      <4>1. CASE m \in Range(outbox[k])
        BY <2>1, <2>3, <3>3, <4>1
      <4>2. CASE m \notin Range(outbox[k])
        BY <3>1, <3>3, <4>2 DEF OutboxInv, Gone
      <4> QED BY <4>1, <4>2
    <3> QED BY <2>1, <3>2, <3>3 DEF Gone
  <2> QED BY <2>1, <2>2, <2>3 DEF OutboxInv
<1> QED BY <1>2, <1>3

\* No new message is on connection c.
Shrinks(c) ==
  /\ AscendingBodies(conns'[c].data)
  /\ \/ Bodies(conns'[c].data) = {}
     \/ /\ c \in DOMAIN conns /\ Bodies(conns'[c].data) \subseteq Bodies(conns[c].data)
        /\ conns'[c].from = conns[c].from /\ conns'[c].to = conns[c].to

\* Only WriteBody puts a message on a connection, its own one.
LEMMA WireSteps ==
  ASSUME Inv, [Next]_vars, NEW c \in DOMAIN conns'
  PROVE  \/ Shrinks(c)
         \/ \E i \in Node :
              /\ WriteBody(i) /\ c = cur[i] /\ c \in DOMAIN conns
              /\ Bodies(conns'[c].data) = Bodies(conns[c].data) \union {Current(i)}
              /\ AscendingBodies(conns'[c].data)
<1> USE DEF Inv
<1>1. ASSUME c \in DOMAIN conns, conns'[c].data = conns[c].data,
             conns'[c].from = conns[c].from, conns'[c].to = conns[c].to
      PROVE  Shrinks(c)
  BY <1>1 DEF Shrinks, PlaceInv, WireInv
<1>2. ASSUME NEW d \in DOMAIN conns, NEW k, NEW b, NEW q, Becomes(d, k, b, q), AscendingBodies(q),
             Bodies(q) \subseteq Bodies(conns[d].data)
      PROVE  Shrinks(c)
  <2>1. CASE c # d
    BY <1>1, <1>2, <2>1 DEF Becomes
  <2>2. CASE c = d
    <3>1. /\ conns'[d].data = q /\ conns'[d].from = conns[d].from /\ conns'[d].to = conns[d].to
      BY <1>2 DEF Becomes
    <3> QED BY <1>2, <2>2, <3>1 DEF Shrinks
  <2> QED BY <2>1, <2>2
<1>3. ASSUME NEW d \in DOMAIN conns
      PROVE  AscendingBodies(conns[d].data) /\ conns[d].data \in Seq(PartType)
  BY ConnType DEF PlaceInv, WireInv
<1>4. ASSUME NEW i \in Node, SendStep(i)
      PROVE  \/ Shrinks(c)
             \/ /\ WriteBody(i) /\ c = cur[i] /\ c \in DOMAIN conns
                /\ Bodies(conns'[c].data) = Bodies(conns[c].data) \union {Current(i)}
                /\ AscendingBodies(conns'[c].data)
  <2>1. CASE SendToSelf(i) \/ DropUnknownPeer(i) \/ send_to_peer(i) \/ ConnectFails(i)
    BY <1>1, <2>1 DEF SendToSelf, DropUnknownPeer, send_to_peer, ConnectFails
  <2>2. CASE Connect(i)
    <3>1. CASE c \in DOMAIN conns
      BY <1>1, <2>2, <3>1, ConnectEffect
    <3>2. CASE c = Len(conns) + 1
      <4>1. conns'[c].data = <<>>
        BY <2>2, <3>2, ConnectEffect
      <4> QED BY <4>1, EmptyPlaces DEF Shrinks
    <3> QED BY <2>2, <3>1, <3>2, ConnectEffect
  <2> DEFINE e == cur[i]
  <2>3. CASE WriteLength(i)
    <3> DEFINE q == IF conns[e].cut THEN conns[e].data
                    ELSE Append(conns[e].data, Part("len", Current(i)))
    <3>1. e \in DOMAIN conns /\ Current(i) \in Msg /\ Becomes(e, conns[e].reader, conns[e].cut, q)
      BY <2>3, WriteEffect DEF WriteLength
    <3>2. AscendingBodies(q) /\ Bodies(q) = Bodies(conns[e].data)
      BY <1>3, <3>1, BodiesAppend
    <3> HIDE DEF q
    <3> QED BY <1>2, <3>1, <3>2
  <2>4. CASE WriteBody(i) /\ conns[e].cut
    <3>1. e \in DOMAIN conns /\ Becomes(e, conns[e].reader, conns[e].cut, conns[e].data)
      BY <2>4, WriteEffect DEF WriteBody
    <3> QED BY <1>2, <1>3, <3>1
  <2>5. CASE WriteBody(i) /\ ~conns[e].cut
    <3> DEFINE q == Append(conns[e].data, Part("body", Current(i)))
    <3>1. e \in DOMAIN conns /\ Current(i) \in Msg /\ Becomes(e, conns[e].reader, conns[e].cut, q)
      BY <2>5, WriteEffect DEF WriteBody
    <3>2. \A n \in Bodies(conns[e].data) : n.id < Current(i).id
      <4>1. Current(i) \in Range(outbox[i])
        BY <2>5, OutboxDone DEF WriteBody, Sending, PlaceInv
      <4>2. ASSUME NEW n \in Bodies(conns[e].data)
            PROVE  Gone(n) /\ n.from = i /\ n \in sent
        BY <2>5, <3>1, WriteEffect DEF WriteBody, PlaceInv, WireInv, Gone
      <4> QED BY <4>1, <4>2 DEF PlaceInv, OutboxInv
    <3>3. AscendingBodies(q) /\ Bodies(q) = Bodies(conns[e].data) \union {Current(i)}
      BY <1>3, <3>1, <3>2, BodiesAppend
    <3> HIDE DEF q
    <3>4. CASE c = e
      <4>1. conns'[e].data = q
        BY <3>1 DEF Becomes
      <4> QED BY <2>5, <3>1, <3>3, <3>4, <4>1
    <3>5. CASE c # e
      BY <1>1, <3>1, <3>5 DEF Becomes
    <3> QED BY <3>4, <3>5
  <2>6. CASE WriteFails(i)
    <3>1. e \in DOMAIN conns /\ Becomes(e, conns[e].reader, conns[e].cut, conns[e].data)
      BY <2>6, WriteEffect DEF WriteFails
    <3> QED BY <1>2, <1>3, <3>1
  <2> QED BY <1>4, <2>1, <2>2, <2>3, <2>4, <2>5, <2>6 DEF SendStep
<1>5. ASSUME NEW d \in DOMAIN conns, ReadStep(d) \/ Break(d)
      PROVE  Shrinks(c)
  <2>1. CASE accept(d)
    BY <1>2, <1>3, <2>1, ReadEffect
  <2>2. ASSUME conns[d].data # <<>>
        PROVE  /\ AscendingBodies(Tail(conns[d].data))
               /\ Bodies(Tail(conns[d].data)) \subseteq Bodies(conns[d].data)
    BY <1>3, <2>2, BodiesTail
  <2>3. CASE ReadLength(d)
    BY <1>2, <2>2, <2>3, ReadEffect, EmptyPlaces DEF ReadLength
  <2>4. CASE ReadBody(d)
    BY <1>2, <2>2, <2>4, ReadEffect DEF ReadBody
  <2>5. CASE ReadEnds(d)
    BY <1>2, <2>5, ReadEffect, EmptyPlaces
  <2>6. CASE Break(d)
    <3>1. PICK k \in 0..Len(conns[d].data) :
            Becomes(d, conns[d].reader, TRUE, SubSeq(conns[d].data, 1, k))
      BY <2>6, ReadEffect
    <3>2. /\ AscendingBodies(SubSeq(conns[d].data, 1, k))
          /\ Bodies(SubSeq(conns[d].data, 1, k)) \subseteq Bodies(conns[d].data)
      BY <1>3, BodiesPrefix
    <3> QED BY <1>2, <3>1, <3>2
  <2> QED BY <1>5, <2>1, <2>3, <2>4, <2>5, <2>6 DEF ReadStep
<1>6. ASSUME NEW i \in Node, Crash(i)
      PROVE  Shrinks(c)
  <2>1. c \in DOMAIN conns
    BY <1>6, CrashEffect
  <2>2. CASE conns[c].to = i
    <3>1. conns'[c].data = <<>>
      BY <1>6, <2>1, <2>2, CrashEffect
    <3> QED BY <3>1, EmptyPlaces DEF Shrinks
  <2>3. CASE conns[c].to # i
    BY <1>1, <1>6, <2>1, <2>3, CrashEffect
  <2> QED BY <2>2, <2>3
<1>7. ASSUME NEW i \in Node, NEW j \in Node,
             send_messages(i) \/ recv_message(i) \/ new(i) \/ add_peer(i, j) \/ remove_peer(i, j)
      PROVE  Shrinks(c)
  BY <1>1, <1>7 DEF send_messages, recv_message, new, add_peer, remove_peer
<1>8. CASE UNCHANGED vars
  BY <1>1, <1>8 DEF vars
<1> QED BY <1>4, <1>5, <1>6, <1>7, <1>8 DEF Next

\* The message that leaves an outbox when send_message returns.
LEMMA Leaves ==
  ASSUME Inv, NEW i \in Node, pc[i] # "select", Done(i), sent' = sent,
         NEW m, m = Current(i)
  PROVE  m \in Msg /\ m.from = i /\ m.to \in Node /\ ~Gone(m) /\ Gone(m)'
<1>1. m \in Range(outbox[i]) /\ m \notin Range(outbox'[i]) /\ m \in Msg
  BY OutboxDone, CurrentMessage DEF Inv, PlaceInv
<1>2. m \in sent /\ m.from = i
  BY <1>1 DEF Inv, PlaceInv, OutboxInv
<1> QED BY <1>1, <1>2, TransportAssumption DEF Gone

LEMMA WireStep ==
  ASSUME Inv, [Next]_vars
  PROVE  WireInv'
<1>1. ASSUME NEW m, Gone(m), m.from \in Node
      PROVE  Gone(m)'
  BY <1>1, OutboxStep DEF Inv, PlaceInv
<1>2. ASSUME NEW c \in DOMAIN conns, NEW m \in Bodies(conns[c].data)
      PROVE  /\ Gone(m) /\ m.from = conns[c].from /\ m.to = conns[c].to /\ m.from \in Node
             /\ \A d \in DOMAIN conns : m \in Bodies(conns[d].data) => c = d
  BY ConnType DEF Inv, PlaceInv, WireInv
<1>3. ASSUME NEW i \in Node, WriteBody(i), NEW m, m = Current(i)
      PROVE  /\ ~Gone(m) /\ Gone(m)' /\ m.from = i
             /\ cur[i] \in DOMAIN conns /\ conns[cur[i]].from = i /\ conns[cur[i]].to = m.to
             /\ conns'[cur[i]].from = i /\ conns'[cur[i]].to = m.to
  <2>1. cur[i] \in DOMAIN conns /\ conns[cur[i]].from = i /\ conns[cur[i]].to = Current(i).to
    BY <1>3, WriteEffect DEF WriteBody, Inv
  <2>2. conns'[cur[i]].from = conns[cur[i]].from /\ conns'[cur[i]].to = conns[cur[i]].to
    BY <2>1, ConnsGrow DEF ConnsKept, Inv
  <2> QED BY <1>3, <2>1, <2>2, Leaves DEF WriteBody, Sending
<1>4. ASSUME NEW i \in Node, NEW k \in Node, WriteBody(i), WriteBody(k)
      PROVE  i = k
  <2>1. /\ Current(i) \in Range(outbox[i]) /\ Current(i) \notin Range(outbox'[i])
        /\ \A l \in Node : l # k => outbox'[l] = outbox[l]
    BY <1>4, OutboxDone DEF WriteBody, Sending, Inv, PlaceInv
  <2> QED BY <2>1
<1>5. SUFFICES ASSUME NEW c \in DOMAIN conns'
               PROVE  /\ AscendingBodies(conns'[c].data)
                      /\ \A m \in Bodies(conns'[c].data) :
                           /\ Gone(m)' /\ m.from = conns'[c].from /\ m.to = conns'[c].to
                           /\ \A d \in DOMAIN conns' : m \in Bodies(conns'[d].data) => c = d
  BY DEF WireInv
<1>6. AscendingBodies(conns'[c].data)
  BY WireSteps DEF Shrinks
<1>7. SUFFICES ASSUME NEW m \in Bodies(conns'[c].data)
               PROVE  /\ Gone(m)' /\ m.from = conns'[c].from /\ m.to = conns'[c].to
                      /\ \A d \in DOMAIN conns' : m \in Bodies(conns'[d].data) => c = d
  BY <1>6
<1>8. CASE Shrinks(c)
  <2>1. /\ c \in DOMAIN conns /\ m \in Bodies(conns[c].data)
        /\ conns'[c].from = conns[c].from /\ conns'[c].to = conns[c].to
    BY <1>7, <1>8 DEF Shrinks
  <2>2. Gone(m) /\ Gone(m)' /\ m.from = conns'[c].from /\ m.to = conns'[c].to
    BY <1>1, <1>2, <2>1
  <2>3. ASSUME NEW d \in DOMAIN conns', m \in Bodies(conns'[d].data)
        PROVE  c = d
    <3>1. CASE Shrinks(d)
      BY <1>2, <2>1, <2>3, <3>1 DEF Shrinks
    <3>2. CASE ~Shrinks(d)
      <4>1. PICK i \in Node : /\ WriteBody(i) /\ d = cur[i] /\ d \in DOMAIN conns
                              /\ Bodies(conns'[d].data) = Bodies(conns[d].data) \union {Current(i)}
        BY <3>2, WireSteps
      <4>2. m \in Bodies(conns[d].data)
        BY <1>3, <2>2, <2>3, <4>1
      <4> QED BY <1>2, <2>1, <4>1, <4>2
    <3> QED BY <3>1, <3>2
  <2> QED BY <2>2, <2>3
<1>9. CASE ~Shrinks(c)
  <2>1. PICK i \in Node : /\ WriteBody(i) /\ c = cur[i] /\ c \in DOMAIN conns
                          /\ Bodies(conns'[c].data) = Bodies(conns[c].data) \union {Current(i)}
    BY <1>9, WireSteps
  <2>2. Gone(m)' /\ m.from = conns'[c].from /\ m.to = conns'[c].to
    BY <1>1, <1>2, <1>3, <1>7, <2>1
  <2>3. ASSUME NEW d \in DOMAIN conns', m \in Bodies(conns'[d].data)
        PROVE  c = d
    <3>1. CASE Shrinks(d)
      <4>1. d \in DOMAIN conns /\ m \in Bodies(conns[d].data)
        BY <2>3, <3>1 DEF Shrinks
      <4>2. m \in Bodies(conns[c].data)
        BY <1>2, <1>3, <1>7, <2>1, <4>1
      <4> QED BY <1>2, <2>1, <4>1, <4>2
    <3>2. CASE ~Shrinks(d)
      BY <1>4, <2>1, <3>2, WireSteps
    <3> QED BY <3>1, <3>2
  <2> QED BY <2>2, <2>3
<1> QED BY <1>8, <1>9

\* The queue of node j after a step: as before, shorter, or with one message
\* more, which comes from the outbox of j itself or off a connection to j.
LEMMA QueueSteps ==
  ASSUME Inv, [Next]_vars, NEW j \in Node
  PROVE  \/ message_rx'[j] = message_rx[j]
         \/ message_rx'[j] = <<>> /\ \E i \in Node : Crash(i)
         \/ /\ recv_message(j) /\ message_rx[j] # <<>>
            /\ message_rx'[j] = Tail(message_rx[j])
         \/ /\ SendToSelf(j) /\ Current(j).to = j
            /\ message_rx'[j] = Append(message_rx[j], Current(j))
         \/ \E c \in DOMAIN conns : 
              /\ ReadBody(c) /\ conns[c].to = j
              /\ message_rx'[j] = Append(message_rx[j], conns[c].data[1].msg)
<1> USE DEF Inv
<1>1. ASSUME NEW i \in Node, SendStep(i)
      PROVE  \/ message_rx'[j] = message_rx[j]
             \/ /\ SendToSelf(j) /\ Current(j).to = j
                /\ message_rx'[j] = Append(message_rx[j], Current(j))
  <2>1. CASE SendToSelf(i)
    <3>1. CASE i = j
      BY <2>1, <3>1 DEF SendToSelf, TypeOK
    <3>2. CASE i # j
      BY <2>1, <3>2 DEF SendToSelf, TypeOK
    <3> QED BY <3>1, <3>2
  <2>2. CASE ~SendToSelf(i)
    BY <1>1, <2>2 DEF SendStep, DropUnknownPeer, send_to_peer, Connect, ConnectFails,
                WriteLength, WriteBody, WriteFails
  <2> QED BY <2>1, <2>2
<1>2. ASSUME NEW c \in DOMAIN conns, ReadStep(c) \/ Break(c)
      PROVE  \/ message_rx'[j] = message_rx[j]
             \/ /\ ReadBody(c) /\ conns[c].to = j
                /\ message_rx'[j] = Append(message_rx[j], conns[c].data[1].msg)
  <2>1. CASE ReadBody(c)
    <3>1. conns[c].data \in Seq(PartType) /\ conns[c].data # <<>>
      BY <2>1, ConnType DEF ReadBody
    <3>2. Head(conns[c].data) = conns[c].data[1]
      BY <3>1, HeadTail
    <3> QED BY <2>1, <3>2 DEF ReadBody, TypeOK
  <2>2. CASE ~ReadBody(c)
    BY <1>2, <2>2 DEF ReadStep, accept, ReadLength, ReadEnds, Break
  <2> QED BY <2>1, <2>2
<1>3. ASSUME NEW i \in Node, Crash(i)
      PROVE  message_rx'[j] = message_rx[j] \/ message_rx'[j] = <<>>
  BY <1>3 DEF Crash, TypeOK
<1>4. ASSUME NEW i \in Node, recv_message(i)
      PROVE  \/ message_rx'[j] = message_rx[j]
             \/ /\ recv_message(j) /\ message_rx[j] # <<>>
                /\ message_rx'[j] = Tail(message_rx[j])
  BY <1>4 DEF recv_message, TypeOK
<1>5. ASSUME NEW i \in Node, NEW k \in Node,
             send_messages(i) \/ new(i) \/ add_peer(i, k) \/ remove_peer(i, k)
      PROVE  message_rx'[j] = message_rx[j]
  BY <1>5 DEF send_messages, new, add_peer, remove_peer
<1>6. CASE UNCHANGED vars
  BY <1>6 DEF vars
<1> QED BY <1>1, <1>2, <1>3, <1>4, <1>5, <1>6 DEF Next

\* The message that ReadBody takes off its connection.
LEMMA Arrives ==
  ASSUME Inv, [Next]_vars, NEW c \in DOMAIN conns, ReadBody(c), NEW m, m = conns[c].data[1].msg
  PROVE  /\ m \in Bodies(conns[c].data) /\ m \in Msg /\ Gone(m) /\ m.to = conns[c].to
         /\ m.from = conns[c].from
         /\ \A d \in DOMAIN conns' : m \notin Bodies(conns'[d].data)
         /\ \A k \in Node : m \notin Range(message_rx[k])
<1>1. /\ conns[c].data \in Seq(PartType) /\ conns[c].data # <<>> /\ conns[c].reader = "body"
      /\ AscendingBodies(conns[c].data)
  BY ConnType DEF ReadBody, Reading, Inv, PlaceInv, WireInv
<1>2. conns[c].data[1].kind = "body"
  BY <1>1 DEF Inv, FrameInv, Framed
<1>3. m \in Bodies(conns[c].data) /\ Bodies(Tail(conns[c].data)) = Bodies(conns[c].data) \ {m}
  BY <1>1, <1>2, BodiesTail
<1>4. m \in Msg
  BY <1>1, <1>3, BodiesType
<1>5. /\ Gone(m) /\ m.to = conns[c].to /\ m.from = conns[c].from
      /\ \A d \in DOMAIN conns : m \in Bodies(conns[d].data) => c = d
  BY <1>3 DEF Inv, PlaceInv, WireInv
<1>6. Becomes(c, "len", conns[c].cut, Tail(conns[c].data))
  BY ReadEffect DEF Inv
<1>7. ASSUME NEW d \in DOMAIN conns'
      PROVE  m \notin Bodies(conns'[d].data)
  <2>1. d \in DOMAIN conns /\ conns'[c].data = Tail(conns[c].data) /\ (d # c => conns'[d] = conns[d])
    BY <1>6 DEF Becomes
  <2> QED BY <1>3, <1>5, <2>1
<1>8. \A k \in Node : m \notin Range(message_rx[k])
  BY <1>3 DEF Inv, PlaceInv, QueueInv
<1> QED BY <1>3, <1>4, <1>5, <1>7, <1>8

LEMMA QueueStep ==
  ASSUME Inv, [Next]_vars
  PROVE  QueueInv'
<1>1. ASSUME NEW m, Gone(m), m.from \in Node
      PROVE  Gone(m)'
  BY <1>1, OutboxStep DEF Inv, PlaceInv
<1> DEFINE Place(m, j) == /\ Gone(m)' /\ m.to = j
                          /\ \A c \in DOMAIN conns' : m \notin Bodies(conns'[c].data)
<1>2. ASSUME NEW j \in Node, NEW m \in Range(message_rx[j])
      PROVE  Place(m, j)
  <2>1. Gone(m) /\ m.to = j /\ \A c \in DOMAIN conns : m \notin Bodies(conns[c].data)
    BY <1>2 DEF Inv, PlaceInv, QueueInv
  <2>2. m.from \in Node
    BY <2>1, TransportAssumption DEF Gone, Inv, TypeOK
  <2>3. ASSUME NEW c \in DOMAIN conns', ~Shrinks(c)
        PROVE  m \notin Bodies(conns'[c].data)
    <3>1. PICK i \in Node : /\ WriteBody(i) /\ c = cur[i] /\ c \in DOMAIN conns
                            /\ Bodies(conns'[c].data) = Bodies(conns[c].data) \union {Current(i)}
      BY <2>3, WireSteps
    <3>2. ~Gone(Current(i))
      BY <3>1, Leaves DEF WriteBody, Sending
    <3> QED BY <2>1, <3>1, <3>2
  <2>4. ASSUME NEW c \in DOMAIN conns', Shrinks(c)
        PROVE  m \notin Bodies(conns'[c].data)
    BY <2>1, <2>4 DEF Shrinks
  <2> QED BY <1>1, <2>1, <2>2, <2>3, <2>4
<1>3. SUFFICES ASSUME NEW j \in Node
               PROVE  NoRepeat(message_rx'[j]) /\ \A m \in Range(message_rx'[j]) : Place(m, j)
  BY DEF QueueInv
<1>4. NoRepeat(message_rx[j]) /\ message_rx[j] \in Seq(Msg)
  BY DEF Inv, PlaceInv, QueueInv, TypeOK
<1>5. ASSUME NEW m \in Msg, m \notin Range(message_rx[j]), Place(m, j),
             message_rx'[j] = Append(message_rx[j], m)
      PROVE  NoRepeat(message_rx'[j]) /\ \A n \in Range(message_rx'[j]) : Place(n, j)
  <2> HIDE DEF Place
  <2>1. NoRepeat(message_rx'[j]) /\ Range(message_rx'[j]) = Range(message_rx[j]) \union {m}
    BY <1>4, <1>5, Enqueue
  <2> QED BY <1>2, <1>5, <2>1
<1>6. CASE message_rx'[j] = message_rx[j]
  BY <1>2, <1>4, <1>6
<1>7. CASE message_rx'[j] = <<>>
  BY <1>7, EmptyPlaces
<1>8. CASE message_rx[j] # <<>> /\ message_rx'[j] = Tail(message_rx[j])
  BY <1>2, <1>4, <1>8, Dequeue
<1>9. CASE SendToSelf(j) /\ Current(j).to = j /\ message_rx'[j] = Append(message_rx[j], Current(j))
  <2> DEFINE m == Current(j)
  <2>1. m \in Msg /\ ~Gone(m) /\ m.to = j
    BY <1>9, Leaves DEF SendToSelf, Sending
  <2>2. ASSUME NEW n, n = Current(j)
        PROVE  Gone(n)'
    BY <1>9, <2>2, Leaves DEF SendToSelf, Sending
  <2>3. \A c \in DOMAIN conns' : m \notin Bodies(conns'[c].data)
    BY <1>9, <2>1 DEF SendToSelf, Inv, PlaceInv, WireInv
  <2>4. m \notin Range(message_rx[j])
    BY <2>1 DEF Inv, PlaceInv, QueueInv
  <2>5. PICK n : n = Current(j)
    OBVIOUS
  <2>6. n \in Msg /\ n \notin Range(message_rx[j]) /\ Place(n, j)
    BY <2>1, <2>2, <2>3, <2>4, <2>5
  <2> HIDE DEF Place
  <2> QED BY <1>5, <1>9, <2>5, <2>6
<1>10. CASE \E c \in DOMAIN conns : /\ ReadBody(c) /\ conns[c].to = j
                                    /\ message_rx'[j] = Append(message_rx[j], conns[c].data[1].msg)
  <2>1. PICK c \in DOMAIN conns : /\ ReadBody(c) /\ conns[c].to = j
                                  /\ message_rx'[j] = Append(message_rx[j], conns[c].data[1].msg)
    BY <1>10
  <2>2. PICK m : m = conns[c].data[1].msg
    OBVIOUS
  <2>3. /\ m \in Bodies(conns[c].data) /\ m \in Msg /\ Gone(m) /\ m.to = j
        /\ \A d \in DOMAIN conns' : m \notin Bodies(conns'[d].data)
        /\ m \notin Range(message_rx[j])
    BY <2>1, <2>2, Arrives
  <2>4. Gone(m)'
    BY <1>1, <2>3, TransportAssumption
  <2>5. Place(m, j)
    BY <2>3, <2>4
  <2> HIDE DEF Place
  <2> QED BY <1>5, <2>1, <2>2, <2>3, <2>5
<1> QED BY <1>6, <1>7, <1>8, <1>9, <1>10, QueueSteps

-----------------------------------------------------------------------------
(* Theorems *)

LEMMA InitInv == Init => Inv
<1> SUFFICES ASSUME Init PROVE Inv
  OBVIOUS
<1>1. TypeOK
  <2>1. <<>> \in Seq(Conn) /\ <<>> \in Seq(Msg)
    OBVIOUS
  <2> QED BY <2>1, TransportAssumption DEF Init, TypeOK
<1>2. SenderInv /\ WriterInv
  BY DEF Init, SenderInv, SenderOK, WriterInv, WriterOK
<1>3. FrameInv /\ WireInv
  BY DEF Init, FrameInv, WireInv
<1>4. OutboxInv /\ QueueInv
  <2>1. \A i \in Node : outbox[i] = <<>> /\ message_rx[i] = <<>>
    BY DEF Init
  <2> QED BY <2>1, EmptyPlaces DEF Init, OutboxInv, QueueInv
<1> QED BY <1>1, <1>2, <1>3, <1>4 DEF Inv, PlaceInv

\* A message is in at most one place, on its way to the node it is for, and
\* writers and readers agree on the frames, whatever is cut or crashes.
THEOREM InvHolds == Spec => []Inv
<1>1. Inv /\ [Next]_vars => Inv'
  BY TypeStep, SenderStep, FrameStep, WriterStep, OutboxStep, WireStep, QueueStep
  DEF Inv, PlaceInv
<1> QED BY <1>1, InitInv, PTL DEF Spec

\* Types: in particular a cached connection is one that was made.
THEOREM TypeCorrect == Spec => []TypeOK
<1>1. Inv => TypeOK
  BY DEF Inv
<1> QED BY <1>1, InvHolds, PTL

\* A reader that expects a length finds a length and one that expects a body
\* finds a body, whatever the writer left half-written (write_message,
\* handle_connection).
THEOREM FramesStayAligned == Spec => []FramesAligned
<1>1. Inv => FramesAligned
  <2> SUFFICES ASSUME Inv, NEW c \in DOMAIN conns, conns[c].data # <<>>, conns[c].reader # "done"
               PROVE  Head(conns[c].data).kind = "body" <=> conns[c].reader = "body"
    BY DEF FramesAligned
  <2>1. conns[c].data \in Seq(PartType) /\ Framed(conns[c].data, conns[c].reader, conns[c].cut)
    BY ConnType DEF Inv, FrameInv
  <2> QED BY <2>1, HeadTail DEF Framed
<1> QED BY <1>1, InvHolds, PTL

-----------------------------------------------------------------------------
(* The refinement *)

\* No step but send_messages brings a message back.
LEMMA NothingReturns ==
  ASSUME Inv, [Next]_vars, ~\E i \in Node : send_messages(i), NEW m \in sent, InTransit(m)'
  PROVE  InTransit(m)
<1>1. m.from \in Node /\ m.to \in Node
  BY TransportAssumption DEF Inv, TypeOK
<1>2. CASE m \in Range(outbox'[m.from])
  BY <1>1, <1>2, OutboxShrinks DEF InTransit, Inv, PlaceInv
<1>3. ASSUME NEW i \in Node, pc[i] # "select", Done(i), m = Current(i)
      PROVE  InTransit(m)
  <2>1. m \in Range(outbox[i])
    BY <1>3, OutboxDone DEF Inv, PlaceInv
  <2>2. m.from = i
    BY <2>1 DEF Inv, PlaceInv, OutboxInv
  <2> QED BY <2>1, <2>2 DEF InTransit
<1>4. ASSUME NEW c \in DOMAIN conns, m \in Bodies(conns[c].data)
      PROVE  InTransit(m)
  <2>1. conns[c].reader # "done"
    BY <1>4, EmptyPlaces DEF Inv, FrameInv, Framed
  <2> QED BY <1>4, <2>1 DEF InTransit
<1>5. ASSUME NEW c \in DOMAIN conns', m \in Bodies(conns'[c].data)
      PROVE  InTransit(m)
  <2>1. CASE Shrinks(c)
    BY <1>4, <1>5, <2>1 DEF Shrinks
  <2>2. CASE ~Shrinks(c)
    <3>1. PICK i \in Node : /\ WriteBody(i) /\ c \in DOMAIN conns
                            /\ Bodies(conns'[c].data) = Bodies(conns[c].data) \union {Current(i)}
      BY <2>2, WireSteps
    <3>2. CASE m = Current(i)
      BY <1>3, <3>1, <3>2 DEF WriteBody, Sending
    <3> QED BY <1>4, <1>5, <3>1, <3>2
  <2> QED BY <2>1, <2>2
<1>6. CASE m \in Range(message_rx'[m.to])
  <2> DEFINE j == m.to
  <2>1. message_rx[j] \in Seq(Msg) /\ NoRepeat(message_rx[j])
    BY <1>1 DEF Inv, TypeOK, PlaceInv, QueueInv
  <2>2. CASE message_rx'[j] = message_rx[j]
    BY <1>6, <2>2 DEF InTransit
  <2>3. CASE message_rx'[j] = <<>>
    BY <1>6, <2>3, EmptyPlaces
  <2>4. CASE message_rx[j] # <<>> /\ message_rx'[j] = Tail(message_rx[j])
    BY <1>6, <2>1, <2>4, Dequeue DEF InTransit
  <2>5. CASE SendToSelf(j) /\ message_rx'[j] = Append(message_rx[j], Current(j))
    <3>1. Current(j) \in Msg
      BY <1>1, <2>5, Leaves DEF SendToSelf, Sending
    <3>2. m \in Range(message_rx[j]) \/ m = Current(j)
      BY <1>6, <2>1, <2>5, <3>1, Enqueue
    <3>3. CASE m = Current(j)
      BY <1>1, <1>3, <2>5, <3>3 DEF SendToSelf, Sending
    <3> QED BY <3>2, <3>3 DEF InTransit
  <2>6. CASE \E c \in DOMAIN conns :
               ReadBody(c) /\ message_rx'[j] = Append(message_rx[j], conns[c].data[1].msg)
    <3>1. PICK c \in DOMAIN conns :
               ReadBody(c) /\ message_rx'[j] = Append(message_rx[j], conns[c].data[1].msg)
      BY <2>6
    <3>2. conns[c].data[1].msg \in Bodies(conns[c].data) /\ conns[c].data[1].msg \in Msg
      BY <3>1, Arrives
    <3>3. m \in Range(message_rx[j]) \/ m = conns[c].data[1].msg
      BY <1>6, <2>1, <3>1, <3>2, Enqueue
    <3> QED BY <1>4, <3>2, <3>3 DEF InTransit
  <2> HIDE DEF j
  <2>7. j \in Node
    BY <1>1 DEF j
  <2> QED BY <2>2, <2>3, <2>4, <2>5, <2>6, <2>7, QueueSteps
<1> QED BY <1>2, <1>5, <1>6 DEF InTransit

\* What send_messages gives the transport is in transit, and nothing else changes.
LEMMA SendIsSend ==
  ASSUME Inv, NEW i \in Node, send_messages(i)
  PROVE  \E S \in SUBSET Msg : Channel!Send(S)
<1> DEFINE S == Range(outbox'[i])
<1>1. /\ S \subseteq {m \in Msg \ sent : m.from = i} /\ sent' = sent \union S
      /\ outbox[i] = <<>> /\ \A k \in Node : k # i => outbox'[k] = outbox[k]
  BY SendEffect DEF Inv, PlaceInv
<1>2. UNCHANGED <<conns, message_rx, stepped>>
  BY DEF send_messages
<1>3. ASSUME NEW m \in S
      PROVE  InTransit(m)'
  BY <1>1 DEF InTransit
<1>4. ASSUME NEW m \in sent
      PROVE  InTransit(m)' <=> InTransit(m)
  <2>1. m.from \in Node
    BY TransportAssumption DEF Inv, TypeOK
  <2>2. m \in Range(outbox'[m.from]) <=> m \in Range(outbox[m.from])
    BY <1>1, <2>1, EmptyPlaces
  <2> QED BY <1>2, <2>2 DEF InTransit
<1>5. {m \in sent' : InTransit(m)'} = {m \in sent : InTransit(m)} \union S
  <2> HIDE DEF S
  <2> QED BY <1>1, <1>3, <1>4
<1>6. S \in SUBSET Msg /\ S \intersect sent = {}
  BY <1>1
<1>7. Channel!Send(S)
  BY <1>1, <1>2, <1>5, <1>6 DEF Channel!Send
<1> QED BY <1>6, <1>7

\* What recv_message hands to Raft was in transit, and is no longer.
LEMMA RecvIsReceive ==
  ASSUME Inv, NEW i \in Node, recv_message(i), [Next]_vars
  PROVE  \E m \in Msg : Channel!Receive(m)
<1>1. message_rx[i] \in Seq(Msg) /\ message_rx[i] # <<>> /\ NoRepeat(message_rx[i])
  BY DEF recv_message, Inv, TypeOK, PlaceInv, QueueInv
<1>2. PICK h : h = Head(message_rx[i])
  OBVIOUS
<1>3. /\ h \in Msg /\ h \in Range(message_rx[i])
      /\ Range(Tail(message_rx[i])) = Range(message_rx[i]) \ {h}
  BY <1>1, <1>2, Dequeue, HeadTail
<1>4. h.to = i /\ Gone(h) /\ \A c \in DOMAIN conns : h \notin Bodies(conns[c].data)
  BY <1>3 DEF Inv, PlaceInv, QueueInv
<1>5. /\ UNCHANGED <<outbox, conns, sent>>
      /\ message_rx'[i] = Tail(message_rx[i])
      /\ \A k \in Node : k # i => message_rx'[k] = message_rx[k] /\ stepped'[k] = stepped[k]
      /\ stepped'[i] = Append(stepped[i], h) /\ stepped[i] \in Seq(Msg)
      /\ DOMAIN stepped = Node
      /\ stepped' = [stepped EXCEPT ![i] = Append(@, h)]
  BY <1>2 DEF recv_message, Inv, TypeOK, loopVars
<1>6. h \in sent /\ InTransit(h)
  BY <1>3, <1>4 DEF InTransit, Gone
<1>7. ~InTransit(h)'
  BY <1>3, <1>4, <1>5 DEF InTransit, Gone
<1>8. ASSUME NEW m \in sent, m # h
      PROVE  InTransit(m)' <=> InTransit(m)
  <2>1. m.to \in Node
    BY TransportAssumption DEF Inv, TypeOK
  <2>2. m \in Range(message_rx'[m.to]) <=> m \in Range(message_rx[m.to])
    BY <1>3, <1>5, <1>8, <2>1
  <2> QED BY <1>5, <2>2 DEF InTransit
<1>9. {m \in sent' : InTransit(m)'} = {m \in sent : InTransit(m)} \ {h}
  BY <1>5, <1>6, <1>7, <1>8
<1>10. Range(stepped'[i]) = Range(stepped[i]) \union {h}
  BY <1>3, <1>5, Enqueue
<1>11. [k \in Node |-> Range(stepped'[k])] =
         [[k \in Node |-> Range(stepped[k])] EXCEPT ![h.to] = @ \union {h}]
  BY <1>4, <1>5, <1>10
<1>12. Channel!Receive(h)
  BY <1>5, <1>6, <1>9, <1>11 DEF Channel!Receive
<1> QED BY <1>3, <1>12

\* Every other step at most loses messages.
LEMMA RestIsLose ==
  ASSUME Inv, [Next]_vars, ~\E i \in Node : send_messages(i) \/ recv_message(i)
  PROVE  \E S \in SUBSET Msg : Channel!Lose(S)
<1>1. sent' = sent
  BY OutboxShrinks DEF Inv, PlaceInv
<1>2. stepped' = stepped
  <2>1. ASSUME NEW i \in Node, SendStep(i) \/ Crash(i) \/ new(i)
        PROVE  stepped' = stepped
    BY <2>1 DEF SendStep, SendToSelf, DropUnknownPeer, send_to_peer, Connect, ConnectFails,
                WriteLength, WriteBody, WriteFails, Crash, new
  <2>2. ASSUME NEW i \in Node, NEW j \in Node, add_peer(i, j) \/ remove_peer(i, j)
        PROVE  stepped' = stepped
    BY <2>2 DEF add_peer, remove_peer
  <2>3. ASSUME NEW c \in DOMAIN conns, ReadStep(c) \/ Break(c)
        PROVE  stepped' = stepped
    BY <2>3 DEF ReadStep, accept, ReadLength, ReadBody, ReadEnds, Break
  <2>4. CASE UNCHANGED vars
    BY <2>4 DEF vars
  <2> QED BY <2>1, <2>2, <2>3, <2>4 DEF Next
<1> DEFINE S == {m \in sent : InTransit(m) /\ ~InTransit(m)'}
<1>3. S \in SUBSET Msg /\ S \subseteq {m \in sent : InTransit(m)}
  BY DEF Inv, TypeOK
<1>4. \A m \in sent : InTransit(m)' => InTransit(m)
  BY NothingReturns
<1>5. {m \in sent' : InTransit(m)'} = {m \in sent : InTransit(m)} \ S
  BY <1>1, <1>4
<1>6. Channel!Lose(S)
  <2> HIDE DEF S
  <2> QED BY <1>1, <1>2, <1>3, <1>5 DEF Channel!Lose
<1> QED BY <1>3, <1>6

\* The transport implements LossyChannel: in spite of reconnects, cut
\* connections, half-written frames and crashes no message is handed to Raft
\* twice, to the wrong node, or after it was lost.
THEOREM ImplementsLossyChannel == Spec => IsLossyChannel
<1>1. Init => Channel!Init
  <2> SUFFICES ASSUME Init PROVE Channel!Init
    OBVIOUS
  <2>1. sent = {} /\ \A i \in Node : stepped[i] = <<>>
    BY DEF Init
  <2>2. [i \in Node |-> Range(stepped[i])] = [i \in Node |-> {}]
    BY <2>1, EmptyPlaces
  <2> QED BY <2>1, <2>2 DEF Channel!Init
<1>2. Inv /\ [Next]_vars => [Channel!Next]_(Channel!vars)
  BY SendIsSend, RecvIsReceive, RestIsLose DEF Channel!Next
<1> QED BY <1>1, <1>2, InvHolds, PTL DEF Spec, IsLossyChannel, Channel!Spec

-----------------------------------------------------------------------------
(* Order *)

\* Disturbances stay on record.
LEMMA UndisturbedBefore ==
  ASSUME Inv, [Next]_vars, NEW i \in Node, NEW j \in Node, Undisturbed(i, j)'
  PROVE  Undisturbed(i, j) /\ excused \subseteq excused' /\ ~\E k \in Node : Crash(k)
<1>1. ConnsKept
  BY ConnsGrow DEF Inv
<1>2. crashes \in Nat
  BY DEF Inv, TypeOK
<1>3. excused \subseteq excused' /\ (crashes' = crashes \/ crashes' = crashes + 1)
  <2>1. ASSUME NEW k \in Node,
               send_messages(k) \/ recv_message(k) \/ SendStep(k) \/ Crash(k) \/ new(k)
        PROVE  excused \subseteq excused' /\ (crashes' = crashes \/ crashes' = crashes + 1)
    BY <2>1 DEF send_messages, recv_message, SendStep, SendToSelf, DropUnknownPeer, send_to_peer,
         Connect, ConnectFails, WriteLength, WriteBody, WriteFails, Crash, new, counters
  <2>2. ASSUME NEW k \in Node, NEW l \in Node, add_peer(k, l) \/ remove_peer(k, l)
        PROVE  excused \subseteq excused' /\ crashes' = crashes
    BY <2>2 DEF add_peer, remove_peer
  <2>3. ASSUME NEW c \in DOMAIN conns, ReadStep(c) \/ Break(c)
        PROVE  excused \subseteq excused' /\ crashes' = crashes
    BY <2>3 DEF ReadStep, accept, ReadLength, ReadBody, ReadEnds, Break, counters
  <2>4. CASE UNCHANGED vars
    BY <2>4 DEF vars
  <2> QED BY <2>1, <2>2, <2>3, <2>4 DEF Next
<1>4. crashes = 0 /\ ~\E k \in Node : Crash(k)
  <2>1. crashes' = 0
    BY DEF Undisturbed
  <2>2. \A k \in Node : Crash(k) => crashes' = crashes + 1
    BY DEF Crash
  <2> QED BY <1>2, <1>3, <2>1, <2>2
<1>5. \A c \in DOMAIN conns : conns[c].from = i /\ conns[c].to = j => ~conns[c].cut
  BY <1>1 DEF ConnsKept, Undisturbed
<1> QED BY <1>3, <1>4, <1>5 DEF Undisturbed

\* Which of its connections to j node i uses.
Used(i, j, c) == connections[i][j] = c \/ (pc[i] \in {"len", "body"} /\ cur[i] = c)

LEMMA OneLink ==
  ASSUME Inv, NEW i \in Node, NEW j \in Node, NEW c \in DOMAIN conns, NEW d \in DOMAIN conns,
         Link(c, i, j), Link(d, i, j), Used(i, j, c), Used(i, j, d)
  PROVE  c = d
<1>1. c # NoConn /\ d # NoConn
  BY ConnType, TransportAssumption DEF Inv
<1>2. SenderOK(i)
  BY DEF Inv, SenderInv
<1> QED BY <1>1, <1>2 DEF SenderOK, Link, Used

\* A step of node i between two undisturbed nodes keeps the one connection in use.
LEMMA LinkStep ==
  ASSUME Inv, [Next]_vars, NEW i \in Node, NEW j \in Node, Undisturbed(i, j)',
         \A c \in DOMAIN conns : Link(c, i, j) => Used(i, j, c),
         NEW c \in DOMAIN conns', Link(c, i, j)'
  PROVE  Used(i, j, c)'
<1>1. ConnsKept
  BY ConnsGrow DEF Inv
<1>2. Undisturbed(i, j) /\ excused \subseteq excused' /\ ~\E k \in Node : Crash(k)
  BY UndisturbedBefore
<1>3. SenderOK(i)
  BY DEF Inv, SenderInv
<1>4. c \in DOMAIN conns => Link(c, i, j) /\ Used(i, j, c)
  BY <1>1 DEF ConnsKept, Link
<1>5. ASSUME UNCHANGED <<conns, connections>>, pc'[i] = pc[i], cur'[i] = cur[i]
      PROVE  Used(i, j, c)'
  BY <1>4, <1>5 DEF Used
<1>6. ASSUME NEW k \in Node, SendStep(k)
      PROVE  Used(i, j, c)'
  <2>1. CASE k # i
    <3>1. connections'[i] = connections[i] /\ pc'[i] = pc[i] /\ cur'[i] = cur[i]
      BY <1>6, <2>1 DEF SendStep, SendToSelf, DropUnknownPeer, send_to_peer, Connect, ConnectFails,
                  WriteLength, WriteBody, WriteFails, Done, Inv, TypeOK
    <3>2. c \in DOMAIN conns
      <4>1. CASE Connect(k)
        BY <2>1, <4>1, ConnectEffect DEF Link, Inv
      <4>2. CASE ~Connect(k)
        <5>1. CASE WriteLength(k) \/ WriteBody(k) \/ WriteFails(k)
          BY <5>1, WriteEffect DEF Becomes, WriteLength, WriteBody, WriteFails, Inv
        <5>2. CASE SendToSelf(k) \/ DropUnknownPeer(k) \/ send_to_peer(k) \/ ConnectFails(k)
          BY <5>2 DEF SendToSelf, DropUnknownPeer, send_to_peer, ConnectFails
        <5> QED BY <1>6, <4>2, <5>1, <5>2 DEF SendStep
      <4> QED BY <4>1, <4>2
    <3> QED BY <1>4, <3>1, <3>2 DEF Used
  <2>2. CASE k = i /\ (SendToSelf(i) \/ send_to_peer(i))
    BY <1>4, <2>2 DEF Used, SendToSelf, send_to_peer, Sending
  <2>3. CASE k = i /\ DropUnknownPeer(i)
    BY <1>4, <2>3 DEF Used, DropUnknownPeer, Sending
  <2>4. CASE k = i /\ Connect(i)
    <3>1. pc[i] = "connect" /\ connections[i][Current(i).to] = NoConn /\ connections' = connections
      BY <1>3, <2>4 DEF Connect, Sending, SenderOK
    <3>2. CASE c \in DOMAIN conns
      BY <1>4, <3>1, <3>2 DEF Used
    <3>3. CASE c = Len(conns) + 1
      BY <2>4, <3>3 DEF Connect, Used, Inv, TypeOK
    <3> QED BY <2>4, <3>2, <3>3, ConnectEffect DEF Inv
  <2>5. CASE k = i /\ ConnectFails(i)
    <3>1. Current(i) \in Msg /\ Current(i) \in excused'
      BY <2>5, CurrentMessage DEF ConnectFails, Sending, Inv
    <3>2. Current(i).from = i
      BY <2>5, Leaves DEF ConnectFails, Sending
    <3>3. Current(i).to # j
      BY <3>1, <3>2 DEF Undisturbed
    <3>4. c \in DOMAIN conns /\ connections[i][j] = c
      BY <1>4, <2>5 DEF ConnectFails, Used, Sending
    <3>5. connections'[i][j] = connections[i][j]
      BY <2>5, <3>3 DEF ConnectFails, Inv, TypeOK
    <3> QED BY <3>4, <3>5 DEF Used
  <2>6. CASE k = i /\ WriteLength(i)
    <3>1. c \in DOMAIN conns
      BY <2>6, WriteEffect DEF Becomes, WriteLength, Inv
    <3> QED BY <1>4, <2>6, <3>1 DEF WriteLength, Sending, Used, Inv, TypeOK
  <2>7. CASE k = i /\ (WriteBody(i) \/ WriteFails(i))
    <3> DEFINE e == cur[i]
    <3>1. /\ e \in DOMAIN conns /\ e # NoConn /\ DOMAIN conns' = DOMAIN conns
          /\ conns[e].from = i /\ conns[e].to = Current(i).to /\ pc[i] \in {"len", "body"}
      BY <2>7, WriteEffect DEF Becomes, WriteBody, WriteFails, Sending, Inv
    <3>2. Link(c, i, j) /\ Used(i, j, c)
      BY <1>4, <3>1
    <3>3. CASE Current(i).to = j
      <4>1. ~conns[e].cut
        BY <1>2, <3>1, <3>3 DEF Undisturbed
      <4>2. c = e
        BY <1>3, <3>1, <3>2, <3>3, OneLink DEF Link, Used
      <4>3. WriteBody(i)
        BY <2>7, <4>1 DEF WriteFails
      <4>4. connections'[i][j] = e
        BY <3>3, <4>3 DEF WriteBody, Inv, TypeOK
      <4> QED BY <4>2, <4>4 DEF Used
    <3>4. CASE Current(i).to # j
      <4>1. connections[i][j] = c
        BY <3>1, <3>2, <3>4 DEF Used, Link
      <4>2. connections'[i][j] = connections[i][j]
        BY <2>7, <3>4 DEF WriteBody, WriteFails, Inv, TypeOK
      <4> QED BY <4>1, <4>2 DEF Used
    <3> QED BY <3>3, <3>4
  <2> QED BY <1>6, <2>1, <2>2, <2>3, <2>4, <2>5, <2>6, <2>7 DEF SendStep
<1>7. ASSUME NEW d \in DOMAIN conns, ReadStep(d) \/ Break(d)
      PROVE  Used(i, j, c)'
  <2>1. UNCHANGED <<connections, pc, cur>>
    BY <1>7 DEF ReadStep, accept, ReadLength, ReadBody, ReadEnds, Break, loopVars
  <2>2. c \in DOMAIN conns
    BY <1>7, ReadEffect DEF ReadStep, Becomes, Inv
  <2> QED BY <1>4, <2>1, <2>2 DEF Used
<1>8. ASSUME NEW k \in Node, send_messages(k)
      PROVE  Used(i, j, c)'
  BY <1>4, <1>8 DEF send_messages, Used, Inv, TypeOK
<1>9. ASSUME NEW k \in Node, NEW l \in Node,
             recv_message(k) \/ new(k) \/ add_peer(k, l) \/ remove_peer(k, l)
      PROVE  Used(i, j, c)'
  BY <1>5, <1>9 DEF recv_message, new, add_peer, remove_peer, loopVars
<1>10. CASE UNCHANGED vars
  BY <1>5, <1>10 DEF vars
<1> QED BY <1>2, <1>6, <1>7, <1>8, <1>9, <1>10 DEF Next

LEMMA InWire ==
  ASSUME NEW i, NEW j, NEW m
  PROVE  m \in Wire(i, j) <=> \E c \in DOMAIN conns : Link(c, i, j) /\ m \in Bodies(conns[c].data)
BY DEF Wire

\* Which messages are on the wire between two undisturbed nodes after a step.
LEMMA WireAfter ==
  ASSUME Inv, [Next]_vars, NEW i \in Node, NEW j \in Node, NEW m, m \in Wire(i, j)'
  PROVE  m \in Wire(i, j) \/ (WriteBody(i) /\ m = Current(i) /\ m.to = j)
<1>1. PICK c \in DOMAIN conns' : Link(c, i, j)' /\ m \in Bodies(conns'[c].data)
  BY DEF Wire
<1>2. CASE Shrinks(c)
  <2>1. c \in DOMAIN conns /\ Link(c, i, j) /\ m \in Bodies(conns[c].data)
    BY <1>1, <1>2 DEF Shrinks, Link
  <2> QED BY <2>1, InWire
<1>3. CASE ~Shrinks(c)
  <2>1. PICK k \in Node : /\ WriteBody(k) /\ c = cur[k] /\ c \in DOMAIN conns
                          /\ Bodies(conns'[c].data) = Bodies(conns[c].data) \union {Current(k)}
    BY <1>3, WireSteps
  <2>2. conns[c].from = k /\ conns[c].to = Current(k).to
    BY <2>1, WriteEffect DEF WriteBody, Inv
  <2>3. Link(c, i, j)
    BY <1>1, <2>1, ConnsGrow DEF ConnsKept, Link, Inv
  <2>4. k = i /\ Current(k).to = j
    BY <2>2, <2>3 DEF Link
  <2> QED BY <1>1, <2>1, <2>3, <2>4, InWire
<1> QED BY <1>2, <1>3

\* A message stays on a connection that is not cut until it is read.
LEMMA WireBefore ==
  ASSUME Inv, [Next]_vars, NEW c \in DOMAIN conns, ~conns'[c].cut, NEW m \in Bodies(conns[c].data),
         ~\E k \in Node : Crash(k)
  PROVE  \/ m \in Bodies(conns'[c].data)
         \/ ReadBody(c) /\ m = conns[c].data[1].msg
<1>1. conns[c].data \in Seq(PartType) /\ AscendingBodies(conns[c].data)
  BY ConnType DEF Inv, PlaceInv, WireInv
<1>2. ASSUME conns'[c].data = conns[c].data
      PROVE  m \in Bodies(conns'[c].data)
  BY <1>2
<1>3. ASSUME NEW k \in Node, SendStep(k)
      PROVE  m \in Bodies(conns'[c].data)
  <2>1. CASE SendToSelf(k) \/ DropUnknownPeer(k) \/ send_to_peer(k) \/ ConnectFails(k)
    BY <2>1 DEF SendToSelf, DropUnknownPeer, send_to_peer, ConnectFails
  <2>2. CASE Connect(k)
    BY <2>2, ConnectEffect DEF Inv
  <2>3. CASE WriteFails(k)
    <3>1. cur[k] \in DOMAIN conns
          /\ Becomes(cur[k], conns[cur[k]].reader, conns[cur[k]].cut, conns[cur[k]].data)
      BY <2>3, WriteEffect DEF WriteFails, Inv
    <3> QED BY <1>2, <3>1 DEF Becomes
  <2>4. ASSUME NEW kind \in {"len", "body"}, cur[k] \in DOMAIN conns, Current(k) \in Msg,
               Becomes(cur[k], conns[cur[k]].reader, conns[cur[k]].cut,
                 IF conns[cur[k]].cut THEN conns[cur[k]].data
                 ELSE Append(conns[cur[k]].data, Part(kind, Current(k))))
        PROVE  m \in Bodies(conns'[c].data)
    <3>1. CASE c # cur[k] \/ conns[cur[k]].cut
      BY <1>2, <2>4, <3>1 DEF Becomes
    <3>2. CASE c = cur[k] /\ ~conns[cur[k]].cut
      <4>1. conns'[c].data = Append(conns[c].data, Part(kind, Current(k)))
        BY <2>4, <3>2 DEF Becomes
      <4>2. PICK p \in DOMAIN conns[c].data : conns[c].data[p].kind = "body" /\ conns[c].data[p].msg = m
        BY InBodies
      <4>3. p \in DOMAIN conns'[c].data /\ conns'[c].data[p] = conns[c].data[p]
        BY <1>1, <4>1
      <4> QED BY <4>2, <4>3, InBodies
    <3> QED BY <3>1, <3>2
  <2>5. CASE WriteLength(k) \/ WriteBody(k)
    BY <2>4, <2>5, WriteEffect DEF WriteLength, WriteBody, Inv
  <2> QED BY <1>3, <2>1, <2>2, <2>3, <2>5 DEF SendStep
<1>4. ASSUME NEW d \in DOMAIN conns, ReadStep(d) \/ Break(d)
      PROVE  \/ m \in Bodies(conns'[c].data)
             \/ ReadBody(c) /\ m = conns[c].data[1].msg
  <2>1. CASE d # c
    <3>1. conns'[c] = conns[c]
      BY <1>4, <2>1, ReadEffect DEF ReadStep, Becomes, Inv
    <3> QED BY <1>2, <3>1
  <2>2. CASE d = c
    <3>1. ~Becomes(c, "done", TRUE, <<>>)
      BY DEF Becomes
    <3>2. CASE accept(c)
      BY <1>2, <3>2, ReadEffect DEF Becomes, Inv
    <3>3. CASE ReadLength(c)
      <4>1. /\ Head(conns[c].data).kind = "len" /\ conns[c].data # <<>>
            /\ Becomes(c, "body", conns[c].cut, Tail(conns[c].data))
        BY <3>1, <3>3, ReadEffect DEF ReadLength, Inv
      <4>2. Bodies(Tail(conns[c].data)) = Bodies(conns[c].data)
        BY <1>1, <4>1, BodiesTail, HeadTail
      <4> QED BY <4>1, <4>2 DEF Becomes
    <3>4. CASE ReadBody(c)
      <4>1. conns[c].data # <<>> /\ Becomes(c, "len", conns[c].cut, Tail(conns[c].data))
        BY <3>4, ReadEffect DEF ReadBody, Inv
      <4>2. m = conns[c].data[1].msg \/ m \in Bodies(Tail(conns[c].data))
        BY <1>1, <4>1, BodiesTail
      <4> QED BY <3>4, <4>1, <4>2 DEF Becomes
    <3>5. CASE ReadEnds(c) \/ Break(c)
      BY <3>1, <3>5, ReadEffect DEF Becomes, Inv
    <3> QED BY <1>4, <2>2, <3>2, <3>3, <3>4, <3>5 DEF ReadStep
  <2> QED BY <2>1, <2>2
<1>5. ASSUME NEW k \in Node, NEW l \in Node,
             send_messages(k) \/ recv_message(k) \/ new(k) \/ add_peer(k, l) \/ remove_peer(k, l)
      PROVE  m \in Bodies(conns'[c].data)
  BY <1>5 DEF send_messages, recv_message, new, add_peer, remove_peer
<1>6. CASE UNCHANGED vars
  BY <1>6 DEF vars
<1> QED BY <1>3, <1>4, <1>5, <1>6 DEF Next

\* A message leaves the outbox for the queue or for the wire.
LEMMA OutBefore ==
  ASSUME Inv, [Next]_vars, NEW i \in Node, NEW j \in Node, Undisturbed(i, j)',
         NEW m \in Range(outbox[i]), m.to = j
  PROVE  m \in Range(outbox'[i]) \/ m \in Range(message_rx'[j]) \/ m \in Wire(i, j)'
<1>1. Undisturbed(i, j) /\ ~\E k \in Node : Crash(k)
  BY UndisturbedBefore
<1>2. m.from = i
  BY DEF Inv, PlaceInv, OutboxInv
<1>3. m \notin excused'
  BY <1>2 DEF Undisturbed
<1>4. ASSUME outbox'[i] = outbox[i]
      PROVE  m \in Range(outbox'[i])
  BY <1>4
<1>5. ASSUME pc[i] # "select", Done(i)
      PROVE  m \in Range(outbox'[i]) \/ m = Current(i)
  BY <1>5, OutboxDone DEF Inv, PlaceInv
<1>6. CASE SendStep(i)
  <2>1. CASE SendToSelf(i)
    <3>1. CASE m = Current(i)
      <4>1. message_rx'[j] = Append(message_rx[j], m) /\ message_rx[j] \in Seq(Msg) /\ m \in Msg
        BY <2>1, <3>1, CurrentMessage DEF SendToSelf, Sending, Inv, TypeOK
      <4> QED BY <4>1, Enqueue
    <3> QED BY <1>5, <2>1, <3>1 DEF SendToSelf, Sending
  <2>2. CASE DropUnknownPeer(i)
    BY <1>3, <1>5, <2>2 DEF DropUnknownPeer, Sending
  <2>3. CASE ConnectFails(i)
    BY <1>3, <1>5, <2>3 DEF ConnectFails, Sending
  <2>4. CASE WriteFails(i)
    BY <1>3, <1>4, <1>5, <2>4 DEF WriteFails, Sending
  <2>5. CASE WriteBody(i)
    <3> DEFINE e == cur[i]
    <3>1. CASE m # Current(i)
      BY <1>5, <2>5, <3>1 DEF WriteBody, Sending
    <3>2. CASE m = Current(i)
      <4>1. ~conns[e].cut
        BY <1>3, <2>5, <3>2 DEF WriteBody
      <4>2. /\ e \in DOMAIN conns /\ conns[e].from = i /\ conns[e].to = j /\ m \in Msg
            /\ Becomes(e, conns[e].reader, conns[e].cut, Append(conns[e].data, Part("body", m)))
        BY <2>5, <3>2, <4>1, WriteEffect DEF WriteBody, Inv
      <4>3. /\ e \in DOMAIN conns' /\ conns'[e].from = i /\ conns'[e].to = j
            /\ conns'[e].data = Append(conns[e].data, Part("body", m))
        BY <4>2 DEF Becomes
      <4>4. conns[e].data \in Seq(PartType) /\ Part("body", m).kind = "body" /\ Part("body", m).msg = m
        BY <4>2, ConnType DEF Inv, Part
      <4>5. /\ Len(conns[e].data) + 1 \in DOMAIN conns'[e].data
            /\ conns'[e].data[Len(conns[e].data) + 1] = Part("body", m)
        BY <4>3, <4>4
      <4>6. m \in Bodies(conns'[e].data)
        BY <4>4, <4>5, InBodies
      <4> QED BY <4>3, <4>6 DEF Wire, Link
    <3> QED BY <3>1, <3>2
  <2>6. CASE send_to_peer(i) \/ Connect(i) \/ WriteLength(i)
    BY <1>4, <2>6 DEF send_to_peer, Connect, WriteLength
  <2> QED BY <1>6, <2>1, <2>2, <2>3, <2>4, <2>5, <2>6 DEF SendStep
<1>7. ASSUME NEW k \in Node, k # i, SendStep(k)
      PROVE  outbox'[i] = outbox[i]
  BY <1>7 DEF SendStep, SendToSelf, DropUnknownPeer, send_to_peer, Connect, ConnectFails,
              WriteLength, WriteBody, WriteFails, Done, Inv, TypeOK
<1>8. ASSUME NEW k \in Node, send_messages(k)
      PROVE  outbox'[i] = outbox[i]
  <2>1. outbox[k] = <<>> /\ \A l \in Node : l # k => outbox'[l] = outbox[l]
    BY <1>8, SendEffect DEF Inv, PlaceInv
  <2> QED BY <2>1, EmptyPlaces
<1>9. ASSUME NEW c \in DOMAIN conns, ReadStep(c) \/ Break(c)
      PROVE  outbox'[i] = outbox[i]
  BY <1>9 DEF ReadStep, accept, ReadLength, ReadBody, ReadEnds, Break, loopVars
<1>10. ASSUME NEW k \in Node, NEW l \in Node,
              recv_message(k) \/ new(k) \/ add_peer(k, l) \/ remove_peer(k, l)
       PROVE  outbox'[i] = outbox[i]
  BY <1>10 DEF recv_message, new, add_peer, remove_peer, loopVars
<1>11. CASE UNCHANGED vars
  BY <1>4, <1>11 DEF vars
<1> QED BY <1>1, <1>4, <1>6, <1>7, <1>8, <1>9, <1>10, <1>11 DEF Next

\* What Raft has got is only added to, from the queue.
LEMMA SteppedAfter ==
  ASSUME Inv, [Next]_vars, NEW j \in Node
  PROVE  \/ stepped'[j] = stepped[j] /\ ~recv_message(j)
         \/ recv_message(j) /\ stepped'[j] = Append(stepped[j], Head(message_rx[j]))
<1>1. ASSUME stepped'[j] = stepped[j]
      PROVE  stepped'[j] = stepped[j] /\ ~recv_message(j)
  <2>1. stepped[j] \in Seq(Msg)
    BY DEF Inv, TypeOK
  <2>2. ASSUME recv_message(j)
        PROVE  FALSE
    <3>1. stepped'[j] = Append(stepped[j], Head(message_rx[j])) /\ Head(message_rx[j]) \in Msg
      BY <2>2, HeadTail DEF recv_message, Inv, TypeOK
    <3>2. Len(Append(stepped[j], Head(message_rx[j]))) = Len(stepped[j]) + 1 /\ Len(stepped[j]) \in Nat
      BY <2>1, <3>1
    <3> QED BY <1>1, <3>1, <3>2
  <2> QED BY <1>1, <2>2
<1>2. ASSUME NEW i \in Node, send_messages(i) \/ SendStep(i) \/ Crash(i) \/ new(i)
      PROVE  stepped' = stepped
  BY <1>2 DEF send_messages, SendStep, SendToSelf, DropUnknownPeer, send_to_peer, Connect,
              ConnectFails, WriteLength, WriteBody, WriteFails, Crash, new
<1>3. ASSUME NEW i \in Node, NEW k \in Node, add_peer(i, k) \/ remove_peer(i, k)
      PROVE  stepped' = stepped
  BY <1>3 DEF add_peer, remove_peer
<1>4. ASSUME NEW c \in DOMAIN conns, ReadStep(c) \/ Break(c)
      PROVE  stepped' = stepped
  BY <1>4 DEF ReadStep, accept, ReadLength, ReadBody, ReadEnds, Break
<1>5. ASSUME NEW i \in Node, recv_message(i)
      PROVE  \/ stepped'[j] = stepped[j] /\ ~recv_message(j)
             \/ recv_message(j) /\ stepped'[j] = Append(stepped[j], Head(message_rx[j]))
  <2>1. CASE i = j
    BY <1>5, <2>1 DEF recv_message, Inv, TypeOK
  <2>2. CASE i # j
    <3>1. stepped'[j] = stepped[j]
      BY <1>5, <2>2 DEF recv_message, Inv, TypeOK
    <3> QED BY <1>1, <3>1
  <2> QED BY <2>1, <2>2
<1>6. CASE UNCHANGED vars
  BY <1>1, <1>6 DEF vars
<1> QED BY <1>1, <1>2, <1>3, <1>4, <1>5, <1>6 DEF Next

\* No message between undisturbed nodes goes missing.
LEMMA CompleteStep ==
  ASSUME Inv, [Next]_vars, NEW i \in Node, NEW j \in Node, Undisturbed(i, j)', PairInv(i, j),
         NEW m \in sent', m.from = i, m.to = j
  PROVE  m \in Range(stepped'[j]) \/ m \in Range(message_rx'[j]) \/ m \in Wire(i, j)'
         \/ m \in Range(outbox'[i])
<1>1. Undisturbed(i, j) /\ ~\E k \in Node : Crash(k)
  BY UndisturbedBefore
<1>2. /\ stepped[j] \in Seq(Msg) /\ message_rx[j] \in Seq(Msg) /\ NoRepeat(message_rx[j])
      /\ m \in Msg
  BY TypeStep DEF Inv, TypeOK, PlaceInv, QueueInv
<1>3. CASE m \notin sent
  <2>1. PICK k \in Node : send_messages(k)
    BY <1>3, OutboxShrinks DEF Inv, PlaceInv
  <2>2. /\ Range(outbox'[k]) \subseteq {n \in Msg \ sent : n.from = k}
        /\ sent' = sent \union Range(outbox'[k])
    BY <2>1, SendEffect DEF Inv, PlaceInv
  <2> QED BY <1>3, <2>2
<1>4. CASE m \in Range(stepped[j])
  <2>1. CASE recv_message(j)
    <3>1. Head(message_rx[j]) \in Msg
      BY <1>2, <2>1, HeadTail DEF recv_message
    <3>2. stepped'[j] = Append(stepped[j], Head(message_rx[j]))
      BY <2>1, SteppedAfter
    <3> QED BY <1>2, <1>4, <3>1, <3>2, Enqueue
  <2> QED BY <1>4, <2>1, SteppedAfter
<1>5. CASE m \in Range(message_rx[j])
  <2>1. CASE message_rx'[j] = message_rx[j]
    BY <1>5, <2>1
  <2>2. CASE recv_message(j) /\ message_rx[j] # <<>> /\ message_rx'[j] = Tail(message_rx[j])
    <3>1. Head(message_rx[j]) \in Msg
      BY <1>2, <2>2, HeadTail
    <3>2. stepped'[j] = Append(stepped[j], Head(message_rx[j]))
      BY <2>2, SteppedAfter
    <3>3. Range(stepped'[j]) = Range(stepped[j]) \union {Head(message_rx[j])}
      BY <1>2, <3>1, <3>2, Enqueue
    <3> QED BY <1>2, <1>5, <2>2, <3>3, Dequeue
  <2>3. ASSUME NEW n \in Msg, message_rx'[j] = Append(message_rx[j], n)
        PROVE  m \in Range(message_rx'[j])
    BY <1>2, <1>5, <2>3, Enqueue
  <2>4. CASE SendToSelf(j) /\ message_rx'[j] = Append(message_rx[j], Current(j))
    BY <2>3, <2>4, CurrentMessage DEF SendToSelf, Sending, Inv
  <2>5. CASE \E c \in DOMAIN conns :
               ReadBody(c) /\ message_rx'[j] = Append(message_rx[j], conns[c].data[1].msg)
    BY <2>3, <2>5, Arrives
  <2> QED BY <1>1, <2>1, <2>2, <2>4, <2>5, QueueSteps
<1>6. CASE m \in Wire(i, j)
  <2>1. PICK c \in DOMAIN conns : Link(c, i, j) /\ m \in Bodies(conns[c].data)
    BY <1>6, InWire
  <2>2. c \in DOMAIN conns' /\ Link(c, i, j)'
    BY <2>1, ConnsGrow DEF ConnsKept, Link, Inv
  <2>3. ~conns'[c].cut
    BY <2>2 DEF Undisturbed, Link
  <2>4. CASE m \in Bodies(conns'[c].data)
    BY <2>2, <2>4 DEF Wire
  <2>5. CASE ReadBody(c) /\ m = conns[c].data[1].msg
    <3>1. conns[c].data \in Seq(PartType) /\ conns[c].data # <<>>
      BY <2>5, ConnType DEF ReadBody, Inv
    <3>2. message_rx'[j] = Append(message_rx[j], m)
      BY <2>1, <2>5, <3>1, HeadTail DEF ReadBody, Link, Inv, TypeOK
    <3> QED BY <1>2, <3>2, Enqueue
  <2> QED BY <1>1, <2>1, <2>3, <2>4, <2>5, WireBefore
<1>7. CASE m \in Range(outbox[i])
  BY <1>7, OutBefore
<1> QED BY <1>3, <1>4, <1>5, <1>6, <1>7 DEF PairInv, Got, Queue, Out

\* Order and the two ends of a queue.
LEMMA SortedAppend ==
  ASSUME NEW i, NEW s \in Seq(Msg), NEW m \in Msg, Sorted(s, i),
         m.from = i => \A n \in Range(s) : n.from = i => n.id < m.id
  PROVE  Sorted(Append(s, m), i)
<1> DEFINE t == Append(s, m)
<1>1. /\ DOMAIN s = 1..Len(s) /\ Len(s) \in Nat /\ DOMAIN t = 1..(Len(s) + 1)
      /\ t[Len(s) + 1] = m /\ \A p \in DOMAIN s : t[p] = s[p]
  OBVIOUS
<1> HIDE DEF t
<1>2. \A p \in DOMAIN s : s[p] \in Range(s)
  BY InRange
<1>3. ASSUME NEW p \in DOMAIN t, NEW q \in DOMAIN t, p < q, t[p].from = i, t[q].from = i
      PROVE  t[p].id < t[q].id
  <2>1. p \in DOMAIN s /\ t[p] = s[p]
    BY <1>1, <1>3
  <2>2. CASE q \in DOMAIN s
    BY <1>1, <1>3, <2>1, <2>2 DEF Sorted
  <2>3. CASE q = Len(s) + 1
    BY <1>1, <1>2, <1>3, <2>1, <2>3
  <2> QED BY <1>1, <2>2, <2>3
<1>4. Sorted(t, i)
  BY <1>3 DEF Sorted
<1> QED BY <1>4 DEF t

LEMMA SortedTail ==
  ASSUME NEW i, NEW s \in Seq(Msg), s # <<>>, Sorted(s, i)
  PROVE  /\ Sorted(Tail(s), i)
         /\ Head(s).from = i => \A n \in Range(Tail(s)) : n.from = i => Head(s).id < n.id
<1> DEFINE t == Tail(s)
<1>1. /\ DOMAIN s = 1..Len(s) /\ Len(s) \in Nat /\ 1 \in DOMAIN s /\ Head(s) = s[1]
      /\ DOMAIN t = 1..(Len(s) - 1) /\ \A p \in DOMAIN t : p + 1 \in DOMAIN s /\ t[p] = s[p + 1]
  BY HeadTail
<1> HIDE DEF t
<1>2. Sorted(t, i)
  BY <1>1 DEF Sorted
<1>3. ASSUME s[1].from = i, NEW n \in Range(t), n.from = i
      PROVE  s[1].id < n.id
  <2>1. PICK p \in DOMAIN t : t[p] = n
    BY <1>3, InRange
  <2>2. p + 1 \in DOMAIN s /\ s[p + 1] = n /\ 1 < p + 1
    BY <1>1, <2>1
  <2> QED BY <1>1, <1>3, <2>2 DEF Sorted
<1> QED BY <1>1, <1>2, <1>3 DEF t

LEMMA OrderStep ==
  ASSUME Inv, FifoInv, [Next]_vars, NEW i \in Node, NEW j \in Node, Undisturbed(i, j)'
  PROVE  /\ Sorted(stepped'[j], i) /\ Sorted(message_rx'[j], i)
         /\ Below(Got(i, j)', Queue(i, j)' \union Wire(i, j)')
         /\ Below(Queue(i, j)', Wire(i, j)')
<1>1. Undisturbed(i, j) /\ ~\E k \in Node : Crash(k)
  BY UndisturbedBefore
<1>2. PairInv(i, j)
  BY <1>1 DEF FifoInv
<1>3. /\ stepped[j] \in Seq(Msg) /\ message_rx[j] \in Seq(Msg) /\ NoRepeat(message_rx[j])
      /\ Sorted(stepped[j], i) /\ Sorted(message_rx[j], i)
  BY <1>2 DEF Inv, TypeOK, PlaceInv, QueueInv, PairInv
<1>4. /\ \A m \in Range(stepped[j]) : Gone(m)
      /\ \A m \in Range(message_rx[j]) : Gone(m)
      /\ \A m \in Wire(i, j) : Gone(m) /\ m.from = i /\ m.to = j
  BY DEF FifoInv, Inv, PlaceInv, QueueInv, WireInv, Wire, Link
<1>5. /\ \A m \in Range(stepped[j]), n \in Range(message_rx[j]) :
           m.from = i /\ n.from = i => m.id < n.id
      /\ \A m \in Range(stepped[j]), n \in Wire(i, j) : m.from = i => m.id < n.id
      /\ \A m \in Range(message_rx[j]), n \in Wire(i, j) : m.from = i => m.id < n.id
  BY <1>2 DEF PairInv, Below, Got, Queue
<1> DEFINE Newest(n) == \A m : Gone(m) /\ m.from = i => m.id < n.id
<1>6. ASSUME pc[i] # "select", Done(i)
      PROVE  Newest(Current(i))
  <2>1. Current(i) \in Range(outbox[i])
    BY <1>6, OutboxDone DEF Inv, PlaceInv
  <2> QED BY <2>1 DEF Inv, PlaceInv, OutboxInv, Gone
<1>7. ASSUME NEW n \in Wire(i, j)'
      PROVE  n \in Wire(i, j) \/ Newest(n)
  BY <1>6, <1>7, WireAfter DEF WriteBody, Sending
<1> HIDE DEF Newest
<1>8. \A n, m : Newest(n) /\ Gone(m) /\ m.from = i => m.id < n.id
  BY DEF Newest
<1>9. SUFFICES /\ Sorted(stepped'[j], i) /\ Sorted(message_rx'[j], i)
               /\ \A m \in Range(stepped'[j]), n \in Range(message_rx'[j]) :
                    m.from = i /\ n.from = i => m.id < n.id
               /\ \A m \in Range(stepped'[j]), n \in Wire(i, j)' : m.from = i => m.id < n.id
               /\ \A m \in Range(message_rx'[j]), n \in Wire(i, j)' : m.from = i => m.id < n.id
  BY DEF Below, Got, Queue
<1>10. CASE message_rx'[j] = message_rx[j]
  <2>1. stepped'[j] = stepped[j]
    <3>1. ASSUME recv_message(j)
          PROVE  FALSE
      <4>1. message_rx[j] # <<>> /\ message_rx'[j] = Tail(message_rx[j])
        BY <3>1 DEF recv_message, Inv, TypeOK
      <4>2. Len(Tail(message_rx[j])) = Len(message_rx[j]) - 1 /\ Len(message_rx[j]) \in Nat
        BY <1>3, <4>1, HeadTail
      <4>3. Tail(message_rx[j]) = message_rx[j]
        BY <1>10, <4>1
      <4>4. Len(Tail(message_rx[j])) = Len(message_rx[j])
        BY <4>3
      <4> HIDE <4>3
      <4> QED BY <4>2, <4>4
    <3> QED BY <3>1, SteppedAfter
  <2> QED BY <1>3, <1>4, <1>5, <1>7, <1>8, <1>10, <2>1
<1>11. CASE recv_message(j) /\ message_rx[j] # <<>> /\ message_rx'[j] = Tail(message_rx[j])
  <2> DEFINE h == Head(message_rx[j])
  <2>1. /\ h \in Msg /\ h \in Range(message_rx[j])
        /\ Range(message_rx'[j]) = Range(message_rx[j]) \ {h}
    BY <1>3, <1>11, Dequeue, HeadTail
  <2>2. stepped'[j] = Append(stepped[j], h)
    BY <1>11, SteppedAfter
  <2>3. Range(stepped'[j]) = Range(stepped[j]) \union {h}
    BY <1>3, <2>1, <2>2, Enqueue
  <2>4. /\ Sorted(message_rx'[j], i)
        /\ h.from = i => \A n \in Range(message_rx'[j]) : n.from = i => h.id < n.id
    BY <1>3, <1>11, SortedTail
  <2> HIDE DEF h
  <2>5. Sorted(stepped'[j], i)
    BY <1>3, <1>5, <2>1, <2>2, SortedAppend
  <2>6. ASSUME NEW m \in Range(stepped'[j]), NEW n \in Wire(i, j)', m.from = i
        PROVE  m.id < n.id
    BY <1>4, <1>5, <1>7, <1>8, <2>1, <2>3, <2>6
  <2>7. ASSUME NEW m \in Range(message_rx'[j]), NEW n \in Wire(i, j)', m.from = i
        PROVE  m.id < n.id
    BY <1>4, <1>5, <1>7, <1>8, <2>1, <2>7
  <2> QED BY <1>5, <2>1, <2>3, <2>4, <2>5, <2>6, <2>7
<1>12. CASE SendToSelf(j) /\ message_rx'[j] = Append(message_rx[j], Current(j))
  <2> DEFINE h == Current(j)
  <2>1. h \in Msg /\ h.from = j
    BY <1>12, Leaves DEF SendToSelf, Sending
  <2>2. stepped'[j] = stepped[j] /\ conns' = conns
    BY <1>12 DEF SendToSelf
  <2>3. h.from = i => Newest(h)
    BY <1>6, <1>12, <2>1 DEF SendToSelf, Sending
  <2>4. h.from = i => \A n : n \notin Wire(i, j)'
    <3>1. SUFFICES ASSUME i = j PROVE \A n : n \notin Wire(i, j)'
      BY <2>1
    <3> QED BY <2>2, <3>1 DEF Wire, Link, Inv, SenderInv
  <2> HIDE DEF h
  <2>5. Range(message_rx'[j]) = Range(message_rx[j]) \union {h}
    BY <1>3, <1>12, <2>1, Enqueue DEF h
  <2>6. Sorted(message_rx'[j], i)
    BY <1>3, <1>4, <1>8, <1>12, <2>1, <2>3, SortedAppend DEF h
  <2>7. ASSUME NEW m \in Range(stepped'[j]), NEW n \in Range(message_rx'[j]), m.from = i, n.from = i
        PROVE  m.id < n.id
    BY <1>4, <1>5, <1>8, <2>2, <2>3, <2>5, <2>7
  <2>8. ASSUME NEW m \in Range(stepped'[j]), NEW n \in Wire(i, j)', m.from = i
        PROVE  m.id < n.id
    BY <1>4, <1>5, <1>7, <1>8, <2>2, <2>8
  <2>9. ASSUME NEW m \in Range(message_rx'[j]), NEW n \in Wire(i, j)', m.from = i
        PROVE  m.id < n.id
    BY <1>4, <1>5, <1>7, <1>8, <2>4, <2>5, <2>9
  <2> QED BY <1>3, <2>2, <2>6, <2>7, <2>8, <2>9
<1>13. CASE \E c \in DOMAIN conns : /\ ReadBody(c) /\ conns[c].to = j
                                    /\ message_rx'[j] = Append(message_rx[j], conns[c].data[1].msg)
  <2>1. PICK c \in DOMAIN conns : /\ ReadBody(c) /\ conns[c].to = j
                                  /\ message_rx'[j] = Append(message_rx[j], conns[c].data[1].msg)
    BY <1>13
  <2>2. PICK h : h = conns[c].data[1].msg
    OBVIOUS
  <2>3. /\ h \in Bodies(conns[c].data) /\ h \in Msg /\ Gone(h) /\ h.from = conns[c].from
        /\ \A d \in DOMAIN conns' : h \notin Bodies(conns'[d].data)
    BY <2>1, <2>2, Arrives
  <2>4. stepped'[j] = stepped[j]
    BY <2>1 DEF ReadBody
  <2>5. h.from = i => h \in Wire(i, j)
    BY <2>1, <2>3, InWire DEF Link
  <2>6. Range(message_rx'[j]) = Range(message_rx[j]) \union {h}
    BY <1>3, <2>1, <2>2, <2>3, Enqueue
  <2>7. Sorted(message_rx'[j], i)
    BY <1>3, <1>5, <2>1, <2>2, <2>3, <2>5, SortedAppend
  <2>8. ASSUME NEW n \in Wire(i, j)', h.from = i
        PROVE  h.id < n.id
    <3>1. n # h
      BY <2>3, <2>8 DEF Wire
    <3>2. CASE n \in Wire(i, j)
      <4>1. PICK d \in DOMAIN conns : Link(d, i, j) /\ n \in Bodies(conns[d].data)
        BY <3>2, InWire
      <4>2. Link(c, i, j)
        BY <2>1, <2>3, <2>8 DEF Link
      <4>3. Used(i, j, c) /\ Used(i, j, d)
        BY <1>2, <4>1, <4>2 DEF PairInv, Used
      <4>4. d = c
        BY <4>1, <4>2, <4>3, OneLink
      <4>5. /\ conns[c].data \in Seq(PartType) /\ conns[c].data # <<>>
            /\ AscendingBodies(conns[c].data) /\ conns[c].reader = "body"
        BY <2>1, ConnType DEF ReadBody, Reading, Inv, PlaceInv, WireInv
      <4>6. conns[c].data[1].kind = "body"
        BY <4>5 DEF Inv, FrameInv, Framed
      <4>7. n \in Bodies(Tail(conns[c].data))
        BY <2>2, <3>1, <4>1, <4>4, <4>5, <4>6, BodiesTail
      <4> QED BY <2>2, <4>5, <4>6, <4>7, BodiesTail
    <3> QED BY <1>7, <1>8, <2>3, <2>8, <3>2
  <2>9. ASSUME NEW m \in Range(stepped'[j]), NEW n \in Range(message_rx'[j]), m.from = i, n.from = i
        PROVE  m.id < n.id
    BY <1>5, <2>4, <2>5, <2>6, <2>9
  <2>10. ASSUME NEW m \in Range(stepped'[j]), NEW n \in Wire(i, j)', m.from = i
        PROVE  m.id < n.id
    BY <1>4, <1>5, <1>7, <1>8, <2>4, <2>10
  <2>11. ASSUME NEW m \in Range(message_rx'[j]), NEW n \in Wire(i, j)', m.from = i
        PROVE  m.id < n.id
    BY <1>4, <1>5, <1>7, <1>8, <2>6, <2>8, <2>11
  <2> QED BY <1>3, <2>4, <2>7, <2>9, <2>10, <2>11
<1> QED BY <1>1, <1>10, <1>11, <1>12, <1>13, QueueSteps

LEMMA FifoStep ==
  ASSUME Inv, FifoInv, [Next]_vars
  PROVE  FifoInv'
<1>1. ASSUME NEW j \in Node, NEW m \in Range(stepped'[j])
      PROVE  Gone(m)'
  <2>1. \A n : Gone(n) /\ n.from \in Node => Gone(n)'
    BY OutboxStep DEF Inv, PlaceInv
  <2>2. \A n : Gone(n) => n.from \in Node
    BY TransportAssumption DEF Gone, Inv, TypeOK
  <2>3. CASE m \in Range(stepped[j])
    BY <2>1, <2>2, <2>3 DEF FifoInv
  <2>4. CASE recv_message(j)
    <3>1. /\ stepped[j] \in Seq(Msg) /\ message_rx[j] \in Seq(Msg) /\ message_rx[j] # <<>>
          /\ NoRepeat(message_rx[j])
      BY <2>4 DEF recv_message, Inv, TypeOK, PlaceInv, QueueInv
    <3>2. Head(message_rx[j]) \in Msg /\ Head(message_rx[j]) \in Range(message_rx[j])
      BY <3>1, HeadTail, Dequeue
    <3>3. stepped'[j] = Append(stepped[j], Head(message_rx[j]))
      BY <2>4, SteppedAfter
    <3>4. m \in Range(stepped[j]) \/ m = Head(message_rx[j])
      BY <1>1, <3>1, <3>2, <3>3, Enqueue
    <3>5. CASE m = Head(message_rx[j])
      BY <2>1, <2>2, <3>2, <3>5 DEF Inv, PlaceInv, QueueInv
    <3> QED BY <2>3, <3>4, <3>5
  <2> QED BY <1>1, <2>3, <2>4, SteppedAfter
<1>2. ASSUME NEW i \in Node, NEW j \in Node, Undisturbed(i, j)'
      PROVE  PairInv(i, j)'
  <2>1. PairInv(i, j)
    BY <1>2, UndisturbedBefore DEF FifoInv
  <2>2. \A c \in DOMAIN conns' : Link(c, i, j)' => Used(i, j, c)'
    BY <1>2, <2>1, LinkStep DEF PairInv, Used
  <2>3. \A m \in sent' : m.from = i /\ m.to = j =>
          m \in (Got(i, j) \union Queue(i, j) \union Wire(i, j) \union Out(i, j))'
    BY <1>2, <2>1, CompleteStep DEF Got, Queue, Out
  <2> QED BY <1>2, <2>2, <2>3, OrderStep DEF PairInv, Used
<1> QED BY <1>1, <1>2 DEF FifoInv

LEMMA FifoInit == Init => FifoInv
<1> SUFFICES ASSUME Init PROVE FifoInv
  OBVIOUS
<1>1. /\ \A j \in Node : stepped[j] = <<>> /\ message_rx[j] = <<>>
      /\ sent = {} /\ DOMAIN conns = {}
  BY DEF Init
<1>2. \A j \in Node : \A m : m \notin Range(stepped[j]) /\ m \notin Range(message_rx[j])
  BY <1>1, EmptyPlaces
<1>3. \A i, j \in Node : \A m : m \notin Wire(i, j)
  BY <1>1, InWire
<1>4. \A i, j \in Node : Sorted(stepped[j], i) /\ Sorted(message_rx[j], i)
  BY <1>1 DEF Sorted
<1> QED BY <1>1, <1>2, <1>3, <1>4 DEF FifoInv, PairInv, Below, Got, Queue

\* Between two nodes that no fault has come between, Raft gets the messages in
\* the order in which it sent them and without a gap (one sender, one cached
\* connection, one reader).
THEOREM FifoBetweenUndisturbed == Spec => []FifoWithoutFault
<1>1. Inv /\ FifoInv => FifoWithoutFault
  <2> SUFFICES ASSUME Inv, FifoInv, NEW i \in Node, NEW j \in Node, Undisturbed(i, j),
                      NEW p \in DOMAIN stepped[j], stepped[j][p].from = i,
                      NEW m \in sent, m.from = i, m.to = j, m.id < stepped[j][p].id
               PROVE  \E q \in 1..(p - 1) : stepped[j][q] = m
    BY DEF FifoWithoutFault
  <2> DEFINE n == stepped[j][p]
  <2>1. stepped[j] \in Seq(Msg) /\ PairInv(i, j)
    BY DEF FifoInv, Inv, TypeOK
  <2>2. DOMAIN stepped[j] = 1..Len(stepped[j]) /\ Len(stepped[j]) \in Nat /\ n \in Msg /\ m \in Msg
    BY <2>1 DEF Inv, TypeOK
  <2>3. m.id \in Nat /\ n.id \in Nat /\ ~(n.id < m.id)
    BY <2>2, TransportAssumption
  <2>4. n \in Range(stepped[j]) /\ n \in Got(i, j) /\ Gone(n)
    BY InRange DEF Got, FifoInv
  <2>5. m \notin Range(outbox[i])
    BY <2>3, <2>4 DEF Inv, PlaceInv, OutboxInv, Gone
  <2>6. m \notin Queue(i, j) \union Wire(i, j)
    BY <2>1, <2>3, <2>4 DEF PairInv, Below
  <2>7. m \in Range(stepped[j])
    BY <2>1, <2>5, <2>6 DEF PairInv, Got, Out
  <2>8. PICK q \in DOMAIN stepped[j] : stepped[j][q] = m
    BY <2>7, InRange
  <2>9. ~(p < q)
    BY <2>1, <2>3, <2>8 DEF PairInv, Sorted
  <2>10. p # q
    BY <2>3, <2>8
  <2> QED BY <2>2, <2>8, <2>9, <2>10
<1>2. Inv /\ FifoInv /\ [Next]_vars => FifoInv'
  BY FifoStep
<1> QED BY <1>1, <1>2, InvHolds, FifoInit, PTL DEF Spec

=============================================================================
