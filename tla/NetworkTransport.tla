-------------------------- MODULE NetworkTransport --------------------------
(***************************************************************************)
(* The TCP transport for Raft messages, on every node of a cluster, with   *)
(* the part of the event loop that uses it.                                *)
(*                                                                         *)
(* Each node has one task that sends (the event loop, message by message)  *)
(* and one task per accepted connection that reads.  A message travels as  *)
(* two writes, its length and its body.  The kernel keeps a bounded amount *)
(* of written data per connection; a full buffer makes the writer wait.    *)
(*                                                                         *)
(* A connection can be cut at any moment.  The reader then still finds a   *)
(* prefix of what was written; the writer may write on without an error    *)
(* for a while, and nothing of that arrives.                               *)
(***************************************************************************)
EXTENDS Integers, Sequences, FiniteSets, Functions

CONSTANTS
  Node,             \* node ids
  Msg,              \* messages, [id, from, to, len], numbered as Raft produces them
  Peers,            \* per node, the ids in its configuration
  MaxFrame,         \* the longest body a reader accepts (10 MiB)
  TcpBuffer,        \* writes the kernel holds per connection
  MaxBatch,         \* bound on the messages of one call of send_messages
  MaxFaults,        \* bound on cut connections, failing connects, crashes and
                    \* calls of add_peer and remove_peer together
  NoConn            \* no connection in the cache

\* A frame's length is written as u32.  Raft's messages are shorter than that:
\* max_size_per_msg bounds them, except for a single entry, and an entry is
\* bounded by the HTTP body limit (32 MiB, more than a frame may have).
ASSUME TransportAssumption ==
  /\ \A m \in Msg : m.id \in Nat /\ m.from \in Node /\ m.to \in Node /\ m.len \in Nat \ {0}
  /\ \A m, n \in Msg : m.id = n.id => m = n
  /\ Peers \in [Node -> SUBSET Node]
  /\ MaxFrame \in Nat \ {0} /\ TcpBuffer \in Nat \ {0}
  /\ MaxBatch \in Nat /\ MaxFaults \in Nat
  /\ NoConn \notin Nat

VARIABLES
  up,           \* is the process running
  peers,        \* the peer map, its ids
  connections,  \* cached connection per peer
  message_rx,   \* the unbounded queue of received messages
  pc,           \* event loop: "select", or where send_messages is
  outbox,       \* messages send_messages still has to send, the current one first
  cur,          \* the connection send_to_peer is writing to
  conns,        \* all connections ever made, in order
  sent,         \* history: messages given to send_messages
  stepped,      \* history: messages handed to RaftNode::step, in order
  excused,      \* history: messages a fault outside the transport cost
  crashes,      \* history: number of crashes
  faults        \* counts up to MaxFaults

loopVars == <<pc, outbox, cur>>
counters == <<crashes, faults>>
vars == <<up, peers, connections, message_rx, pc, outbox, cur, conns,
          sent, stepped, excused, crashes, faults>>

Part(kind, m) == [kind |-> kind, msg |-> m]

Conn ==
  [from : Node, to : Node,
   data : Seq([kind : {"len", "body"}, msg : Msg]),  \* written and not yet read
   closed : BOOLEAN,          \* the sender dropped its end
   cut : BOOLEAN,             \* what is written from now on does not arrive
   reader : {"backlog", "len", "body", "done"}]      \* where handle_connection is

TypeOK ==
  /\ up \in [Node -> BOOLEAN]
  /\ peers \in [Node -> SUBSET Node]
  /\ conns \in Seq(Conn)
  /\ connections \in [Node -> [Node -> DOMAIN conns \union {NoConn}]]
  /\ message_rx \in [Node -> Seq(Msg)]
  /\ pc \in [Node -> {"select", "send", "connect", "len", "body"}]
  /\ outbox \in [Node -> Seq(Msg)]
  /\ cur \in [Node -> DOMAIN conns \union {NoConn}]
  /\ sent \subseteq Msg
  /\ stepped \in [Node -> Seq(Msg)]
  /\ excused \subseteq Msg
  /\ crashes \in 0..faults
  /\ faults \in 0..MaxFaults

\* Every node has been started.
Init ==
  /\ up = [i \in Node |-> TRUE]
  /\ peers = Peers
  /\ connections = [i \in Node |-> [j \in Node |-> NoConn]]
  /\ message_rx = [i \in Node |-> <<>>]
  /\ pc = [i \in Node |-> "select"]
  /\ outbox = [i \in Node |-> <<>>]
  /\ cur = [i \in Node |-> NoConn]
  /\ conns = <<>>
  /\ sent = {}
  /\ stepped = [i \in Node |-> <<>>]
  /\ excused = {}
  /\ crashes = 0 /\ faults = 0

\* One of the bounded number of faults.
Fault == faults < MaxFaults /\ faults' = faults + 1

\* Messages whose body is among the given parts.
Bodies(data) == {p.msg : p \in {q \in Range(data) : q.kind = "body"}}

-----------------------------------------------------------------------------
(* The event loop *)

\* The tick branch: handle_ready returned messages.  How many is Raft's
\* choice, here any number of those it has not produced yet, in order.
send_messages(i) ==
  LET unsent == {m \in Msg \ sent : m.from = i}
  IN  /\ up[i] /\ pc[i] = "select"
      /\ \E n \in 1..MaxBatch : \E batch \in [1..n -> unsent] :
           /\ \A a, b \in 1..n : a < b => batch[a].id < batch[b].id
           /\ \A m \in unsent \ Range(batch) : \A a \in 1..n : batch[a].id < m.id
           /\ outbox' = [outbox EXCEPT ![i] = batch]
           /\ sent' = sent \union Range(batch)
      /\ pc' = [pc EXCEPT ![i] = "send"]
      /\ UNCHANGED <<up, peers, connections, message_rx, cur, conns, stepped, excused, counters>>

\* The receiving branch: the next queued message is handed to RaftNode::step.
recv_message(i) ==
  /\ up[i] /\ pc[i] = "select" /\ message_rx[i] # <<>>
  /\ stepped' = [stepped EXCEPT ![i] = Append(@, Head(message_rx[i]))]
  /\ message_rx' = [message_rx EXCEPT ![i] = Tail(@)]
  /\ UNCHANGED <<up, peers, connections, loopVars, conns, sent, excused, counters>>

-----------------------------------------------------------------------------
(* send_message: the current message of node i *)

Current(i) == Head(outbox[i])

Sending(i, where) == up[i] /\ pc[i] = where

\* send_message returns, always Ok: on to the next message or back to select!.
Done(i) ==
  /\ outbox' = [outbox EXCEPT ![i] = Tail(@)]
  /\ pc' = [pc EXCEPT ![i] = IF Len(outbox[i]) = 1 THEN "select" ELSE "send"]
  /\ cur' = [cur EXCEPT ![i] = NoConn]

\* A message to the node itself only goes through the queue.
SendToSelf(i) ==
  /\ Sending(i, "send") /\ Current(i).to = i
  /\ message_rx' = [message_rx EXCEPT ![i] = Append(@, Current(i))]
  /\ Done(i)
  /\ UNCHANGED <<up, peers, connections, conns, sent, stepped, excused, counters>>

DropUnknownPeer(i) ==
  /\ Sending(i, "send") /\ Current(i).to # i /\ Current(i).to \notin peers[i]
  /\ excused' = excused \union {Current(i)}
  /\ Done(i)
  /\ UNCHANGED <<up, peers, connections, message_rx, conns, sent, stepped, counters>>

\* Faulty variant: the cache is filled before there is a connection.
send_to_peer_early(i) ==
  LET j == Current(i).to
      c == connections[i][j]
  IN  /\ Sending(i, "send") /\ j # i /\ j \in peers[i]
      /\ cur' = [cur EXCEPT ![i] = c]
      /\ connections' = [connections EXCEPT ![i][j] = IF c = NoConn THEN Len(conns) + 1 ELSE c]
      /\ pc' = [pc EXCEPT ![i] = IF c = NoConn THEN "connect" ELSE "len"]
      /\ UNCHANGED <<up, peers, message_rx, outbox, conns, sent, stepped, excused, counters>>

\* Faulty variant: a new connection for every message.
send_to_peer_uncached(i) ==
  /\ Sending(i, "send") /\ Current(i).to # i /\ Current(i).to \in peers[i]
  /\ pc' = [pc EXCEPT ![i] = "connect"]
  /\ UNCHANGED <<up, peers, connections, message_rx, outbox, cur, conns, sent, stepped,
                 excused, counters>>

\* send_to_peer: the cached connection if there is one, else a new one.
send_to_peer(i) ==
  LET c == connections[i][Current(i).to]
  IN  /\ Sending(i, "send") /\ Current(i).to # i /\ Current(i).to \in peers[i]
      /\ cur' = [cur EXCEPT ![i] = c]
      /\ pc' = [pc EXCEPT ![i] = IF c = NoConn THEN "connect" ELSE "len"]
      /\ UNCHANGED <<up, peers, connections, message_rx, outbox, conns, sent, stepped,
                     excused, counters>>

\* TcpStream::connect: the listener's backlog takes the connection.
Connect(i) ==
  LET j == Current(i).to
  IN  /\ Sending(i, "connect") /\ up[j]
      /\ conns' = Append(conns, [from |-> i, to |-> j, data |-> <<>>, closed |-> FALSE,
                                 cut |-> FALSE, reader |-> "backlog"])
      /\ cur' = [cur EXCEPT ![i] = Len(conns) + 1]
      /\ pc' = [pc EXCEPT ![i] = "len"]
      /\ UNCHANGED <<up, peers, connections, message_rx, outbox, sent, stepped, excused, counters>>

\* The peer is down or out of reach: the message is dropped.
ConnectFails(i) ==
  LET j == Current(i).to
  IN  /\ Sending(i, "connect")
      /\ IF up[j] THEN Fault ELSE UNCHANGED faults
      /\ connections' = [connections EXCEPT ![i][j] = NoConn]
      /\ excused' = excused \union {Current(i)}
      /\ Done(i)
      /\ UNCHANGED <<up, peers, message_rx, conns, sent, stepped, crashes>>

\* The kernel takes a write: into the buffer if there is room, or, once the
\* connection is cut, to no effect.
Accepts(c, part) ==
  \/ /\ ~conns[c].cut /\ Len(conns[c].data) < TcpBuffer
     /\ conns' = [conns EXCEPT ![c].data = Append(@, part)]
  \/ conns[c].cut /\ UNCHANGED conns

\* write_message, the length.
WriteLength(i) ==
  /\ Sending(i, "len")
  /\ Accepts(cur[i], Part("len", Current(i)))
  /\ pc' = [pc EXCEPT ![i] = "body"]
  /\ UNCHANGED <<up, peers, connections, message_rx, outbox, cur, sent, stepped, excused, counters>>

\* Faulty variant: the write is repeated on a new connection although the
\* kernel took all of it, as if flush could fail after the fact.
WriteBody_flush_fails(i) ==
  LET m == Current(i)
  IN  /\ Sending(i, "body")
      /\ Accepts(cur[i], Part("body", m))
      /\ IF connections[i][m.to] = cur[i]
           THEN /\ connections' = [connections EXCEPT ![i][m.to] = NoConn]
                /\ pc' = [pc EXCEPT ![i] = "connect"]
                /\ UNCHANGED <<outbox, cur>>
           ELSE Done(i) /\ connections' = [connections EXCEPT ![i][m.to] = cur[i]]
      /\ excused' = IF conns[cur[i]].cut THEN excused \union {m} ELSE excused
      /\ UNCHANGED <<up, peers, message_rx, sent, stepped, counters>>

\* Faulty variant: a body that does not fit into the buffer at once is left out.
WriteBody_try(i) ==
  LET m == Current(i)
  IN  /\ Sending(i, "body")
      /\ \/ Accepts(cur[i], Part("body", m)) /\ excused' = excused
         \/ /\ ~conns[cur[i]].cut /\ Len(conns[cur[i]].data) = TcpBuffer
            /\ excused' = excused \union {m} /\ UNCHANGED conns
      /\ connections' = [connections EXCEPT ![i][m.to] = cur[i]]
      /\ Done(i)
      /\ UNCHANGED <<up, peers, message_rx, sent, stepped, counters>>

\* write_message, the body; flush does nothing on a TcpStream.  A new
\* connection is cached now.
WriteBody(i) ==
  LET m == Current(i)
  IN  /\ Sending(i, "body")
      /\ Accepts(cur[i], Part("body", m))
      /\ connections' = [connections EXCEPT ![i][m.to] = cur[i]]
      /\ excused' = IF conns[cur[i]].cut THEN excused \union {m} ELSE excused
      /\ Done(i)
      /\ UNCHANGED <<up, peers, message_rx, sent, stepped, counters>>

\* Faulty variant: a write that fails on the cached connection drops the
\* message instead of trying a new connection.
WriteFails_gives_up(i) ==
  LET m == Current(i)
  IN  /\ Sending(i, "len") \/ Sending(i, "body")
      /\ conns[cur[i]].cut
      /\ conns' = [conns EXCEPT ![cur[i]].closed = TRUE]
      /\ connections' = [connections EXCEPT ![i][m.to] = NoConn]
      /\ Done(i)
      /\ UNCHANGED <<up, peers, message_rx, sent, stepped, excused, counters>>

\* A write fails and the stream is dropped.  If it was the cached one a new
\* connection is tried; if it was new the message is dropped.
WriteFails(i) ==
  LET m == Current(i)
  IN  /\ Sending(i, "len") \/ Sending(i, "body")
      /\ conns[cur[i]].cut
      /\ conns' = [conns EXCEPT ![cur[i]].closed = TRUE]
      /\ connections' = [connections EXCEPT ![i][m.to] = NoConn]
      /\ IF connections[i][m.to] = cur[i]
           THEN /\ pc' = [pc EXCEPT ![i] = "connect"]
                /\ UNCHANGED <<outbox, cur, excused>>
           ELSE Done(i) /\ excused' = excused \union {m}
      /\ UNCHANGED <<up, peers, message_rx, sent, stepped, counters>>

-----------------------------------------------------------------------------
(* The reading side: start_server's accept loop and handle_connection *)

Reading(c, where) == up[conns[c].to] /\ conns[c].reader = where

accept(c) ==
  /\ Reading(c, "backlog")
  /\ conns' = [conns EXCEPT ![c].reader = "len"]
  /\ UNCHANGED <<up, peers, connections, message_rx, loopVars, sent, stepped, excused, counters>>

\* handle_connection returns: the stream is dropped, and with it what was not read.
Hangup(c) ==
  conns' = [conns EXCEPT ![c].reader = "done", ![c].cut = TRUE, ![c].data = <<>>]

\* Faulty variant: the queue holds one message, and the reader waits for room
\* before it reads the next.
ReadLength_reserves(c) ==
  /\ Reading(c, "len") /\ conns[c].data # <<>>
  /\ message_rx[conns[c].to] = <<>>
  /\ conns' = [conns EXCEPT ![c].reader = "body", ![c].data = Tail(@)]
  /\ UNCHANGED <<up, peers, connections, message_rx, loopVars, sent, stepped, excused, counters>>

\* Reads a length; one that is out of range ends the connection.
ReadLength(c) ==
  LET part == Head(conns[c].data)
  IN  /\ Reading(c, "len") /\ conns[c].data # <<>>
      /\ IF part.kind = "len" /\ part.msg.len <= MaxFrame
           THEN /\ conns' = [conns EXCEPT ![c].reader = "body", ![c].data = Tail(@)]
                /\ UNCHANGED excused
           ELSE /\ Hangup(c)
                /\ excused' = excused \union Bodies(conns[c].data) \union {part.msg}
      /\ UNCHANGED <<up, peers, connections, message_rx, loopVars, sent, stepped, counters>>

\* Reads a body, decodes it and queues the message.
ReadBody(c) ==
  LET j == conns[c].to
  IN  /\ Reading(c, "body") /\ conns[c].data # <<>>
      /\ conns' = [conns EXCEPT ![c].reader = "len", ![c].data = Tail(@)]
      /\ message_rx' = [message_rx EXCEPT ![j] = Append(@, Head(conns[c].data).msg)]
      /\ UNCHANGED <<up, peers, connections, loopVars, sent, stepped, excused, counters>>

\* The stream ends between two frames, or within one.
ReadEnds(c) ==
  /\ Reading(c, "len") \/ Reading(c, "body")
  /\ conns[c].data = <<>> /\ (conns[c].closed \/ conns[c].cut)
  /\ Hangup(c)
  /\ UNCHANGED <<up, peers, connections, message_rx, loopVars, sent, stepped, excused, counters>>

-----------------------------------------------------------------------------
(* Peers *)

add_peer(i, j) ==
  /\ up[i] /\ Fault
  /\ peers' = [peers EXCEPT ![i] = @ \union {j}]
  /\ UNCHANGED <<up, connections, message_rx, loopVars, conns, sent, stepped, excused, crashes>>

\* The cached connection stays.
remove_peer(i, j) ==
  /\ up[i] /\ Fault
  /\ peers' = [peers EXCEPT ![i] = @ \ {j}]
  /\ UNCHANGED <<up, connections, message_rx, loopVars, conns, sent, stepped, excused, crashes>>

-----------------------------------------------------------------------------
(* Faults *)

\* A connection is cut.  The reader keeps what has arrived.
Break(c) ==
  LET data == conns[c].data
  IN  /\ Fault
      /\ ~conns[c].cut
      /\ \E k \in 0..Len(data) :
           /\ conns' = [conns EXCEPT ![c].cut = TRUE, ![c].data = SubSeq(data, 1, k)]
           /\ excused' = excused \union Bodies(SubSeq(data, k + 1, Len(data)))
      /\ UNCHANGED <<up, peers, connections, message_rx, loopVars, sent, stepped, crashes>>

\* A process stops.  What it wrote still arrives, what it had not read is gone.
Crash(i) ==
  LET unread == {c \in DOMAIN conns : conns[c].to = i}
  IN  /\ up[i] /\ Fault /\ crashes' = crashes + 1
      /\ up' = [up EXCEPT ![i] = FALSE]
      /\ conns' = [c \in DOMAIN conns |->
           IF c \in unread
             THEN [conns[c] EXCEPT !.reader = "done", !.cut = TRUE, !.data = <<>>]
             ELSE [conns[c] EXCEPT !.closed = @ \/ conns[c].from = i]]
      /\ excused' = excused \union Range(outbox[i]) \union Range(message_rx[i])
                            \union UNION {Bodies(conns[c].data) : c \in unread}
      /\ connections' = [connections EXCEPT ![i] = [j \in Node |-> NoConn]]
      /\ message_rx' = [message_rx EXCEPT ![i] = <<>>]
      /\ outbox' = [outbox EXCEPT ![i] = <<>>]
      /\ pc' = [pc EXCEPT ![i] = "select"]
      /\ cur' = [cur EXCEPT ![i] = NoConn]
      /\ UNCHANGED <<peers, sent, stepped>>

\* new, start_server and a new event loop.
new(i) ==
  /\ ~up[i]
  /\ up' = [up EXCEPT ![i] = TRUE]
  /\ peers' = [peers EXCEPT ![i] = Peers[i]]
  /\ UNCHANGED <<connections, message_rx, loopVars, conns, sent, stepped, excused, counters>>

-----------------------------------------------------------------------------

SendStep(i) ==
  \/ SendToSelf(i) \/ DropUnknownPeer(i) \/ send_to_peer(i)
  \/ Connect(i) \/ ConnectFails(i)
  \/ WriteLength(i) \/ WriteBody(i) \/ WriteFails(i)

ReadStep(c) == accept(c) \/ ReadLength(c) \/ ReadBody(c) \/ ReadEnds(c)

Next ==
  \/ \E i \in Node : send_messages(i) \/ recv_message(i) \/ SendStep(i) \/ Crash(i) \/ new(i)
  \/ \E i, j \in Node : add_peer(i, j) \/ remove_peer(i, j)
  \/ \E c \in DOMAIN conns : ReadStep(c) \/ Break(c)

Spec == Init /\ [][Next]_vars

\* tokio polls a task that can go on: each node's event loop, and the tasks
\* that read its connections, together.
FairSpec ==
  /\ Spec
  /\ \A i \in Node : WF_vars(SendStep(i) \/ recv_message(i))
  /\ \A i \in Node : WF_vars(\E c \in DOMAIN conns : conns[c].to = i /\ ReadStep(c))

-----------------------------------------------------------------------------
(* Properties *)

\* A message that may still arrive: not sent completely, written to a
\* connection that is being read, or queued.
InTransit(m) ==
  \/ m \in Range(outbox[m.from])
  \/ \E c \in DOMAIN conns : conns[c].reader # "done" /\ m \in Bodies(conns[c].data)
  \/ m \in Range(message_rx[m.to])

Channel == INSTANCE LossyChannel WITH
  transit <- {m \in sent : InTransit(m)},
  received <- [i \in Node |-> Range(stepped[i])]

\* The transport is a lossy channel: in spite of reconnects, cut connections,
\* half-written frames and crashes, no message is handed to Raft twice, to the
\* wrong node, or after it was lost (send_message, send_to_peer,
\* handle_connection).
IsLossyChannel == Channel!Spec

\* As long as no connection between two nodes was cut, no message between them
\* was lost to a fault and no node has stopped, Raft gets the messages in the
\* order in which it sent them and without a gap: one sender, one cached
\* connection, one reader.
Undisturbed(i, j) ==
  /\ crashes = 0
  /\ \A c \in DOMAIN conns : conns[c].from = i /\ conns[c].to = j => ~conns[c].cut
  /\ \A m \in excused : m.from # i \/ m.to # j

FifoWithoutFault ==
  \A i, j \in Node : Undisturbed(i, j) =>
    \A p \in DOMAIN stepped[j] : stepped[j][p].from = i =>
      \A m \in sent : m.from = i /\ m.to = j /\ m.id < stepped[j][p].id =>
        \E q \in 1..(p - 1) : stepped[j][q] = m

\* No frame is read out of step: a reader that expects a length finds one, and
\* one that expects a body finds a body, also when the writer gave up half-way.
FramesAligned ==
  \A c \in DOMAIN conns :
    conns[c].data # <<>> /\ conns[c].reader # "done" =>
      (Head(conns[c].data).kind = "body" <=> conns[c].reader = "body")

Delivered == UNION {Range(stepped[i]) : i \in Node}

\* Every message given to send_messages reaches RaftNode::step, unless the
\* network, a crash, an unknown peer or the frame limit cost it: a write error
\* on a stale cached connection alone does not.
DeliveredUnlessExcused == []<>(sent \subseteq Delivered \union excused)

\* A node does not stay in send_messages, in which it neither ticks nor takes
\* messages: nodes that send to each other with full buffers do not wait for
\* each other, because readers never wait for the event loop.
SendingEnds == \A i \in Node : pc[i] # "select" ~> pc[i] = "select"

=============================================================================
