------------------------------ MODULE HttpApi ------------------------------
(***************************************************************************)
(* The handlers of src/api/http.rs on a server without Raft (raft_node is  *)
(* None): axum runs every request as a task of its own, and each call of   *)
(* the storage is one step (RocksDBStorage).  put_key makes one such call, *)
(* delete_key two with an await between them.  The reading handlers return *)
(* what one query of the storage answers.  With Raft the writing handlers  *)
(* propose: RaftNode and RaftCluster.                                      *)
(***************************************************************************)
EXTENDS RocksDBStorage

CONSTANTS
  Request,     \* deletes that can be in progress at a time
  NoRequest

ASSUME ApiAssumption == NoRequest \notin [key : Key, raced : BOOLEAN]

VARIABLE
  request   \* delete_key between exists and delete: its key, and (history)
            \* whether another delete of that key was done meanwhile

vars == <<db, request>>

\* A path segment: never empty.
PathKey == Key \ {<<>>}

Init == new /\ request = [r \in Request |-> NoRequest]

\* POST /kv/:key, 200.  A failing put changes nothing.
put_key(k, v) == put(k, v) /\ UNCHANGED request

\* DELETE /kv/:key: 404 unless the key exists.
\* Faulty variant: no check.
Deleting(r, k) ==
  /\ request[r] = NoRequest
  /\ request' = [request EXCEPT ![r] = [key |-> k, raced |-> FALSE]]
  /\ UNCHANGED db
CheckExists_none(r, k) == Deleting(r, k)
CheckExists(r, k) == exists(k) /\ Deleting(r, k)

\* ... then delete it, 200.
Finish(r) ==
  request' = [q \in Request |->
    IF q = r \/ request[q] = NoRequest THEN NoRequest
    ELSE [request[q] EXCEPT !.raced = @ \/ request[q].key = request[r].key]]
delete_key(r) ==
  /\ request[r] # NoRequest
  /\ delete(request[r].key)
  /\ Finish(r)

\* ... or the storage fails, 500, or the client goes away and the handler is
\* dropped at the await.
DeleteFails(r) ==
  /\ request[r] # NoRequest
  /\ request' = [request EXCEPT ![r] = NoRequest]
  /\ UNCHANGED db

Next ==
  \/ \E k \in PathKey, v \in Value : put_key(k, v)
  \/ \E r \in Request :
       \/ \E k \in PathKey : CheckExists(r, k)
       \/ delete_key(r) \/ DeleteFails(r)

Spec == Init /\ [][Next]_vars

-----------------------------------------------------------------------------

TypeOK ==
  /\ StoreOK
  /\ request \in [Request -> [key : PathKey, raced : BOOLEAN] \cup {NoRequest}]

\* A request that passed the check finds its key still there when it deletes,
\* unless another delete of the same key came between its two calls: then
\* both are answered 200 for one removal (delete_key).
DeleteFindsKey ==
  \A r \in Request : request[r] # NoRequest /\ ~request[r].raced => exists(request[r].key)

=============================================================================
