---------------------------- MODULE HttpApiProofs ----------------------------
(***************************************************************************)
(* Proofs about HttpApi and the order of keys in RocksDBStorage, for keys  *)
(* of any length and any number of concurrent deletes.                     *)
(***************************************************************************)
EXTENDS HttpApi, TLAPS
LOCAL INSTANCE SequencesExt   \* IsPrefix, IsStrictPrefix

-----------------------------------------------------------------------------
(* The handlers *)

Inv == TypeOK /\ DeleteFindsKey

LEMMA InitInv == Init => Inv
BY DEF Init, new, Inv, TypeOK, StoreOK, DeleteFindsKey

LEMMA PutKeeps ==
  ASSUME Inv, NEW k \in PathKey, NEW v \in Value, put_key(k, v)
  PROVE  Inv'
<1>1. DOMAIN db' = DOMAIN db \cup {k} /\ k \in Key
  BY DEF put_key, put, PathKey
<1>2. \A j \in DOMAIN db' : db'[j] \in Value
  BY DEF put_key, put, Inv, TypeOK, StoreOK
<1> QED BY <1>1, <1>2 DEF put_key, Inv, TypeOK, StoreOK, DeleteFindsKey, exists

LEMMA CheckExistsKeeps ==
  ASSUME Inv, NEW r \in Request, NEW k \in PathKey, CheckExists(r, k)
  PROVE  Inv'
<1>1. exists(k) /\ db' = db
      /\ request' = [request EXCEPT ![r] = [key |-> k, raced |-> FALSE]]
  BY DEF CheckExists, Deleting
<1>2. TypeOK'
  BY <1>1 DEF Inv, TypeOK, StoreOK
<1>3. ASSUME NEW q \in Request, request'[q] # NoRequest, ~request'[q].raced
      PROVE  exists(request[q].key)'
  BY <1>1, <1>3 DEF Inv, TypeOK, DeleteFindsKey, exists
<1> QED BY <1>2, <1>3 DEF Inv, DeleteFindsKey

\* The deletes still in progress for the deleted key are marked as raced, and
\* the others keep theirs.
LEMMA DeleteKeyKeeps ==
  ASSUME Inv, NEW r \in Request, delete_key(r)
  PROVE  Inv'
<1> DEFINE k == request[r].key
<1>1. request[r] # NoRequest /\ Finish(r)
      /\ db' = [j \in DOMAIN db \ {k} |-> db[j]]
  BY DEF delete_key, delete
<1>2. StoreOK'
  BY <1>1 DEF Inv, TypeOK, StoreOK
<1>3. ASSUME NEW q \in Request
      PROVE  /\ request'[q] \in [key : PathKey, raced : BOOLEAN] \cup {NoRequest}
             /\ request'[q] # NoRequest =>
                  /\ request[q] # NoRequest
                  /\ request'[q].key = request[q].key
                  /\ request'[q].raced = (request[q].raced \/ request[q].key = k)
  <2>1. CASE q = r \/ request[q] = NoRequest
    BY <1>1, <2>1 DEF Finish
  <2>2. CASE q # r /\ request[q] # NoRequest
    <3>1. request'[q] = [request[q] EXCEPT !.raced = @ \/ request[q].key = k]
      BY <1>1, <2>2 DEF Finish
    <3>2. request[q] \in [key : PathKey, raced : BOOLEAN]
      BY <2>2 DEF Inv, TypeOK
    <3> QED BY <2>2, <3>1, <3>2
  <2> QED BY <2>1, <2>2
<1>4. request' \in [Request -> [key : PathKey, raced : BOOLEAN] \cup {NoRequest}]
  <2>1. request' = [q \in Request |-> request'[q]]
    BY <1>1 DEF Finish
  <2> QED BY <1>3, <2>1
<1>5. ASSUME NEW q \in Request, request'[q] # NoRequest, ~request'[q].raced
      PROVE  exists(request[q].key)'
  <2>1. exists(request[q].key) /\ request[q].key # k
    BY <1>3, <1>5 DEF Inv, DeleteFindsKey
  <2> QED BY <1>1, <1>3, <1>5, <2>1 DEF exists
<1> QED BY <1>2, <1>4, <1>5 DEF Inv, TypeOK, DeleteFindsKey

LEMMA DeleteFailsKeeps ==
  ASSUME Inv, NEW r \in Request, DeleteFails(r)
  PROVE  Inv'
<1>1. TypeOK'
  BY DEF DeleteFails, Inv, TypeOK, StoreOK
<1> QED BY <1>1 DEF DeleteFails, Inv, TypeOK, DeleteFindsKey, exists

THEOREM InvHolds == Spec => []Inv
<1>1. Inv /\ [Next]_vars => Inv'
  <2> SUFFICES ASSUME Inv, [Next]_vars PROVE Inv'
    OBVIOUS
  <2>1. CASE UNCHANGED vars
    BY <2>1 DEF vars, Inv, TypeOK, StoreOK, DeleteFindsKey, exists
  <2>2. CASE Next
    BY <2>2, PutKeeps, CheckExistsKeeps, DeleteKeyKeeps, DeleteFailsKeeps DEF Next
  <2> QED BY <2>1, <2>2
<1> QED BY <1>1, InitInv, PTL DEF Spec

\* Types: the store maps byte strings to values, and a delete in progress has
\* a path segment for its key.
THEOREM TypeCorrect == Spec => []TypeOK
<1>1. Inv => TypeOK
  BY DEF Inv
<1> QED BY <1>1, InvHolds, PTL

\* Between exists and delete in delete_key a key disappears only by another
\* delete of the same key, for any number of handlers.
THEOREM DeleteFinds == Spec => []DeleteFindsKey
<1>1. Inv => DeleteFindsKey
  BY DEF Inv
<1> QED BY <1>1, InvHolds, PTL

-----------------------------------------------------------------------------
(* Why the prefix scan may seek to the prefix and stop *)

\* p is a prefix of k, element by element.
LEMMA StartsWith ==
  ASSUME NEW k \in Seq(Byte), NEW p \in Seq(Byte)
  PROVE  starts_with(k, p) <=> Len(p) <= Len(k) /\ \A n \in 1..Len(p) : k[n] = p[n]
<1>1. CASE Len(p) <= Len(k)
  <2>1. /\ SubSeq(p, 1, Len(p)) = [n \in 1..Len(p) |-> p[n]]
        /\ SubSeq(k, 1, Len(p)) = [n \in 1..Len(p) |-> k[n]]
    BY <1>1
  <2> QED BY <1>1, <2>1 DEF starts_with, IsPrefix
<1>2. CASE ~(Len(p) <= Len(k))
  BY <1>2 DEF starts_with, IsPrefix
<1> QED BY <1>1, <1>2

\* The order with starts_with for the library's prefix.
LEMMA BeforeCases ==
  ASSUME NEW a \in Seq(Byte), NEW b \in Seq(Byte)
  PROVE  Before(a, b) <=>
           \/ starts_with(b, a) /\ a # b
           \/ \E n \in DOMAIN a \cap DOMAIN b : a[n] < b[n] /\ \A m \in 1..(n - 1) : a[m] = b[m]
BY DEF Before, IsStrictPrefix, IsPrefix, starts_with

\* Where list_keys(p) seeks to, no key that starts with p has been passed; and
\* a key from there on that comes before one that starts with p starts with p
\* too, so the scan may end at the first that does not.
THEOREM PrefixKeysAreARun ==
  ASSUME StorageAssumption, NEW p \in Seq(Byte), NEW a \in Seq(Byte), NEW b \in Seq(Byte),
         starts_with(b, p)
  PROVE  /\ ~Before(b, p)
         /\ ~Before(a, p) /\ Before(a, b) => starts_with(a, p)
<1>1. /\ Len(p) \in Nat /\ Len(a) \in Nat /\ Len(b) \in Nat
      /\ DOMAIN p = 1..Len(p) /\ DOMAIN a = 1..Len(a) /\ DOMAIN b = 1..Len(b)
      /\ \A n \in 1..Len(p) : p[n] \in Int
      /\ \A n \in 1..Len(a) : a[n] \in Int
      /\ \A n \in 1..Len(b) : b[n] \in Int
  <2>1. Byte \subseteq Int
    BY DEF StorageAssumption
  <2>2. ASSUME NEW s \in Seq(Byte)
        PROVE  /\ Len(s) \in Nat /\ DOMAIN s = 1..Len(s)
               /\ \A n \in 1..Len(s) : s[n] \in Int
    <3>1. Len(s) \in Nat /\ DOMAIN s = 1..Len(s) /\ \A n \in 1..Len(s) : s[n] \in Byte
      OBVIOUS
    <3> QED BY <2>1, <3>1
  <2> QED BY <2>2
<1>2. Len(p) <= Len(b) /\ \A n \in 1..Len(p) : b[n] = p[n]
  BY StartsWith
<1>3. ~Before(b, p)
  <2>1. ASSUME starts_with(p, b)
        PROVE  b = p
    <3>1. Len(b) = Len(p)
      <4>1. Len(b) <= Len(p)
        BY <2>1, StartsWith
      <4>2. Len(p) <= Len(b)
        BY <1>2
      <4> QED BY <4>1, <4>2
    <3> QED BY <1>1, <1>2, <3>1
  <2>2. ASSUME NEW n \in DOMAIN b \cap DOMAIN p
        PROVE  ~(b[n] < p[n])
    BY <1>1, <1>2
  <2> QED BY <2>1, <2>2, BeforeCases
<1>4. ASSUME ~Before(a, p), Before(a, b)
      PROVE  starts_with(a, p)
  <2>1. CASE starts_with(b, a)
    <3>1. Len(a) <= Len(b) /\ \A n \in 1..Len(a) : b[n] = a[n]
      BY <2>1, StartsWith
    <3>2. CASE Len(p) <= Len(a)
      BY <1>1, <1>2, <3>1, <3>2, StartsWith
    <3>3. CASE Len(a) < Len(p)
      <4>1. \A n \in 1..Len(a) : p[n] = a[n]
        BY <1>1, <1>2, <3>1, <3>3
      <4>2. starts_with(p, a)
        <5>1. Len(a) <= Len(p)
          BY <1>1, <3>3
        <5> QED BY <4>1, <5>1, StartsWith
      <4>3. a # p
        BY <1>1, <3>3
      <4> QED BY <1>4, <4>2, <4>3, BeforeCases
    <3> QED BY <1>1, <3>2, <3>3
  <2>2. CASE \E n \in DOMAIN a \cap DOMAIN b : a[n] < b[n] /\ \A m \in 1..(n - 1) : a[m] = b[m]
    <3>1. PICK n \in DOMAIN a \cap DOMAIN b : a[n] < b[n] /\ \A m \in 1..(n - 1) : a[m] = b[m]
      BY <2>2
    <3>2. CASE n <= Len(p)
      <4>1. n \in DOMAIN a \cap DOMAIN p /\ a[n] < p[n]
        BY <1>1, <1>2, <3>1, <3>2
      <4>2. \A m \in 1..(n - 1) : a[m] = p[m]
        BY <1>1, <1>2, <3>1, <3>2
      <4> QED BY <1>4, <4>1, <4>2, BeforeCases
    <3>3. CASE Len(p) < n
      <4>1. Len(p) <= Len(a) /\ \A m \in 1..Len(p) : a[m] = p[m]
        <5>1. n \in Nat /\ n <= Len(a) /\ Len(p) \in Nat /\ Len(a) \in Nat
          BY <1>1, <3>1
        <5>2. \A m \in 1..Len(p) : m \in 1..(n - 1) /\ b[m] = p[m]
          BY <1>2, <3>3, <5>1
        <5>3. \A m \in 1..(n - 1) : a[m] = b[m]
          BY <3>1
        <5>4. Len(p) <= Len(a)
          BY <3>3, <5>1
        <5> QED BY <5>2, <5>3, <5>4
      <4> QED BY <4>1, StartsWith
    <3> QED BY <1>1, <3>2, <3>3
  <2> QED BY <1>4, <2>1, <2>2, BeforeCases
<1> QED BY <1>3, <1>4

=============================================================================
