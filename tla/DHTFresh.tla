----------------------------- MODULE DHTFresh -----------------------------
(***************************************************************************)
(* Proofs that a get returns what the last put has stored, and that what   *)
(* was stored is kept.                                                     *)
(*                                                                         *)
(* The put that is the last one of its key, and met no request of an       *)
(* earlier put, owns the key: no other put can reach a table.  A server    *)
(* that has executed it has its value, or nothing if it has restarted, so  *)
(* it answers that value or "not found".  The W servers of such a put and  *)
(* the R servers behind a get are among the N servers of the key; when     *)
(* R + W > N they share one, and the value of the get is its answer.       *)
(*                                                                         *)
(* With that the store implements one register per key, and gets agree     *)
(* between two puts.                                                       *)
(***************************************************************************)
EXTENDS DHTQuorum

USE DEF IsGet, IsPut

\* Any R and any W of the N servers of a key have a server in common.
Overlapping == R + W > N

\* No request of another put is on its way to a key that has an owner.
OwnerIsLast ==
  \A k \in Key :
    owner[k] # NoCall =>
      /\ owner[k] \in Call
      /\ IsPut(owner[k]) /\ op[owner[k]].key = k
      /\ status[owner[k]] # "idle"
      /\ \A c \in Call, s \in Server :
           <<c, s>> \in requests /\ IsPut(c) /\ op[c].key = k => c = owner[k]

\* The servers that have executed the put of the owner have no other value, and
\* those that do not restart have that one.
ReplicasAgree ==
  \A k \in Key, s \in Server :
    owner[k] # NoCall /\ s \in StoredAt(owner[k]) =>
      /\ table[s][k] \in {op[owner[k]].val, NoValue}
      /\ Steady(s) => table[s][k] = op[owner[k]].val

\* W servers are bound to answer the expected value, or "not found".
Bound(g) ==
  \E Q \in SUBSET StoredAt(owner[op[g].key]) :
    /\ Cardinality(Q) >= W
    /\ \A m \in sent : m.call = g /\ m.from \in Q => m.body \in {expect[g], NotFound}

PromiseKept ==
  \A g \in Call :
    expect[g] # NoValue /\ op[g].key # EmptyKey =>
      /\ IsGet(g)
      /\ owner[op[g].key] # NoCall
      /\ expect[g] = op[owner[op[g].key]].val
      /\ Bound(g)

GotValue == \A g \in Call : Got(g) => value[g] \in Value

FreshInv == QuorumInv /\ OwnerIsLast /\ ReplicasAgree /\ PromiseKept /\ GotValue

-----------------------------------------------------------------------------

LEMMA FreshInit == Init => FreshInv
<1>. SUFFICES ASSUME Init PROVE FreshInv
  OBVIOUS
<1>. QED
  BY QuorumInit DEF Init, FreshInv, OwnerIsLast, ReplicasAgree, PromiseKept, GotValue, Got

\* Steps that store nothing new, send nothing new, and begin no call.
LEMMA FreshQuiet ==
  ASSUME FreshInv, QuorumInv', GotValue',
         requests' \subseteq requests, UNCHANGED <<op, sent, stored, owner, expect>>,
         \A c \in Call : status[c] # "idle" => status'[c] # "idle",
         \A s \in Server, k \in Key :
           \/ table'[s][k] = table[s][k]
           \/ ~Steady(s) /\ table'[s][k] = NoValue
  PROVE  FreshInv'
<1>. USE DEF FreshInv
<1>1. OwnerIsLast'
  BY DEF OwnerIsLast
<1>2. ReplicasAgree'
  BY DEF ReplicasAgree, StoredAt
<1>3. PromiseKept'
  BY DEF PromiseKept, Bound, StoredAt
<1>. QED
  BY <1>1, <1>2, <1>3

LEMMA FreshRead ==
  ASSUME Dependable, Countable, FreshInv, NEW c \in Call, Read(c)
  PROVE  FreshInv'
<1>1. TypeOK /\ QuorumInv' /\ [Next]_vars
  BY QuorumRead DEF FreshInv, QuorumInv, Next
<1>2. GotValue'
  <2>. SUFFICES ASSUME NEW g \in Call, Got(g)' PROVE value'[g] \in Value
    BY DEF GotValue
  <2>1. CASE Got(g) /\ value'[g] = value[g]
    BY <2>1 DEF GotValue, FreshInv
  <2>2. CASE g = c /\ \E m \in Heard(c) : m.body # NotFound /\ value'[g] = m.body
    BY <1>1, <2>2 DEF Heard, TypeOK, Reply
  <2>. QED
    BY <1>1, <2>1, <2>2, GotByReading
<1>3. UNCHANGED <<table, requests, op, history>>
  BY ReadStep
<1>4. \A b \in Call : status[b] # "idle" => status'[b] # "idle"
  BY <1>1, Begun
<1>. QED
  BY <1>1, <1>2, <1>3, <1>4, FreshQuiet DEF history

LEMMA FreshLoss ==
  ASSUME FreshInv, QuorumInv', requests' \subseteq requests,
         UNCHANGED <<op, status, value, history>>,
         UNCHANGED table \/ \E s \in Server : Crash(s)
  PROVE  FreshInv'
<1>1. GotValue'
  BY DEF FreshInv, GotValue, Got
<1>2. ASSUME NEW s \in Server, NEW k \in Key
      PROVE  \/ table'[s][k] = table[s][k]
             \/ ~Steady(s) /\ table'[s][k] = NoValue
  BY DEF Crash, Emptied, Steady, FreshInv, QuorumInv, TypeOK
<1>. QED
  BY <1>1, <1>2, FreshQuiet DEF history

LEMMA FreshDump ==
  ASSUME Dependable, FreshInv, NEW c \in Call, NEW s \in Server, ServeDump(c, s)
  PROVE  FreshInv'
<1>1. TypeOK /\ QuorumInv'
  BY QuorumDump DEF FreshInv, QuorumInv
<1>2. /\ requests' \subseteq requests
      /\ UNCHANGED <<table, op, status, value, history>>
  <2>. SUFFICES TakeRequest(c, s) /\ UNCHANGED <<table, op, status, value, history>>
    BY DEF TakeRequest
  <2>. QED
    BY <1>1, DumpStep, DependableFaults
<1>3. GotValue'
  BY <1>2 DEF FreshInv, GotValue, Got
<1>. QED
  BY <1>1, <1>2, <1>3, FreshQuiet DEF history

\* A server that executes a request: it stores the value of the owner, or
\* answers what the invariant says of its table.
LEMMA FreshServe ==
  ASSUME Dependable, FreshInv, NEW c \in Call, NEW s \in Server, Serve(c, s), ~ServeDump(c, s)
  PROVE  FreshInv'
<1>. USE DEF FreshInv
<1>0. QuorumInv' /\ TypeOK
  BY QuorumServe DEF QuorumInv
<1>1. /\ <<c, s>> \in requests /\ requests' = requests \ {<<c, s>>}
      /\ UNCHANGED <<op, status, value, owner, expect>>
      /\ stored' = IF StoringPut(c) THEN stored \cup {<<c, s>>} ELSE stored
      /\ table' = IF StoringPut(c) THEN WithEntry(s, op[c].key, op[c].val) ELSE table
  BY <1>0, ServeStep
<1>2. PICK body : Body(c, s, body) /\ Answer(c, s, body)
  BY <1>0, ServeStep
<1>3. op[c].key \in Key
  BY <1>0 DEF TypeOK, Operation
<1>4. OwnerIsLast'
  BY <1>1 DEF OwnerIsLast
<1>5. ReplicasAgree'
  <2>. SUFFICES ASSUME NEW k \in Key, NEW t \in Server,
                       owner[k] # NoCall, t \in StoredAt(owner[k])'
                PROVE  /\ table'[t][k] \in {op[owner[k]].val, NoValue}
                       /\ Steady(t) => table'[t][k] = op[owner[k]].val
    BY <1>1 DEF ReplicasAgree
  <2>1. CASE StoringPut(c) /\ op[c].key = k /\ t = s
    <3>1. c = owner[k]
      BY <1>1, <2>1 DEF OwnerIsLast, StoringPut
    <3>2. table'[t][k] = op[c].val
      BY <1>0, <1>1, <2>1 DEF WithEntry, TypeOK
    <3>. QED
      BY <3>1, <3>2
  <2>2. CASE ~(StoringPut(c) /\ op[c].key = k /\ t = s)
    <3>1. table'[t][k] = table[t][k]
      BY <1>0, <1>1, <1>3, <2>2 DEF WithEntry, TypeOK
    <3>2. t \in StoredAt(owner[k])
      BY <1>1, <2>2 DEF StoredAt, OwnerIsLast
    <3>. QED
      BY <3>1, <3>2 DEF ReplicasAgree
  <2>. QED
    BY <2>1, <2>2
<1>6. PromiseKept'
  <2>. SUFFICES ASSUME NEW g \in Call, expect[g] # NoValue, op[g].key # EmptyKey
                PROVE  /\ IsGet(g) /\ owner[op[g].key] # NoCall
                       /\ expect[g] = op[owner[op[g].key]].val
                       /\ Bound(g)'
    BY <1>1 DEF PromiseKept
  <2>. DEFINE p == owner[op[g].key]
  <2>1. IsGet(g) /\ p # NoCall /\ expect[g] = op[p].val /\ op[g].key \in Key
    BY <1>0 DEF PromiseKept, TypeOK, Operation
  <2>2. PICK Q \in SUBSET StoredAt(p) :
          /\ Cardinality(Q) >= W
          /\ \A m \in sent : m.call = g /\ m.from \in Q => m.body \in {expect[g], NotFound}
    BY DEF PromiseKept, Bound
  <2>3. StoredAt(p) \subseteq StoredAt(p)'
    BY <1>1 DEF StoredAt
  <2>4. ASSUME NEW m \in sent', m.call = g, m.from \in Q
        PROVE  m.body \in {expect[g], NotFound}
    <3>1. CASE m \in sent
      BY <2>2, <2>4, <3>1
    <3>2. CASE m = [call |-> c, from |-> s, body |-> body]
      <4>1. c = g /\ s \in StoredAt(p) /\ m.body = body
        BY <2>4, <3>2
      <4>2. body \in {table[s][op[g].key], NotFound} /\ body \in Value \cup {NotFound}
        BY <1>2, <2>1, <4>1 DEF Body
      <4>3. table[s][op[g].key] \in {expect[g], NoValue}
        BY <2>1, <4>1 DEF ReplicasAgree
      <4>. QED
        BY <4>1, <4>2, <4>3, DataAssumption
    <3>. QED
      BY <1>2, <3>1, <3>2 DEF Answer
  <2>5. Bound(g)'
    BY <1>1, <2>2, <2>3, <2>4 DEF Bound
  <2>. QED
    BY <2>1, <2>5
<1>7. GotValue'
  BY <1>1 DEF GotValue, Got
<1>. QED
  BY <1>0, <1>4, <1>5, <1>6, <1>7

\* A get that begins when the owner of its key has succeeded is promised the
\* value of the owner: W servers have stored it, and none has answered yet.
LEMMA FreshStartGet ==
  ASSUME Dependable, FreshInv, NEW c \in Call, StartGet(c)
  PROVE  FreshInv'
<1>. USE DEF FreshInv
<1>0. QuorumInv' /\ TypeOK
  BY QuorumBegin DEF QuorumInv, Begin
<1>1. /\ status[c] = "idle" /\ IsGet(c) /\ status' = [status EXCEPT ![c] = "waiting"]
      /\ requests' = requests \cup ({c} \X Nodes[op[c].key])
      /\ expect' = [expect EXCEPT ![c] = Settled(op[c].key)]
      /\ UNCHANGED <<table, op, value, sent, stored, owner>>
  BY DEF StartGet, Send, GetBegins
<1>2. OwnerIsLast'
  BY <1>0, <1>1 DEF OwnerIsLast, TypeOK
<1>3. ReplicasAgree'
  BY <1>1 DEF ReplicasAgree, StoredAt
<1>4. PromiseKept'
  <2>. SUFFICES ASSUME NEW g \in Call, expect'[g] # NoValue, op[g].key # EmptyKey
                PROVE  /\ IsGet(g) /\ owner[op[g].key] # NoCall
                       /\ expect'[g] = op[owner[op[g].key]].val
                       /\ Bound(g)'
    BY <1>1 DEF PromiseKept
  <2>. DEFINE p == owner[op[g].key]
  <2>1. CASE g = c
    <3>1. expect'[g] = Settled(op[g].key) /\ op[g].key \in Key
      BY <1>0, <1>1, <2>1 DEF TypeOK, Operation
    <3>2. p # NoCall /\ status[p] = "ok" /\ expect'[g] = op[p].val
      BY <3>1 DEF Settled
    <3>3. p \in Call /\ StoringPut(p)
      BY <3>1, <3>2 DEF OwnerIsLast, StoringPut
    <3>4. Cardinality(StoredAt(p)) >= W
      BY <3>2, <3>3 DEF QuorumInv, PutHasQuorum
    <3>5. \A m \in sent : m.call # g
      BY <1>1, <2>1 DEF QuorumInv, Addressed
    <3>6. Bound(g)'
      BY <1>1, <3>4, <3>5 DEF Bound, StoredAt
    <3>. QED
      BY <1>1, <2>1, <3>2, <3>6
  <2>2. CASE g # c
    <3>1. expect'[g] = expect[g]
      BY <1>0, <1>1, <2>2 DEF TypeOK
    <3>. QED
      BY <1>1, <3>1 DEF PromiseKept, Bound, StoredAt
  <2>. QED
    BY <2>1, <2>2
<1>5. GotValue'
  BY <1>0, <1>1 DEF GotValue, Got, TypeOK
<1>. QED
  BY <1>0, <1>2, <1>3, <1>4, <1>5

\* A put that begins takes its key, or leaves it without an owner, and ends all
\* promises on it.
LEMMA FreshStartPut ==
  ASSUME Dependable, FreshInv, NEW c \in Call, StartPut(c)
  PROVE  FreshInv'
<1>. USE DEF FreshInv
<1>. DEFINE k == op[c].key
<1>0. QuorumInv' /\ TypeOK /\ k \in Key
  BY QuorumBegin DEF QuorumInv, Begin, TypeOK, Operation
<1>1. /\ status[c] = "idle" /\ IsPut(c) /\ status' = [status EXCEPT ![c] = "waiting"]
      /\ requests' = requests \cup ({c} \X Nodes[k])
      /\ owner' = [owner EXCEPT ![k] = IF PutsOnTheWay(k) = {} THEN c ELSE NoCall]
      /\ expect' = [g \in Call |-> IF op[g].key = k THEN NoValue ELSE expect[g]]
      /\ UNCHANGED <<table, op, value, sent, stored>>
  BY DEF StartPut, Send, PutBegins
<1>2. ASSUME NEW j \in Key, owner'[j] # NoCall
      PROVE  \/ j # k /\ owner'[j] = owner[j]
             \/ j = k /\ owner'[j] = c /\ PutsOnTheWay(k) = {}
  BY <1>0, <1>1, <1>2 DEF TypeOK
<1>3. OwnerIsLast'
  <2>. SUFFICES ASSUME NEW j \in Key, owner'[j] # NoCall
                PROVE  /\ owner'[j] \in Call
                       /\ IsPut(owner'[j]) /\ op[owner'[j]].key = j
                       /\ status'[owner'[j]] # "idle"
                       /\ \A b \in Call, s \in Server :
                            <<b, s>> \in requests' /\ IsPut(b) /\ op[b].key = j => b = owner'[j]
    BY <1>1 DEF OwnerIsLast
  <2>1. CASE j # k /\ owner'[j] = owner[j]
    BY <1>0, <1>1, <2>1 DEF OwnerIsLast, TypeOK
  <2>2. CASE j = k /\ owner'[j] = c /\ PutsOnTheWay(k) = {}
    <3>1. \A b \in Call, s \in Server : <<b, s>> \in requests /\ IsPut(b) => op[b].key # k
      BY <2>2 DEF PutsOnTheWay
    <3>. QED
      BY <1>0, <1>1, <2>2, <3>1 DEF TypeOK
  <2>. QED
    BY <1>2, <2>1, <2>2
<1>4. ReplicasAgree'
  <2>1. StoredAt(c) = {}
    BY <1>1 DEF QuorumInv, Addressed, StoredAt
  <2>. QED
    BY <1>1, <1>2, <2>1 DEF ReplicasAgree, StoredAt
<1>5. PromiseKept'
  <2>. SUFFICES ASSUME NEW g \in Call, expect'[g] # NoValue, op[g].key # EmptyKey
                PROVE  /\ IsGet(g) /\ owner'[op[g].key] # NoCall
                       /\ expect'[g] = op[owner'[op[g].key]].val
                       /\ Bound(g)'
    BY <1>1 DEF PromiseKept
  <2>1. op[g].key # k /\ expect'[g] = expect[g] /\ op[g].key \in Key
    BY <1>0, <1>1 DEF TypeOK, Operation
  <2>2. owner'[op[g].key] = owner[op[g].key]
    BY <1>0, <1>1, <2>1 DEF TypeOK
  <2>. QED
    BY <1>1, <2>1, <2>2 DEF PromiseKept, Bound, StoredAt
<1>6. GotValue'
  BY <1>0, <1>1 DEF GotValue, Got, TypeOK
<1>. QED
  BY <1>0, <1>3, <1>4, <1>5, <1>6

LEMMA FreshNext ==
  ASSUME Dependable, Countable, FreshInv, [Next]_vars
  PROVE  FreshInv'
<1>0. QuorumInv'
  BY QuorumNext DEF FreshInv
<1>1. ASSUME NEW c \in Call, Begin(c) PROVE FreshInv'
  <2>1. StartGet(c) \/ StartPut(c)
    BY <1>1, DependableFaults DEF Begin, FailEarly, PutWithoutSocket
  <2>. QED
    BY <2>1, FreshStartGet, FreshStartPut
<1>2. ASSUME NEW c \in Call, Read(c) PROVE FreshInv'
  BY <1>2, FreshRead
<1>3. ASSUME NEW c \in Call, NEW s \in Server, Serve(c, s) PROVE FreshInv'
  BY <1>3, FreshServe, FreshDump
<1>4. ASSUME NEW c \in Call, NEW s \in Server, LoseRequest(c, s) PROVE FreshInv'
  BY <1>0, <1>4, FreshLoss DEF LoseRequest
<1>5. ASSUME NEW c \in Call, LoseAnswer(c) PROVE FreshInv'
  BY <1>0, <1>5, FreshLoss DEF LoseAnswer
<1>6. ASSUME NEW s \in Server, Crash(s) PROVE FreshInv'
  BY <1>0, <1>6, FreshLoss DEF Crash
<1>7. CASE UNCHANGED vars
  BY <1>0, <1>7, FreshLoss DEF vars
<1>. QED
  BY <1>1, <1>2, <1>3, <1>4, <1>5, <1>6, <1>7 DEF Next

LEMMA FreshInvariant == Dependable /\ Countable /\ Spec => []FreshInv
<1>. SUFFICES ASSUME Dependable, Countable PROVE Spec => []FreshInv
  BY DEF Dependable, Countable
<1>. QED
  BY FreshInit, FreshNext, PTL DEF Spec

-----------------------------------------------------------------------------
(* The theorems.                                                            *)

\* The servers behind a get and those behind the put before it have one in
\* common.
LEMMA QuorumsMeet ==
  ASSUME Overlapping, NEW k \in Key, NEW A \in SUBSET Nodes[k], NEW B \in SUBSET Nodes[k],
         Cardinality(A) >= R, Cardinality(B) >= W
  PROVE  A \cap B # {}
<1>1. Nodes[k] \in SUBSET Server /\ IsFiniteSet(Nodes[k]) /\ Cardinality(Nodes[k]) = N
  BY PlacementAssumption, ServersFinite
<1>2. /\ Cardinality(A) \in Nat /\ Cardinality(B) \in Nat
  BY <1>1, ServersFinite
<1>3. Cardinality(A) + Cardinality(B) > Cardinality(Nodes[k])
  BY <1>1, <1>2, OptionAssumption DEF Overlapping
<1>. QED
  BY <1>1, <1>3, FS_MajoritiesIntersect

LEMMA InvariantIsFresh ==
  ASSUME Overlapping, FreshInv
  PROVE  Fresh
<1>. SUFFICES ASSUME NEW g \in Call, Got(g), op[g].key # EmptyKey, expect[g] # NoValue
              PROVE  value[g] = expect[g]
  BY DEF Fresh
<1>. DEFINE k == op[g].key
            p == owner[k]
<1>0. QuorumInv /\ TypeOK /\ k \in Key /\ value[g] \in Value
  BY DEF FreshInv, QuorumInv, TypeOK, Operation, GotValue
<1>1. PICK A \in SUBSET Server :
        /\ Cardinality(A) >= R
        /\ \A s \in A : [call |-> g, from |-> s, body |-> value[g]] \in sent
  BY <1>0 DEF QuorumInv, GetHasQuorum
<1>2. PICK B \in SUBSET StoredAt(p) :
        /\ Cardinality(B) >= W
        /\ \A m \in sent : m.call = g /\ m.from \in B => m.body \in {expect[g], NotFound}
  BY DEF FreshInv, PromiseKept, Bound
<1>3. A \subseteq Nodes[k]
  <2>. SUFFICES ASSUME NEW s \in A PROVE s \in Nodes[k]
    OBVIOUS
  <2>1. [call |-> g, from |-> s, body |-> value[g]] \in sent
    BY <1>1
  <2>. QED
    BY <1>0, <2>1 DEF QuorumInv, Addressed
<1>4. B \subseteq Nodes[k]
  <2>1. p # NoCall /\ p \in Call /\ op[p].key = k
    BY <1>0 DEF FreshInv, PromiseKept, OwnerIsLast
  <2>. QED
    BY <1>0, <2>1 DEF QuorumInv, Addressed, StoredAt
<1>5. PICK s \in A \cap B : TRUE
  BY <1>0, <1>1, <1>2, <1>3, <1>4, QuorumsMeet
<1>6. value[g] \in {expect[g], NotFound}
  BY <1>1, <1>2, <1>5
<1>. QED
  BY <1>0, <1>6, DataAssumption

\* With R + W > N, a get that begins after a put has succeeded returns the
\* value of that put or fails, unless another put begins meanwhile; messages
\* may be lost or late, and servers may restart.
THEOREM GetsAreFresh ==
  Dependable /\ Countable /\ Overlapping /\ Spec => []Fresh
<1>. SUFFICES ASSUME Dependable, Countable, Overlapping PROVE Spec => []Fresh
  BY DEF Dependable, Countable, Overlapping
<1>1. FreshInv => Fresh
  BY InvariantIsFresh
<1>. QED
  BY <1>1, FreshInvariant, PTL

\* As long as no other put on the key begins, a put that has succeeded stays
\* with W servers: those that never restart have its value, the others have it
\* or nothing.
THEOREM PutsAreDurable ==
  Dependable /\ Countable /\ EmptyKey \notin Key /\ Spec => []Durable
<1>. SUFFICES ASSUME Dependable, Countable, EmptyKey \notin Key
              PROVE  Spec => []Durable
  BY DEF Dependable, Countable
<1>1. ASSUME FreshInv, NEW k \in Key, owner[k] # NoCall, status[owner[k]] = "ok"
      PROVE  \E Q \in SUBSET Server :
               /\ Cardinality(Q) >= W
               /\ \A s \in Q : Keeps(s, k, op[owner[k]].val)
  <2>1. owner[k] \in Call /\ StoringPut(owner[k])
    BY <1>1 DEF FreshInv, OwnerIsLast, StoringPut
  <2>2. Cardinality(StoredAt(owner[k])) >= W /\ StoredAt(owner[k]) \in SUBSET Server
    BY <1>1, <2>1, AnsweredType DEF FreshInv, QuorumInv, PutHasQuorum
  <2>3. \A s \in StoredAt(owner[k]) : Keeps(s, k, op[owner[k]].val)
    BY <1>1, <2>2 DEF FreshInv, ReplicasAgree, Keeps
  <2>. QED
    BY <2>2, <2>3
<1>2. FreshInv => Durable
  BY <1>1 DEF Durable
<1>. QED
  BY <1>2, FreshInvariant, PTL

-----------------------------------------------------------------------------
(* The refinement of one register per key: initial states map to initial    *)
(* states, and every step to a step of Register or to none.                 *)


\* A call has a value only when it has succeeded.
NoResult == \A c \in Call : status[c] # "ok" => value[c] = NoValue

RefinementInv == FreshInv /\ NoResult

LEMMA NoResultNext ==
  ASSUME Dependable, FreshInv, NoResult, [Next]_vars
  PROVE  NoResult'
<1>0. TypeOK /\ TypeOK'
  BY NextTypeOK DEF FreshInv, QuorumInv
<1>1. ASSUME NEW c \in Call, Begin(c) PROVE NoResult'
  <2>1. status[c] = "idle" /\ UNCHANGED value
    BY <1>1, BeginStep
  <2>2. \A b \in Call : status'[b] = IF b = c THEN "waiting" ELSE status[b]
    BY <1>0, <1>1, BeginStep DEF TypeOK
  <2>. QED
    BY <2>1, <2>2 DEF NoResult
<1>2. ASSUME NEW c \in Call, Read(c) PROVE NoResult'
  <2>1. ASSUME NEW s, NEW v, status' = [status EXCEPT ![c] = s], value' = [value EXCEPT ![c] = v],
               s = "ok" \/ v = NoValue
        PROVE  NoResult'
    <3>1. /\ status'[c] = s /\ value'[c] = v
          /\ \A b \in Call \ {c} : status'[b] = status[b] /\ value'[b] = value[b]
      BY <1>0, <2>1 DEF TypeOK
    <3>. QED
      BY <2>1, <3>1 DEF NoResult
  <2>2. CASE UNCHANGED <<status, value>>
    BY <2>2 DEF NoResult
  <2>3. CASE Fails(c)
    BY <2>1, <2>3 DEF Fails
  <2>4. ASSUME NEW v, Return(c, "ok", v)
        PROVE  NoResult'
    BY <2>1, <2>4 DEF Return
  <2>. QED
    BY <1>2, <2>2, <2>3, <2>4, ReadStep
<1>3. ASSUME NEW c \in Call, NEW s \in Server, Serve(c, s) PROVE NoResult'
  <2>1. UNCHANGED <<status, value>>
    BY <1>0, <1>3, ServeStep, DumpStep, DependableFaults
  <2>. QED
    BY <2>1 DEF NoResult
<1>4. CASE UNCHANGED <<status, value>>
  BY <1>4 DEF NoResult
<1>. QED
  BY <1>1, <1>2, <1>3, <1>4 DEF Next, LoseRequest, LoseAnswer, Crash, vars

LEMMA RefinementInvariant == Dependable /\ Countable /\ Spec => []RefinementInv
<1>. SUFFICES ASSUME Dependable, Countable PROVE Spec => []RefinementInv
  BY DEF Dependable, Countable
<1>1. Init => RefinementInv
  BY FreshInit DEF RefinementInv, NoResult, Init
<1>2. RefinementInv /\ [Next]_vars => RefinementInv'
  BY FreshNext, NoResultNext DEF RefinementInv
<1>. QED
  BY <1>1, <1>2, PTL DEF Spec

-----------------------------------------------------------------------------
(* The steps.                                                               *)

\* The variables of Register are functions of these four.
LEMMA Invisible ==
  ASSUME UNCHANGED <<op, expect, value>>, \A k \in Key : Settled(k)' = Settled(k)
  PROVE  UNCHANGED Abstract!rvars
BY DEF Abstract!rvars

\* The register of a key depends on its owner alone.
LEMMA SettledByOwner ==
  ASSUME FreshInv, NEW k \in Key, op' = op, owner'[k] = owner[k],
         owner[k] # NoCall => (status'[owner[k]] = "ok" <=> status[owner[k]] = "ok")
  PROVE  Settled(k)' = Settled(k)
BY DEF Settled

LEMMA BeginRefines ==
  ASSUME Dependable, FreshInv, NEW c \in Call, Begin(c)
  PROVE  [Abstract!RNext]_Abstract!rvars
<1>. DEFINE k == op[c].key
<1>0. TypeOK /\ k \in Key
  BY DEF FreshInv, QuorumInv, TypeOK, Operation
<1>1. op' = op /\ value' = value /\ status' = [status EXCEPT ![c] = "waiting"]
  BY BeginStep
<1>2. ASSUME NEW j \in Key, owner'[j] = owner[j], owner[j] # c
      PROVE  Settled(j)' = Settled(j)
  <2>1. owner[j] # NoCall => owner[j] \in Call
    BY DEF FreshInv, OwnerIsLast
  <2>. QED
    BY <1>0, <1>1, <1>2, <2>1, SettledByOwner DEF TypeOK
<1>3. CASE StartGet(c)
  <2>1. IsGet(c) /\ owner' = owner /\ expect' = [expect EXCEPT ![c] = Settled(k)]
    BY <1>3 DEF StartGet, GetBegins
  <2>2. \A j \in Key : owner[j] # c
    BY <2>1, DataAssumption DEF FreshInv, OwnerIsLast
  <2>3. \A j \in Key : Settled(j)' = Settled(j)
    BY <1>2, <2>1, <2>2
  <2>4. Abstract!BeginGet(c)
    BY <1>0, <1>1, <2>1, <2>3 DEF Abstract!BeginGet
  <2>. QED
    BY <2>4 DEF Abstract!RNext
<1>4. CASE StartPut(c)
  <2>1. /\ owner' = [owner EXCEPT ![k] = IF PutsOnTheWay(k) = {} THEN c ELSE NoCall]
        /\ expect' = [g \in Call |-> IF op[g].key = k THEN NoValue ELSE expect[g]]
        /\ status[c] = "idle"
    BY <1>4 DEF StartPut, PutBegins
  <2>2. Settled(k)' = NoValue
    <3>1. owner'[k] \in {c, NoCall} /\ status'[c] = "waiting"
      BY <1>0, <1>1, <2>1 DEF TypeOK
    <3>. QED
      BY <1>1, <3>1 DEF Settled
  <2>3. ASSUME NEW j \in Key, j # k PROVE Settled(j)' = Settled(j)
    <3>1. owner'[j] = owner[j]
      BY <1>0, <2>1, <2>3 DEF TypeOK
    <3>2. owner[j] # c
      BY <2>1, <2>3, DataAssumption DEF FreshInv, OwnerIsLast
    <3>. QED
      BY <1>2, <3>1, <3>2
  <2>4. Abstract!BeginPut(k)
    BY <1>0, <1>1, <2>1, <2>2, <2>3 DEF Abstract!BeginPut
  <2>. QED
    BY <1>0, <2>4 DEF Abstract!RNext
<1>. QED
  BY <1>3, <1>4, DependableFaults DEF Begin, FailEarly, PutWithoutSocket

LEMMA ReadRefines ==
  ASSUME Dependable, RefinementInv, FreshInv', Fresh', EmptyKey \notin Key,
         NEW c \in Call, Read(c)
  PROVE  [Abstract!RNext]_Abstract!rvars
<1>. DEFINE k == op[c].key
<1>0. TypeOK /\ k \in Key /\ op[c] \in Operation
  BY DEF RefinementInv, FreshInv, QuorumInv, TypeOK, Operation
<1>1. /\ op' = op /\ owner' = owner /\ expect' = expect
      /\ status[c] = "waiting" /\ value[c] = NoValue
  BY ReadStep DEF history, RefinementInv, NoResult
<1>2. ASSUME NEW j \in Key, \A b \in Call \ {c} : status'[b] = status[b],
             owner[j] = c => status'[c] # "ok"
      PROVE  Settled(j)' = Settled(j)
  <2>1. owner[j] # NoCall => owner[j] \in Call
    BY DEF RefinementInv, FreshInv, OwnerIsLast
  <2>2. owner[j] # NoCall => (status'[owner[j]] = "ok" <=> status[owner[j]] = "ok")
    BY <1>1, <1>2, <2>1
  <2>. QED
    BY <1>1, <2>2, SettledByOwner DEF RefinementInv
<1>3. CASE UNCHANGED <<status, value>>
  <2>1. \A j \in Key : Settled(j)' = Settled(j)
    BY <1>1, <1>3, SettledByOwner DEF RefinementInv
  <2>. QED
    BY <1>1, <1>3, <2>1, Invisible
<1>4. CASE Fails(c)
  <2>1. value' = value /\ status'[c] # "ok" /\ \A b \in Call \ {c} : status'[b] = status[b]
    BY <1>0, <1>1, <1>4 DEF Fails, TypeOK
  <2>. QED
    BY <1>1, <1>2, <2>1, Invisible
<1>5. CASE IsGet(c) /\ \E m \in Heard(c) : m.body # NotFound /\ Return(c, "ok", m.body)
  <2>1. PICK m \in Heard(c) : m.body # NotFound /\ Return(c, "ok", m.body)
    BY <1>5
  <2>2. /\ m.body \in Value /\ value' = [value EXCEPT ![c] = m.body]
        /\ value'[c] = m.body
        /\ Got(c)' /\ \A b \in Call \ {c} : status'[b] = status[b]
    BY <1>0, <1>1, <1>5, <2>1 DEF Heard, TypeOK, Reply, Return, Got
  <2>3. expect[c] \in {m.body, NoValue}
    BY <1>0, <1>1, <2>2 DEF Fresh
  <2>4. \A j \in Key : owner[j] # c
    BY <1>5, DataAssumption DEF RefinementInv, FreshInv, OwnerIsLast
  <2>5. \A j \in Key : Settled(j)' = Settled(j)
    BY <1>2, <2>2, <2>4
  <2>6. Abstract!EndGet(c, m.body)
    BY <1>1, <2>2, <2>3, <2>5 DEF Abstract!EndGet
  <2>. QED
    BY <2>2, <2>6 DEF Abstract!RNext
<1>6. CASE IsPut(c) /\ Return(c, "ok", NoValue)
  <2>1. /\ value' = value /\ status'[c] = "ok"
        /\ \A b \in Call \ {c} : status'[b] = status[b]
    BY <1>0, <1>1, <1>6 DEF Return, TypeOK
  <2>2. \A j \in Key : owner[j] = c => j = k
    BY DataAssumption DEF RefinementInv, FreshInv, OwnerIsLast
  <2>3. CASE owner[k] = c
    <3>1. c # NoCall /\ op[c].val \in Value
      BY <1>0, <1>6, DataAssumption DEF Operation
    <3>2. Settled(k) = NoValue /\ Settled(k)' = op[c].val
      BY <1>1, <2>1, <2>3, <3>1 DEF Settled
    <3>3. \A j \in Key : j # k => Settled(j)' = Settled(j)
      BY <1>2, <2>1, <2>2
    <3>4. Abstract!Settle(k, op[c].val)
      BY <1>0, <1>1, <2>1, <3>2, <3>3 DEF Abstract!Settle
    <3>. QED
      BY <1>0, <3>1, <3>4 DEF Abstract!RNext
  <2>4. CASE owner[k] # c
    <3>1. \A j \in Key : Settled(j)' = Settled(j)
      BY <1>2, <2>1, <2>2, <2>4
    <3>. QED
      BY <1>1, <2>1, <3>1, Invisible
  <2>. QED
    BY <2>3, <2>4
<1>. QED
  BY <1>3, <1>4, <1>5, <1>6, ReadStep

LEMMA NextRefines ==
  ASSUME Dependable, RefinementInv, FreshInv', Fresh', EmptyKey \notin Key, [Next]_vars
  PROVE  [Abstract!RNext]_Abstract!rvars
<1>1. ASSUME NEW c \in Call, Begin(c) PROVE [Abstract!RNext]_Abstract!rvars
  BY <1>1, BeginRefines DEF RefinementInv
<1>2. ASSUME NEW c \in Call, Read(c) PROVE [Abstract!RNext]_Abstract!rvars
  BY <1>2, ReadRefines
<1>3. CASE UNCHANGED <<op, status, value, owner, expect>>
  <2>1. \A k \in Key : Settled(k)' = Settled(k)
    BY <1>3, SettledByOwner DEF RefinementInv
  <2>. QED
    BY <1>3, <2>1, Invisible
<1>4. ASSUME NEW c \in Call, NEW s \in Server, Serve(c, s)
      PROVE  UNCHANGED <<op, status, value, owner, expect>>
  BY <1>4, ServeStep, DumpStep, DependableFaults DEF RefinementInv, FreshInv, QuorumInv, history
<1>5. ASSUME NEW s \in Server, Crash(s)
      PROVE  UNCHANGED <<op, status, value, owner, expect>>
  BY <1>5 DEF Crash, history
<1>6. ASSUME NEW c \in Call, LoseAnswer(c) \/ \E s \in Server : LoseRequest(c, s)
      PROVE  UNCHANGED <<op, status, value, owner, expect>>
  BY <1>6 DEF LoseAnswer, LoseRequest, history
<1>7. ASSUME UNCHANGED vars PROVE UNCHANGED <<op, status, value, owner, expect>>
  BY <1>7 DEF vars, history
<1>. QED
  BY <1>1, <1>2, <1>3, <1>4, <1>5, <1>6, <1>7 DEF Next

\* With R + W > N the clients see one register per key, whatever is lost, late
\* or restarted.
THEOREM StoreImplementsRegister ==
  Dependable /\ Countable /\ Overlapping /\ EmptyKey \notin Key /\ Spec
    => ImplementsRegister
<1>. SUFFICES ASSUME Dependable, Countable, Overlapping, EmptyKey \notin Key
              PROVE  Spec => ImplementsRegister
  BY DEF Dependable, Countable, Overlapping
<1>1. Init => Abstract!RInit
  <2>. SUFFICES ASSUME Init PROVE Abstract!RInit
    OBVIOUS
  <2>1. \A k \in Key : Settled(k) = NoValue
    BY DEF Init, Settled
  <2>2. \A c \in Call : op[c].key \in Key
    BY PlanAssumption DEF Init, Operation
  <2>. QED
    BY <2>1, <2>2 DEF Init, Abstract!RInit
<1>2. RefinementInv => Fresh /\ FreshInv
  BY InvariantIsFresh DEF RefinementInv
<1>3. RefinementInv /\ (Fresh /\ FreshInv)' /\ [Next]_vars => [Abstract!RNext]_Abstract!rvars
  BY NextRefines
<1>. QED
  BY <1>1, <1>2, <1>3, RefinementInvariant, PTL DEF Spec, ImplementsRegister, Abstract!RSpec

-----------------------------------------------------------------------------
(* Gets agree with each other between two puts, whatever became of the last *)
(* put: once no put request is on its way to a key, no table changes for it *)
(* but by a restart, so that a server never answers two values; and two     *)
(* majorities share a server.                                               *)


\* Any two sets of R of the N servers of a key have a server in common.
Majority == R + R > N

\* A quiet get has begun, and no put can reach its key.
QuietKeys ==
  \A g \in quiet :
    /\ IsGet(g) /\ status[g] # "idle"
    /\ \A c \in Call, s \in Server :
         <<c, s>> \in requests /\ IsPut(c) => op[c].key # op[g].key

QuietAnswer(m) == m \in sent /\ m.call \in quiet /\ op[m.call].key # EmptyKey

\* What a server has answered is what it still has, unless it has restarted.
AnswersAreKept ==
  \A m \in sent :
    QuietAnswer(m) =>
      \/ m.body = NotFound
      \/ table[m.from][op[m.call].key] \in {m.body, NoValue}

\* A server does not answer two values.
AnswersAgree ==
  \A m, n \in sent :
    /\ QuietAnswer(m) /\ QuietAnswer(n)
    /\ m.from = n.from
    /\ op[m.call].key = op[n.call].key
    => m.body = n.body \/ NotFound \in {m.body, n.body}

EmptyAnswers ==
  \A m \in sent : op[m.call].key = EmptyKey => m.body = EmptyValue

AgreementInv == FreshInv /\ QuietKeys /\ AnswersAreKept /\ AnswersAgree /\ EmptyAnswers

-----------------------------------------------------------------------------

\* Steps that send nothing, begin nothing and store nothing.
LEMMA AgreementQuiet ==
  ASSUME AgreementInv, FreshInv',
         requests' \subseteq requests, UNCHANGED <<op, sent, quiet>>,
         \A c \in Call : status[c] # "idle" => status'[c] # "idle",
         \A s \in Server, k \in Key : table'[s][k] \in {table[s][k], NoValue}
  PROVE  AgreementInv'
<1>. USE DEF AgreementInv
<1>0. TypeOK
  BY DEF FreshInv, QuorumInv
<1>1. QuietKeys'
  BY <1>0 DEF QuietKeys, TypeOK
<1>2. AnswersAreKept'
  <2>. SUFFICES ASSUME NEW m \in sent, QuietAnswer(m), m.body # NotFound
                PROVE  table'[m.from][op[m.call].key] \in {m.body, NoValue}
    BY DEF AnswersAreKept, QuietAnswer
  <2>1. m.from \in Server /\ op[m.call].key \in Key
    BY <1>0 DEF TypeOK, Reply, Operation
  <2>. QED
    BY <2>1 DEF AnswersAreKept
<1>3. AnswersAgree' /\ EmptyAnswers'
  BY DEF AnswersAgree, EmptyAnswers, QuietAnswer
<1>. QED
  BY <1>1, <1>2, <1>3

LEMMA AgreementBegin ==
  ASSUME Dependable, AgreementInv, FreshInv', NEW c \in Call, Begin(c)
  PROVE  AgreementInv'
<1>. USE DEF AgreementInv
<1>0. TypeOK
  BY DEF FreshInv, QuorumInv
<1>1. /\ status[c] = "idle" /\ status' = [status EXCEPT ![c] = "waiting"]
      /\ requests' = requests \cup ({c} \X Nodes[op[c].key])
      /\ UNCHANGED <<table, op, sent>>
  BY BeginStep
<1>2. \A m \in sent : m.call # c
  BY <1>1 DEF FreshInv, QuorumInv, Addressed
<1>3. quiet' \subseteq quiet \cup {c}
  BY DependableFaults
     DEF Begin, StartGet, StartPut, FailEarly, PutWithoutSocket, GetBegins, PutBegins
<1>4. \A m \in sent : QuietAnswer(m)' => QuietAnswer(m)
  BY <1>1, <1>2, <1>3 DEF QuietAnswer
<1>5. AnswersAreKept' /\ AnswersAgree' /\ EmptyAnswers'
  BY <1>1, <1>4 DEF AnswersAreKept, AnswersAgree, EmptyAnswers
<1>6. QuietKeys'
  <2>. SUFFICES ASSUME NEW g \in quiet'
                PROVE  /\ IsGet(g) /\ status'[g] # "idle"
                       /\ \A b \in Call, s \in Server :
                            <<b, s>> \in requests' /\ IsPut(b) => op[b].key # op[g].key
    BY <1>1 DEF QuietKeys
  <2>1. CASE StartGet(c)
    <3>1. IsGet(c) /\ quiet' = IF PutsOnTheWay(op[c].key) = {} THEN quiet \cup {c} ELSE quiet
      BY <2>1 DEF StartGet, GetBegins
    <3>2. ASSUME NEW b \in Call, NEW s \in Server, <<b, s>> \in requests', IsPut(b)
          PROVE  <<b, s>> \in requests
      BY <1>1, <3>1, <3>2
    <3>3. CASE g \in quiet
      BY <1>0, <1>1, <3>2, <3>3 DEF QuietKeys, TypeOK
    <3>4. CASE g = c /\ PutsOnTheWay(op[c].key) = {}
      <4>1. \A b \in Call, s \in Server :
              <<b, s>> \in requests /\ IsPut(b) => op[b].key # op[c].key
        BY <3>4 DEF PutsOnTheWay
      <4>. QED
        BY <1>0, <1>1, <3>1, <3>2, <3>4, <4>1 DEF TypeOK
    <3>. QED
      BY <3>1, <3>3, <3>4
  <2>2. CASE StartPut(c)
    <3>1. g \in quiet /\ op[g].key # op[c].key
      BY <2>2 DEF StartPut, PutBegins
    <3>. QED
      BY <1>0, <1>1, <3>1 DEF QuietKeys, TypeOK
  <2>. QED
    BY <2>1, <2>2, DependableFaults DEF Begin, FailEarly, PutWithoutSocket
<1>. QED
  BY <1>5, <1>6

LEMMA AgreementServe ==
  ASSUME Dependable, AgreementInv, FreshInv',
         NEW c \in Call, NEW s \in Server, Serve(c, s), ~ServeDump(c, s)
  PROVE  AgreementInv'
<1>. USE DEF AgreementInv
<1>0. TypeOK
  BY DEF FreshInv, QuorumInv
<1>1. /\ <<c, s>> \in requests /\ requests' = requests \ {<<c, s>>}
      /\ UNCHANGED <<op, status, quiet>>
      /\ table' = IF StoringPut(c) THEN WithEntry(s, op[c].key, op[c].val) ELSE table
  BY <1>0, ServeStep
<1>2. PICK body : Body(c, s, body) /\ Answer(c, s, body)
  BY <1>0, ServeStep
<1>. DEFINE reply == [call |-> c, from |-> s, body |-> body]
<1>3. sent' \subseteq sent \cup {reply} /\ (reply \in sent' \ sent => IsGet(c))
  BY <1>2 DEF Answer
<1>4. QuietKeys'
  BY <1>1 DEF QuietKeys
<1>5. ASSUME NEW m \in sent \cup {reply}, m.call \in quiet
      PROVE  table'[m.from][op[m.call].key] = table[m.from][op[m.call].key]
  <2>1. m.from \in Server /\ op[m.call].key \in Key /\ op[c].key \in Key
    BY <1>0 DEF TypeOK, Reply, Operation
  <2>2. StoringPut(c) => op[c].key # op[m.call].key
    BY <1>1, <1>5 DEF QuietKeys, StoringPut
  <2>. QED
    BY <1>0, <1>1, <2>1, <2>2 DEF WithEntry, TypeOK
<1>6. ASSUME IsGet(c), op[c].key # EmptyKey
      PROVE  body = NotFound \/ body = table[s][op[c].key]
  BY <1>2, <1>6 DEF Body
<1>7. body # NotFound => body # NoValue
  BY <1>2, DataAssumption DEF Body
<1>8. AnswersAreKept'
  <2>. SUFFICES ASSUME NEW m \in sent', m.call \in quiet, op[m.call].key # EmptyKey,
                       m.body # NotFound
                PROVE  table'[m.from][op[m.call].key] \in {m.body, NoValue}
    BY <1>1 DEF AnswersAreKept, QuietAnswer
  <2>1. CASE m \in sent
    BY <1>5, <2>1 DEF AnswersAreKept, QuietAnswer
  <2>2. CASE m = reply /\ m \notin sent
    BY <1>3, <1>5, <1>6, <2>2
  <2>. QED
    BY <1>3, <2>1, <2>2
<1>9. AnswersAgree'
  <2>1. ASSUME NEW m \in sent, reply \in sent' \ sent, QuietAnswer(m), c \in quiet,
               m.from = s, op[m.call].key = op[c].key
        PROVE  m.body = body \/ m.body = NotFound \/ body = NotFound
    BY <1>3, <1>6, <1>7, <2>1 DEF AnswersAreKept, QuietAnswer
  <2>. SUFFICES ASSUME NEW m \in sent', NEW n \in sent', QuietAnswer(m)', QuietAnswer(n)',
                       m.from = n.from, op[m.call].key = op[n.call].key
                PROVE  m.body = n.body \/ m.body = NotFound \/ n.body = NotFound
    BY <1>1 DEF AnswersAgree
  <2>2. /\ m.call \in quiet /\ op[m.call].key # EmptyKey
        /\ n.call \in quiet /\ op[n.call].key # EmptyKey
    BY <1>1 DEF QuietAnswer
  <2>3. CASE m \in sent /\ n \in sent
    BY <2>2, <2>3 DEF AnswersAgree, QuietAnswer
  <2>4. CASE m \in sent /\ n \notin sent
    BY <1>3, <2>1, <2>2, <2>4 DEF QuietAnswer
  <2>5. CASE m \notin sent /\ n \in sent
    BY <1>3, <2>1, <2>2, <2>5 DEF QuietAnswer
  <2>6. CASE m \notin sent /\ n \notin sent
    BY <1>3, <2>6
  <2>. QED
    BY <2>3, <2>4, <2>5, <2>6
<1>10. EmptyAnswers'
  <2>1. op[c].key = EmptyKey /\ IsGet(c) => \E b : b = EmptyValue /\ Answer(c, s, b)
    BY DEF Serve, ServePing, ServeDump, ServeGet, ServePut
  <2>2. op[c].key = EmptyKey /\ IsGet(c) => sent' \subseteq sent \cup {[call |-> c, from |-> s, body |-> EmptyValue]}
    BY <2>1 DEF Answer
  <2>. QED
    BY <1>1, <1>3, <2>2 DEF EmptyAnswers
<1>. QED
  BY <1>4, <1>8, <1>9, <1>10

LEMMA AgreementNext ==
  ASSUME Dependable, Countable, AgreementInv, [Next]_vars
  PROVE  AgreementInv'
<1>0. FreshInv' /\ TypeOK
  BY FreshNext DEF AgreementInv, FreshInv, QuorumInv
<1>1. ASSUME NEW c \in Call, Begin(c) PROVE AgreementInv'
  BY <1>0, <1>1, AgreementBegin
<1>2. ASSUME NEW c \in Call, NEW s \in Server, Serve(c, s) PROVE AgreementInv'
  <2>1. CASE ServeDump(c, s)
    <3>0. TakeRequest(c, s) /\ UNCHANGED <<table, op, status, history>>
      BY <1>0, <2>1, DumpStep, DependableFaults
    <3>1. requests' \subseteq requests /\ UNCHANGED <<table, op, status, history>>
      BY <3>0 DEF TakeRequest
    <3>. QED
      BY <1>0, <3>1, AgreementQuiet DEF history
  <2>. QED
    BY <1>0, <1>2, <2>1, AgreementServe
<1>3. CASE /\ requests' \subseteq requests /\ UNCHANGED <<table, sent, quiet>>
  BY <1>0, <1>3, Begun, AgreementQuiet
<1>4. ASSUME NEW s \in Server, Crash(s) PROVE AgreementInv'
  <2>1. \A t \in Server, k \in Key : table'[t][k] \in {table[t][k], NoValue}
    BY <1>0, <1>4 DEF Crash, Emptied, TypeOK
  <2>. QED
    BY <1>0, <1>4, <2>1, Begun, AgreementQuiet DEF Crash, history
<1>5. ASSUME NEW c \in Call, Read(c)
      PROVE  requests' \subseteq requests /\ UNCHANGED <<table, sent, quiet>>
  BY <1>5, ReadStep DEF history
<1>. QED
  BY <1>1, <1>2, <1>3, <1>4, <1>5 DEF Next, LoseRequest, LoseAnswer, vars, history

LEMMA MajoritiesMeet ==
  ASSUME Majority, NEW k \in Key, NEW A \in SUBSET Nodes[k], NEW B \in SUBSET Nodes[k],
         Cardinality(A) >= R, Cardinality(B) >= R
  PROVE  A \cap B # {}
<1>1. Nodes[k] \in SUBSET Server /\ IsFiniteSet(Nodes[k]) /\ Cardinality(Nodes[k]) = N
  BY PlacementAssumption, ServersFinite
<1>2. Cardinality(A) \in Nat /\ Cardinality(B) \in Nat
  BY <1>1, ServersFinite
<1>3. Cardinality(A) + Cardinality(B) > Cardinality(Nodes[k])
  BY <1>1, <1>2, OptionAssumption DEF Majority
<1>. QED
  BY <1>1, <1>3, FS_MajoritiesIntersect

\* A successful get has the answers of R of the servers of its key.
LEMMA Answered ==
  ASSUME FreshInv, NEW g \in Call, Got(g)
  PROVE  \E Q \in SUBSET Nodes[op[g].key] :
           /\ Cardinality(Q) >= R
           /\ \A s \in Q : [call |-> g, from |-> s, body |-> value[g]] \in sent
<1>1. PICK Q \in SUBSET Server :
        /\ Cardinality(Q) >= R
        /\ \A s \in Q : [call |-> g, from |-> s, body |-> value[g]] \in sent
  BY DEF FreshInv, QuorumInv, GetHasQuorum
<1>2. ASSUME NEW s \in Q PROVE s \in Nodes[op[g].key]
  <2>1. [call |-> g, from |-> s, body |-> value[g]] \in sent
    BY <1>1
  <2>. QED
    BY <2>1 DEF FreshInv, QuorumInv, Addressed
<1>. QED
  BY <1>1, <1>2

LEMMA InvariantAgrees ==
  ASSUME Majority, AgreementInv
  PROVE  AgreeingReads
<1>. SUFFICES ASSUME NEW g \in quiet, NEW h \in quiet, Got(g), Got(h), op[g].key = op[h].key
              PROVE  value[g] = value[h]
  BY DEF AgreeingReads
<1>0. /\ FreshInv /\ g \in Call /\ h \in Call /\ op[g].key \in Key
      /\ value[g] \in Value /\ value[h] \in Value
  BY DEF AgreementInv, FreshInv, QuorumInv, GotValue, TypeOK, Operation
<1>1. PICK A \in SUBSET Nodes[op[g].key] :
        /\ Cardinality(A) >= R
        /\ \A s \in A : [call |-> g, from |-> s, body |-> value[g]] \in sent
  BY <1>0, Answered
<1>2. PICK B \in SUBSET Nodes[op[h].key] :
        /\ Cardinality(B) >= R
        /\ \A s \in B : [call |-> h, from |-> s, body |-> value[h]] \in sent
  BY <1>0, Answered
<1>3. PICK s \in A \cap B : TRUE
  BY <1>0, <1>1, <1>2, MajoritiesMeet
<1>. DEFINE m == [call |-> g, from |-> s, body |-> value[g]]
            n == [call |-> h, from |-> s, body |-> value[h]]
<1>4. m \in sent /\ n \in sent
  BY <1>1, <1>2, <1>3
<1>5. CASE op[g].key = EmptyKey
  BY <1>4, <1>5 DEF AgreementInv, EmptyAnswers
<1>6. CASE op[g].key # EmptyKey
  <2>1. QuietAnswer(m) /\ QuietAnswer(n)
    BY <1>4, <1>6 DEF QuietAnswer
  <2>2. value[g] = value[h] \/ NotFound \in {value[g], value[h]}
    BY <1>4, <2>1 DEF AgreementInv, AnswersAgree
  <2>. QED
    BY <1>0, <2>2, DataAssumption
<1>. QED
  BY <1>5, <1>6

\* With a majority of answers, all the gets that succeed between two puts on a
\* key return the same value, even if the last put has failed; messages may be
\* lost or late, and servers may restart.
THEOREM GetsAgree ==
  Dependable /\ Countable /\ Majority /\ Spec => []AgreeingReads
<1>. SUFFICES ASSUME Dependable, Countable, Majority PROVE Spec => []AgreeingReads
  BY DEF Dependable, Countable, Majority
<1>1. Init => AgreementInv
  BY FreshInit DEF Init, AgreementInv, QuietKeys, AnswersAreKept, AnswersAgree, EmptyAnswers
<1>2. AgreementInv /\ [Next]_vars => AgreementInv'
  BY AgreementNext
<1>3. AgreementInv => AgreeingReads
  BY InvariantAgrees
<1>. QED
  BY <1>1, <1>2, <1>3, PTL DEF Spec
=============================================================================
