----------------------------- MODULE DHTQuorum -----------------------------
(***************************************************************************)
(* Proofs of the quorum properties of DHT: a get that succeeds has R       *)
(* servers behind it, a put that succeeds has W, and when R + W > N the    *)
(* two sets meet, so that the get returns what was put.                    *)
(*                                                                         *)
(* network_get and network_put never look at the address an answer comes   *)
(* from.  What they count is still the number of servers as long as each   *)
(* server answers a request once, hence no datagram may be duplicated; and *)
(* an acknowledgement stands for a stored value only while add_Htable_value *)
(* does not run out of memory.  Any datagram may be lost or late, and any  *)
(* server may restart.                                                     *)
(***************************************************************************)
EXTENDS DHTProofs

USE DEF IsGet, IsPut

\* Memory is not exhausted, no socket() fails, the network does not duplicate.
Dependable == {"duplicate", "nomem", "socket"} \cap Faults = {}

\* What one (signed) character of the vote table can count.
Countable == R <= 128

\* The puts the server stores: all but the put of "" under "".
StoringPut(c) == IsPut(c) /\ (op[c].key # EmptyKey \/ op[c].val # EmptyValue)

StoredAt(p) == {s \in Server : <<p, s>> \in stored}
Pending(c) == {s \in Server : \E m \in Heard(c) : m.from = s}
Acked(p) == StoredAt(p) \ Pending(p)
AnsweredBy(g, v) ==
  {s \in Server : [call |-> g, from |-> s, body |-> v] \in sent \ replies}

\* A server from which an answer came, or that stored a put, has no request of
\* that call left.
OneDatagram ==
  \A c \in Call, s \in Server :
    <<c, s>> \in requests =>
      /\ status[c] # "idle"
      /\ s \in Nodes[op[c].key]
      /\ <<c, s>> \notin stored
      /\ \A m \in replies \cup sent : m.call = c => m.from # s

\* Nothing happens for a call that has not begun, nor at a server it is not
\* addressed to.
Addressed ==
  /\ \A m \in replies \cup sent :
       status[m.call] # "idle" /\ m.from \in Nodes[op[m.call].key]
  /\ \A c \in Call, s \in Server :
       <<c, s>> \in stored => status[c] # "idle" /\ s \in Nodes[op[c].key]
  /\ \A c \in Call : status[c] = "idle" => received[c] = 0

\* The answers on the network are those of calls that read.
Expected ==
  \A m \in replies :
    /\ status[m.call] = "waiting"
    /\ IsGet(m.call) => m \in sent
    /\ StoringPut(m.call) => m.body = EmptyValue

\* A get that reads has no quorum, and each vote is the answer of a server.
VotesAreAnswers ==
  \A g \in Call, v \in Value :
    tally[g][v] < R /\ tally[g][v] <= Cardinality(AnsweredBy(g, v))

\* Each acknowledgement comes from another server, which has stored the put.
AcksAreStores ==
  \A p \in Call :
    StoringPut(p) /\ status[p] \in {"idle", "waiting"} =>
      Pending(p) \subseteq StoredAt(p) /\ received[p] <= Cardinality(Acked(p))

\* A put that has succeeded was stored by W servers.
PutHasQuorum ==
  \A p \in Call : StoringPut(p) /\ status[p] = "ok" => Cardinality(StoredAt(p)) >= W

QuorumInv ==
  /\ TypeOK /\ OneDatagram /\ Addressed /\ Expected
  /\ VotesAreAnswers /\ AcksAreStores /\ GetHasQuorum /\ PutHasQuorum

-----------------------------------------------------------------------------
(* Counting.                                                                *)

LEMMA ServersFinite ==
  \A S \in SUBSET Server : IsFiniteSet(S) /\ Cardinality(S) \in Nat
BY DataAssumption, FS_Subset, FS_CardinalityType

LEMMA CountsType ==
  \A c, v : /\ Cardinality(AnsweredBy(c, v)) \in Nat
            /\ Cardinality(StoredAt(c)) \in Nat
            /\ Cardinality(Acked(c)) \in Nat
<1>. SUFFICES ASSUME NEW c, NEW v
              PROVE  /\ Cardinality(AnsweredBy(c, v)) \in Nat
                     /\ Cardinality(StoredAt(c)) \in Nat
                     /\ Cardinality(Acked(c)) \in Nat
  OBVIOUS
<1>1. /\ AnsweredBy(c, v) \in SUBSET Server
      /\ StoredAt(c) \in SUBSET Server /\ Acked(c) \in SUBSET Server
  BY DEF AnsweredBy, StoredAt, Acked
<1>. QED
  BY <1>1, ServersFinite

\* A larger set of servers has no fewer members.
LEMMA MoreServers ==
  ASSUME NEW S \in SUBSET Server, NEW T \in SUBSET Server, S \subseteq T
  PROVE  Cardinality(S) <= Cardinality(T)
BY ServersFinite, FS_Subset

LEMMA OneMoreServer ==
  ASSUME NEW S \in SUBSET Server, NEW s \in Server \ S
  PROVE  Cardinality(S \cup {s}) = Cardinality(S) + 1
BY ServersFinite, FS_AddElement

\* Below 128 the vote counter is an ordinary number, as long as allocations
\* succeed: it goes up by one, and the test is the comparison it looks like.
LEMMA VoteCounts ==
  ASSUME Countable, NEW b \in Byte, b < R
  PROVE  /\ Increment(b, FALSE) = {<<b + 1, b + 1>>}
         /\ Reaches(b + 1, R) <=> b + 1 >= R
<1>1. b \in 0..127 /\ R \in 1..128
  BY OptionAssumption DEF Countable, Byte
<1>2. Bump(b) = b + 1
  BY <1>1 DEF Bump
<1>. QED
  BY <1>1, <1>2 DEF Increment, Reaches

-----------------------------------------------------------------------------
(* The steps of a dependable environment.                                   *)

LEMMA DependableFaults ==
  ASSUME Dependable
  PROVE  /\ "duplicate" \notin Faults /\ "nomem" \notin Faults /\ "socket" \notin Faults
         /\ ("nomem" \in Faults) = FALSE /\ ~DumpMayKill
BY DEF Dependable, DumpMayKill

\* What the server may answer to the request of call c.
Body(c, s, body) ==
  /\ body \in Value \cup {NotFound}
  /\ IsPut(c) => body = EmptyValue
  /\ IsGet(c) /\ op[c].key # EmptyKey => body \in {table[s][op[c].key], NotFound}

\* A dump answers a put that is none with some packets, and leaves all else alone.
LEMMA DumpStep ==
  ASSUME ~DumpMayKill, TypeOK, NEW c \in Call, NEW s \in Server, ServeDump(c, s)
  PROVE  /\ IsPut(c) /\ ~IsGet(c) /\ ~StoringPut(c) /\ TakeRequest(c, s)
         /\ UNCHANGED <<table, op, status, received, tally, value, history>>
         /\ replies \subseteq replies'
         /\ \A m \in replies' \ replies :
              m.call = c /\ m.from = s /\ status[c] = "waiting"
         /\ status[c] = "waiting" => \E m \in replies' : m.call = c /\ m.from = s
<1>1. op[c].key \in Key /\ op[c].key = EmptyKey /\ op[c].val = EmptyValue
  BY DEF TypeOK, Operation, ServeDump
<1>2. "nomem" \notin Faults
  BY <1>1 DEF DumpMayKill
<1>3. SendDump(c, s) /\ UNCHANGED table
  BY <1>2 DEF ServeDump
<1>4. PICK B \in Packets(s) :
        replies' = IF status[c] = "waiting"
                   THEN replies \cup {[call |-> c, from |-> s, body |-> b] : b \in B}
                   ELSE replies
  BY <1>3, Zenon DEF SendDump
<1>5. EmptyValue \in B
  BY <1>4 DEF Packets
<1>6. status[c] = "waiting" => [call |-> c, from |-> s, body |-> EmptyValue] \in replies'
  BY <1>4, <1>5
<1>7. \A m \in replies' \ replies : m.call = c /\ m.from = s /\ status[c] = "waiting"
  BY <1>4
<1>8. status[c] = "waiting" => \E m \in replies' : m.call = c /\ m.from = s
  <2>. DEFINE m == [call |-> c, from |-> s, body |-> EmptyValue]
  <2>1. m.call = c /\ m.from = s
    OBVIOUS
  <2>. QED
    BY <1>6, <2>1
<1>9. /\ IsPut(c) /\ ~IsGet(c) /\ ~StoringPut(c) /\ TakeRequest(c, s)
      /\ UNCHANGED <<table, op, status, received, tally, value, history>>
  BY <1>1, <1>3 DEF ServeDump, StoringPut
<1>10. replies \subseteq replies'
  BY <1>4
<1>. QED
  BY <1>7, <1>8, <1>9, <1>10

\* Any other branch takes the request, stores the value if there is one, and
\* answers.
LEMMA ServeStep ==
  ASSUME Dependable, TypeOK, NEW c \in Call, NEW s \in Server, Serve(c, s), ~ServeDump(c, s)
  PROVE  /\ <<c, s>> \in requests /\ requests' = requests \ {<<c, s>>}
         /\ UNCHANGED <<op, status, received, tally, value, owner, expect, quiet>>
         /\ stored' = IF StoringPut(c) THEN stored \cup {<<c, s>>} ELSE stored
         /\ table' = IF StoringPut(c) THEN WithEntry(s, op[c].key, op[c].val) ELSE table
         /\ \E body : Body(c, s, body) /\ Answer(c, s, body)
<1>0. op[c].key \in Key /\ EmptyValue \in Value /\ ~(IsPut(c) /\ IsGet(c))
  BY DataAssumption DEF TypeOK, Operation
<1>1. CASE ServePing(c, s)
  <2>1. Body(c, s, EmptyValue) /\ ~StoringPut(c)
    BY <1>0, <1>1 DEF ServePing, Body, StoringPut
  <2>. QED
    BY <1>1, <2>1, DependableFaults DEF ServePing, TakeRequest
<1>3. CASE ServeGet(c, s)
  <2>0. table[s][op[c].key] \in Value \cup {NoValue}
    BY <1>0 DEF TypeOK
  <2>1. PICK body \in {table[s][op[c].key], NotFound} :
          body \in Value \cup {NotFound} /\ Answer(c, s, body)
    BY <1>3, <2>0 DEF ServeGet
  <2>2. Body(c, s, body) /\ ~StoringPut(c)
    BY <1>0, <1>3, <2>1 DEF ServeGet, Body, StoringPut
  <2>. QED
    BY <1>3, <2>1, <2>2, DependableFaults DEF ServeGet, TakeRequest
<1>4. CASE ServePut(c, s)
  <2>1. Body(c, s, EmptyValue) /\ StoringPut(c)
    BY <1>0, <1>4 DEF ServePut, Body, StoringPut
  <2>. QED
    BY <1>4, <2>1, DependableFaults DEF ServePut, TakeRequest
<1>. QED
  BY <1>1, <1>3, <1>4 DEF Serve

\* A get that reads an answer counts it, or returns.
LEMMA GetStep ==
  ASSUME Dependable, Countable, TypeOK, VotesAreAnswers,
         NEW c \in Call, GetReceive(c)
  PROVE  \/ Return(c, "fail", NoValue)
         \/ \E m \in Heard(c) :
              /\ m.body \in Value
              /\ \/ tally[c][m.body] + 1 >= R /\ Return(c, "ok", m.body)
                 \/ /\ tally[c][m.body] + 1 < R
                    /\ replies' = replies \ {m}
                    /\ tally' = [tally EXCEPT ![c][m.body] = @ + 1]
                    /\ received' = [received EXCEPT ![c] = @ + 1]
                    /\ UNCHANGED <<status, value>>
<1>1. CASE GetRejected(c)
  BY <1>1 DEF GetRejected
<1>2. CASE GetCounted(c)
  <2>1. PICK m \in Heard(c) :
          /\ m.body # NotFound
          /\ \E vote \in Increment(tally[c][m.body], FALSE) : CountVote(c, m, vote)
    BY <1>2, DependableFaults DEF GetCounted
  <2>2. m.body \in Value /\ tally[c][m.body] \in Byte /\ tally[c][m.body] < R
    BY <2>1 DEF Heard, TypeOK, Reply, VotesAreAnswers
  <2>3. CountVote(c, m, <<tally[c][m.body] + 1, tally[c][m.body] + 1>>)
    BY <2>1, <2>2, VoteCounts
  <2>4. Reaches(tally[c][m.body] + 1, R) <=> tally[c][m.body] + 1 >= R
    BY <2>2, VoteCounts
  <2>5. tally[c][m.body] + 1 >= R \/ tally[c][m.body] + 1 < R
    BY <2>2, OptionAssumption DEF Byte
  <2>. QED
    BY <2>2, <2>3, <2>4, <2>5, DependableFaults DEF CountVote, KeepReading
<1>. QED
  BY <1>1, <1>2 DEF GetReceive

\* A call that begins sends its requests, and nothing else happens.
LEMMA BeginStep ==
  ASSUME Dependable, NEW c \in Call, Begin(c)
  PROVE  /\ status[c] = "idle" /\ status' = [status EXCEPT ![c] = "waiting"]
         /\ requests' = requests \cup ({c} \X Nodes[op[c].key])
         /\ UNCHANGED <<table, replies, op, received, tally, value, sent, stored>>
<1>1. ~FailEarly(c) /\ ~PutWithoutSocket(c)
  BY DependableFaults DEF FailEarly, PutWithoutSocket
<1>2. CASE StartGet(c)
  BY <1>2 DEF StartGet, Send, GetBegins
<1>3. CASE StartPut(c)
  BY <1>3 DEF StartPut, Send, PutBegins
<1>. QED
  BY <1>1, <1>2, <1>3 DEF Begin

-----------------------------------------------------------------------------
(* The invariant, action by action.                                         *)

LEMMA QuorumInit == Init => QuorumInv
<1>. SUFFICES ASSUME Init PROVE QuorumInv
  OBVIOUS
<1>1. TypeOK /\ OneDatagram /\ Addressed /\ Expected /\ GetHasQuorum /\ PutHasQuorum
  BY InitTypeOK DEF Init, OneDatagram, Addressed, Expected, GetHasQuorum, PutHasQuorum, Got
<1>2. VotesAreAnswers
  <2>. SUFFICES ASSUME NEW g \in Call, NEW v \in Value
                PROVE  0 < R /\ 0 <= Cardinality(AnsweredBy(g, v))
    BY DEF Init, NoVotes, VotesAreAnswers
  <2>. QED
    BY OptionAssumption, CountsType
<1>3. AcksAreStores
  <2>. SUFFICES ASSUME NEW p \in Call
                PROVE  Pending(p) \subseteq StoredAt(p) /\ 0 <= Cardinality(Acked(p))
    BY DEF Init, AcksAreStores
  <2>1. Pending(p) = {}
    BY DEF Init, Pending, Heard
  <2>. QED
    BY <2>1, CountsType
<1>. QED
  BY <1>1, <1>2, <1>3 DEF QuorumInv

LEMMA QuorumBegin ==
  ASSUME Dependable, QuorumInv, NEW c \in Call, Begin(c)
  PROVE  QuorumInv'
<1>. USE DEF QuorumInv
<1>0. TypeOK'
  BY BeginTypeOK
<1>1. OneDatagram'
  BY <1>0, BeginStep DEF OneDatagram, Addressed, TypeOK
<1>2. Addressed'
  <2>1. \A b \in Call : status[b] # "idle" => status'[b] # "idle"
    BY BeginStep DEF TypeOK
  <2>2. \A b \in Call : status'[b] = "idle" => status[b] = "idle"
    BY BeginStep DEF TypeOK
  <2>3. \A m \in replies \cup sent : m.call \in Call
    BY DEF TypeOK, Reply
  <2>. QED
    BY <2>1, <2>2, <2>3, BeginStep DEF Addressed
<1>6. Expected'
  <2>1. ASSUME NEW m \in replies PROVE status'[m.call] = "waiting"
    BY BeginStep DEF Expected, TypeOK, Reply
  <2>. QED
    BY <2>1, BeginStep DEF Expected, StoringPut
<1>3. VotesAreAnswers'
  BY BeginStep DEF VotesAreAnswers, AnsweredBy
<1>4. AcksAreStores'
  <2>. SUFFICES ASSUME NEW p \in Call, StoringPut(p), status'[p] \in {"idle", "waiting"}
                PROVE  Pending(p)' \subseteq StoredAt(p)' /\ received'[p] <= Cardinality(Acked(p)')
    BY BeginStep DEF AcksAreStores, StoringPut
  <2>1. status[p] \in {"idle", "waiting"}
    BY BeginStep DEF TypeOK
  <2>. QED
    BY <2>1, BeginStep DEF AcksAreStores, Pending, StoredAt, Acked, Heard
<1>5. GetHasQuorum'
  <2>1. \A g \in Call : status'[g] = "ok" => status[g] = "ok"
    BY BeginStep DEF TypeOK
  <2>. QED
    BY <2>1, BeginStep DEF GetHasQuorum, Got
<1>7. PutHasQuorum'
  <2>1. \A p \in Call : status'[p] = "ok" => status[p] = "ok"
    BY BeginStep DEF TypeOK
  <2>. QED
    BY <2>1, BeginStep DEF PutHasQuorum, StoringPut, StoredAt
<1>. QED
  BY <1>0, <1>1, <1>2, <1>3, <1>4, <1>5, <1>6, <1>7

LEMMA QuorumDump ==
  ASSUME Dependable, QuorumInv, NEW c \in Call, NEW s \in Server, ServeDump(c, s)
  PROVE  QuorumInv'
<1>. USE DEF QuorumInv
<1>0. TypeOK'
  BY ServeTypeOK DEF Serve
<1>1. /\ IsPut(c) /\ ~IsGet(c) /\ ~StoringPut(c)
      /\ <<c, s>> \in requests /\ requests' = requests \ {<<c, s>>}
      /\ UNCHANGED <<op, status, received, tally, value, sent, stored>>
      /\ replies \subseteq replies'
  BY DumpStep, DependableFaults DEF TakeRequest, history
<1>2. \A m \in replies' \ replies : m.call = c /\ m.from = s /\ status[c] = "waiting"
  BY DumpStep, DependableFaults
<1>3. s \in Nodes[op[c].key] /\ \A m \in replies \cup sent : m.call = c => m.from # s
  BY <1>1 DEF OneDatagram
<1>4. OneDatagram' /\ Addressed' /\ Expected'
  BY <1>1, <1>2, <1>3 DEF OneDatagram, Addressed, Expected, StoringPut
<1>5. VotesAreAnswers'
  <2>1. sent' \ replies' = sent \ replies
    BY <1>1, <1>2, <1>3
  <2>. QED
    BY <1>1, <2>1 DEF VotesAreAnswers, AnsweredBy
<1>6. AcksAreStores'
  <2>. SUFFICES ASSUME NEW p \in Call, StoringPut(p), status[p] \in {"idle", "waiting"}
                PROVE  Pending(p)' \subseteq StoredAt(p)' /\ received[p] <= Cardinality(Acked(p)')
    BY <1>1 DEF AcksAreStores, StoringPut
  <2>1. Heard(p)' = Heard(p) /\ StoredAt(p)' = StoredAt(p)
    BY <1>1, <1>2 DEF Heard, StoredAt
  <2>. QED
    BY <2>1 DEF AcksAreStores, Pending, Acked
<1>7. GetHasQuorum' /\ PutHasQuorum'
  BY <1>1 DEF GetHasQuorum, Got, PutHasQuorum, StoringPut, StoredAt
<1>. QED
  BY <1>0, <1>4, <1>5, <1>6, <1>7

LEMMA QuorumServe ==
  ASSUME Dependable, QuorumInv, NEW c \in Call, NEW s \in Server, Serve(c, s), ~ServeDump(c, s)
  PROVE  QuorumInv'
<1>. USE DEF QuorumInv
<1>0. TypeOK'
  BY ServeTypeOK
<1>1. PICK body : Body(c, s, body) /\ Answer(c, s, body)
  BY ServeStep
<1>. DEFINE reply == [call |-> c, from |-> s, body |-> body]
<1>2. /\ <<c, s>> \in requests /\ requests' = requests \ {<<c, s>>}
      /\ UNCHANGED <<op, status, received, tally, value>>
      /\ stored' = IF StoringPut(c) THEN stored \cup {<<c, s>>} ELSE stored
  BY ServeStep
<1>3. /\ status[c] # "idle" /\ s \in Nodes[op[c].key] /\ <<c, s>> \notin stored
      /\ \A m \in replies \cup sent : m.call = c => m.from # s
  BY <1>2 DEF OneDatagram
<1>4. /\ replies' = IF status[c] = "waiting" THEN replies \cup {reply} ELSE replies
      /\ sent' = IF status[c] = "waiting" /\ IsGet(c) THEN sent \cup {reply} ELSE sent
  BY <1>1 DEF Answer
<1>5. reply \notin replies /\ reply \notin sent
  BY <1>3
<1>6. OneDatagram'
  BY <1>2, <1>4 DEF OneDatagram
<1>7. Addressed'
  BY <1>2, <1>3, <1>4 DEF Addressed
<1>12. Expected'
  <2>1. IsPut(c) \/ IsGet(c)
    BY DEF TypeOK, Operation
  <2>2. IsPut(c) => body = EmptyValue
    BY <1>1 DEF Body
  <2>3. ASSUME NEW m \in replies, m # reply
        PROVE  /\ status[m.call] = "waiting"
               /\ IsGet(m.call) => m \in sent'
               /\ StoringPut(m.call) => m.body = EmptyValue
    BY <1>4 DEF Expected
  <2>4. /\ status[c] = "waiting" /\ IsGet(c) => reply \in sent'
        /\ StoringPut(c) => reply.body = EmptyValue
    BY <1>4, <2>1, <2>2 DEF StoringPut
  <2>5. StoringPut(c)' = StoringPut(c) /\ \A b \in Call : StoringPut(b)' = StoringPut(b)
    BY <1>2 DEF StoringPut
  <2>. SUFFICES ASSUME NEW m \in replies'
                PROVE  /\ status[m.call] = "waiting"
                       /\ IsGet(m.call) => m \in sent'
                       /\ StoringPut(m.call) => m.body = EmptyValue
    BY <1>2 DEF Expected, StoringPut
  <2>6. CASE m = reply
    BY <1>3, <1>4, <2>4, <2>6
  <2>7. CASE m # reply
    BY <1>4, <2>3, <2>7
  <2>. QED
    BY <2>6, <2>7
<1>8. VotesAreAnswers'
  <2>. SUFFICES ASSUME NEW g \in Call, NEW v \in Value
                PROVE  AnsweredBy(g, v)' = AnsweredBy(g, v)
    BY <1>2 DEF VotesAreAnswers
  <2>1. (sent \ replies)' = sent \ replies
    BY <1>4, <1>5
  <2>. QED
    BY <2>1 DEF AnsweredBy
<1>9. AcksAreStores'
  <2>. SUFFICES ASSUME NEW p \in Call, StoringPut(p), status[p] \in {"idle", "waiting"}
                PROVE  Pending(p)' \subseteq StoredAt(p)' /\ received[p] <= Cardinality(Acked(p)')
    BY <1>2 DEF AcksAreStores, StoringPut
  <2>1. Pending(p) \subseteq StoredAt(p) /\ received[p] <= Cardinality(Acked(p))
    BY DEF AcksAreStores
  <2>2. CASE p # c
    <3>1. Heard(p)' = Heard(p) /\ StoredAt(p)' = StoredAt(p)
      BY <1>2, <1>4, <2>2 DEF Heard, StoredAt
    <3>. QED
      BY <2>1, <3>1 DEF Pending, Acked
  <2>3. CASE p = c
    <3>0. status[c] = "waiting"
      BY <1>3, <2>3
    <3>1. Pending(p)' = Pending(p) \cup {s}
      <4>1. Heard(c)' = Heard(c) \cup {reply}
        BY <1>4, <3>0 DEF Heard
      <4>2. reply.from = s
        OBVIOUS
      <4>3. ASSUME NEW t \in Server
            PROVE  (\E m \in Heard(c) \cup {reply} : m.from = t)
                     <=> t = s \/ \E m \in Heard(c) : m.from = t
        BY <4>2
      <4>4. Pending(c)' = {t \in Server : \E m \in Heard(c) \cup {reply} : m.from = t}
        BY <4>1 DEF Pending
      <4>5. Pending(c)' = Pending(c) \cup {s}
        BY <4>3, <4>4 DEF Pending
      <4>. QED
        BY <2>3, <4>5
    <3>2. StoredAt(p)' = StoredAt(p) \cup {s} /\ s \notin StoredAt(p)
      BY <1>2, <1>3, <2>3 DEF StoredAt
    <3>3. Acked(p)' = Acked(p)
      BY <3>1, <3>2 DEF Acked
    <3>. QED
      BY <2>1, <3>1, <3>2, <3>3
  <2>. QED
    BY <2>2, <2>3
<1>10. GetHasQuorum'
  BY <1>2, <1>4 DEF GetHasQuorum, Got
<1>11. PutHasQuorum'
  <2>. SUFFICES ASSUME NEW p \in Call, StoringPut(p), status[p] = "ok"
                PROVE  Cardinality(StoredAt(p)') >= W
    BY <1>2 DEF PutHasQuorum, StoringPut
  <2>1. StoredAt(p) \subseteq StoredAt(p)' /\ StoredAt(p)' \in SUBSET Server
    BY <1>2 DEF StoredAt
  <2>2. Cardinality(StoredAt(p)) <= Cardinality(StoredAt(p)') /\ Cardinality(StoredAt(p)') \in Nat
    BY <2>1, MoreServers, ServersFinite
  <2>3. Cardinality(StoredAt(p)) >= W
    BY DEF PutHasQuorum
  <2>4. Cardinality(StoredAt(p)) \in Nat /\ W \in Nat
    BY CountsType, OptionAssumption
  <2>. HIDE DEF QuorumInv, reply
  <2>. QED
    BY <2>2, <2>3, <2>4
<1>. QED
  BY <1>0, <1>6, <1>7, <1>8, <1>9, <1>10, <1>11, <1>12

\* A set of servers has a number of members in every state.
LEMMA AnsweredType ==
  /\ \A g, v : AnsweredBy(g, v) \in SUBSET Server /\ AnsweredBy(g, v)' \in SUBSET Server
  /\ \A p : StoredAt(p) \in SUBSET Server /\ Acked(p) \in SUBSET Server /\ Acked(p)' \in SUBSET Server
BY DEF AnsweredBy, StoredAt, Acked

\* A call that returns: a get with an answer from R servers or a put stored by
\* W, or without success.
LEMMA QuorumReturn ==
  ASSUME QuorumInv, NEW c \in Call, Read(c), status[c] = "waiting",
         NEW result \in {"ok", "fail"}, NEW val, Return(c, result, val),
         UNCHANGED <<requests, op, sent, stored>>,
         result = "ok" /\ IsGet(c) =>
           \E Q \in SUBSET Server :
             /\ Cardinality(Q) >= R
             /\ \A s \in Q : [call |-> c, from |-> s, body |-> val] \in sent,
         result = "ok" /\ StoringPut(c) => Cardinality(StoredAt(c)) >= W
  PROVE  QuorumInv'
<1>. USE DEF QuorumInv
<1>0. TypeOK'
  BY ReadTypeOK
<1>1. /\ replies' = replies \ Heard(c)
      /\ \A b \in Call : status'[b] = IF b = c THEN result ELSE status[b]
      /\ \A b \in Call : received'[b] = IF b = c THEN 0 ELSE received[b]
      /\ \A b \in Call : value'[b] = IF b = c THEN val ELSE value[b]
      /\ \A b \in Call : tally'[b] = IF b = c THEN NoVotes ELSE tally[b]
  BY DEF Return, TypeOK
<1>2. \A m \in replies : m.call \in Call
  BY DEF TypeOK, Reply
<1>3. \A m \in replies' : m \in replies /\ m.call # c
  BY <1>1 DEF Heard
<1>4. OneDatagram'
  BY <1>1, <1>3 DEF OneDatagram
<1>5. Addressed'
  <2>1. \A m \in sent : m.call \in Call
    BY DEF TypeOK, Reply
  <2>. QED
    BY <1>1, <1>2, <1>3, <2>1 DEF Addressed
<1>6. Expected'
  BY <1>1, <1>2, <1>3 DEF Expected, StoringPut
<1>7. VotesAreAnswers'
  <2>. SUFFICES ASSUME NEW g \in Call, NEW v \in Value
                PROVE  tally'[g][v] < R /\ tally'[g][v] <= Cardinality(AnsweredBy(g, v)')
    BY DEF VotesAreAnswers
  <2>1. AnsweredBy(g, v) \subseteq AnsweredBy(g, v)'
    BY <1>3 DEF AnsweredBy
  <2>2. /\ Cardinality(AnsweredBy(g, v)) <= Cardinality(AnsweredBy(g, v)')
        /\ Cardinality(AnsweredBy(g, v)) \in Nat /\ Cardinality(AnsweredBy(g, v)') \in Nat
    BY <2>1, AnsweredType, MoreServers, ServersFinite
  <2>3. tally'[g][v] = IF g = c THEN 0 ELSE tally[g][v]
    BY <1>1 DEF NoVotes
  <2>4. tally[g][v] \in Byte /\ tally[g][v] < R /\ tally[g][v] <= Cardinality(AnsweredBy(g, v))
    BY DEF VotesAreAnswers, TypeOK
  <2>. QED
    BY <2>2, <2>3, <2>4, OptionAssumption DEF Byte
<1>8. AcksAreStores'
  <2>. SUFFICES ASSUME NEW p \in Call, StoringPut(p), status'[p] \in {"idle", "waiting"}
                PROVE  Pending(p)' \subseteq StoredAt(p)' /\ received'[p] <= Cardinality(Acked(p)')
    BY DEF AcksAreStores, StoringPut
  <2>1. p # c /\ status[p] \in {"idle", "waiting"} /\ received'[p] = received[p]
    BY <1>1
  <2>2. Heard(p)' = Heard(p)
    BY <1>1, <2>1 DEF Heard
  <2>. QED
    BY <2>1, <2>2 DEF AcksAreStores, Pending, StoredAt, Acked
<1>9. GetHasQuorum'
  <2>. SUFFICES ASSUME NEW g \in Call, IsGet(g), status'[g] = "ok"
                PROVE  \E Q \in SUBSET Server :
                         /\ Cardinality(Q) >= R
                         /\ \A s \in Q : [call |-> g, from |-> s, body |-> value'[g]] \in sent
    BY DEF GetHasQuorum, Got
  <2>1. CASE g = c
    BY <1>1, <2>1
  <2>2. CASE g # c
    BY <1>1, <2>2 DEF GetHasQuorum, Got
  <2>. QED
    BY <2>1, <2>2
<1>10. PutHasQuorum'
  BY <1>1 DEF PutHasQuorum, StoringPut, StoredAt
<1>. QED
  BY <1>0, <1>4, <1>5, <1>6, <1>7, <1>8, <1>9, <1>10

\* A call that keeps reading has taken one answer from its socket.
LEMMA QuorumTaken ==
  ASSUME QuorumInv, NEW c \in Call, NEW m \in Heard(c), status[c] = "waiting", TypeOK',
         replies' = replies \ {m}, received' = [received EXCEPT ![c] = @ + 1],
         UNCHANGED <<requests, op, status, value, sent, stored>>
  PROVE  OneDatagram' /\ Addressed' /\ Expected' /\ GetHasQuorum' /\ PutHasQuorum'
<1>. USE DEF QuorumInv
<1>1. \A x \in replies' : x \in replies
  OBVIOUS
<1>2. \A b \in Call : status[b] = "idle" => received'[b] = received[b]
  BY DEF TypeOK
<1>3. OneDatagram'
  BY <1>1 DEF OneDatagram
<1>4. Addressed'
  BY <1>1, <1>2 DEF Addressed
<1>5. Expected'
  BY <1>1 DEF Expected, StoringPut
<1>6. GetHasQuorum' /\ PutHasQuorum'
  BY DEF GetHasQuorum, Got, PutHasQuorum, StoringPut, StoredAt
<1>. QED
  BY <1>3, <1>4, <1>5, <1>6

LEMMA QuorumKeepGet ==
  ASSUME QuorumInv, NEW c \in Call, Read(c), IsGet(c), status[c] = "waiting",
         NEW m \in Heard(c), m.body \in Value, tally[c][m.body] + 1 < R,
         replies' = replies \ {m},
         tally' = [tally EXCEPT ![c][m.body] = @ + 1],
         received' = [received EXCEPT ![c] = @ + 1],
         UNCHANGED <<requests, op, status, value, sent, stored>>
  PROVE  QuorumInv'
<1>. USE DEF QuorumInv
<1>0. TypeOK'
  BY ReadTypeOK
<1>1. OneDatagram' /\ Addressed' /\ Expected' /\ GetHasQuorum' /\ PutHasQuorum'
  BY <1>0, QuorumTaken
<1>2. /\ m \in replies /\ m.call = c /\ m.from \in Server /\ m \in sent
      /\ m = [call |-> c, from |-> m.from, body |-> m.body]
  BY DEF Heard, TypeOK, Reply, Expected
<1>3. VotesAreAnswers'
  <2>. SUFFICES ASSUME NEW g \in Call, NEW v \in Value
                PROVE  tally'[g][v] < R /\ tally'[g][v] <= Cardinality(AnsweredBy(g, v)')
    BY DEF VotesAreAnswers
  <2>1. tally[g][v] \in Byte /\ tally[g][v] < R /\ tally[g][v] <= Cardinality(AnsweredBy(g, v))
    BY DEF VotesAreAnswers, TypeOK
  <2>2. AnsweredBy(g, v) \subseteq AnsweredBy(g, v)'
    BY DEF AnsweredBy
  <2>3. /\ Cardinality(AnsweredBy(g, v)) <= Cardinality(AnsweredBy(g, v)')
        /\ Cardinality(AnsweredBy(g, v)) \in Nat /\ Cardinality(AnsweredBy(g, v)') \in Nat
    BY <2>2, AnsweredType, MoreServers, ServersFinite
  <2>4. CASE g = c /\ v = m.body
    <3>1. tally'[g][v] = tally[g][v] + 1
      BY <2>4 DEF TypeOK
    <3>2. m.from \in AnsweredBy(g, v)' /\ m.from \notin AnsweredBy(g, v)
      BY <1>2, <2>4 DEF AnsweredBy
    <3>3. Cardinality(AnsweredBy(g, v) \cup {m.from}) = Cardinality(AnsweredBy(g, v)) + 1
      BY <1>2, <3>2, AnsweredType, OneMoreServer
    <3>4. Cardinality(AnsweredBy(g, v) \cup {m.from}) <= Cardinality(AnsweredBy(g, v)')
      BY <1>2, <2>2, <3>2, AnsweredType, MoreServers
    <3>. QED
      BY <2>1, <2>3, <2>4, <3>1, <3>3, <3>4, OptionAssumption DEF Byte
  <2>5. CASE ~(g = c /\ v = m.body)
    <3>1. tally'[g][v] = tally[g][v]
      BY <2>5 DEF TypeOK
    <3>. QED
      BY <2>1, <2>3, <3>1, OptionAssumption DEF Byte
  <2>. QED
    BY <2>4, <2>5
<1>4. AcksAreStores'
  <2>. SUFFICES ASSUME NEW p \in Call, StoringPut(p), status[p] \in {"idle", "waiting"}
                PROVE  Pending(p)' \subseteq StoredAt(p)' /\ received'[p] <= Cardinality(Acked(p)')
    BY DEF AcksAreStores, StoringPut
  <2>1. p # c
    BY DEF StoringPut
  <2>2. Heard(p)' = Heard(p) /\ received'[p] = received[p] /\ StoredAt(p)' = StoredAt(p)
    BY <1>2, <2>1 DEF Heard, TypeOK, StoredAt
  <2>3. Pending(p) \subseteq StoredAt(p) /\ received[p] <= Cardinality(Acked(p))
    BY DEF AcksAreStores
  <2>. QED
    BY <2>2, <2>3 DEF Pending, Acked
<1>. QED
  BY <1>0, <1>1, <1>3, <1>4

\* The server of an acknowledgement that put c has just taken is a new one
\* among those of the acknowledgements before it.
LEMMA NewAck ==
  ASSUME QuorumInv, NEW c \in Call, StoringPut(c), status[c] = "waiting", NEW m \in Heard(c)
  PROVE  /\ m.from \in Server \ Acked(c) /\ m.from \in StoredAt(c)
         /\ \A x \in Heard(c) \ {m} : x.from # m.from
         /\ received[c] + 1 <= Cardinality(Acked(c) \cup {m.from})
<1>. USE DEF QuorumInv
<1>1. m.from \in Server /\ m.from \in Pending(c)
  BY DEF Heard, TypeOK, Reply, Pending
<1>2. m.from \in StoredAt(c) /\ m.from \notin Acked(c) /\ received[c] <= Cardinality(Acked(c))
  BY <1>1 DEF AcksAreStores, Acked
<1>3. ASSUME NEW x \in Heard(c) PROVE x = [call |-> c, from |-> x.from, body |-> EmptyValue]
  <2>1. x \in Reply /\ x.call = c /\ ~IsGet(c) /\ x \in replies
    BY DEF Heard, TypeOK, StoringPut
  <2>2. x.body = EmptyValue
    BY <2>1 DEF Expected
  <2>. QED
    BY <2>1, <2>2 DEF Reply
<1>4. \A x \in Heard(c) \ {m} : x.from # m.from
  BY <1>3
<1>5. Cardinality(Acked(c) \cup {m.from}) = Cardinality(Acked(c)) + 1 /\ Cardinality(Acked(c)) \in Nat
  BY <1>1, <1>2, AnsweredType, OneMoreServer, ServersFinite
<1>6. received[c] \in 0..(N - 1)
  BY DEF TypeOK
<1>. QED
  BY <1>1, <1>2, <1>4, <1>5, <1>6, OptionAssumption

LEMMA QuorumKeepPut ==
  ASSUME QuorumInv, NEW c \in Call, Read(c), IsPut(c), status[c] = "waiting",
         NEW m \in Heard(c), replies' = replies \ {m},
         received' = [received EXCEPT ![c] = @ + 1],
         UNCHANGED <<requests, op, status, value, tally, sent, stored>>
  PROVE  QuorumInv'
<1>. USE DEF QuorumInv
<1>0. TypeOK'
  BY ReadTypeOK
<1>1. OneDatagram' /\ Addressed' /\ Expected' /\ GetHasQuorum' /\ PutHasQuorum'
  BY <1>0, QuorumTaken
<1>2. m \in replies /\ m.call = c /\ m \in Reply
  BY DEF Heard, TypeOK
<1>3. VotesAreAnswers'
  <2>. SUFFICES ASSUME NEW g \in Call, NEW v \in Value
                PROVE  tally[g][v] < R /\ tally[g][v] <= Cardinality(AnsweredBy(g, v)')
    BY DEF VotesAreAnswers
  <2>1. tally[g][v] \in Byte /\ tally[g][v] < R /\ tally[g][v] <= Cardinality(AnsweredBy(g, v))
    BY DEF VotesAreAnswers, TypeOK
  <2>2. AnsweredBy(g, v) \subseteq AnsweredBy(g, v)'
    BY DEF AnsweredBy
  <2>3. /\ Cardinality(AnsweredBy(g, v)) <= Cardinality(AnsweredBy(g, v)')
        /\ Cardinality(AnsweredBy(g, v)) \in Nat /\ Cardinality(AnsweredBy(g, v)') \in Nat
    BY <2>2, AnsweredType, MoreServers, ServersFinite
  <2>. QED
    BY <2>1, <2>3 DEF Byte
<1>4. AcksAreStores'
  <2>. SUFFICES ASSUME NEW p \in Call, StoringPut(p), status[p] \in {"idle", "waiting"}
                PROVE  Pending(p)' \subseteq StoredAt(p)' /\ received'[p] <= Cardinality(Acked(p)')
    BY DEF AcksAreStores, StoringPut
  <2>1. StoredAt(p)' = StoredAt(p)
    BY DEF StoredAt
  <2>2. Pending(p) \subseteq StoredAt(p) /\ received[p] <= Cardinality(Acked(p))
    BY DEF AcksAreStores
  <2>3. CASE p # c
    <3>1. Heard(p)' = Heard(p) /\ received'[p] = received[p]
      BY <1>2, <2>3 DEF Heard, TypeOK
    <3>. QED
      BY <2>1, <2>2, <3>1 DEF Pending, Acked
  <2>4. CASE p = c
    <3>1. /\ m.from \in Server \ Acked(c) /\ m.from \in StoredAt(c)
          /\ \A x \in Heard(c) \ {m} : x.from # m.from
          /\ received[c] + 1 <= Cardinality(Acked(c) \cup {m.from})
      BY <2>4, NewAck
    <3>2. Heard(c)' = Heard(c) \ {m}
      BY DEF Heard
    <3>3. Pending(c)' \subseteq Pending(c) /\ m.from \notin Pending(c)'
      BY <3>1, <3>2 DEF Pending
    <3>4. Acked(c) \cup {m.from} \subseteq Acked(c)'
      BY <2>1, <2>4, <3>1, <3>3 DEF Acked
    <3>5. /\ Cardinality(Acked(c) \cup {m.from}) <= Cardinality(Acked(c)')
          /\ Cardinality(Acked(c) \cup {m.from}) \in Nat /\ Cardinality(Acked(c)') \in Nat
      BY <3>1, <3>4, AnsweredType, MoreServers, ServersFinite
    <3>6. received'[c] = received[c] + 1 /\ received[c] \in 0..(N - 1)
      BY DEF TypeOK
    <3>. QED
      BY <2>1, <2>2, <2>4, <3>1, <3>3, <3>5, <3>6, OptionAssumption
  <2>. QED
    BY <2>3, <2>4
<1>. QED
  BY <1>0, <1>1, <1>3, <1>4

LEMMA QuorumRead ==
  ASSUME Dependable, Countable, QuorumInv, NEW c \in Call, Read(c)
  PROVE  QuorumInv'
<1>. USE DEF QuorumInv
<1>0. status[c] = "waiting" /\ UNCHANGED <<requests, op, sent, stored>>
  BY DEF Read, GetReceive, PutReceive, Timeout, history
<1>1. ASSUME NEW val, Return(c, "fail", val) PROVE QuorumInv'
  BY <1>0, <1>1, QuorumReturn
<1>2. CASE GetReceive(c)
  <2>1. IsGet(c) /\ ~StoringPut(c)
    BY <1>2 DEF GetReceive, StoringPut
  <2>2. CASE Return(c, "fail", NoValue)
    BY <1>1, <2>2
  <2>3. ASSUME NEW m \in Heard(c), m.body \in Value,
               tally[c][m.body] + 1 >= R, Return(c, "ok", m.body)
        PROVE  QuorumInv'
    <3>. DEFINE A == AnsweredBy(c, m.body)
    <3>1. /\ m \in replies /\ m.from \in Server /\ m \in sent
          /\ m = [call |-> c, from |-> m.from, body |-> m.body]
      BY <2>1 DEF Heard, TypeOK, Reply, Expected
    <3>2. A \in SUBSET Server /\ m.from \notin A
      BY <3>1 DEF AnsweredBy
    <3>3. Cardinality(A \cup {m.from}) = Cardinality(A) + 1 /\ Cardinality(A) \in Nat
      BY <3>1, <3>2, OneMoreServer, ServersFinite
    <3>4. tally[c][m.body] \in Byte /\ tally[c][m.body] <= Cardinality(A)
      BY <2>3 DEF VotesAreAnswers, TypeOK
    <3>5. Cardinality(A \cup {m.from}) >= R
      <4>. HIDE DEF A
      <4>. QED
        BY <2>3, <3>3, <3>4, OptionAssumption DEF Byte
    <3>6. \A s \in A \cup {m.from} : [call |-> c, from |-> s, body |-> m.body] \in sent
      BY <3>1 DEF AnsweredBy
    <3>7. A \cup {m.from} \in SUBSET Server
      BY <3>1, <3>2
    <3>8. \E Q \in SUBSET Server :
            /\ Cardinality(Q) >= R
            /\ \A s \in Q : [call |-> c, from |-> s, body |-> m.body] \in sent
      BY <3>5, <3>6, <3>7
    <3>. QED
      BY <1>0, <2>1, <2>3, <3>8, QuorumReturn
  <2>4. ASSUME NEW m \in Heard(c), m.body \in Value, tally[c][m.body] + 1 < R,
               replies' = replies \ {m},
               tally' = [tally EXCEPT ![c][m.body] = @ + 1],
               received' = [received EXCEPT ![c] = @ + 1],
               UNCHANGED <<status, value>>
        PROVE  QuorumInv'
    BY <1>0, <2>1, <2>4, QuorumKeepGet
  <2>. QED
    BY <1>2, <2>2, <2>3, <2>4, GetStep
<1>3. CASE PutReceive(c)
  <2>1. PICK m \in Heard(c) :
          \/ EnoughAcks(received[c] + 1) /\ Return(c, "ok", NoValue)
          \/ ~EnoughAcks(received[c] + 1) /\ KeepReading(c, m) /\ UNCHANGED tally
    BY <1>3 DEF PutReceive
  <2>2. IsPut(c) /\ ~IsGet(c)
    BY <1>3 DEF PutReceive
  <2>3. CASE EnoughAcks(received[c] + 1) /\ Return(c, "ok", NoValue)
    <3>1. ASSUME StoringPut(c) PROVE Cardinality(StoredAt(c)) >= W
      <4>1. /\ m.from \in Server /\ m.from \in StoredAt(c)
            /\ received[c] + 1 <= Cardinality(Acked(c) \cup {m.from})
        BY <1>0, <3>1, NewAck
      <4>2. Acked(c) \cup {m.from} \subseteq StoredAt(c)
        BY <4>1 DEF Acked
      <4>3. /\ Cardinality(Acked(c) \cup {m.from}) <= Cardinality(StoredAt(c))
            /\ Cardinality(Acked(c) \cup {m.from}) \in Nat /\ Cardinality(StoredAt(c)) \in Nat
        BY <4>1, <4>2, AnsweredType, MoreServers, ServersFinite
      <4>4. received[c] + 1 >= W /\ received[c] \in 0..(N - 1)
        BY <2>3 DEF EnoughAcks, TypeOK
      <4>. QED
        BY <4>1, <4>3, <4>4, OptionAssumption
    <3>. QED
      BY <1>0, <2>2, <2>3, <3>1, QuorumReturn
  <2>4. CASE ~EnoughAcks(received[c] + 1) /\ KeepReading(c, m) /\ UNCHANGED tally
    BY <1>0, <2>2, <2>4, DependableFaults, QuorumKeepPut DEF KeepReading
  <2>. QED
    BY <2>1, <2>3, <2>4
<1>4. CASE Timeout(c)
  BY <1>1, <1>4 DEF Timeout
<1>. QED
  BY <1>2, <1>3, <1>4 DEF Read

\* A loss takes a datagram away and disturbs nothing else.
LEMMA QuorumLoss ==
  ASSUME QuorumInv, TypeOK', requests' \subseteq requests, replies' \subseteq replies,
         UNCHANGED <<op, status, received, tally, value, sent, stored>>
  PROVE  QuorumInv'
<1>. USE DEF QuorumInv
<1>1. OneDatagram' /\ Addressed' /\ Expected'
  BY DEF OneDatagram, Addressed, Expected, StoringPut
<1>2. GetHasQuorum' /\ PutHasQuorum'
  BY DEF GetHasQuorum, Got, PutHasQuorum, StoringPut, StoredAt
<1>3. VotesAreAnswers'
  <2>. SUFFICES ASSUME NEW g \in Call, NEW v \in Value
                PROVE  tally[g][v] < R /\ tally[g][v] <= Cardinality(AnsweredBy(g, v)')
    BY DEF VotesAreAnswers
  <2>1. tally[g][v] \in Byte /\ tally[g][v] < R /\ tally[g][v] <= Cardinality(AnsweredBy(g, v))
    BY DEF VotesAreAnswers, TypeOK
  <2>2. AnsweredBy(g, v) \subseteq AnsweredBy(g, v)'
    BY DEF AnsweredBy
  <2>3. /\ Cardinality(AnsweredBy(g, v)) <= Cardinality(AnsweredBy(g, v)')
        /\ Cardinality(AnsweredBy(g, v)) \in Nat /\ Cardinality(AnsweredBy(g, v)') \in Nat
    BY <2>2, AnsweredType, MoreServers, ServersFinite
  <2>. QED
    BY <2>1, <2>3 DEF Byte
<1>4. AcksAreStores'
  <2>. SUFFICES ASSUME NEW p \in Call, StoringPut(p), status[p] \in {"idle", "waiting"}
                PROVE  Pending(p)' \subseteq StoredAt(p)' /\ received[p] <= Cardinality(Acked(p)')
    BY DEF AcksAreStores, StoringPut
  <2>1. Pending(p) \subseteq StoredAt(p) /\ received[p] <= Cardinality(Acked(p))
    BY DEF AcksAreStores
  <2>2. StoredAt(p)' = StoredAt(p) /\ Pending(p)' \subseteq Pending(p)
    BY DEF StoredAt, Pending, Heard
  <2>3. Acked(p) \subseteq Acked(p)'
    BY <2>2 DEF Acked
  <2>4. /\ Cardinality(Acked(p)) <= Cardinality(Acked(p)')
        /\ Cardinality(Acked(p)) \in Nat /\ Cardinality(Acked(p)') \in Nat
    BY <2>3, AnsweredType, MoreServers, ServersFinite
  <2>5. received[p] \in 0..(N - 1)
    BY DEF TypeOK
  <2>. QED
    BY <2>1, <2>2, <2>4, <2>5, OptionAssumption
<1>. QED
  BY <1>1, <1>2, <1>3, <1>4

LEMMA QuorumNext ==
  ASSUME Dependable, Countable, QuorumInv, [Next]_vars
  PROVE  QuorumInv'
<1>0. TypeOK'
  BY NextTypeOK DEF QuorumInv
<1>1. ASSUME NEW c \in Call, Begin(c) PROVE QuorumInv'
  BY <1>1, QuorumBegin
<1>2. ASSUME NEW c \in Call, Read(c) PROVE QuorumInv'
  BY <1>2, QuorumRead
<1>3. ASSUME NEW c \in Call, NEW s \in Server, Serve(c, s) PROVE QuorumInv'
  BY <1>3, QuorumServe, QuorumDump
<1>4. ASSUME NEW c \in Call, NEW s \in Server, LoseRequest(c, s) PROVE QuorumInv'
  BY <1>0, <1>4, QuorumLoss DEF LoseRequest, history
<1>5. ASSUME NEW c \in Call, LoseAnswer(c) PROVE QuorumInv'
  BY <1>0, <1>5, QuorumLoss DEF LoseAnswer, history
<1>6. ASSUME NEW s \in Server, Crash(s) PROVE QuorumInv'
  BY <1>0, <1>6, QuorumLoss DEF Crash, history
<1>7. CASE UNCHANGED vars
  BY <1>0, <1>7, QuorumLoss DEF vars, history
<1>. QED
  BY <1>1, <1>2, <1>3, <1>4, <1>5, <1>6, <1>7 DEF Next

-----------------------------------------------------------------------------
(* Puts whose servers answer in time.                                       *)

\* The servers that answer whatever they are asked, and of which the put c has
\* nothing left to expect.
Spent(c) ==
  {s \in Nodes[op[c].key] \ Flaky :
     <<c, s>> \notin requests /\ \A m \in Heard(c) : m.from # s}

\* A put that reads has read as many datagrams as that, and less than W.
PaceInv ==
  /\ TypeOK
  /\ \A c \in Call : status[c] = "idle" => received[c] = 0
  /\ \A c \in Call :
       IsPut(c) /\ status[c] = "waiting" =>
         received[c] < W /\ Cardinality(Spent(c)) <= received[c]

LEMMA SpentType ==
  ASSUME TypeOK, NEW c \in Call
  PROVE  /\ Nodes[op[c].key] \in SUBSET Server
         /\ Spent(c) \in SUBSET Server /\ Cardinality(Spent(c)) \in Nat
<1>1. Nodes[op[c].key] \in SUBSET Server
  BY PlacementAssumption DEF TypeOK, Operation
<1>2. Spent(c) \in SUBSET Server
  BY <1>1 DEF Spent
<1>. QED
  BY <1>1, <1>2, ServersFinite

\* A step after which no server more is spent, and the call reads on as before.
LEMMA PaceKept ==
  ASSUME PaceInv, TypeOK', NEW c \in Call, UNCHANGED op, received'[c] = received[c],
         IsPut(c), status[c] = "waiting", Spent(c)' \subseteq Spent(c)
  PROVE  received'[c] < W /\ Cardinality(Spent(c)') <= received'[c]
<1>1. Cardinality(Spent(c)) \in Nat /\ Spent(c) \in SUBSET Server
  BY SpentType DEF PaceInv
<1>2. Cardinality(Spent(c)') \in Nat /\ Spent(c)' \in SUBSET Server
  BY <1>1, ServersFinite
<1>3. Cardinality(Spent(c)') <= Cardinality(Spent(c))
  BY <1>1, <1>2, MoreServers
<1>4. received[c] \in 0..(N - 1) /\ received[c] < W /\ Cardinality(Spent(c)) <= received[c]
  BY DEF PaceInv, TypeOK
<1>. QED
  BY <1>1, <1>2, <1>3, <1>4, OptionAssumption

LEMMA PaceInit == Init => PaceInv
BY InitTypeOK DEF Init, PaceInv

LEMMA PaceBegin ==
  ASSUME PaceInv, TypeOK', NEW b \in Call, Begin(b)
  PROVE  PaceInv'
<1>1. /\ status[b] = "idle" /\ UNCHANGED <<replies, op, received>>
      /\ \E new \in {"waiting", "ok", "fail"} : status' = [status EXCEPT ![b] = new]
      /\ requests \subseteq requests'
      /\ status'[b] = "waiting" => {b} \X Nodes[op[b].key] \subseteq requests'
  <2>1. CASE StartGet(b)
    BY <2>1 DEF StartGet, Send, PaceInv, TypeOK
  <2>2. CASE StartPut(b)
    BY <2>2 DEF StartPut, Send, PaceInv, TypeOK
  <2>3. CASE FailEarly(b)
    BY <2>3 DEF FailEarly, PaceInv, TypeOK
  <2>4. CASE PutWithoutSocket(b)
    BY <2>4 DEF PutWithoutSocket, PaceInv, TypeOK
  <2>. QED
    BY <2>1, <2>2, <2>3, <2>4 DEF Begin
<1>2. \A c \in Call : c # b => status'[c] = status[c]
  BY <1>1 DEF PaceInv, TypeOK
<1>3. \A c \in Call : status'[c] = "idle" => received'[c] = 0
  BY <1>1, <1>2 DEF PaceInv, TypeOK
<1>4. ASSUME NEW c \in Call, IsPut(c)', status'[c] = "waiting"
      PROVE  received'[c] < W /\ Cardinality(Spent(c)') <= received'[c]
  <2>1. IsPut(c) /\ Heard(c)' = Heard(c)
    BY <1>1, <1>4 DEF Heard
  <2>2. CASE c # b
    <3>1. Spent(c)' \subseteq Spent(c)
      BY <1>1, <2>1 DEF Spent
    <3>. QED
      BY <1>1, <1>2, <1>4, <2>1, <2>2, <3>1, PaceKept
  <2>3. CASE c = b
    <3>1. Spent(c)' = {}
      BY <1>1, <1>4, <2>3 DEF Spent
    <3>2. Cardinality(Spent(c)') = 0
      BY <3>1, FS_EmptySet
    <3>3. received'[c] = 0
      BY <1>1, <2>3 DEF PaceInv
    <3>. QED
      BY <3>2, <3>3, OptionAssumption
  <2>. QED
    BY <2>2, <2>3
<1>. QED
  BY <1>3, <1>4 DEF PaceInv

\* Serving, losing and restarting change neither the call nor what it has read;
\* what is lost comes from a flaky server, and what is served becomes an answer.
LEMMA PaceOthers ==
  ASSUME PaceInv, TypeOK', UNCHANGED <<op, status, received>>,
         \A c \in Call : status[c] = "waiting" => Spent(c)' \subseteq Spent(c)
  PROVE  PaceInv'
<1>1. ASSUME NEW c \in Call, IsPut(c)', status'[c] = "waiting"
      PROVE  received'[c] < W /\ Cardinality(Spent(c)') <= received'[c]
  BY <1>1, PaceKept
<1>. QED
  BY <1>1 DEF PaceInv

LEMMA PaceServe ==
  ASSUME ~DumpMayKill, PaceInv, TypeOK', NEW b \in Call, NEW s \in Server, Serve(b, s)
  PROVE  PaceInv'
<1>1. /\ UNCHANGED <<op, status, received>> /\ TakeRequest(b, s)
      /\ ServeDump(b, s) \/ \E body : Answer(b, s, body)
  <2>1. ASSUME ServePing(b, s) PROVE Answer(b, s, EmptyValue)
    BY <2>1 DEF ServePing
  <2>2. ASSUME ServeGet(b, s) PROVE \E body : Answer(b, s, body)
    BY <2>2, Zenon DEF ServeGet
  <2>3. ASSUME ServePut(b, s) PROVE Answer(b, s, EmptyValue)
    BY <2>3 DEF ServePut
  <2>4. ServeDump(b, s) \/ \E body : Answer(b, s, body)
    BY <2>1, <2>2, <2>3, Zenon DEF Serve
  <2>5. UNCHANGED <<op, status, received>> /\ TakeRequest(b, s)
    BY DEF Serve, ServePing, ServeDump, ServeGet, ServePut
  <2>. QED
    BY <2>4, <2>5
<1>2. requests \ {<<b, s>>} \subseteq requests'
  BY <1>1 DEF TakeRequest
<1>3. /\ replies \subseteq replies'
      /\ status[b] = "waiting" => \E m \in replies' : m.call = b /\ m.from = s
  <2>. SUFFICES ASSUME ~ServeDump(b, s)
                PROVE  /\ replies \subseteq replies'
                       /\ status[b] = "waiting" => \E m \in replies' : m.call = b /\ m.from = s
    BY DumpStep DEF PaceInv
  <2>1. PICK body : Answer(b, s, body)
    BY <1>1
  <2>. DEFINE m == [call |-> b, from |-> s, body |-> body]
  <2>2. replies' = IF status[b] = "waiting" THEN replies \cup {m} ELSE replies
    BY <2>1 DEF Answer
  <2>3. m.call = b /\ m.from = s
    OBVIOUS
  <2>. HIDE DEF m
  <2>. QED
    BY <2>2, <2>3
<1>4. ASSUME NEW c \in Call, status[c] = "waiting", NEW t \in Spent(c)'
      PROVE  t \in Spent(c)
  <2>1. /\ t \in Nodes[op[c].key] \ Flaky /\ <<c, t>> \notin requests'
        /\ \A m \in replies' : m.call = c => m.from # t
    BY <1>1, <1>4 DEF Spent, Heard
  <2>2. <<c, t>> # <<b, s>>
    BY <1>3, <1>4, <2>1
  <2>3. <<c, t>> \notin requests
    BY <1>2, <2>1, <2>2
  <2>4. \A m \in Heard(c) : m.from # t
    BY <1>3, <2>1 DEF Heard
  <2>. QED
    BY <2>1, <2>3, <2>4 DEF Spent
<1>. QED
  BY <1>1, <1>4, PaceOthers

LEMMA PaceLoss ==
  ASSUME PaceInv, TypeOK', UNCHANGED <<op, status, received>>,
         \A r \in requests : r \in requests' \/ r[2] \in Flaky,
         \A m \in replies : m \in replies' \/ m.from \in Flaky
  PROVE  PaceInv'
<1>1. ASSUME NEW c \in Call, NEW t \in Spent(c)'
      PROVE  t \in Spent(c)
  <2>1. /\ t \in Nodes[op[c].key] \ Flaky /\ <<c, t>> \notin requests'
        /\ \A m \in replies' : m.call = c => m.from # t
    BY <1>1 DEF Spent, Heard
  <2>2. <<c, t>> \notin requests
    BY <2>1
  <2>3. \A m \in replies : m.call = c => m.from # t
    BY <2>1
  <2>. QED
    BY <2>1, <2>2, <2>3 DEF Spent, Heard
<1>. QED
  BY <1>1, PaceOthers

\* A datagram that is read leaves one server more of which nothing is expected.
LEMMA PaceRead ==
  ASSUME PaceInv, TypeOK', NEW b \in Call, Read(b)
  PROVE  PaceInv'
<1>1. /\ status[b] = "waiting" /\ UNCHANGED <<requests, op>>
      /\ \A c \in Call : c # b => status'[c] = status[c] /\ received'[c] = received[c]
      /\ replies' \subseteq replies /\ \A m \in replies : m.call # b => m \in replies'
      /\ \/ status'[b] \in {"ok", "fail"}
         \/ /\ received'[b] = received[b] + 1 /\ status'[b] = "waiting"
            /\ \E m \in Heard(b) :
                 replies \ {m} \subseteq replies' /\ (IsPut(b) => ~EnoughAcks(received[b] + 1))
  <2>0. status \in [Call -> {"idle", "waiting", "ok", "fail"}] /\ received \in [Call -> 0..(N - 1)]
    BY DEF PaceInv, TypeOK
  <2>1. ASSUME NEW result \in {"ok", "fail"}, NEW val, Return(b, result, val)
        PROVE  /\ \A c \in Call : c # b => status'[c] = status[c] /\ received'[c] = received[c]
               /\ replies' \subseteq replies /\ \A m \in replies : m.call # b => m \in replies'
               /\ status'[b] \in {"ok", "fail"}
    BY <2>0, <2>1 DEF Return, Heard
  <2>2. ASSUME NEW m \in Heard(b), KeepReading(b, m)
        PROVE  /\ \A c \in Call : c # b => status'[c] = status[c] /\ received'[c] = received[c]
               /\ replies' \subseteq replies /\ \A x \in replies : x.call # b => x \in replies'
               /\ received'[b] = received[b] + 1 /\ status' = status
               /\ replies \ {m} \subseteq replies'
    BY <2>0, <2>2 DEF KeepReading, Heard
  <2>3. CASE GetReceive(b)
    <3>1. IsGet(b) /\ status[b] = "waiting" /\ UNCHANGED <<requests, op>> /\ ~IsPut(b)
      BY <2>3 DEF GetReceive
    <3>2. CASE GetRejected(b)
      BY <2>1, <3>1, <3>2 DEF GetRejected
    <3>3. CASE GetCounted(b)
      <4>1. \E m \in Heard(b) : \E vote : CountVote(b, m, vote)
        BY <3>3, Zenon DEF GetCounted
      <4>. PICK m \in Heard(b) : \E vote : CountVote(b, m, vote)
        BY <4>1
      <4>2. CASE Return(b, "ok", m.body) \/ Return(b, "fail", NoValue)
        BY <2>1, <3>1, <4>2
      <4>3. CASE KeepReading(b, m)
        BY <2>2, <3>1, <4>3
      <4>. QED
        BY <4>1, <4>2, <4>3 DEF CountVote
    <3>. QED
      BY <2>3, <3>2, <3>3 DEF GetReceive
  <2>4. CASE PutReceive(b)
    <3>1. PICK m \in Heard(b) :
            \/ Return(b, "ok", NoValue)
            \/ ~EnoughAcks(received[b] + 1) /\ KeepReading(b, m)
      BY <2>4 DEF PutReceive
    <3>2. status[b] = "waiting" /\ UNCHANGED <<requests, op>>
      BY <2>4 DEF PutReceive
    <3>3. CASE Return(b, "ok", NoValue)
      BY <2>1, <3>2, <3>3
    <3>4. CASE ~EnoughAcks(received[b] + 1) /\ KeepReading(b, m)
      BY <2>2, <3>2, <3>4
    <3>. QED
      BY <3>1, <3>3, <3>4
  <2>5. CASE Timeout(b)
    BY <2>1, <2>5 DEF Timeout
  <2>. QED
    BY <2>3, <2>4, <2>5 DEF Read
<1>2. \A c \in Call : status'[c] = "idle" => received'[c] = 0
  BY <1>1 DEF PaceInv
<1>3. ASSUME NEW c \in Call, IsPut(c)', status'[c] = "waiting"
      PROVE  received'[c] < W /\ Cardinality(Spent(c)') <= received'[c]
  <2>0. IsPut(c)
    BY <1>1, <1>3
  <2>1. CASE c # b
    <3>1. Heard(c)' = Heard(c)
      BY <1>1, <2>1 DEF Heard
    <3>2. Spent(c)' \subseteq Spent(c)
      BY <1>1, <3>1 DEF Spent
    <3>. QED
      BY <1>1, <1>3, <2>0, <2>1, <3>2, PaceKept
  <2>2. CASE c = b
    <3>1. PICK m \in Heard(c) : replies \ {m} \subseteq replies' /\ ~EnoughAcks(received[c] + 1)
      BY <1>1, <1>3, <2>0, <2>2
    <3>2. m.from \in Server
      BY DEF Heard, PaceInv, TypeOK, Reply
    <3>3. Spent(c)' \subseteq Spent(c) \cup {m.from}
      BY <1>1, <3>1 DEF Spent, Heard
    <3>4. /\ Spent(c) \in SUBSET Server /\ Cardinality(Spent(c)) \in Nat
          /\ Cardinality(Spent(c)) <= received[c]
      BY <1>1, <2>0, <2>2, SpentType DEF PaceInv
    <3>5. Cardinality(Spent(c) \cup {m.from}) <= Cardinality(Spent(c)) + 1
      <4>1. CASE m.from \in Spent(c)
        <5>1. Spent(c) \cup {m.from} = Spent(c)
          BY <4>1
        <5>2. Cardinality(Spent(c) \cup {m.from}) = Cardinality(Spent(c))
          BY <5>1, Zenon
        <5>. QED
          BY <3>4, <5>2
      <4>2. CASE m.from \notin Spent(c)
        BY <3>2, <3>4, <4>2, OneMoreServer
      <4>. QED
        BY <4>1, <4>2
    <3>6. /\ Spent(c) \cup {m.from} \in SUBSET Server
          /\ Spent(c)' \in SUBSET Server
      BY <3>2, <3>3, <3>4
    <3>7. /\ Cardinality(Spent(c)') <= Cardinality(Spent(c) \cup {m.from})
          /\ Cardinality(Spent(c)') \in Nat /\ Cardinality(Spent(c) \cup {m.from}) \in Nat
      BY <3>3, <3>6, MoreServers, ServersFinite
    <3>8. received'[c] = received[c] + 1 /\ received[c] \in 0..(N - 1)
      BY <1>1, <1>3, <2>2 DEF PaceInv, TypeOK
    <3>9. received[c] + 1 < W
      BY <3>1, <3>8, OptionAssumption DEF EnoughAcks
    <3>. QED
      BY <3>4, <3>5, <3>7, <3>8, <3>9
  <2>. QED
    BY <2>1, <2>2
<1>. QED
  BY <1>2, <1>3 DEF PaceInv

LEMMA PaceNext ==
  ASSUME ~DumpMayKill, PaceInv, [Next]_vars
  PROVE  PaceInv'
<1>0. TypeOK'
  BY NextTypeOK DEF PaceInv
<1>1. ASSUME NEW c \in Call, Begin(c) PROVE PaceInv'
  BY <1>0, <1>1, PaceBegin
<1>2. ASSUME NEW c \in Call, Read(c) PROVE PaceInv'
  BY <1>0, <1>2, PaceRead
<1>3. ASSUME NEW c \in Call, NEW s \in Server, Serve(c, s) PROVE PaceInv'
  BY <1>0, <1>3, PaceServe
<1>4. ASSUME NEW c \in Call, NEW s \in Server, LoseRequest(c, s) PROVE PaceInv'
  <2>1. ASSUME NEW r \in requests, r \notin requests' PROVE r[2] \in Flaky
    <3>1. r = <<c, s>> /\ s \in Flaky
      BY <1>4, <2>1 DEF LoseRequest, Steady
    <3>2. <<c, s>>[2] = s
      OBVIOUS
    <3>. QED
      BY <3>1, <3>2, Zenon
  <2>2. UNCHANGED <<op, status, received, replies>>
    BY <1>4 DEF LoseRequest
  <2>. QED
    BY <1>0, <2>1, <2>2, PaceLoss
<1>5. ASSUME NEW c \in Call, LoseAnswer(c) PROVE PaceInv'
  BY <1>0, <1>5, PaceLoss DEF LoseAnswer
<1>6. ASSUME NEW s \in Server, Crash(s) PROVE PaceInv'
  BY <1>0, <1>6, PaceLoss DEF Crash
<1>7. CASE UNCHANGED vars
  BY <1>0, <1>7, PaceLoss DEF vars
<1>. QED
  BY <1>1, <1>2, <1>3, <1>4, <1>5, <1>6, <1>7 DEF Next

\* No step makes a put fail that waits for W servers which neither restart nor
\* lose datagrams.
PutsDoNotFail ==
  \A c \in Call :
    /\ IsPut(c) /\ status[c] = "waiting"
    /\ Cardinality(Nodes[op[c].key] \ Flaky) >= W
    => status'[c] # "fail"

LEMMA PaceSuffices ==
  ASSUME "late" \notin Faults, PaceInv, [Next]_vars
  PROVE  PutsDoNotFail
<1>. SUFFICES ASSUME NEW c \in Call, IsPut(c), status[c] = "waiting",
                     Cardinality(Nodes[op[c].key] \ Flaky) >= W, status'[c] = "fail"
              PROVE  FALSE
  BY DEF PutsDoNotFail
<1>0. /\ status \in [Call -> {"idle", "waiting", "ok", "fail"}]
      /\ Nodes[op[c].key] \in SUBSET Server /\ Cardinality(Spent(c)) \in Nat
      /\ received[c] \in 0..(N - 1) /\ received[c] < W /\ Cardinality(Spent(c)) <= received[c]
  BY SpentType DEF PaceInv, TypeOK
<1>1. ASSUME NEW b \in Call, Begin(b) PROVE FALSE
  <2>1. \E new : status' = [status EXCEPT ![b] = new] /\ status[b] = "idle"
    BY <1>1, Zenon DEF Begin, StartGet, StartPut, FailEarly, PutWithoutSocket
  <2>. QED
    BY <1>0, <2>1
<1>2. status' # status
  BY <1>0
<1>3. PICK b \in Call : Read(b)
  <2>1. ~UNCHANGED vars
    BY <1>2 DEF vars
  <2>2. ASSUME NEW b \in Call, NEW s \in Server, Serve(b, s) PROVE FALSE
    BY <1>2, <2>2 DEF Serve, ServePing, ServeDump, ServeGet, ServePut
  <2>3. ASSUME NEW b \in Call, NEW s \in Server, LoseRequest(b, s) PROVE FALSE
    BY <1>2, <2>3 DEF LoseRequest
  <2>4. ASSUME NEW b \in Call, LoseAnswer(b) PROVE FALSE
    BY <1>2, <2>4 DEF LoseAnswer
  <2>5. ASSUME NEW s \in Server, Crash(s) PROVE FALSE
    BY <1>2, <2>5 DEF Crash
  <2>. QED
    BY <1>1, <2>1, <2>2, <2>3, <2>4, <2>5, Zenon DEF Next
<1>4. b = c
  BY <1>0, <1>3 DEF Read, GetReceive, GetRejected, GetCounted, CountVote, PutReceive, Timeout,
                    Return, KeepReading
<1>5. ~GetReceive(c)
  BY DEF GetReceive
<1>6. ~PutReceive(c)
  BY <1>0 DEF PutReceive, Return, KeepReading
<1>7. Timeout(c)
  BY <1>3, <1>4, <1>5, <1>6 DEF Read
<1>8. Heard(c) = {} /\ \A s \in Server : <<c, s>> \notin requests
  BY <1>7 DEF Timeout
<1>9. Spent(c) = Nodes[op[c].key] \ Flaky
  BY <1>0, <1>8 DEF Spent
<1>. QED
  BY <1>0, <1>9, OptionAssumption

-----------------------------------------------------------------------------
(* The theorems.                                                            *)

LEMMA QuorumInvariant == Dependable /\ Countable /\ Spec => []QuorumInv
<1>. SUFFICES ASSUME Dependable, Countable PROVE Spec => []QuorumInv
  BY DEF Dependable, Countable
<1>. QED
  BY QuorumInit, QuorumNext, PTL DEF Spec

\* A get that succeeds was answered its value by R different servers: what
\* increment_and_get counts is servers, whatever is lost, late or restarted.
THEOREM GetsHaveQuorum == Dependable /\ Countable /\ Spec => []GetHasQuorum
BY QuorumInvariant, PTL DEF QuorumInv

\* A put that returns ERR_NONE was executed by W different servers, unless it
\* is the put of "" under "", which no server takes for a put.
THEOREM PutsAreStored ==
  Dependable /\ Countable /\ EmptyKey \notin Key /\ Spec => []PutOkMeansStored
<1>. SUFFICES ASSUME Dependable, Countable, EmptyKey \notin Key
              PROVE  Spec => []PutOkMeansStored
  BY DEF Dependable, Countable
<1>1. ASSUME QuorumInv, NEW p \in Call, Put(p)
      PROVE  \E Q \in SUBSET Server : Cardinality(Q) >= W /\ {p} \X Q \subseteq stored
  <2>1. StoringPut(p) /\ status[p] = "ok"
    BY <1>1 DEF Put, StoringPut, QuorumInv, TypeOK, Operation
  <2>2. Cardinality(StoredAt(p)) >= W /\ StoredAt(p) \in SUBSET Server
    BY <1>1, <2>1, AnsweredType DEF QuorumInv, PutHasQuorum
  <2>3. {p} \X StoredAt(p) \subseteq stored
    BY DEF StoredAt
  <2>. QED
    BY <2>2, <2>3
<1>2. QuorumInv => PutOkMeansStored
  BY <1>1 DEF PutOkMeansStored
<1>. QED
  BY <1>2, QuorumInvariant, PTL

\* A put to a key of which W servers answer in time never fails, whatever the other
\* servers do: each datagram the loop of network_put reads leaves at most one of
\* these servers silent, so that the loop has its W before nothing is left to come.
\* Memory may be short at the clients and at the servers, but not for a dump, which
\* then has no answer: either no allocation fails, or no put is one of "" under "".
THEOREM PutsInTimeSucceed ==
  "late" \notin Faults /\ ~DumpMayKill /\ Spec => [][PutsDoNotFail]_vars
<1>. SUFFICES ASSUME "late" \notin Faults, ~DumpMayKill PROVE Spec => [][PutsDoNotFail]_vars
  BY DEF DumpMayKill
<1>1. PaceInv /\ [Next]_vars => PaceInv'
  BY PaceNext
<1>2. PaceInv /\ [Next]_vars => PutsDoNotFail
  BY PaceSuffices
<1>. QED
  BY <1>1, <1>2, PaceInit, PTL DEF Spec
=============================================================================
