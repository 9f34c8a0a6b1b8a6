----------------------------- MODULE DHTProofs -----------------------------
(***************************************************************************)
(* Proofs about DHT, for every set of servers, keys, values and calls.     *)
(***************************************************************************)
EXTENDS DHT, FiniteSetTheorems, TLAPS

USE DEF IsGet, IsPut

-----------------------------------------------------------------------------
(* Typing.                                                                  *)

\* The counter of a value stays a character.
LEMMA IncrementType ==
  ASSUME NEW b \in Byte, NEW mayFail, NEW vote \in Increment(b, mayFail)
  PROVE  vote[1] \in Byte /\ vote[2] \in Byte
BY DEF Byte, Increment, Bump

LEMMA NoVotesType == NoVotes \in [Value -> Byte]
BY DEF NoVotes, Byte

LEMMA InitTypeOK == Init => TypeOK
BY DataAssumption, OptionAssumption, PlanAssumption, NoVotesType DEF Init, TypeOK

LEMMA BeginTypeOK ==
  ASSUME TypeOK, NEW c \in Call, Begin(c)
  PROVE  TypeOK'
<1>1. CASE StartGet(c)
  <2>1. op[c] \in Operation /\ op[c].key \in Key /\ Nodes[op[c].key] \subseteq Server
    BY PlacementAssumption DEF TypeOK, Operation
  <2>2. Settled(op[c].key) \in Value \cup {NoValue}
    BY <2>1 DEF Settled, TypeOK, Operation
  <2>. QED
    BY <1>1, <2>1, <2>2 DEF StartGet, Send, GetBegins, TypeOK
<1>2. CASE StartPut(c)
  <2>1. op[c] \in Operation /\ op[c].key \in Key /\ Nodes[op[c].key] \subseteq Server
    BY PlacementAssumption DEF TypeOK, Operation
  <2>. QED
    BY <1>2, <2>1 DEF StartPut, Send, PutBegins, TypeOK
<1>3. CASE FailEarly(c)
  BY <1>3 DEF FailEarly, history, TypeOK
<1>4. CASE PutWithoutSocket(c)
  BY <1>4 DEF PutWithoutSocket, PutBegins, TypeOK
<1>. QED
  BY <1>1, <1>2, <1>3, <1>4 DEF Begin

\* Sending an answer keeps the two sets of answers well typed.
LEMMA AnswerType ==
  ASSUME TypeOK, NEW c \in Call, NEW s \in Server,
         NEW body \in Value \cup {NotFound}, Answer(c, s, body)
  PROVE  (replies \subseteq Reply)' /\ (sent \subseteq Reply)'
BY DEF Answer, TypeOK, Reply

LEMMA SendDumpType ==
  ASSUME TypeOK, NEW c \in Call, NEW s \in Server, SendDump(c, s)
  PROVE  (replies \subseteq Reply)'
<1>1. PICK B \in SUBSET Value :
        replies' = IF status[c] = "waiting"
                   THEN replies \cup {[call |-> c, from |-> s, body |-> b] : b \in B}
                   ELSE replies
  BY DEF SendDump, Packets
<1>. QED
  BY <1>1 DEF TypeOK, Reply

LEMMA EmptiedType ==
  ASSUME TypeOK, NEW s \in Server
  PROVE  Emptied(s) \in [Server -> [Key -> Value \cup {NoValue}]]
BY DEF Emptied, TypeOK

LEMMA WithEntryType ==
  ASSUME TypeOK, NEW s \in Server, NEW k \in Key, NEW v \in Value
  PROVE  WithEntry(s, k, v) \in [Server -> [Key -> Value \cup {NoValue}]]
<1>1. [table[s] EXCEPT ![k] = v] \in [Key -> Value \cup {NoValue}]
  BY DEF TypeOK
<1>. QED
  BY <1>1 DEF WithEntry, TypeOK

LEMMA ServeTypeOK ==
  ASSUME TypeOK, NEW c \in Call, NEW s \in Server, Serve(c, s)
  PROVE  TypeOK'
<1>0. op[c] \in Operation /\ (TakeRequest(c, s) => (requests \subseteq Call \X Server)')
  BY DEF TypeOK, TakeRequest
<1>1. CASE ServePing(c, s)
  BY <1>0, <1>1, AnswerType, DataAssumption DEF ServePing, TypeOK
<1>2. CASE ServeDump(c, s)
  <2>1. (replies \subseteq Reply)'
    BY <1>2, SendDumpType DEF ServeDump, TypeOK
  <2>2. (table \in [Server -> [Key -> Value \cup {NoValue}]])'
    BY <1>2, EmptiedType DEF ServeDump, TypeOK
  <2>. QED
    BY <1>0, <1>2, <2>1, <2>2 DEF ServeDump, history, TypeOK
<1>3. CASE ServeGet(c, s)
  <2>1. table[s][op[c].key] \in Value \cup {NoValue}
    BY <1>0 DEF TypeOK, Operation
  <2>2. (replies \subseteq Reply)' /\ (sent \subseteq Reply)'
    BY <1>3, <2>1, AnswerType DEF ServeGet
  <2>. QED
    BY <1>0, <1>3, <2>2 DEF ServeGet, TypeOK
<1>4. CASE ServePut(c, s)
  <2>1. op[c].key \in Key /\ op[c].val \in Value
    BY <1>0, <1>4 DEF Operation, ServePut
  <2>2. (replies \subseteq Reply)' /\ (sent \subseteq Reply)'
    BY <1>4, AnswerType, DataAssumption DEF ServePut
  <2>3. table' \in [Server -> [Key -> Value \cup {NoValue}]]
    BY <1>4, <2>1, WithEntryType DEF ServePut, TypeOK
  <2>4. stored' \subseteq Call \X Server
    BY <1>4 DEF ServePut, TypeOK
  <2>. QED
    BY <1>0, <1>4, <2>2, <2>3, <2>4 DEF ServePut, TypeOK
<1>. QED
  BY <1>1, <1>2, <1>3, <1>4 DEF Serve

\* A call that returns leaves a well typed state.
LEMMA ReturnType ==
  ASSUME TypeOK, NEW c \in Call, NEW result \in {"ok", "fail"},
         NEW val \in Value \cup {NoValue}, Return(c, result, val),
         UNCHANGED <<table, requests, op, history>>
  PROVE  TypeOK'
BY NoVotesType, OptionAssumption DEF Return, TypeOK, history

\* The loop counter stays below the number of nodes.
LEMMA LastReadType ==
  ASSUME TypeOK, NEW c \in Call, ~LastRead(c)
  PROVE  [received EXCEPT ![c] = @ + 1] \in [Call -> 0..(N - 1)]
<1>1. received[c] \in 0..(N - 1) /\ N \in Nat
  BY OptionAssumption DEF TypeOK
<1>2. received[c] + 1 \in 0..(N - 1)
  BY <1>1 DEF LastRead
<1>. QED
  BY <1>2 DEF TypeOK

LEMMA EnoughAcksType ==
  ASSUME TypeOK, NEW c \in Call, ~EnoughAcks(received[c] + 1)
  PROVE  [received EXCEPT ![c] = @ + 1] \in [Call -> 0..(N - 1)]
<1>1. received[c] \in 0..(N - 1) /\ N \in Nat /\ W \in 1..N
  BY OptionAssumption DEF TypeOK
<1>2. received[c] + 1 \in 0..(N - 1)
  BY <1>1 DEF EnoughAcks
<1>. QED
  BY <1>2 DEF TypeOK

LEMMA ReadTypeOK ==
  ASSUME TypeOK, NEW c \in Call, Read(c)
  PROVE  TypeOK'
<1>1. CASE GetReceive(c)
  <2>1. CASE GetRejected(c)
    BY <1>1, <2>1, ReturnType DEF GetReceive, GetRejected
  <2>2. CASE GetCounted(c)
    <3>1. PICK m \in Heard(c) :
            /\ m.body # NotFound
            /\ \E vote \in Increment(tally[c][m.body], "nomem" \in Faults) :
                 CountVote(c, m, vote)
      BY <2>2 DEF GetCounted
    <3>2. m.body \in Value /\ tally[c][m.body] \in Byte
      BY <3>1 DEF Heard, TypeOK, Reply
    <3>3. PICK vote \in Increment(tally[c][m.body], "nomem" \in Faults) : CountVote(c, m, vote)
      BY <3>1
    <3>4. CASE Return(c, "ok", m.body) \/ Return(c, "fail", NoValue)
      BY <1>1, <3>2, <3>4, ReturnType DEF GetReceive
    <3>5. CASE /\ ~LastRead(c) /\ KeepReading(c, m)
               /\ tally' = [tally EXCEPT ![c][m.body] = vote[2]]
      <4>1. vote[2] \in Byte
        BY <3>2, IncrementType
      <4>2. received' \in [Call -> 0..(N - 1)]
        BY <3>5, LastReadType DEF KeepReading
      <4>. QED
        BY <1>1, <3>2, <3>5, <4>1, <4>2 DEF GetReceive, KeepReading, TypeOK, history
    <3>. QED
      BY <3>3, <3>4, <3>5 DEF CountVote
  <2>. QED
    BY <1>1, <2>1, <2>2 DEF GetReceive
<1>2. CASE PutReceive(c)
  <2>1. PICK m \in Heard(c) :
          \/ EnoughAcks(received[c] + 1) /\ Return(c, "ok", NoValue)
          \/ ~EnoughAcks(received[c] + 1) /\ KeepReading(c, m) /\ UNCHANGED tally
    BY <1>2 DEF PutReceive
  <2>2. CASE Return(c, "ok", NoValue)
    BY <1>2, <2>2, ReturnType DEF PutReceive
  <2>3. CASE ~EnoughAcks(received[c] + 1) /\ KeepReading(c, m) /\ UNCHANGED tally
    <3>1. received' \in [Call -> 0..(N - 1)]
      BY <2>3, EnoughAcksType DEF KeepReading
    <3>. QED
      BY <1>2, <2>3, <3>1 DEF PutReceive, KeepReading, TypeOK, history
  <2>. QED
    BY <2>1, <2>2, <2>3
<1>3. CASE Timeout(c)
  BY <1>3, ReturnType DEF Timeout
<1>. QED
  BY <1>1, <1>2, <1>3 DEF Read

LEMMA NextTypeOK == TypeOK /\ [Next]_vars => TypeOK'
<1>. SUFFICES ASSUME TypeOK, [Next]_vars PROVE TypeOK'
  OBVIOUS
<1>1. CASE \E c \in Call : Begin(c) \/ Read(c)
  BY <1>1, BeginTypeOK, ReadTypeOK
<1>2. CASE \E c \in Call, s \in Server : Serve(c, s)
  BY <1>2, ServeTypeOK
<1>3. CASE \E c \in Call, s \in Server : LoseRequest(c, s)
  BY <1>3 DEF LoseRequest, TypeOK, history
<1>4. CASE \E c \in Call : LoseAnswer(c)
  BY <1>4 DEF LoseAnswer, TypeOK, history
<1>5. CASE \E s \in Server : Crash(s)
  BY <1>5, EmptiedType DEF Crash, TypeOK, history
<1>6. CASE UNCHANGED vars
  BY <1>6 DEF vars, history, TypeOK
<1>. QED
  BY <1>1, <1>2, <1>3, <1>4, <1>5, <1>6 DEF Next

\* The state keeps its shape whatever the environment does.  In particular a
\* call never reads more datagrams than its key has servers.
THEOREM TypeCorrect == Spec => []TypeOK
BY InitTypeOK, NextTypeOK, PTL DEF Spec

-----------------------------------------------------------------------------
(* What a step of a client that reads may do.                               *)

Fails(c) ==
  /\ status' = [status EXCEPT ![c] = "fail"]
  /\ value' = [value EXCEPT ![c] = NoValue]

LEMMA ReadStep ==
  ASSUME NEW c \in Call, Read(c)
  PROVE  /\ UNCHANGED <<table, requests, op, history>>
         /\ replies' \subseteq replies
         /\ status[c] = "waiting"
         /\ \/ UNCHANGED <<status, value>>
            \/ Fails(c)
            \/ /\ IsGet(c)
               /\ \E m \in Heard(c) : m.body # NotFound /\ Return(c, "ok", m.body)
            \/ IsPut(c) /\ Return(c, "ok", NoValue)
<1>1. CASE GetReceive(c)
  <2>1. CASE GetRejected(c)
    BY <1>1, <2>1 DEF GetReceive, GetRejected, Return, Fails
  <2>2. CASE GetCounted(c)
    <3>1. PICK m \in Heard(c) : m.body # NotFound /\ \E vote : CountVote(c, m, vote)
      BY <2>2 DEF GetCounted
    <3>. QED
      BY <1>1, <3>1 DEF GetReceive, CountVote, Return, Fails, KeepReading
  <2>. QED
    BY <1>1, <2>1, <2>2 DEF GetReceive
<1>2. CASE PutReceive(c)
  BY <1>2 DEF PutReceive, Return, KeepReading
<1>3. CASE Timeout(c)
  BY <1>3 DEF Timeout, Return, Fails
<1>. QED
  BY <1>1, <1>2, <1>3 DEF Read

\* A get is successful after such a step because it was before, or because it
\* returns what it has just heard.
LEMMA GotByReading ==
  ASSUME TypeOK, NEW c \in Call, Read(c), NEW g \in Call, Got(g)'
  PROVE  \/ Got(g) /\ value'[g] = value[g]
         \/ g = c /\ \E m \in Heard(c) : m.body # NotFound /\ value'[g] = m.body
<1>1. op' = op /\ status'[g] = "ok" /\ IsGet(g)
  BY ReadStep DEF Got
<1>2. CASE UNCHANGED <<status, value>>
  BY <1>1, <1>2 DEF Got
<1>3. CASE Fails(c)
  BY <1>1, <1>3 DEF Fails, Got, TypeOK
<1>4. CASE IsPut(c) /\ Return(c, "ok", NoValue)
  BY <1>1, <1>4 DEF Return, Got, TypeOK
<1>5. CASE \E m \in Heard(c) : m.body # NotFound /\ Return(c, "ok", m.body)
  BY <1>1, <1>5 DEF Return, Got, TypeOK
<1>. QED
  BY <1>2, <1>3, <1>4, <1>5, ReadStep

\* An operation never changes, and a call that has begun stays so.
LEMMA Begun ==
  ASSUME TypeOK, [Next]_vars
  PROVE  op' = op /\ \A c \in Call : status[c] # "idle" => status'[c] # "idle"
<1>1. CASE \E c \in Call : Begin(c)
  BY <1>1 DEF Begin, StartGet, StartPut, FailEarly, PutWithoutSocket, TypeOK
<1>2. CASE \E c \in Call : Read(c)
  BY <1>2, ReadStep DEF Fails, Return, TypeOK
<1>3. CASE \E c \in Call, s \in Server : Serve(c, s)
  BY <1>3 DEF Serve, ServePing, ServeDump, ServeGet, ServePut
<1>4. CASE UNCHANGED <<op, status>>
  BY <1>4
<1>. QED
  BY <1>1, <1>2, <1>3, <1>4 DEF Next, LoseRequest, LoseAnswer, Crash, vars

LEMMA PutBegunStable ==
  ASSUME TypeOK, [Next]_vars
  PROVE  \A k, v : PutBegun(k, v) => PutBegun(k, v)'
BY Begun DEF PutBegun

-----------------------------------------------------------------------------
(* NoInvention.  The values come from puts wherever they are: in a table,   *)
(* on the network, and in the hands of a get.                               *)

RequestsBegun == \A r \in requests : status[r[1]] # "idle"

TableFromPuts ==
  \A s \in Server, k \in Key : table[s][k] # NoValue => PutBegun(k, table[s][k])

RepliesFromPuts ==
  \A m \in replies :
    IsGet(m.call) /\ op[m.call].key # EmptyKey =>
      m.body = NotFound \/ PutBegun(op[m.call].key, m.body)

FromPuts == TypeOK /\ RequestsBegun /\ TableFromPuts /\ RepliesFromPuts /\ NoInvention

LEMMA FromPutsInit == Init => FromPuts
<1>. SUFFICES ASSUME Init PROVE FromPuts
  OBVIOUS
<1>. QED
  BY InitTypeOK DEF Init, FromPuts, RequestsBegun, TableFromPuts, RepliesFromPuts, NoInvention, Got

LEMMA FromPutsNext == FromPuts /\ [Next]_vars => FromPuts'
<1>. SUFFICES ASSUME FromPuts, [Next]_vars PROVE FromPuts'
  OBVIOUS
<1>. USE DEF FromPuts
<1>0. TypeOK' /\ op' = op
  BY NextTypeOK, Begun
<1>1. CASE \E c \in Call : Begin(c)
  <2>1. PICK c \in Call : Begin(c)
    BY <1>1
  <2>2. UNCHANGED <<table, replies, value>> /\ requests' \subseteq requests \cup ({c} \X Server)
    BY <2>1, PlacementAssumption
       DEF Begin, StartGet, StartPut, FailEarly, PutWithoutSocket, Send, TypeOK, Operation
  <2>3. status' \in [Call -> {"idle", "waiting", "ok", "fail"}]
    BY <1>0 DEF TypeOK
  <2>4. RequestsBegun'
    BY <2>1, <2>2, Begun DEF Begin, StartGet, StartPut, FailEarly, PutWithoutSocket, RequestsBegun, TypeOK, Send
  <2>5. TableFromPuts' /\ RepliesFromPuts'
    BY <1>0, <2>2, PutBegunStable DEF TableFromPuts, RepliesFromPuts
  <2>6. NoInvention'
    BY <1>0, <2>1, <2>2, PutBegunStable
       DEF Begin, StartGet, StartPut, FailEarly, PutWithoutSocket, NoInvention, Got, TypeOK
  <2>. QED
    BY <1>0, <2>4, <2>5, <2>6
<1>2. CASE \E c \in Call : Read(c)
  <2>1. PICK c \in Call : Read(c)
    BY <1>2
  <2>2. UNCHANGED <<table, requests>> /\ replies' \subseteq replies
    BY <2>1, ReadStep
  <2>3. RequestsBegun' /\ TableFromPuts' /\ RepliesFromPuts'
    BY <1>0, <2>2, Begun, PutBegunStable DEF RequestsBegun, TableFromPuts, RepliesFromPuts, TypeOK
  <2>4. ASSUME NEW g \in Call, Got(g)', op[g].key # EmptyKey
        PROVE  PutBegun(op[g].key, value[g])'
    <3>1. CASE Got(g) /\ value'[g] = value[g]
      BY <1>0, <2>4, <3>1, Begun DEF NoInvention, PutBegun
    <3>2. CASE g = c /\ \E m \in Heard(c) : m.body # NotFound /\ value'[g] = m.body
      BY <1>0, <2>4, <3>2, Begun DEF RepliesFromPuts, Heard, Got, PutBegun
    <3>3. \/ Got(g) /\ value'[g] = value[g]
          \/ g = c /\ \E m \in Heard(c) : m.body # NotFound /\ value'[g] = m.body
      BY <1>0, <2>1, <2>4, GotByReading
    <3>. QED
      BY <3>1, <3>2, <3>3
  <2>. QED
    BY <1>0, <2>3, <2>4 DEF NoInvention
<1>3. CASE \E c \in Call, s \in Server : Serve(c, s)
  <2>1. PICK c \in Call, s \in Server : Serve(c, s)
    BY <1>3
  <2>2. UNCHANGED <<status, value>> /\ requests' \subseteq requests /\ <<c, s>> \in requests
    BY <2>1 DEF Serve, ServePing, ServeDump, ServeGet, ServePut, TakeRequest
  <2>3. RequestsBegun' /\ NoInvention'
    BY <1>0, <2>2, PutBegunStable DEF RequestsBegun, NoInvention, Got
  <2>4. TableFromPuts'
    <3>1. CASE ServePut(c, s)
      <4>1. op[c].key \in Key /\ op[c].val \in Value
        BY <3>1 DEF ServePut, TypeOK, Operation
      <4>2. PutBegun(op[c].key, op[c].val)
        BY <2>2, <3>1 DEF ServePut, PutBegun, RequestsBegun
      <4>3. table' = table \/ table' = WithEntry(s, op[c].key, op[c].val)
        BY <3>1 DEF ServePut
      <4>4. ASSUME NEW t \in Server, NEW k \in Key
            PROVE  \/ table'[t][k] = table[t][k]
                   \/ k = op[c].key /\ table'[t][k] = op[c].val
        <5>1. table \in [Server -> [Key -> Value \cup {NoValue}]]
          BY DEF TypeOK
        <5>2. CASE table' = WithEntry(s, op[c].key, op[c].val)
          BY <5>1, <5>2 DEF WithEntry
        <5>. QED
          BY <4>3, <5>2
      <4>. QED
        BY <4>2, <4>4, PutBegunStable DEF TableFromPuts
    <3>2. CASE UNCHANGED table
      BY <3>2, PutBegunStable DEF TableFromPuts
    <3>3. CASE ServeDump(c, s)
      <4>1. table' = table \/ table' = Emptied(s)
        BY <3>3 DEF ServeDump
      <4>2. ASSUME NEW t \in Server, NEW k \in Key
            PROVE  table'[t][k] \in {table[t][k], NoValue}
        BY <4>1 DEF Emptied, TypeOK
      <4>. QED
        BY <4>2, PutBegunStable DEF TableFromPuts
    <3>. QED
      BY <2>1, <3>1, <3>2, <3>3 DEF Serve, ServePing, ServeGet
  <2>5. RepliesFromPuts'
    <3>1. CASE ServeGet(c, s)
      <4>1. op[c].key \in Key
        BY DEF TypeOK, Operation
      <4>. QED
        BY <1>0, <3>1, <4>1, PutBegunStable DEF ServeGet, Answer, RepliesFromPuts, TableFromPuts
    <3>2. CASE ServePing(c, s) \/ ServePut(c, s)
      BY <1>0, <3>2, PutBegunStable DEF ServePing, ServePut, Answer, RepliesFromPuts
    <3>3. CASE ServeDump(c, s)
      <4>1. IsPut(c) /\ \A m \in replies' \ replies : m.call = c
        BY <3>3 DEF ServeDump, SendDump
      <4>. QED
        BY <1>0, <4>1, PutBegunStable DEF RepliesFromPuts
    <3>. QED
      BY <2>1, <3>1, <3>2, <3>3 DEF Serve
  <2>. QED
    BY <1>0, <2>3, <2>4, <2>5
<1>4. CASE \E s \in Server : Crash(s)
  BY <1>0, <1>4, PutBegunStable
     DEF Crash, Emptied, RequestsBegun, TableFromPuts, RepliesFromPuts, NoInvention, Got, TypeOK
<1>5. CASE /\ UNCHANGED <<table, status, value>>
           /\ requests' \subseteq requests /\ replies' \subseteq replies
  BY <1>0, <1>5, PutBegunStable DEF RequestsBegun, TableFromPuts, RepliesFromPuts, NoInvention, Got
<1>. QED
  BY <1>1, <1>2, <1>3, <1>4, <1>5 DEF Next, LoseRequest, LoseAnswer, vars

\* Whatever the environment does, a get that succeeds returns a value that a
\* put on its key has sent.
THEOREM NothingInvented == Spec => []NoInvention
<1>1. FromPuts => NoInvention
  BY DEF FromPuts
<1>. QED
  BY <1>1, FromPutsInit, FromPutsNext, PTL DEF Spec
=============================================================================
