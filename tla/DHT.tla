-------------------------------- MODULE DHT --------------------------------
(***************************************************************************)
(* The replicated key-value store: clients that put and get, servers that  *)
(* keep a table in memory, and the UDP datagrams between them.             *)
(*                                                                         *)
(* A call is one execution of network_put or network_get.  It opens a      *)
(* socket of its own, sends one datagram to each of the N servers of the   *)
(* key, and reads answers until its quorum, a timeout or N datagrams; the  *)
(* socket is then closed and what arrives later is dropped.  Datagrams are *)
(* kept in sets, so they are delivered in any order and after any delay.   *)
(***************************************************************************)
EXTENDS Tally, FiniteSets

CONSTANTS
  Server,      \* the servers of servers.txt
  Key, Value,  \* the strings a call may use
  Call,        \* the executions of network_put and network_get
  Plans,       \* what the calls may be: functions from Call to Operation
  N, R, W,     \* options -n, -r and -w
  Nodes,       \* Nodes[k] is what ring_get_nodes_for_key returns for k
  EmptyKey,    \* the string "" as a key, which Key may contain
  EmptyValue,  \* the string "" as a value: a datagram of length zero
  NotFound,    \* the body "\0" of an answer
  NoValue,     \* no entry in a table, no value returned
  NoCall,      \* no call
  Faults,      \* what may go wrong in the environment
  Flaky        \* the servers that may be restarted or lose datagrams

\* A request or an answer is lost, arrives after the timeout, or arrives twice;
\* a server is started again; an allocation or socket() fails.
FaultKinds ==
  {"lost request", "lost answer", "late", "duplicate", "crash", "nomem", "socket"}

ASSUME DataAssumption ==
  /\ IsFiniteSet(Server)
  /\ EmptyValue \in Value
  /\ NotFound \notin Value
  /\ NoValue \notin Value
  /\ NoCall \notin Call
  /\ Faults \subseteq FaultKinds
  /\ Flaky \subseteq Server

Operation ==
  [type : {"put"}, key : Key, val : Value] \cup
  [type : {"get"}, key : Key, val : {NoValue}]

ASSUME PlanAssumption == Plans \subseteq [Call -> Operation]

\* parse_opt_args accepts only 1 <= R <= N and 1 <= W <= N.
ASSUME OptionAssumption ==
  /\ N \in Nat /\ R \in 1..N /\ W \in 1..N

\* ring_get_nodes_for_key returns N distinct servers.
ASSUME PlacementAssumption ==
  /\ Nodes \in [Key -> SUBSET Server]
  /\ \A k \in Key : Cardinality(Nodes[k]) = N

VARIABLES
  table,     \* table[s][k]: the value server s has for key k
  requests,  \* the pairs <<c, s>>: the request of call c on its way to s
  replies,   \* the answers on their way to calls that still read
  op,        \* op[c]: the operation call c performs
  status,    \* status[c]: not begun, reading answers, or returned
  received,  \* received[c]: the datagrams the loop of c has read
  tally,     \* tally[c][v]: the local table of network_get
  value      \* value[c]: the value a successful get has returned

(* History variables: no action reads them except to maintain them.        *)
VARIABLES
  sent,      \* every answer put on the network for a get that still read
  stored,    \* the pairs <<c, s>>: s has executed the put of call c
  owner,     \* owner[k]: the last put begun on k, when no request of an
             \* earlier put on k was on its way as it began; else NoCall
  expect,    \* expect[g]: what the last put on the key had stored and
             \* acknowledged as get g began, until another put begins
  quiet      \* the gets begun with no put request on their key on its way,
             \* until a put on the key begins

history == <<sent, stored, owner, expect, quiet>>
vars == <<table, requests, replies, op, status, received, tally, value, history>>

Reply == [call : Call, from : Server, body : Value \cup {NotFound}]

IsGet(c) == op[c].type = "get"
IsPut(c) == op[c].type = "put"

NoVotes == [v \in Value |-> 0]
PutsOnTheWay(k) == {r \in requests : IsPut(r[1]) /\ op[r[1]].key = k}

\* The shape of the state.  A call that has not returned has read fewer datagrams
\* than its key has servers: the loops of network.c are left at the N-th.
TypeOK ==
  /\ table \in [Server -> [Key -> Value \cup {NoValue}]]
  /\ requests \subseteq Call \X Server
  /\ replies \subseteq Reply
  /\ op \in [Call -> Operation]
  /\ status \in [Call -> {"idle", "waiting", "ok", "fail"}]
  /\ received \in [Call -> 0..(N - 1)]
  /\ tally \in [Call -> [Value -> Byte]]
  /\ value \in [Call -> Value \cup {NoValue}]
  /\ sent \subseteq Reply
  /\ stored \subseteq Call \X Server
  /\ owner \in [Key -> Call \cup {NoCall}]
  /\ expect \in [Call -> Value \cup {NoValue}]
  /\ quiet \subseteq Call

Init ==
  /\ table = [s \in Server |-> [k \in Key |-> NoValue]]
  /\ requests = {}
  /\ replies = {}
  /\ op \in Plans
  /\ status = [c \in Call |-> "idle"]
  /\ received = [c \in Call |-> 0]
  /\ tally = [c \in Call |-> NoVotes]
  /\ value = [c \in Call |-> NoValue]
  /\ sent = {}
  /\ stored = {}
  /\ owner = [k \in Key |-> NoCall]
  /\ expect = [c \in Call |-> NoValue]
  /\ quiet = {}

-----------------------------------------------------------------------------
(* The client: the beginning of a call.                                     *)

\* The sendto loop over the nodes of the key; its results are ignored.
Send(c) == requests' = requests \cup ({c} \X Nodes[op[c].key])

\* What the history records when the put c begins.
PutBegins(c) ==
  LET k == op[c].key
  IN  /\ owner' = [owner EXCEPT ![k] = IF PutsOnTheWay(k) = {} THEN c ELSE NoCall]
      /\ expect' = [g \in Call |-> IF op[g].key = k THEN NoValue ELSE expect[g]]
      /\ quiet' = {g \in quiet : op[g].key # k}
      /\ UNCHANGED <<sent, stored>>

\* What the last put on key k has stored and acknowledged, if anything.
Settled(k) ==
  IF owner[k] # NoCall /\ status[owner[k]] = "ok" THEN op[owner[k]].val ELSE NoValue

\* What the history records when the get g begins.
GetBegins(g) ==
  LET k == op[g].key
  IN  /\ expect' = [expect EXCEPT ![g] = Settled(k)]
      /\ quiet' = IF PutsOnTheWay(k) = {} THEN quiet \cup {g} ELSE quiet
      /\ UNCHANGED <<sent, stored, owner>>

StartGet(c) ==
  /\ status[c] = "idle" /\ IsGet(c)
  /\ Send(c)
  /\ status' = [status EXCEPT ![c] = "waiting"]
  /\ GetBegins(c)
  /\ UNCHANGED <<table, replies, op, received, tally, value>>

StartPut(c) ==
  /\ status[c] = "idle" /\ IsPut(c)
  /\ Send(c)
  /\ status' = [status EXCEPT ![c] = "waiting"]
  /\ PutBegins(c)
  /\ UNCHANGED <<table, replies, op, received, tally, value>>

\* No socket (network_get), or no memory for the packet, the local table or
\* the list of nodes: the call returns an error before it sends anything.
FailEarly(c) ==
  /\ Faults \cap {"nomem", "socket"} # {}
  /\ status[c] = "idle"
  /\ status' = [status EXCEPT ![c] = "fail"]
  /\ UNCHANGED <<table, requests, replies, op, received, tally, value, history>>

\* M_EXIT_IF_ERR evaluates create_socket(&socket) twice: once for its test and
\* once for the value to return.  A first failure and a second success make
\* network_put return ERR_NONE before it has sent anything.
PutWithoutSocket(c) ==
  /\ "socket" \in Faults
  /\ status[c] = "idle" /\ IsPut(c)
  /\ status' = [status EXCEPT ![c] = "ok"]
  /\ PutBegins(c)
  /\ UNCHANGED <<table, requests, replies, op, received, tally, value>>

-----------------------------------------------------------------------------
(* The server: one iteration of the loop of pps-launch-server.  The four    *)
(* branches are chosen by the length of the datagram and its first NUL.     *)

\* recvfrom takes the datagram; a duplicated one arrives again.
TakeRequest(c, s) ==
  /\ <<c, s>> \in requests
  /\ \/ requests' = requests \ {<<c, s>>}
     \/ "duplicate" \in Faults /\ UNCHANGED requests

\* sendto.  An answer to a call that has returned meets a closed socket.
Answer(c, s, body) ==
  LET reply == [call |-> c, from |-> s, body |-> body]
  IN  IF status[c] = "waiting"
      THEN /\ replies' = replies \cup {reply}
           /\ sent' = IF IsGet(c) THEN sent \cup {reply} ELSE sent
      ELSE UNCHANGED <<replies, sent>>

\* Length 0: what pps-list-nodes sends, and also what a get of "" sends.
ServePing(c, s) ==
  /\ IsGet(c) /\ op[c].key = EmptyKey
  /\ TakeRequest(c, s)
  /\ Answer(c, s, EmptyValue)
  /\ UNCHANGED <<table, op, status, received, tally, value, stored, owner, expect, quiet>>

\* The packets of a dump, told apart by their bodies: EmptyValue stands for the
\* one with the number of pairs, and any other value for one that a pair begins.
\* The size of the strings decides how many pairs begin a packet.
Packets(s) ==
  {B \in SUBSET Value :
     /\ EmptyValue \in B
     /\ Cardinality(B) <= 1 + Cardinality({k \in Key : table[s][k] # NoValue})}

\* A put of "" under "" counts every packet as an acknowledgement.
SendDump(c, s) ==
  \E B \in Packets(s) :
    replies' = IF status[c] = "waiting"
               THEN replies \cup {[call |-> c, from |-> s, body |-> b] : b \in B}
               ELSE replies

\* The table lives in memory only: a server that is started again is empty.
Emptied(s) == [table EXCEPT ![s] = [k \in Key |-> NoValue]]

\* The single byte "\0": what pps-dump-node sends, and also a put of "" under
\* "".  The content of the table is sent.  Without memory for the packet nothing
\* is sent; without memory for the list the server dies of the NULL it reads.
ServeDump(c, s) ==
  /\ IsPut(c) /\ op[c].key = EmptyKey /\ op[c].val = EmptyValue
  /\ TakeRequest(c, s)
  /\ \/ SendDump(c, s) /\ UNCHANGED table
     \/ "nomem" \in Faults /\ UNCHANGED <<replies, table>>
     \/ "nomem" \in Faults /\ table' = Emptied(s) /\ UNCHANGED replies
  /\ UNCHANGED <<op, status, received, tally, value, history>>

\* No NUL in the datagram.  A copy that cannot be allocated reads as "absent".
ServeGet(c, s) ==
  /\ IsGet(c) /\ op[c].key # EmptyKey
  /\ TakeRequest(c, s)
  /\ LET found == table[s][op[c].key]
     IN  \/ found # NoValue /\ Answer(c, s, found)
         \/ (found = NoValue \/ "nomem" \in Faults) /\ Answer(c, s, NotFound)
  /\ UNCHANGED <<table, op, status, received, tally, value, stored, owner, expect, quiet>>

\* Variant: an entry that exists is kept.
WithFirstEntry(s, k, v) ==
  IF table[s][k] = NoValue THEN [table EXCEPT ![s][k] = v] ELSE table

\* add_Htable_value: an entry of the key is overwritten.
WithEntry(s, k, v) == [table EXCEPT ![s][k] = v]

\* A NUL and more: the result of add_Htable_value is ignored, and the empty
\* acknowledgement is sent in any case.
ServePut(c, s) ==
  /\ IsPut(c) /\ (op[c].key # EmptyKey \/ op[c].val # EmptyValue)
  /\ TakeRequest(c, s)
  /\ \/ /\ table' = WithEntry(s, op[c].key, op[c].val)
        /\ stored' = stored \cup {<<c, s>>}
     \/ "nomem" \in Faults /\ UNCHANGED <<table, stored>>
  /\ Answer(c, s, EmptyValue)
  /\ UNCHANGED <<op, status, received, tally, value, owner, expect, quiet>>

Serve(c, s) ==
  ServePing(c, s) \/ ServeDump(c, s) \/ ServeGet(c, s) \/ ServePut(c, s)

\* The dump branch is the one that can end a server for lack of memory.
DumpMayKill == "nomem" \in Faults /\ EmptyKey \in Key

\* A server that never restarts.
Steady(s) == ~DumpMayKill /\ ("crash" \notin Faults \/ s \notin Flaky)

\* The datagrams a server has missed are lost, see LoseRequest.
Crash(s) ==
  /\ "crash" \in Faults /\ s \in Flaky
  /\ table' = Emptied(s)
  /\ UNCHANGED <<requests, replies, op, status, received, tally, value, history>>

-----------------------------------------------------------------------------
(* The network.                                                             *)

\* Variant: one socket for all calls.
HeardByAnyone(c) == replies

\* What recv may return to call c: each call has a socket of its own.
Heard(c) == {m \in replies : m.call = c}

LoseRequest(c, s) ==
  /\ \/ ~Steady(s)
     \/ "lost request" \in Faults /\ s \in Flaky
  /\ <<c, s>> \in requests
  /\ requests' = requests \ {<<c, s>>}
  /\ UNCHANGED <<table, replies, op, status, received, tally, value, history>>

LoseAnswer(c) ==
  /\ "lost answer" \in Faults
  /\ \E m \in Heard(c) : m.from \in Flaky /\ replies' = replies \ {m}
  /\ UNCHANGED <<table, requests, op, status, received, tally, value, history>>

-----------------------------------------------------------------------------
(* The client: the loop that reads answers.                                 *)

\* The call has taken the datagram m and goes on reading; a duplicated datagram
\* arrives again.
KeepReading(c, m) ==
  /\ \/ replies' = replies \ {m}
     \/ "duplicate" \in Faults /\ UNCHANGED replies
  /\ received' = [received EXCEPT ![c] = @ + 1]
  /\ UNCHANGED <<status, value>>

\* The call returns: its socket is closed and its local variables are gone.
Return(c, result, val) ==
  /\ status' = [status EXCEPT ![c] = result]
  /\ value' = [value EXCEPT ![c] = val]
  /\ replies' = replies \ Heard(c)
  /\ received' = [received EXCEPT ![c] = 0]
  /\ tally' = [tally EXCEPT ![c] = NoVotes]

\* Variant: the loop is not bounded by the number of nodes.
NoLastRead(c) == FALSE

LastRead(c) == received[c] + 1 = N

\* `else ... break': one "not found" ends the get, whatever else may come.
GetRejected(c) ==
  /\ \E m \in Heard(c) : m.body = NotFound
  /\ Return(c, "fail", NoValue)

\* The answer m of call c is counted; vote is what increment_and_get returns
\* and what it leaves in the local table.
CountVote(c, m, vote) ==
  \/ Reaches(vote[1], R) /\ Return(c, "ok", m.body)
  \/ Reaches(vote[1], R) /\ "nomem" \in Faults /\ Return(c, "fail", NoValue)
  \/ ~Reaches(vote[1], R) /\ LastRead(c) /\ Return(c, "fail", NoValue)
  \/ /\ ~Reaches(vote[1], R) /\ ~LastRead(c)
     /\ KeepReading(c, m)
     /\ tally' = [tally EXCEPT ![c][m.body] = vote[2]]

\* Any other datagram is a value.
GetCounted(c) ==
  \E m \in Heard(c) :
    /\ m.body # NotFound
    /\ \E vote \in Increment(tally[c][m.body], "nomem" \in Faults) : CountVote(c, m, vote)

GetReceive(c) ==
  /\ status[c] = "waiting" /\ IsGet(c)
  /\ GetRejected(c) \/ GetCounted(c)
  /\ UNCHANGED <<table, requests, op, history>>

\* Variants with an error of one in the test below.
EnoughAcksEarly(n) == n + 1 >= W
EnoughAcksLate(n) == n > W

EnoughAcks(n) == n >= W

\* Any datagram is an acknowledgement; at the W-th the loop is left.
PutReceive(c) ==
  /\ status[c] = "waiting" /\ IsPut(c)
  /\ \E m \in Heard(c) :
       \/ EnoughAcks(received[c] + 1) /\ Return(c, "ok", NoValue)
       \/ ~EnoughAcks(received[c] + 1) /\ KeepReading(c, m) /\ UNCHANGED tally
  /\ UNCHANGED <<table, requests, op, history>>

\* Variant: get_socket sets no timeout.
NoTimeout(c) == FALSE

\* recv returns -1 one second after the last datagram.  Without "late" an
\* answer that is still to come always comes within that second.
Timeout(c) ==
  /\ status[c] = "waiting"
  /\ \/ "late" \in Faults
     \/ Heard(c) = {} /\ \A s \in Server : <<c, s>> \notin requests
  /\ Return(c, "fail", NoValue)
  /\ UNCHANGED <<table, requests, op, history>>

-----------------------------------------------------------------------------

Begin(c) == StartGet(c) \/ StartPut(c) \/ FailEarly(c) \/ PutWithoutSocket(c)
Read(c) == GetReceive(c) \/ PutReceive(c) \/ Timeout(c)

Next ==
  \/ \E c \in Call : Begin(c) \/ Read(c)
  \/ \E c \in Call, s \in Server : Serve(c, s) \/ LoseRequest(c, s)
  \/ \E c \in Call : LoseAnswer(c)
  \/ \E s \in Server : Crash(s)

Spec == Init /\ [][Next]_vars

\* A server answers every datagram it receives, and a client that waits is
\* woken by a datagram or by its timeout.  No call has to begin.
Fairness ==
  /\ \A c \in Call : WF_vars(Read(c))
  /\ \A c \in Call, s \in Server : WF_vars(Serve(c, s))

FairSpec == Spec /\ Fairness

-----------------------------------------------------------------------------
(* Properties.                                                              *)

Put(c) == IsPut(c) /\ status[c] = "ok"
Got(c) == IsGet(c) /\ status[c] = "ok"

\* A get that succeeds has been answered its value by R different servers
\* (network_get counts equal answers in its local table and never looks at
\* who sent them).
GetHasQuorum ==
  \A g \in Call :
    Got(g) => \E Q \in SUBSET Server :
                /\ Cardinality(Q) >= R
                /\ \A s \in Q : [call |-> g, from |-> s, body |-> value[g]] \in sent

\* Some put of v on k has begun.
PutBegun(k, v) ==
  \E p \in Call : IsPut(p) /\ status[p] # "idle" /\ op[p].key = k /\ op[p].val = v

\* The value a get returns is one that some put on the same key has sent:
\* datagrams of other calls, late ones and empty ones never become a value.
NoInvention ==
  \A g \in Call : Got(g) /\ op[g].key # EmptyKey => PutBegun(op[g].key, value[g])

\* A put that returns ERR_NONE has been executed by W different servers.
PutOkMeansStored ==
  \A p \in Call :
    Put(p) => \E Q \in SUBSET Server : Cardinality(Q) >= W /\ {p} \X Q \subseteq stored

Keeps(s, k, v) ==
  \/ table[s][k] = v
  \/ table[s][k] = NoValue /\ ~Steady(s)

\* As long as no other put on the key begins, the value of a put that has succeeded
\* stays with W servers, of which those that restart are empty and no other one is.
Durable ==
  \A k \in Key :
    LET p == owner[k]
    IN  p # NoCall /\ status[p] = "ok" =>
          \E Q \in SUBSET Server :
            /\ Cardinality(Q) >= W
            /\ \A s \in Q : Keeps(s, k, op[p].val)

\* A get that begins after a put has succeeded, and ends before another put on
\* the key begins, returns the value of that put or fails: never an older
\* value, whatever is lost, late or restarted.
Fresh ==
  \A g \in Call :
    Got(g) /\ op[g].key # EmptyKey /\ expect[g] # NoValue => value[g] = expect[g]

\* The clients see one register per key: every step of the servers, of the
\* network and of the calls is a step of Register or invisible to it.
Abstract == INSTANCE Register WITH
  Nothing <- NoValue,
  key <- [c \in Call |-> op[c].key],
  register <- [k \in Key |-> Settled(k)],
  promise <- expect,
  result <- value

ImplementsRegister == Abstract!RSpec

\* Between two puts on a key, all the gets that succeed return the same value,
\* even when the last put has failed and its value is on some servers only.
AgreeingReads ==
  \A g, h \in quiet : Got(g) /\ Got(h) /\ op[g].key = op[h].key => value[g] = value[h]

\* A get to which R servers have answered the same value does not fail.
QuorumIsHeard ==
  \A g \in Call, v \in Value :
    IsGet(g) /\ status[g] = "fail" =>
      Cardinality({m \in sent : m.call = g /\ m.body = v}) < R

\* Every call returns, whatever is lost and whoever restarts.
Termination == \A c \in Call : status[c] = "waiting" ~> status[c] \in {"ok", "fail"}

\* As long as W servers of the key answer in time, every put succeeds, whatever
\* the other servers do.
PutsSucceed ==
  \A c \in Call :
    IsPut(c) /\ Cardinality(Nodes[op[c].key] \ Flaky) >= W /\ status[c] = "waiting" ~> Put(c)
=============================================================================
