---------------------------- MODULE Submissions -----------------------------
(***************************************************************************)
(* network_put and network_get as they were in the submissions projet01    *)
(* and projet02, with their servers and the clients around them.           *)
(*                                                                         *)
(* A client process keeps one socket for all its calls.  A call asks the   *)
(* nodes one after the other: it sends its datagram, takes the next one    *)
(* that comes, whatever it answers, and goes to the next node.  projet01   *)
(* asks all nodes, wants every acknowledgement and believes the first      *)
(* value; projet02 asks the first N, counts votes up to R and              *)
(* acknowledgements up to W, and looks at the address of the sender.       *)
(***************************************************************************)
EXTENDS Release, Tally, Sequences, FiniteSets

CONSTANTS
  Servers,     \* the number of lines of servers.txt; a server is its line
  Port,        \* the port of each of them
  Process,     \* the client processes
  Key, Value,
  EmptyValue,  \* the string "": a datagram of length zero
  NotFound,    \* the body "\0"
  Absent,      \* no entry, no value
  NoPut,
  CommandLines \* what the processes may be asked: the options that are given (a
               \* zero passes, see args.c:72), and the calls in their order

Server == 1..Servers
Operation == [type : {"put"}, key : Key, val : Value]
        \cup [type : {"get"}, key : Key, val : {Absent}]

ASSUME SubmissionsAssumption ==
  /\ Servers \in Nat \ {0} /\ Port \in [Server -> Nat]
  /\ EmptyValue \in Value
  /\ {NotFound, Absent} \cap Value = {}
  /\ \A line \in CommandLines, p \in Process :
       /\ \A o \in DOMAIN line[p].given : line[p].given[o] \in Nat
       /\ line[p].calls \in Seq(Operation)

VARIABLES
  table,      \* the table of each server
  script,     \* the calls of each process
  args,       \* client->args of each process
  results,    \* what its calls have returned, the value and (history) the promise
  node,       \* the node its call asks, 0 between two calls
  waiting,    \* the processes in recv
  votes,      \* the local table of network_get
  contacted,  \* the acknowledgements of network_put
  requests,   \* <<p, i, s>>: the datagram of call i of p on its way to s
  answers     \* what is on its way to the sockets of the processes

(* History variables.                                                       *)
VARIABLES
  stored,   \* the <<p, i, s>> such that s has executed put i of p
  writer,   \* writer[k]: the last put on k, if it met no other one on its way
  promise   \* promise[p]: the value the get of p must return if it succeeds

calls == <<script, args, results, node, waiting, votes, contacted>>
network == <<requests, answers>>
history == <<stored, writer, promise>>
vars == <<release, faults, table, calls, network, history>>

Current(p) == Len(results[p]) + 1
Op(p) == script[p][Current(p)]
Calls == UNION {{p} \X DOMAIN script[p] : p \in Process}
OpOf(c) == script[c[1]][c[2]]
Answer == [to : Process, call : Nat, from : Server, body : Value \cup {NotFound}]

NoVotes == [v \in Value |-> 0]

\* The shape of the state; a process between two calls does not wait.
TypeOK ==
  /\ table \in [Server -> [Key -> Value \cup {Absent}]]
  /\ args \in [Process -> [n : 0..Servers, r : Nat, w : Nat]]
  /\ \A p \in Process :
       /\ args[p].r <= args[p].n /\ args[p].w <= args[p].n
       /\ results[p] \in Seq([status : {"ok", "fail"}, val : Value \cup {Absent}, due : Value \cup {Absent}])
       /\ Len(results[p]) <= Len(script[p])
       /\ p \in waiting => node[p] \in 1..Servers
  /\ node \in [Process -> 0..(Servers + 1)]
  /\ waiting \subseteq Process
  /\ votes \in [Process -> [Value -> 0..Servers]]
  /\ contacted \in [Process -> 0..Servers]
  /\ \A r \in requests : <<r[1], r[2]>> \in Calls /\ r[3] \in Server
  /\ answers \subseteq Answer

Smaller(x, y) == IF x <= y THEN x ELSE y

\* BASE_N, BASE_R and BASE_W, and parse_opt_args of projet02: any number passes.
Default == [n |-> 3, r |-> 2, w |-> 2]

ParseOptArgs(given) ==
  [o \in DOMAIN Default |-> IF o \in DOMAIN given THEN given[o] ELSE Default[o]]

\* Variant: R and W are left as they are.
CutOnlyN(o) == [o EXCEPT !.n = Smaller(o.n, Servers)]

\* client_init of projet02: min(N, size), min(R, N), min(W, N).
Cut(o) ==
  LET n == Smaller(o.n, Servers)
  IN  [n |-> n, r |-> Smaller(o.r, n), w |-> Smaller(o.w, n)]

\* projet01 has no options.
AllServers == [n |-> Servers, r |-> 1, w |-> Servers]

\* The clients of projet01 read words, which are not empty, and only put or only
\* get.
FirstClients(line) ==
  \A p \in Process :
    LET called == {line[p].calls[i] : i \in DOMAIN line[p].calls}
    IN  \A o \in called : o.val # EmptyValue /\ \A other \in called : other.type = o.type

Init ==
  /\ ReleaseInit /\ release # "done"
  /\ table = [s \in Server |-> [k \in Key |-> Absent]]
  /\ \E line \in CommandLines :
       /\ release = "projet01" => FirstClients(line)
       /\ script = [p \in Process |-> line[p].calls]
       /\ args = [p \in Process |->
                   IF release = "projet02" THEN Cut(ParseOptArgs(line[p].given)) ELSE AllServers]
  /\ results = [p \in Process |-> <<>>]
  /\ node = [p \in Process |-> 0]
  /\ waiting = {}
  /\ votes = [p \in Process |-> NoVotes]
  /\ contacted = [p \in Process |-> 0]
  /\ requests = {} /\ answers = {}
  /\ stored = {}
  /\ writer = [k \in Key |-> NoPut]
  /\ promise = [p \in Process |-> Absent]

-----------------------------------------------------------------------------
(* The history of the puts and gets on a key.                               *)

\* Another put on the key that is under way, or a datagram of one.
PutsUnderWay(k) ==
  \/ \E r \in requests : OpOf(r).type = "put" /\ OpOf(r).key = k
  \/ \E p \in Process : node[p] # 0 /\ Op(p).type = "put" /\ Op(p).key = k

PutBegins(p) ==
  LET k == Op(p).key
  IN  /\ writer' = [writer EXCEPT ![k] =
                      IF PutsUnderWay(k) THEN NoPut ELSE <<p, Current(p)>>]
      /\ promise' = [q \in Process |->
                      IF node[q] # 0 /\ Op(q).key = k THEN Absent ELSE promise[q]]
      /\ UNCHANGED stored

\* The put c has returned success.
Settled(c) == c # NoPut /\ c[2] \in DOMAIN results[c[1]] /\ results[c[1]][c[2]].status = "ok"

\* The R servers of p and the W servers of q, both among the first N, meet.
Meet(p, q) ==
  /\ args[p].r + args[q].w > args[p].n
  /\ args[p].r + args[q].w > args[q].n

\* Call c of a process meets no answer to an earlier call of that process:
\* nothing is late, or c is the first.  Datagrams carry no identifier and the
\* socket is kept, so nothing can be promised of the other calls.
Alone(c) == ~May("late") \/ c[2] = 1

\* The get of p must return what put c has stored.
Undisturbed(p, c) ==
  /\ Settled(c) /\ Meet(p, c[1])
  /\ Alone(c) /\ Alone(<<p, Current(p)>>) /\ ~May("nomem")

GetBegins(p) ==
  LET c == writer[Op(p).key]
  IN  /\ promise' = [promise EXCEPT ![p] =
                       IF Undisturbed(p, c) THEN OpOf(c).val ELSE Absent]
      /\ UNCHANGED <<stored, writer>>

-----------------------------------------------------------------------------
(* The client.                                                              *)

\* The next command, or the next key of pps-client-cat.
Begin(p) ==
  /\ node[p] = 0 /\ Current(p) <= Len(script[p])
  /\ node' = [node EXCEPT ![p] = 1]
  /\ IF Op(p).type = "put" THEN PutBegins(p) ELSE GetBegins(p)
  /\ UNCHANGED <<table, script, args, results, waiting, votes, contacted, network>>

\* The call returns.
Return(p, status, val) ==
  /\ results' = [results EXCEPT ![p] = Append(@, [status |-> status, val |-> val, due |-> promise[p]])]
  /\ node' = [node EXCEPT ![p] = 0]
  /\ votes' = [votes EXCEPT ![p] = NoVotes]
  /\ contacted' = [contacted EXCEPT ![p] = 0]
  /\ waiting' = waiting \ {p}
  /\ promise' = [promise EXCEPT ![p] = Absent]
  /\ UNCHANGED <<table, script, args, requests, stored, writer>>

\* No memory for the packet: nothing is sent.
NoPacket(p) ==
  /\ May("nomem") /\ node[p] = 1 /\ p \notin waiting /\ Op(p).type = "put"
  /\ Return(p, "fail", Absent) /\ UNCHANGED answers

\* The loop goes to the next node.
GoOn(p) ==
  /\ node' = [node EXCEPT ![p] = @ + 1]
  /\ waiting' = waiting \ {p}
  /\ UNCHANGED <<table, script, args, results, history>>

\* sendto; a datagram that is lost has not been sent.
Send(p) ==
  /\ node[p] \in 1..args[p].n /\ p \notin waiting
  /\ requests' = requests \cup {<<p, Current(p), node[p]>>}
  /\ waiting' = waiting \cup {p}
  /\ UNCHANGED <<table, script, args, results, node, votes, contacted, answers, history>>

\* sendto fails: there is nothing to wait for.
SendFails(p) ==
  /\ May("lost") /\ node[p] \in 1..args[p].n /\ p \notin waiting
  /\ GoOn(p) /\ UNCHANGED <<votes, contacted, network>>

\* Variant: one socket for all processes.
HeardByAnyone(p) == answers

Heard(p) == {m \in answers : m.to = p}

\* same_sockaddr of projet02: inet_ntop is given the sockaddr instead of the
\* address in it, and so prints its family and its port.
SameAddress(s, t) == Port[s] = Port[t]

\* What recvfrom_server returns, unless it is -1.
FromNode(p, m) == release = "projet01" \/ SameAddress(node[p], m.from)

\* A value: not the body "\0", nor in projet01 an empty buffer.
IsValue(m) == m.body # NotFound /\ (release = "projet02" \/ m.body # EmptyValue)

\* projet01: the first value is the result.
BelieveFirst(p, m) ==
  \/ Return(p, "ok", m.body)
  \/ May("nomem") /\ Return(p, "fail", Absent)

\* Variant of the test of R with an error of one.
EnoughVotesEarly(n, p) == n + 1 >= args[p].r

EnoughVotes(n, p) == Reaches(n, args[p].r)

\* increment_and_get, the same as in the final code.
IncrementAndGet(p, m) == Increment(votes[p][m.body], May("nomem"))

\* projet02: the vote is counted, and the get returns at the R-th.
CountVote(p, m) ==
  \E vote \in IncrementAndGet(p, m) :
    \/ EnoughVotes(vote[1], p) /\ Return(p, "ok", m.body)
    \/ EnoughVotes(vote[1], p) /\ May("nomem") /\ Return(p, "fail", Absent)
    \/ /\ ~EnoughVotes(vote[1], p)
       /\ votes' = [votes EXCEPT ![p][m.body] = vote[2]]
       /\ GoOn(p) /\ UNCHANGED <<contacted, requests>>

GetAnswered(p, m) ==
  /\ Op(p).type = "get"
  /\ IF FromNode(p, m) /\ IsValue(m)
     THEN IF release = "projet01" THEN BelieveFirst(p, m) ELSE CountVote(p, m)
     ELSE GoOn(p) /\ UNCHANGED <<votes, contacted, requests>>

\* Whatever the body, a datagram of the node acknowledges the put.
PutAnswered(p, m) ==
  /\ Op(p).type = "put"
  /\ contacted' = IF FromNode(p, m) THEN [contacted EXCEPT ![p] = @ + 1] ELSE contacted
  /\ GoOn(p) /\ UNCHANGED <<votes, requests>>

Receive(p) ==
  /\ p \in waiting
  /\ \E m \in Heard(p) :
       /\ answers' = answers \ {m}
       /\ GetAnswered(p, m) \/ PutAnswered(p, m)

\* Variant: the socket has no timeout.
NeverSilent(p) == FALSE

\* One second without a datagram.
Silent(p) ==
  \/ May("late")
  \/ Heard(p) = {} /\ \A r \in requests : r[1] # p

Timeout(p) ==
  /\ p \in waiting /\ Silent(p)
  /\ GoOn(p) /\ UNCHANGED <<votes, contacted, network>>

AllAsked(p) == node[p] > args[p].n /\ p \notin waiting

GetEnds(p) ==
  /\ AllAsked(p) /\ Op(p).type = "get"
  /\ Return(p, "fail", Absent) /\ UNCHANGED answers

\* Variant: one acknowledgement may be missing.
EnoughAcksButOne(p) == contacted[p] + 1 >= args[p].w

\* put_error = 0 in projet01, where W counts all nodes.
EnoughAcks(p) == contacted[p] >= args[p].w

PutEnds(p) ==
  /\ AllAsked(p) /\ Op(p).type = "put"
  /\ Return(p, IF EnoughAcks(p) THEN "ok" ELSE "fail", Absent) /\ UNCHANGED answers

Run(p) ==
  \/ Begin(p) \/ Send(p) \/ SendFails(p) \/ NoPacket(p)
  \/ Receive(p) \/ Timeout(p) \/ GetEnds(p) \/ PutEnds(p)

-----------------------------------------------------------------------------
(* The servers and the network.                                             *)

Reply(p, i, s, body) ==
  LET m == [to |-> p, call |-> i, from |-> s, body |-> body]
  IN  answers' = answers \cup {m} \/ (May("lost") /\ UNCHANGED answers)

ServeGet(p, i, s) ==
  /\ OpOf(<<p, i>>).type = "get"
  /\ LET found == table[s][OpOf(<<p, i>>).key]
     IN  \/ Reply(p, i, s, IF found = Absent THEN NotFound ELSE found)
         \/ release = "projet02" /\ May("nomem") /\ Reply(p, i, s, NotFound)
  /\ UNCHANGED <<table, stored>>

\* The result of add_Htable_value is ignored.
ServePut(p, i, s) ==
  LET put == OpOf(<<p, i>>)
  IN  /\ put.type = "put"
      /\ \/ /\ table' = [table EXCEPT ![s][put.key] = put.val]
            /\ stored' = stored \cup {<<p, i, s>>}
         \/ May("nomem") /\ UNCHANGED <<table, stored>>
      /\ Reply(p, i, s, EmptyValue)

Serve(p, i, s) ==
  /\ <<p, i, s>> \in requests
  /\ requests' = requests \ {<<p, i, s>>}
  /\ ServeGet(p, i, s) \/ ServePut(p, i, s)
  /\ UNCHANGED <<calls, writer, promise>>

Lose(r) ==
  /\ May("lost")
  /\ requests' = requests \ {r}
  /\ UNCHANGED <<table, calls, answers, history>>

\* A server is started again, with an empty table.
Restart(s) ==
  /\ May("crash")
  /\ table' = [table EXCEPT ![s] = [k \in Key |-> Absent]]
  /\ UNCHANGED <<calls, network, history>>

\* What the processes and the servers do; a process is woken by a datagram or
\* by its timeout.
Work == (\E p \in Process : Run(p)) \/ (\E r \in requests : Serve(r[1], r[2], r[3]))

Next ==
  /\ \/ Work
     \/ \E r \in requests : Lose(r)
     \/ \E s \in Server : Restart(s)
  /\ Same

Spec == Init /\ [][Next]_vars

\* Whatever else happens, as long as a process or a server can go on, one does.
FairSpec == Spec /\ WF_vars(Work /\ Same)

-----------------------------------------------------------------------------
(* Properties.                                                              *)

Returned == UNION {{p} \X DOMAIN results[p] : p \in Process}
Begun(c) == c[2] < Current(c[1]) \/ (c[2] = Current(c[1]) /\ node[c[1]] # 0)
Ok(c) == results[c[1]][c[2]].status = "ok"

\* A put that returns ERR_NONE was executed by the W servers it was asked for
\* (by all of them in projet01).
PutOkMeansStored ==
  \A c \in Returned :
    OpOf(c).type = "put" /\ Ok(c) /\ Alone(c) /\ ~May("nomem") =>
      Cardinality({s \in Server : <<c[1], c[2], s>> \in stored}) >= args[c[1]].w

\* A get returns a value that a put on its key has sent.
NoInvention ==
  \A c \in Returned :
    OpOf(c).type = "get" /\ Ok(c) /\ Alone(c) =>
      \E d \in Calls :
        /\ Begun(d) /\ OpOf(d).type = "put" /\ OpOf(d).key = OpOf(c).key
        /\ OpOf(d).val = results[c[1]][c[2]].val

\* A get that begins after a put has succeeded, with options such that its R
\* servers and the W servers of the put meet, returns the value of that put or
\* fails, if no other put on the key comes between.  Each process has options
\* of its own.
Fresh ==
  \A c \in Returned :
    LET result == results[c[1]][c[2]]
    IN  Ok(c) /\ result.due # Absent => result.val = result.due

\* Every call returns, after a second for each node at most, and every process
\* gets through its calls.
CallsReturn == <>(\A p \in Process : Current(p) > Len(script[p]))
=============================================================================
