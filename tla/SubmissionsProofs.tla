------------------------- MODULE SubmissionsProofs -------------------------
(***************************************************************************)
(* Proofs about Submissions, for any number of servers and processes, any  *)
(* calls and options: what an acknowledgement and an answer are worth in a *)
(* protocol whose datagrams carry no identifier.                           *)
(*                                                                         *)
(* A process has sent a datagram to the nodes it has asked so far and to   *)
(* no other; it reads answers of the call it is in as long as nothing is   *)
(* late, or during its first call.                                         *)
(***************************************************************************)
EXTENDS Submissions, FiniteSetTheorems, TLAPS

Result == [status : {"ok", "fail"}, val : Value \cup {Absent}, due : Value \cup {Absent}]
Datagram == Process \X Nat \X Server

\* The types of the variables.
Types ==
  /\ release \in {"projet01", "projet02"}
  /\ table \in [Server -> [Key -> Value \cup {Absent}]]
  /\ script \in [Process -> Seq(Operation)]
  /\ args \in [Process -> [n : 0..Servers, r : Nat, w : Nat]]
  /\ results \in [Process -> Seq(Result)]
  /\ node \in [Process -> Nat]
  /\ waiting \subseteq Process
  /\ votes \in [Process -> [Value -> Nat]]
  /\ contacted \in [Process -> Nat]
  /\ requests \subseteq Datagram /\ stored \subseteq Datagram
  /\ answers \subseteq Answer
  /\ writer \in [Key -> (Process \X Nat) \cup {NoPut}]
  /\ promise \in [Process -> Value \cup {Absent}]

\* Where a process is: its counters count the nodes that it has asked.
Places ==
  \A p \in Process :
    /\ args[p].r <= args[p].n /\ args[p].w <= args[p].n
    /\ Len(results[p]) <= Len(script[p])
    /\ node[p] # 0 => Len(results[p]) < Len(script[p])
    /\ node[p] <= args[p].n + 1
    /\ p \in waiting => node[p] >= 1 /\ node[p] <= args[p].n
    /\ node[p] = 0 => contacted[p] = 0 /\ \A v \in Value : votes[p][v] = 0
    /\ node[p] # 0 => contacted[p] < node[p] /\ \A v \in Value : votes[p][v] < node[p]

\* Call i of p has sent its datagram to s.
HasSent(p, i, s) ==
  \/ i < Current(p)
  \/ i = Current(p) /\ (s < node[p] \/ (s = node[p] /\ p \in waiting))

\* Datagrams belong to calls that have sent them, and so does what they have caused.
Causes ==
  /\ \A p \in Process, i \in Nat, s \in Server :
       <<p, i, s>> \in requests \cup stored =>
         i \in 1..Len(script[p]) /\ HasSent(p, i, s)
  /\ \A m \in answers : m.call \in 1..Len(script[m.to]) /\ HasSent(m.to, m.call, m.from)

\* The last put on a key is a put of some process.
Writers ==
  \A k \in Key :
    writer[k] # NoPut => writer[k][1] \in Process /\ writer[k][2] \in 1..Len(script[writer[k][1]])

TypeInv == Types /\ Places /\ Causes /\ Writers

-----------------------------------------------------------------------------
(* Data.                                                                    *)

LEMMA OperationType ==
  ASSUME NEW o \in Operation
  PROVE  /\ o.type \in {"put", "get"} /\ o.key \in Key /\ o.val \in Value \cup {Absent}
         /\ o.type = "put" => o.val \in Value
BY DEF Operation

LEMMA OptionsType ==
  ASSUME NEW line \in CommandLines, NEW p \in Process
  PROVE  ParseOptArgs(line[p].given) \in [n : Nat, r : Nat, w : Nat]
<1>1. \A o \in DOMAIN line[p].given : line[p].given[o] \in Nat
  BY SubmissionsAssumption
<1>. QED
  BY <1>1 DEF ParseOptArgs, Default

LEMMA CutType ==
  ASSUME NEW o \in [n : Nat, r : Nat, w : Nat]
  PROVE  /\ Cut(o) \in [n : 0..Servers, r : Nat, w : Nat]
         /\ Cut(o).r <= Cut(o).n /\ Cut(o).w <= Cut(o).n
BY SubmissionsAssumption DEF Cut, Smaller

LEMMA AllServersType ==
  /\ AllServers \in [n : 0..Servers, r : Nat, w : Nat]
  /\ AllServers.r <= AllServers.n /\ AllServers.w <= AllServers.n
BY SubmissionsAssumption DEF AllServers

LEMMA NoVotesType == NoVotes \in [Value -> Nat] /\ \A v \in Value : NoVotes[v] = 0
BY DEF NoVotes

\* A vote adds one to the entry of its value, or leaves or resets it.
LEMMA VoteType ==
  ASSUME NEW b \in Nat, NEW mayFail, NEW vote \in Increment(b, mayFail)
  PROVE  vote[2] \in Nat /\ (vote[2] <= b + 1)
<1>1. (IF b = 0 THEN 1 ELSE Bump(b)) \in Nat /\ (IF b = 0 THEN 1 ELSE Bump(b)) <= b + 1
  BY DEF Bump
<1>. QED
  BY <1>1 DEF Increment

\* The call a process is in.
LEMMA CurrentOp ==
  ASSUME Types, Places, NEW p \in Process, node[p] # 0 \/ Current(p) <= Len(script[p])
  PROVE  /\ Current(p) \in 1..Len(script[p])
         /\ Op(p) \in Operation
         /\ OpOf(<<p, Current(p)>>) = Op(p)
<1>1. results[p] \in Seq(Result) /\ Len(results[p]) \in Nat /\ script[p] \in Seq(Operation)
      /\ Len(script[p]) \in Nat
  BY DEF Types
<1>2. Current(p) \in 1..Len(script[p])
  BY <1>1 DEF Current, Places
<1>. QED
  BY <1>1, <1>2 DEF Op, OpOf

LEMMA InitTypeInv == Init => TypeInv
<1>. SUFFICES ASSUME Init PROVE TypeInv
  OBVIOUS
<1>1. PICK line \in CommandLines :
        /\ script = [p \in Process |-> line[p].calls]
        /\ args = [p \in Process |->
             IF release = "projet02" THEN Cut(ParseOptArgs(line[p].given)) ELSE AllServers]
  BY DEF Init
<1>2. \A p \in Process : line[p].calls \in Seq(Operation)
  BY SubmissionsAssumption
<1>3. \A p \in Process :
        /\ args[p] \in [n : 0..Servers, r : Nat, w : Nat]
        /\ args[p].r <= args[p].n /\ args[p].w <= args[p].n
  BY <1>1, OptionsType, CutType, AllServersType
<1>4. Types
  <2>1. release \in {"projet01", "projet02"}
    BY ReleaseAssumption DEF Init, ReleaseInit
  <2>2. script \in [Process -> Seq(Operation)]
    BY <1>1, <1>2
  <2>3. args \in [Process -> [n : 0..Servers, r : Nat, w : Nat]]
    BY <1>1, <1>3
  <2>4. results \in [Process -> Seq(Result)]
    BY DEF Init
  <2>. QED
    BY <2>1, <2>2, <2>3, <2>4, NoVotesType DEF Init, Types
<1>5. Places
  <2>. SUFFICES ASSUME NEW p \in Process
                PROVE  Len(results[p]) = 0 /\ Len(script[p]) \in Nat /\ node[p] = 0
                       /\ p \notin waiting /\ contacted[p] = 0 /\ votes[p] = NoVotes
    BY <1>3, <1>4, NoVotesType, SubmissionsAssumption DEF Places, Types
  <2>. QED
    BY <1>4 DEF Init, Types
<1>6. Causes /\ Writers
  BY DEF Init, Causes, Writers
<1>. QED
  BY <1>4, <1>5, <1>6 DEF TypeInv

-----------------------------------------------------------------------------
(* The steps.                                                               *)

LEMMA BeginType ==
  ASSUME TypeInv, NEW p \in Process, Begin(p), Same
  PROVE  TypeInv'
<1>. USE DEF TypeInv
<1>1. /\ node[p] = 0 /\ Current(p) <= Len(script[p]) /\ node' = [node EXCEPT ![p] = 1]
      /\ UNCHANGED <<release, table, script, args, results, waiting, votes, contacted>>
      /\ UNCHANGED <<requests, answers, stored>>
  BY DEF Begin, Same, network, PutBegins, GetBegins
<1>2. /\ Current(p) \in 1..Len(script[p]) /\ Op(p) \in Operation
      /\ Op(p).key \in Key
  BY <1>1, CurrentOp, OperationType
<1>3. /\ writer' \in [Key -> (Process \X Nat) \cup {NoPut}]
      /\ \A k \in Key : writer'[k] \in {writer[k], NoPut, <<p, Current(p)>>}
      /\ promise' \in [Process -> Value \cup {Absent}]
  <2>1. CASE PutBegins(p)
    <3>1. Current(p) \in Nat
      BY <1>2
    <3>. QED
      BY <1>2, <2>1, <3>1 DEF PutBegins, Types
  <2>2. CASE GetBegins(p)
    <3>1. UNCHANGED writer
      BY <2>2 DEF GetBegins
    <3>2. ASSUME writer[Op(p).key] # NoPut
          PROVE  OpOf(writer[Op(p).key]).val \in Value \cup {Absent}
      <4>. DEFINE c == writer[Op(p).key]
      <4>1. c[1] \in Process /\ c[2] \in 1..Len(script[c[1]])
        BY <1>2, <3>2 DEF Writers
      <4>2. script[c[1]] \in Seq(Operation)
        BY <4>1 DEF Types
      <4>3. OpOf(c) \in Operation
        BY <4>1, <4>2 DEF OpOf
      <4>. QED
        BY <4>3, OperationType
    <3>3. promise' \in [Process -> Value \cup {Absent}]
      BY <2>2, <3>2 DEF GetBegins, Undisturbed, Settled, Types
    <3>. QED
      BY <3>1, <3>3 DEF Types
  <2>. QED
    BY <2>1, <2>2 DEF Begin
<1>4. Types'
  BY <1>1, <1>3 DEF Types
<1>5. Places'
  <2>1. \A q \in Process : Len(results[q]) \in Nat /\ Len(script[q]) \in Nat /\ args[q].n \in Nat
    BY DEF Types
  <2>2. p \notin waiting /\ contacted[p] = 0 /\ \A v \in Value : votes[p][v] = 0
    BY <1>1 DEF Places
  <2>3. node'[p] = 1 /\ \A q \in Process \ {p} : node'[q] = node[q]
    BY <1>1 DEF Types
  <2>4. Len(results[p]) < Len(script[p])
    BY <1>1, <2>1 DEF Current
  <2>. QED
    BY <1>1, <2>1, <2>2, <2>3, <2>4 DEF Places
<1>6. Causes'
  <2>. SUFFICES ASSUME NEW q \in Process, NEW i, NEW s \in Server, HasSent(q, i, s)
                PROVE  HasSent(q, i, s)'
    BY <1>1 DEF Causes, Answer, Types
  <2>1. q = p => node[q] = 0 /\ ~(s < node[q]) /\ s # node[q]
    BY <1>1 DEF Server
  <2>. QED
    BY <1>1, <2>1 DEF HasSent, Current, Types
<1>7. Writers'
  BY <1>1, <1>2, <1>3 DEF Writers
<1>. QED
  BY <1>4, <1>5, <1>6, <1>7

\* What a process has sent stays sent when it goes on.
LEMMA MoveCauses ==
  ASSUME TypeInv, NEW p \in Process, UNCHANGED <<script, stored>>,
         requests' \subseteq requests, answers' \subseteq answers,
         \A q \in Process, i \in Nat, s \in Server : HasSent(q, i, s) => HasSent(q, i, s)'
  PROVE  Causes'
BY DEF TypeInv, Types, Causes, Answer, Datagram

LEMMA GoOnType ==
  ASSUME TypeInv, NEW p \in Process, Same, GoOn(p), UNCHANGED requests, answers' \subseteq answers,
         node[p] \in 1..args[p].n,
         contacted' \in {contacted, [contacted EXCEPT ![p] = @ + 1]},
         votes' \in [Process -> [Value -> Nat]],
         \A q \in Process \ {p} : votes'[q] = votes[q],
         \A v \in Value : votes'[p][v] <= votes[p][v] + 1
  PROVE  TypeInv'
<1>. USE DEF TypeInv
<1>1. /\ node' = [node EXCEPT ![p] = @ + 1] /\ waiting' = waiting \ {p}
      /\ UNCHANGED <<release, table, script, args, results, stored, writer, promise>>
  BY DEF GoOn, Same, history
<1>2. Types'
  <2>1. contacted' \in [Process -> Nat]
    <3>1. contacted \in [Process -> Nat]
      BY DEF Types
    <3>. QED
      BY <3>1
  <2>2. node' \in [Process -> Nat]
    <3>1. node \in [Process -> Nat]
      BY DEF Types
    <3>. QED
      BY <1>1, <3>1
  <2>. QED
    BY <1>1, <2>1, <2>2 DEF Types
<1>3. Places'
  <2>1. \A q \in Process : Len(results[q]) \in Nat /\ Len(script[q]) \in Nat /\ args[q].n \in Nat
    BY DEF Types
  <2>2. \A q \in Process \ {p} : contacted'[q] = contacted[q] /\ node'[q] = node[q]
    <3>1. contacted \in [Process -> Nat] /\ node \in [Process -> Nat]
      BY DEF Types
    <3>. QED
      BY <1>1, <3>1
  <2>3. contacted'[p] <= contacted[p] + 1 /\ node'[p] = node[p] + 1 /\ contacted'[p] \in Nat
    <3>1. contacted \in [Process -> Nat] /\ node \in [Process -> Nat]
      BY DEF Types
    <3>2. contacted'[p] \in {contacted[p], contacted[p] + 1} /\ contacted[p] \in Nat
      BY <3>1
    <3>3. node'[p] = node[p] + 1
      BY <1>1, <3>1
    <3>4. contacted'[p] <= contacted[p] + 1 /\ contacted'[p] \in Nat
      BY <3>2
    <3>. QED
      BY <3>3, <3>4
  <2>4. ASSUME NEW v \in Value PROVE votes'[p][v] < node'[p]
    <3>1. node[p] # 0 /\ node[p] \in Nat
      BY <2>1
    <3>2. votes[p][v] < node[p]
      BY <3>1 DEF Places
    <3>3. votes[p][v] \in Nat
      BY DEF Types
    <3>4. votes'[p][v] \in Nat
      OBVIOUS
    <3>. QED
      BY <2>3, <3>1, <3>2, <3>3, <3>4
  <2>5. contacted'[p] < node'[p]
    <3>1. contacted[p] < node[p] /\ contacted[p] \in Nat /\ node[p] \in Nat
      BY <2>1 DEF Places, Types
    <3>. QED
      BY <2>3, <3>1
  <2>6. node[p] # 0 /\ node'[p] # 0 /\ node'[p] <= args[p].n + 1
    BY <2>1, <2>3
  <2>7. waiting' \subseteq waiting /\ p \notin waiting'
    BY <1>1
  <2>. QED
    BY <1>1, <2>2, <2>4, <2>5, <2>6, <2>7 DEF Places
<1>4. Causes'
  <2>1. ASSUME NEW q \in Process, NEW i \in Nat, NEW s \in Server, HasSent(q, i, s)
        PROVE  HasSent(q, i, s)'
    <3>1. node[q] \in Nat /\ s \in Nat /\ node'[q] = IF q = p THEN node[q] + 1 ELSE node[q]
      BY <1>1 DEF Types, Server
    <3>2. Current(q)' = Current(q)
      BY <1>1 DEF Current
    <3>. QED
      BY <1>1, <2>1, <3>1, <3>2 DEF HasSent
  <2>. QED
    BY <1>1, <2>1, MoveCauses
<1>5. Writers'
  BY <1>1 DEF Writers
<1>. QED
  BY <1>2, <1>3, <1>4, <1>5

LEMMA ReturnType ==
  ASSUME TypeInv, NEW p \in Process, Same, node[p] # 0, answers' \subseteq answers,
         NEW status \in {"ok", "fail"}, NEW val \in Value \cup {Absent}, Return(p, status, val)
  PROVE  /\ TypeInv'
         /\ \A q \in Process \ {p} : results'[q] = results[q] /\ node'[q] = node[q]
         /\ results'[p] = Append(results[p], [status |-> status, val |-> val, due |-> promise[p]])
         /\ Current(p)' = Current(p) + 1 /\ node'[p] = 0
<1>. USE DEF TypeInv
<1>. DEFINE result == [status |-> status, val |-> val, due |-> promise[p]]
<1>1. /\ results' = [results EXCEPT ![p] = Append(@, result)]
      /\ node' = [node EXCEPT ![p] = 0] /\ waiting' = waiting \ {p}
      /\ votes' = [votes EXCEPT ![p] = NoVotes] /\ contacted' = [contacted EXCEPT ![p] = 0]
      /\ promise' = [promise EXCEPT ![p] = Absent]
      /\ UNCHANGED <<release, table, script, args, requests, stored, writer>>
  BY DEF Return, Same
<1>2. result \in Result
  BY DEF Types, Result
<1>3. /\ \A q \in Process : Len(results[q]) \in Nat /\ Len(script[q]) \in Nat /\ args[q].n \in Nat
      /\ results'[p] \in Seq(Result) /\ Len(results'[p]) = Len(results[p]) + 1
      /\ \A q \in Process \ {p} : results'[q] = results[q] /\ node'[q] = node[q]
      /\ results'[p] = Append(results[p], result) /\ node'[p] = 0
  <2>1. /\ results \in [Process -> Seq(Result)] /\ node \in [Process -> Nat]
        /\ \A q \in Process : Len(script[q]) \in Nat /\ args[q].n \in Nat
    <3>1. script \in [Process -> Seq(Operation)] /\ args \in [Process -> [n : 0..Servers, r : Nat, w : Nat]]
      BY DEF Types
    <3>2. results \in [Process -> Seq(Result)] /\ node \in [Process -> Nat]
      BY DEF Types
    <3>3. \A q \in Process : Len(script[q]) \in Nat /\ args[q].n \in Nat
      BY <3>1
    <3>. QED
      BY <3>2, <3>3
  <2>2. /\ \A q \in Process \ {p} : results'[q] = results[q] /\ node'[q] = node[q]
        /\ results'[p] = Append(results[p], result) /\ node'[p] = 0
    <3>1. node'[p] = 0 /\ \A q \in Process \ {p} : node'[q] = node[q]
      BY <1>1, <2>1
    <3>. HIDE DEF result
    <3>2. /\ results'[p] = Append(results[p], result)
          /\ \A q \in Process \ {p} : results'[q] = results[q]
      BY <1>1, <2>1
    <3>. QED
      BY <3>1, <3>2
  <2>3. results[p] \in Seq(Result) /\ \A q \in Process : Len(results[q]) \in Nat
    BY <2>1
  <2>. HIDE DEF result
  <2>4. Append(results[p], result) \in Seq(Result) /\ Len(Append(results[p], result)) = Len(results[p]) + 1
    BY <1>2, <2>3
  <2>. QED
    BY <2>1, <2>2, <2>3, <2>4
<1>4. Current(p)' = Current(p) + 1
  BY <1>3 DEF Current
<1>5. Types'
  <2>1. results' \in [Process -> Seq(Result)]
    BY <1>1, <1>2, <1>3 DEF Types
  <2>. QED
    BY <1>1, <2>1, NoVotesType DEF Types
<1>6. Places'
  <2>1. votes'[p] = NoVotes /\ contacted'[p] = 0 /\ Len(results[p]) < Len(script[p])
    BY <1>1 DEF Places, Types
  <2>2. \A q \in Process \ {p} : votes'[q] = votes[q] /\ contacted'[q] = contacted[q]
    BY <1>1 DEF Types
  <2>. QED
    BY <1>1, <1>3, <2>1, <2>2, NoVotesType DEF Places
<1>7. Causes'
  <2>1. ASSUME NEW q \in Process, NEW i \in Nat, NEW s \in Server, HasSent(q, i, s)
        PROVE  HasSent(q, i, s)'
    <3>1. CASE q = p
      <4>1. i < Current(p) + 1
        BY <1>3, <2>1, <3>1 DEF HasSent, Current
      <4>. QED
        BY <1>4, <3>1, <4>1 DEF HasSent
    <3>2. CASE q # p
      <4>1. Current(q)' = Current(q) /\ (q \in waiting' <=> q \in waiting)
        BY <1>1, <1>3, <3>2 DEF Current
      <4>. QED
        BY <1>3, <2>1, <3>2, <4>1 DEF HasSent
    <3>. QED
      BY <3>1, <3>2
  <2>. QED
    BY <1>1, <2>1, MoveCauses
<1>8. Writers'
  BY <1>1 DEF Writers
<1>. QED
  BY <1>3, <1>4, <1>5, <1>6, <1>7, <1>8

\* A process takes an answer, or has none to take.
Took(p, m) == p \in waiting /\ m \in Heard(p) /\ answers' = answers \ {m}
TookNone(p) == (p \notin waiting \/ Silent(p)) /\ UNCHANGED answers

\* A call goes to its next node; at most the vote for the body it has read counts one
\* more.
GoesOn(p) ==
  /\ node[p] \in 1..args[p].n /\ GoOn(p) /\ UNCHANGED requests
  /\ \/ TookNone(p) /\ UNCHANGED <<contacted, votes>>
     \/ /\ \E m \in Heard(p) :
             Took(p, m) /\ \A v \in Value : v = m.body \/ votes'[p][v] = votes[p][v]
        /\ contacted' \in {contacted, [contacted EXCEPT ![p] = @ + 1]}
  /\ votes' \in [Process -> [Value -> Nat]]
  /\ \A q \in Process \ {p} : votes'[q] = votes[q]
  /\ \A v \in Value : votes'[p][v] <= votes[p][v] + 1

\* The answer is the first value, or it has the R-th vote.
Enough(p, m) ==
  release = "projet01" \/ \E vote \in IncrementAndGet(p, m) : EnoughVotes(vote[1], p)

\* A call returns: a get with the answer it has just read, a put with its number of
\* acknowledgements, or either of them with an error.
Returns(p) ==
  /\ node[p] # 0
  /\ \/ /\ \E m \in Heard(p) :
             Took(p, m) /\ m.body \in Value /\ Enough(p, m) /\ Return(p, "ok", m.body)
        /\ Op(p).type = "get"
     \/ /\ TookNone(p) /\ p \notin waiting /\ Return(p, "ok", Absent)
        /\ Op(p).type = "put" /\ EnoughAcks(p) /\ AllAsked(p)
     \/ /\ (TookNone(p) /\ p \notin waiting) \/ \E m \in Heard(p) : Took(p, m)
        /\ Return(p, "fail", Absent)

LEMMA CountVoteStep ==
  ASSUME TypeInv, NEW p \in Process, p \in waiting, NEW m \in Heard(p), m.body \in Value,
         Took(p, m), Op(p).type = "get", CountVote(p, m)
  PROVE  GoesOn(p) \/ Returns(p)
<1>. USE DEF TypeInv
<1>1. PICK vote \in IncrementAndGet(p, m) :
        \/ EnoughVotes(vote[1], p) /\ Return(p, "ok", m.body)
        \/ EnoughVotes(vote[1], p) /\ May("nomem") /\ Return(p, "fail", Absent)
        \/ /\ ~EnoughVotes(vote[1], p)
           /\ votes' = [votes EXCEPT ![p][m.body] = vote[2]]
           /\ GoOn(p) /\ UNCHANGED <<contacted, requests>>
  BY DEF CountVote
<1>2. votes[p][m.body] \in Nat
  BY DEF Types
<1>3. vote[2] \in Nat /\ vote[2] <= votes[p][m.body] + 1
  BY <1>1, <1>2, VoteType DEF IncrementAndGet
<1>4. CASE /\ votes' = [votes EXCEPT ![p][m.body] = vote[2]]
           /\ GoOn(p) /\ UNCHANGED <<contacted, requests>>
  <2>1. node[p] \in 1..args[p].n
    BY DEF Types, Places
  <2>2. votes \in [Process -> [Value -> Nat]]
    BY DEF Types
  <2>3. \A q \in Process \ {p} : votes'[q] = votes[q]
    BY <1>4, <2>2
  <2>4. votes'[p] = [votes[p] EXCEPT ![m.body] = vote[2]]
    BY <1>4, <2>2
  <2>5. \A v \in Value :
          /\ votes'[p][v] <= votes[p][v] + 1
          /\ v = m.body \/ votes'[p][v] = votes[p][v]
    BY <1>3, <2>2, <2>4
  <2>6. votes' \in [Process -> [Value -> Nat]]
    BY <1>3, <1>4, <2>2
  <2>. QED
    BY <1>4, <2>1, <2>3, <2>5, <2>6 DEF GoesOn
<1>5. node[p] # 0
  BY DEF Places, Types
<1>. QED
  BY <1>1, <1>4, <1>5 DEF Returns, Enough

LEMMA ReceiveStep ==
  ASSUME TypeInv, NEW p \in Process, Receive(p)
  PROVE  GoesOn(p) \/ Returns(p)
<1>. USE DEF TypeInv
<1>1. PICK m \in Heard(p) :
        p \in waiting /\ answers' = answers \ {m} /\ (GetAnswered(p, m) \/ PutAnswered(p, m))
  BY DEF Receive
<1>2. Took(p, m)
  BY <1>1 DEF Took
<1>3. node[p] \in 1..args[p].n
  BY <1>1 DEF Types, Places
<1>4. votes \in [Process -> [Value -> Nat]]
  BY DEF Types
<1>5. ASSUME UNCHANGED votes PROVE \A v \in Value : votes'[p][v] <= votes[p][v] + 1
  BY <1>4, <1>5
<1>6. CASE GoOn(p) /\ UNCHANGED <<votes, requests>> /\
           contacted' \in {contacted, [contacted EXCEPT ![p] = @ + 1]}
  BY <1>1, <1>2, <1>3, <1>4, <1>5, <1>6 DEF GoesOn
<1>7. CASE PutAnswered(p, m)
  BY <1>6, <1>7 DEF PutAnswered
<1>8. CASE GetAnswered(p, m) /\ ~(FromNode(p, m) /\ IsValue(m))
  BY <1>6, <1>8 DEF GetAnswered
<1>9. CASE GetAnswered(p, m) /\ FromNode(p, m) /\ IsValue(m)
  <2>1. /\ Op(p).type = "get"
        /\ (release = "projet01" /\ BelieveFirst(p, m)) \/ CountVote(p, m)
    BY <1>9 DEF GetAnswered
  <2>2. m.body \in Value
    BY <1>9 DEF IsValue, Heard, Types, Answer
  <2>3. CASE release = "projet01" /\ BelieveFirst(p, m)
    BY <1>2, <1>3, <2>1, <2>2, <2>3 DEF BelieveFirst, Returns, Enough
  <2>4. CASE CountVote(p, m)
    BY <1>1, <1>2, <2>1, <2>2, <2>4, CountVoteStep
  <2>. QED
    BY <2>1, <2>3, <2>4
<1>. QED
  BY <1>1, <1>7, <1>8, <1>9

\* What a process may do.
LEMMA RunStep ==
  ASSUME TypeInv, NEW p \in Process, Run(p)
  PROVE  Begin(p) \/ Send(p) \/ GoesOn(p) \/ Returns(p)
<1>. USE DEF TypeInv
<1>1. votes \in [Process -> [Value -> Nat]] /\ args[p].n \in Nat
  BY DEF Types
<1>2. CASE SendFails(p) \/ Timeout(p)
  <2>1. node[p] \in 1..args[p].n /\ TookNone(p)
    BY <1>1, <1>2 DEF SendFails, Timeout, TookNone, network, Places, Types
  <2>2. GoOn(p) /\ UNCHANGED <<requests, votes, contacted>>
    BY <1>2 DEF SendFails, Timeout, network
  <2>3. \A v \in Value : votes'[p][v] <= votes[p][v] + 1
    BY <1>1, <2>2
  <2>. QED
    BY <1>1, <2>1, <2>2, <2>3 DEF GoesOn
<1>3. AllAsked(p) => node[p] # 0
  BY <1>1 DEF AllAsked, Types
<1>4. CASE NoPacket(p) \/ GetEnds(p) \/ PutEnds(p)
  BY <1>3, <1>4 DEF NoPacket, GetEnds, PutEnds, AllAsked, Returns, TookNone
<1>. QED
  BY <1>2, <1>4, ReceiveStep DEF Run

LEMMA SendType ==
  ASSUME TypeInv, NEW p \in Process, Send(p), Same
  PROVE  TypeInv'
<1>. USE DEF TypeInv
<1>1. /\ node[p] \in 1..args[p].n /\ p \notin waiting
      /\ requests' = requests \cup {<<p, Current(p), node[p]>>} /\ waiting' = waiting \cup {p}
      /\ UNCHANGED <<release, table, script, args, results, node, votes, contacted, answers>>
      /\ UNCHANGED <<stored, writer, promise>>
  BY DEF Send, Same, history
<1>2. /\ args[p].n \in 0..Servers /\ node[p] \in Server /\ node[p] # 0
      /\ node[p] >= 1 /\ node[p] <= args[p].n
  BY <1>1, SubmissionsAssumption DEF Types, Server
<1>3. Current(p) \in 1..Len(script[p])
  BY <1>2, CurrentOp
<1>4. Types'
  <2>1. <<p, Current(p), node[p]>> \in Datagram
    BY <1>2, <1>3 DEF Datagram
  <2>2. waiting' \subseteq Process /\ requests' \subseteq Datagram
    BY <1>1, <2>1 DEF Types
  <2>. QED
    BY <1>1, <2>2 DEF Types
<1>5. Places'
  BY <1>1, <1>2 DEF Places
<1>6. Causes'
  <2>1. ASSUME NEW q \in Process, NEW i, NEW s, HasSent(q, i, s)
        PROVE  HasSent(q, i, s)'
    BY <1>1, <2>1 DEF HasSent, Current
  <2>3. ASSUME NEW q \in Process, NEW i \in Nat, NEW s \in Server,
               <<q, i, s>> \in requests' \cup stored'
        PROVE  i \in 1..Len(script'[q]) /\ HasSent(q, i, s)'
    <3>1. CASE <<q, i, s>> \in requests \cup stored
      BY <1>1, <2>1, <3>1 DEF Causes
    <3>2. CASE <<q, i, s>> = <<p, Current(p), node[p]>>
      <4>1. q = p /\ i = Current(p) /\ s = node[p]
        BY <3>2
      <4>. QED
        BY <1>1, <1>3, <4>1 DEF HasSent, Current
    <3>3. \/ <<q, i, s>> \in requests \cup stored
          \/ <<q, i, s>> = <<p, Current(p), node[p]>>
      BY <1>1, <2>3
    <3>. QED
      BY <3>1, <3>2, <3>3 DEF Causes
  <2>4. ASSUME NEW m \in answers'
        PROVE  m.call \in 1..Len(script'[m.to]) /\ HasSent(m.to, m.call, m.from)'
    BY <1>1, <2>1 DEF Causes, Types, Answer
  <2>. QED
    BY <2>3, <2>4 DEF Causes
<1>7. Writers'
  BY <1>1 DEF Writers
<1>. QED
  BY <1>4, <1>5, <1>6, <1>7

\* A server executes a datagram and may answer it: a put with an empty datagram, a get
\* with what the table holds or with NotFound.
LEMMA ServeStep ==
  ASSUME TypeInv, NEW r \in requests, Serve(r[1], r[2], r[3])
  PROVE  /\ r \in Datagram /\ r = <<r[1], r[2], r[3]>>
         /\ r[2] \in 1..Len(script[r[1]]) /\ HasSent(r[1], r[2], r[3])
         /\ OpOf(r) \in Operation
         /\ requests' = requests \ {r}
         /\ UNCHANGED <<calls, writer, promise>>
         /\ \/ UNCHANGED answers
            \/ \E body \in Value \cup {NotFound} :
                 /\ answers' = answers \cup {[to |-> r[1], call |-> r[2], from |-> r[3], body |-> body]}
                 /\ OpOf(r).type = "get" =>
                      body = NotFound \/ (body = table[r[3]][OpOf(r).key] /\ body # Absent)
         /\ \/ UNCHANGED <<table, stored>> /\ (OpOf(r).type = "get" \/ May("nomem"))
            \/ /\ OpOf(r).type = "put"
               /\ table' = [table EXCEPT ![r[3]][OpOf(r).key] = OpOf(r).val]
               /\ stored' = stored \cup {r}
<1>. USE DEF TypeInv
<1>1. /\ r \in Datagram /\ r = <<r[1], r[2], r[3]>>
      /\ r[1] \in Process /\ r[2] \in Nat /\ r[3] \in Server
  BY DEF Types, Datagram
<1>2. r[2] \in 1..Len(script[r[1]]) /\ HasSent(r[1], r[2], r[3])
  BY <1>1 DEF Causes
<1>3. OpOf(r) \in Operation /\ OpOf(<<r[1], r[2]>>) = OpOf(r)
  BY <1>1, <1>2 DEF OpOf, Types
<1>4. requests' = requests \ {r} /\ UNCHANGED <<calls, writer, promise>>
  BY <1>1 DEF Serve
<1>5. CASE ServeGet(r[1], r[2], r[3])
  <2>1. OpOf(r).type = "get" /\ UNCHANGED <<table, stored>>
    BY <1>3, <1>5 DEF ServeGet
  <2>2. table[r[3]][OpOf(r).key] \in Value \cup {Absent}
    BY <1>1, <1>3, OperationType DEF Types
  <2>3. \E body \in Value \cup {NotFound} :
          /\ Reply(r[1], r[2], r[3], body)
          /\ body = NotFound \/ (body = table[r[3]][OpOf(r).key] /\ body # Absent)
    BY <1>3, <1>5, <2>2 DEF ServeGet
  <2>. QED
    BY <1>1, <1>2, <1>3, <1>4, <2>1, <2>3 DEF Reply
<1>6. CASE ServePut(r[1], r[2], r[3])
  <2>1. OpOf(r).type = "put" /\ Reply(r[1], r[2], r[3], EmptyValue)
    BY <1>3, <1>6 DEF ServePut
  <2>2. \/ UNCHANGED <<table, stored>> /\ May("nomem")
        \/ /\ table' = [table EXCEPT ![r[3]][OpOf(r).key] = OpOf(r).val]
           /\ stored' = stored \cup {r}
    BY <1>1, <1>3, <1>6 DEF ServePut
  <2>. QED
    BY <1>1, <1>2, <1>3, <1>4, <2>1, <2>2, SubmissionsAssumption DEF Reply
<1>. QED
  BY <1>5, <1>6 DEF Serve

LEMMA ServeType ==
  ASSUME TypeInv, NEW r \in requests, Serve(r[1], r[2], r[3]), Same
  PROVE  TypeInv'
<1>. USE DEF TypeInv
<1>1. /\ r \in Datagram /\ r = <<r[1], r[2], r[3]>>
      /\ r[2] \in 1..Len(script[r[1]]) /\ HasSent(r[1], r[2], r[3])
      /\ OpOf(r) \in Operation /\ requests' = requests \ {r}
      /\ UNCHANGED <<calls, writer, promise>>
  BY ServeStep
<1>2. r[1] \in Process /\ r[2] \in Nat /\ r[3] \in Server
  BY <1>1 DEF Datagram
<1>3. UNCHANGED <<release, script, args, results, node, waiting, votes, contacted>>
  BY <1>1 DEF Same, calls
<1>4. /\ table' \in [Server -> [Key -> Value \cup {Absent}]]
      /\ stored' \subseteq Datagram /\ stored' \subseteq stored \cup {r}
  <2>1. \/ UNCHANGED <<table, stored>>
        \/ /\ OpOf(r).type = "put"
           /\ table' = [table EXCEPT ![r[3]][OpOf(r).key] = OpOf(r).val]
           /\ stored' = stored \cup {r}
    BY ServeStep
  <2>2. OpOf(r).val \in Value \cup {Absent}
    BY <1>1, OperationType
  <2>3. table \in [Server -> [Key -> Value \cup {Absent}]] /\ stored \subseteq Datagram
    BY DEF Types
  <2>4. CASE table' = [table EXCEPT ![r[3]][OpOf(r).key] = OpOf(r).val] /\ stored' = stored \cup {r}
    <3>1. table' \in [Server -> [Key -> Value \cup {Absent}]]
      BY <2>2, <2>3, <2>4
    <3>. QED
      BY <1>1, <2>3, <2>4, <3>1
  <2>. QED
    BY <2>1, <2>3, <2>4
<1>5. \A m \in answers' \ answers :
        m \in Answer /\ m.to = r[1] /\ m.call = r[2] /\ m.from = r[3]
  <2>1. \/ UNCHANGED answers
        \/ \E body \in Value \cup {NotFound} :
             answers' = answers \cup {[to |-> r[1], call |-> r[2], from |-> r[3], body |-> body]}
    BY ServeStep
  <2>. QED
    BY <1>2, <2>1 DEF Answer
<1>6. Types'
  BY <1>1, <1>3, <1>4, <1>5 DEF Types
<1>7. Places'
  BY <1>3 DEF Places
<1>8. Causes'
  <2>1. ASSUME NEW q \in Process, NEW i, NEW s
        PROVE  HasSent(q, i, s)' <=> HasSent(q, i, s)
    BY <1>3 DEF HasSent, Current
  <2>2. ASSUME NEW q \in Process, NEW i \in Nat, NEW s \in Server,
               <<q, i, s>> \in requests' \cup stored'
        PROVE  i \in 1..Len(script'[q]) /\ HasSent(q, i, s)'
    <3>1. <<q, i, s>> \in requests \cup stored
      BY <1>1, <1>4, <2>2
    <3>. QED
      BY <1>3, <2>1, <3>1 DEF Causes
  <2>3. ASSUME NEW m \in answers'
        PROVE  m.call \in 1..Len(script'[m.to]) /\ HasSent(m.to, m.call, m.from)'
    <3>1. CASE m \in answers
      BY <1>3, <2>1, <3>1 DEF Causes, Types, Answer
    <3>2. CASE m \notin answers
      BY <1>1, <1>2, <1>3, <1>5, <2>1, <2>3, <3>2
    <3>. QED
      BY <3>1, <3>2
  <2>. QED
    BY <2>2, <2>3 DEF Causes
<1>9. Writers'
  BY <1>1, <1>3 DEF Writers
<1>. QED
  BY <1>6, <1>7, <1>8, <1>9


\* What the network and the machines do.
LEMMA OtherStep ==
  ASSUME (\E r \in requests : Lose(r)) \/ (\E s \in Server : Restart(s))
  PROVE  /\ UNCHANGED <<calls, answers, history>> /\ requests' \subseteq requests
         /\ UNCHANGED table \/ \E s \in Server : table' = [table EXCEPT ![s] = [k \in Key |-> Absent]]
BY DEF Lose, Restart, network

LEMMA OtherType ==
  ASSUME TypeInv, Same, (\E r \in requests : Lose(r)) \/ (\E s \in Server : Restart(s))
  PROVE  TypeInv'
<1>. USE DEF TypeInv
<1>1. /\ UNCHANGED <<script, args, results, node, waiting, votes, contacted, release>>
      /\ UNCHANGED <<answers, stored, writer, promise>> /\ requests' \subseteq requests
  BY OtherStep DEF calls, history, Same
<1>2. table' \in [Server -> [Key -> Value \cup {Absent}]]
  <2>1. table \in [Server -> [Key -> Value \cup {Absent}]]
    BY DEF Types
  <2>2. ASSUME NEW s \in Server, table' = [table EXCEPT ![s] = [k \in Key |-> Absent]]
        PROVE  table' \in [Server -> [Key -> Value \cup {Absent}]]
    <3>1. [k \in Key |-> Absent] \in [Key -> Value \cup {Absent}]
      OBVIOUS
    <3>. QED
      BY <2>1, <2>2, <3>1
  <2>. QED
    BY <2>1, <2>2, OtherStep
<1>3. Types'
  BY <1>1, <1>2 DEF Types
<1>4. Places' /\ Writers'
  BY <1>1 DEF Places, Writers
<1>5. \A q \in Process, i \in Nat, s \in Server : HasSent(q, i, s) => HasSent(q, i, s)'
  BY <1>1 DEF HasSent, Current
<1>6. Causes'
  BY <1>1, <1>5 DEF Types, Causes, Answer, Datagram
<1>. QED
  BY <1>3, <1>4, <1>6

\* A step of the system, by what it does.
LEMMA NextStep ==
  ASSUME TypeInv, Next
  PROVE  /\ Same
         /\ \/ \E p \in Process : Begin(p) \/ Send(p) \/ GoesOn(p) \/ Returns(p)
            \/ \E r \in requests : Serve(r[1], r[2], r[3])
            \/ \E r \in requests : Lose(r)
            \/ \E s \in Server : Restart(s)
BY RunStep DEF Next, Work

LEMMA GoesOnType ==
  ASSUME TypeInv, NEW p \in Process, GoesOn(p), Same
  PROVE  TypeInv'
BY GoOnType DEF GoesOn, TookNone, Took

\* A call returns with a value or with none.
LEMMA ReturnsStep ==
  ASSUME TypeInv, NEW p \in Process, Returns(p)
  PROVE  /\ node[p] # 0 /\ answers' \subseteq answers
         /\ \E status \in {"ok", "fail"}, val \in Value \cup {Absent} : Return(p, status, val)
<1>1. answers' \subseteq answers
  BY DEF Returns, Took, TookNone
<1>2. CASE \E m \in Heard(p) : m.body \in Value /\ Return(p, "ok", m.body)
  BY <1>1, <1>2 DEF Returns
<1>3. CASE Return(p, "ok", Absent) \/ Return(p, "fail", Absent)
  BY <1>1, <1>3 DEF Returns
<1>. QED
  BY <1>2, <1>3 DEF Returns

LEMMA NextTypeInv ==
  ASSUME TypeInv, [Next]_vars
  PROVE  TypeInv'
<1>1. CASE UNCHANGED vars
  BY <1>1 DEF vars, calls, network, history, TypeInv, Types, Places, Causes, Writers, HasSent, Current
<1>2. CASE Next
  <2>1. Same
    BY <1>2, NextStep
  <2>2. ASSUME NEW p \in Process, Begin(p) \/ Send(p) \/ GoesOn(p) PROVE TypeInv'
    BY <2>1, <2>2, BeginType, SendType, GoesOnType
  <2>3. ASSUME NEW p \in Process, Returns(p) PROVE TypeInv'
    <3>1. PICK status \in {"ok", "fail"}, val \in Value \cup {Absent} : Return(p, status, val)
      BY <2>3, ReturnsStep
    <3>. QED
      BY <2>1, <2>3, <3>1, ReturnsStep, ReturnType
  <2>. QED
    BY <1>2, <2>1, <2>2, <2>3, NextStep, ServeType, OtherType
<1>. QED
  BY <1>1, <1>2

\* What the runs check of the types.
LEMMA TypeInvTypeOK == TypeInv => TypeOK
<1>. SUFFICES ASSUME TypeInv PROVE TypeOK
  OBVIOUS
<1>. USE DEF TypeInv
<1>1. node \in [Process -> 0..(Servers + 1)] /\ contacted \in [Process -> 0..Servers]
  <2>. SUFFICES ASSUME NEW p \in Process
                PROVE  node[p] \in 0..(Servers + 1) /\ contacted[p] \in 0..Servers
    BY DEF Types
  <2>1. args[p].n \in 0..Servers /\ Servers \in Nat /\ node[p] \in Nat /\ contacted[p] \in Nat
    BY SubmissionsAssumption DEF Types
  <2>. QED
    BY <2>1 DEF Places
<1>2. votes \in [Process -> [Value -> 0..Servers]]
  <2>. SUFFICES ASSUME NEW p \in Process, NEW v \in Value
                PROVE  votes[p][v] \in 0..Servers
    BY DEF Types
  <2>1. args[p].n \in 0..Servers /\ Servers \in Nat /\ node[p] \in Nat /\ votes[p][v] \in Nat
    BY SubmissionsAssumption DEF Types
  <2>. QED
    BY <2>1 DEF Places
<1>3. \A p \in Process : p \in waiting => node[p] \in 1..Servers
  BY SubmissionsAssumption DEF Types, Places
<1>4. \A r \in requests : <<r[1], r[2]>> \in Calls /\ r[3] \in Server
  <2>. SUFFICES ASSUME NEW r \in requests
                PROVE  <<r[1], r[2]>> \in Calls /\ r[3] \in Server
    OBVIOUS
  <2>1. r = <<r[1], r[2], r[3]>> /\ r[1] \in Process /\ r[2] \in Nat /\ r[3] \in Server
    BY DEF Types, Datagram
  <2>2. r[2] \in 1..Len(script[r[1]])
    BY <2>1 DEF Causes
  <2>3. r[2] \in DOMAIN script[r[1]]
    BY <2>1, <2>2 DEF Types
  <2>. QED
    BY <2>1, <2>3 DEF Calls
<1>. QED
  BY <1>1, <1>2, <1>3, <1>4 DEF TypeOK, Types, Places, Result

\* The variables keep their types and the loops their bounds, a process waits for the
\* node it has asked, and no call asks a node beyond its N.
THEOREM TypeCorrect == Spec => []TypeOK
<1>. QED
  BY InitTypeInv, NextTypeInv, TypeInvTypeOK, PTL DEF Spec

-----------------------------------------------------------------------------
(* Whose answer a call reads.                                               *)

Source(m) == <<m.to, m.call, m.from>>

\* The only datagram of a process, or the only answer to it, is that of its call to
\* the node it waits for.
InTurn(p) ==
  /\ \A r \in requests : r[1] = p => p \in waiting /\ r = <<p, Current(p), node[p]>>
  /\ \A m \in answers : m.to = p =>
       p \in waiting /\ Source(m) = <<p, Current(p), node[p]>> /\ Source(m) \notin requests
  /\ \A m, n \in answers : m.to = p /\ n.to = p => m = n

InTurns == ~May("late") => \A p \in Process : InTurn(p)

\* A datagram is executed once, and answered once.
Once ==
  /\ \A r \in requests : r \notin stored /\ \A m \in answers : Source(m) # r
  /\ \A m, n \in answers : Source(m) = Source(n) => m = n

Base == TypeInv /\ InTurns /\ Once

LEMMA InitBase == Init => Base
<1>1. Init => InTurns /\ Once
  BY DEF Init, InTurns, InTurn, Once
<1>. QED
  BY <1>1, InitTypeInv DEF Base

\* The faults do not change.
LEMMA SameFaults ==
  ASSUME Same
  PROVE  \A f : May(f)' = May(f)
BY DEF Same, May

\* A process that does nothing stays in turn.
LEMMA StaysInTurn ==
  ASSUME NEW p \in Process, InTurn(p),
         node'[p] = node[p], Current(p)' = Current(p), p \in waiting => p \in waiting',
         requests' \subseteq requests, answers' \subseteq answers
  PROVE  InTurn(p)'
BY DEF InTurn, Source

LEMMA IdleInTurn ==
  ASSUME NEW p \in Process, \A r \in requests : r[1] # p, \A m \in answers : m.to # p
  PROVE  InTurn(p)
BY DEF InTurn

\* When a process goes on or its call returns, nothing of it is on its way.
LEMMA Emptied ==
  ASSUME Base, ~May("late"), NEW p \in Process, GoesOn(p) \/ Returns(p)
  PROVE  /\ requests' = requests
         /\ \A r \in requests' : r[1] # p
         /\ answers' \subseteq answers
         /\ \A m \in answers' : m.to # p
<1>1. InTurn(p)
  BY DEF Base, InTurns
<1>2. requests' = requests
  BY DEF GoesOn, Returns, Return
<1>3. CASE TookNone(p)
  <2>1. p \notin waiting \/ Silent(p)
    BY <1>3 DEF TookNone
  <2>. QED
    BY <1>1, <1>2, <1>3, <2>1 DEF TookNone, Silent, Heard, InTurn
<1>4. ASSUME NEW m \in Heard(p), Took(p, m)
      PROVE  /\ \A r \in requests' : r[1] # p
             /\ answers' \subseteq answers
             /\ \A n \in answers' : n.to # p
  BY <1>1, <1>2, <1>4 DEF Took, Heard, InTurn
<1>5. TookNone(p) \/ \E m \in Heard(p) : Took(p, m)
  BY DEF GoesOn, Returns
<1>. QED
  BY <1>2, <1>3, <1>4, <1>5

\* What the other processes see of a step of p.
LEMMA OthersUnmoved ==
  ASSUME TypeInv, Same, NEW p \in Process, Begin(p) \/ Send(p) \/ GoesOn(p) \/ Returns(p)
  PROVE  \A q \in Process \ {p} :
           /\ node'[q] = node[q] /\ Current(q)' = Current(q) /\ results'[q] = results[q]
           /\ q \in waiting' <=> q \in waiting
           /\ contacted'[q] = contacted[q]
<1>. USE DEF TypeInv
<1>. SUFFICES ASSUME NEW q \in Process \ {p}
              PROVE  /\ node'[q] = node[q] /\ results'[q] = results[q]
                     /\ q \in waiting' <=> q \in waiting
                     /\ contacted'[q] = contacted[q]
  BY DEF Current
<1>0. node \in [Process -> Nat] /\ contacted \in [Process -> Nat] /\ results \in [Process -> Seq(Result)]
  BY DEF Types
<1>1. CASE Begin(p)
  BY <1>0, <1>1 DEF Begin
<1>2. CASE Send(p)
  BY <1>0, <1>2 DEF Send
<1>3. CASE GoesOn(p)
  BY <1>0, <1>3 DEF GoesOn, GoOn, TookNone
<1>4. CASE Returns(p)
  <2>1. PICK status \in {"ok", "fail"}, val \in Value \cup {Absent} : Return(p, status, val)
    BY <1>4, ReturnsStep
  <2>. QED
    BY <1>0, <2>1 DEF Return
<1>. QED
  BY <1>1, <1>2, <1>3, <1>4

LEMMA ProcessInTurn ==
  ASSUME Base, Same, InTurns, NEW p \in Process, Begin(p) \/ Send(p) \/ GoesOn(p) \/ Returns(p)
  PROVE  InTurns'
<1>. SUFFICES ASSUME ~May("late"), NEW q \in Process
              PROVE  InTurn(q)'
  BY SameFaults DEF InTurns
<1>0. TypeInv /\ InTurn(q) /\ InTurn(p)
  BY DEF Base, InTurns
<1>1. CASE Begin(p)
  <2>1. UNCHANGED <<requests, answers, waiting>> /\ p \notin waiting
    BY <1>0, <1>1 DEF Begin, network, TypeInv, Places
  <2>2. CASE q = p
    BY <1>0, <2>1, <2>2, IdleInTurn DEF InTurn
  <2>3. CASE q # p
    BY <1>0, <1>1, <2>1, <2>3, OthersUnmoved, StaysInTurn
  <2>. QED
    BY <2>2, <2>3
<1>2. CASE Send(p)
  <2>1. /\ UNCHANGED <<answers, node, results>> /\ p \notin waiting /\ waiting' = waiting \cup {p}
        /\ requests' = requests \cup {<<p, Current(p), node[p]>>}
    BY <1>2 DEF Send
  <2>2. CASE q = p
    <3>1. (\A r \in requests : r[1] # p) /\ \A m \in answers : m.to # p
      BY <1>0, <2>1 DEF InTurn
    <3>2. Current(p)' = Current(p)
      BY <2>1 DEF Current
    <3>. QED
      BY <2>1, <2>2, <3>1, <3>2 DEF InTurn
  <2>3. CASE q # p
    <3>1. node'[q] = node[q] /\ Current(q)' = Current(q) /\ (q \in waiting' <=> q \in waiting)
      BY <2>1, <2>3 DEF Current
    <3>. QED
      BY <1>0, <2>1, <2>3, <3>1 DEF InTurn, Source
  <2>. QED
    BY <2>2, <2>3
<1>3. CASE GoesOn(p) \/ Returns(p)
  <2>1. /\ requests' = requests /\ answers' \subseteq answers
        /\ (\A r \in requests' : r[1] # p) /\ \A m \in answers' : m.to # p
    BY <1>3, Emptied
  <2>2. CASE q = p
    BY <2>1, <2>2 DEF InTurn
  <2>3. CASE q # p
    BY <1>0, <1>3, <2>1, <2>3, OthersUnmoved, StaysInTurn
  <2>. QED
    BY <2>2, <2>3
<1>. QED
  BY <1>1, <1>2, <1>3

\* What a server sends is one answer to what it has executed.
LEMMA ServeAnswers ==
  ASSUME TypeInv, NEW r \in requests, Serve(r[1], r[2], r[3])
  PROVE  \/ answers' = answers
         \/ \E m : answers' = answers \cup {m} /\ Source(m) = r /\ m.to = r[1]
<1>1. r = <<r[1], r[2], r[3]>>
  BY ServeStep
<1>2. ASSUME NEW body, answers' = answers \cup {[to |-> r[1], call |-> r[2], from |-> r[3], body |-> body]}
      PROVE  \E m : answers' = answers \cup {m} /\ Source(m) = r /\ m.to = r[1]
  <2>. DEFINE m == [to |-> r[1], call |-> r[2], from |-> r[3], body |-> body]
  <2>1. Source(m) = r /\ m.to = r[1]
    BY <1>1 DEF Source
  <2>. QED
    BY <1>2, <2>1
<1>3. \/ answers' = answers
      \/ \E body : answers' = answers \cup {[to |-> r[1], call |-> r[2], from |-> r[3], body |-> body]}
  BY ServeStep
<1>. QED
  BY <1>2, <1>3

LEMMA ServeInTurn ==
  ASSUME Base, Same, NEW r \in requests, Serve(r[1], r[2], r[3])
  PROVE  InTurns'
<1>. SUFFICES ASSUME ~May("late"), NEW q \in Process
              PROVE  InTurn(q)'
  BY SameFaults DEF InTurns
<1>0. TypeInv /\ InTurn(q)
  BY DEF Base, InTurns
<1>1. UNCHANGED <<node, waiting, results>> /\ requests' = requests \ {r} /\ Current(q)' = Current(q)
  BY <1>0, ServeStep DEF calls, Current
<1>2. r = <<r[1], r[2], r[3]>>
  BY <1>0, ServeStep
<1>3. CASE r[1] = q
  <2>1. r = <<q, Current(q), node[q]>> /\ q \in waiting
    BY <1>0, <1>3 DEF InTurn
  <2>2. \A m \in answers : m.to # q
    BY <1>0, <2>1 DEF InTurn
  <2>3. \A m \in answers' : m.to = q => Source(m) = r
    BY <1>0, <2>2, ServeAnswers
  <2>4. \A m, n \in answers' : m.to = q /\ n.to = q => m = n
    BY <1>0, <2>2, ServeAnswers
  <2>. QED
    BY <1>0, <1>1, <2>1, <2>3, <2>4 DEF InTurn
<1>4. CASE r[1] # q
  <2>1. \A m \in answers' : m.to = q => m \in answers
    BY <1>0, <1>4, ServeAnswers
  <2>. QED
    BY <1>0, <1>1, <2>1 DEF InTurn
<1>. QED
  BY <1>3, <1>4

LEMMA OtherInTurn ==
  ASSUME Base, Same, (\E r \in requests : Lose(r)) \/ (\E s \in Server : Restart(s))
  PROVE  InTurns'
<1>1. UNCHANGED <<node, waiting, results, answers>> /\ requests' \subseteq requests
  BY OtherStep DEF calls
<1>. QED
  BY <1>1, SameFaults, StaysInTurn DEF InTurns, Base, Current

\* A datagram is sent once.
LEMMA SendOnce ==
  ASSUME TypeInv, Once, NEW p \in Process, Send(p)
  PROVE  Once'
<1>. USE DEF TypeInv
<1>. DEFINE sent == <<p, Current(p), node[p]>>
<1>1. /\ requests' = requests \cup {sent} /\ UNCHANGED <<answers, stored>>
      /\ node[p] \in 1..args[p].n /\ p \notin waiting
  BY DEF Send, history
<1>2. node[p] \in Nat /\ node[p] \in Server /\ ~HasSent(p, Current(p), node[p])
  <2>1. args[p].n \in 0..Servers /\ results[p] \in Seq(Result) /\ node[p] \in Nat
    BY DEF Types
  <2>. QED
    BY <1>1, <2>1, SubmissionsAssumption DEF HasSent, Current, Server
<1>3. Current(p) \in Nat
  BY DEF Types, Current
<1>4. sent \notin stored
  BY <1>2, <1>3 DEF Causes
<1>5. \A m \in answers : Source(m) # sent
  BY <1>2 DEF Causes, Source
<1>. QED
  BY <1>1, <1>4, <1>5 DEF Once

LEMMA ServeOnce ==
  ASSUME TypeInv, Once, NEW r \in requests, Serve(r[1], r[2], r[3])
  PROVE  Once'
<1>1. r \in Datagram /\ requests' = requests \ {r} /\ stored' \subseteq stored \cup {r}
  BY ServeStep
<1>. QED
  BY <1>1, ServeAnswers DEF Once

LEMMA NextBase ==
  ASSUME Base, [Next]_vars
  PROVE  Base'
<1>. USE DEF Base
<1>1. TypeInv'
  BY NextTypeInv
<1>2. CASE UNCHANGED vars
  BY <1>1, <1>2 DEF vars, calls, network, history, InTurns, InTurn, Once, Current, May
<1>3. CASE Next
  <2>1. Same
    BY <1>3, NextStep
  <2>2. ASSUME NEW p \in Process, Begin(p) \/ Send(p) \/ GoesOn(p) \/ Returns(p)
        PROVE  InTurns' /\ Once'
    <3>1. CASE Send(p)
      BY <2>1, <2>2, <3>1, SendOnce, ProcessInTurn
    <3>2. CASE Begin(p) \/ GoesOn(p)
      <4>1. UNCHANGED <<requests, stored>> /\ answers' \subseteq answers
        BY <3>2 DEF Begin, PutBegins, GetBegins, network, GoesOn, GoOn, history, Took, TookNone
      <4>. QED
        BY <2>1, <2>2, <4>1, ProcessInTurn DEF Once
    <3>3. CASE Returns(p)
      <4>1. UNCHANGED <<requests, stored>> /\ answers' \subseteq answers
        BY <3>3 DEF Returns, Return, Took, TookNone
      <4>. QED
        BY <2>1, <2>2, <4>1, ProcessInTurn DEF Once
    <3>. QED
      BY <2>2, <3>1, <3>2, <3>3
  <2>3. ASSUME NEW r \in requests, Serve(r[1], r[2], r[3])
        PROVE  InTurns' /\ Once'
    BY <2>1, <2>3, ServeInTurn, ServeOnce
  <2>4. CASE (\E r \in requests : Lose(r)) \/ (\E s \in Server : Restart(s))
    <3>1. UNCHANGED <<answers, stored>> /\ requests' \subseteq requests
      BY <2>4, OtherStep DEF history
    <3>. QED
      BY <1>1, <2>1, <2>4, <3>1, OtherInTurn DEF Once
  <2>. QED
    BY <1>1, <1>3, <2>2, <2>3, <2>4, NextStep
<1>. QED
  BY <1>2, <1>3

\* A call reads answers to itself, unless answers are late and it is not the first.
LEMMA OwnAnswers ==
  ASSUME Base, NEW p \in Process, p \in waiting, Alone(<<p, Current(p)>>), NEW m \in Heard(p)
  PROVE  m.call = Current(p)
<1>. USE DEF Base, TypeInv
<1>1. m \in answers /\ m.to = p
  BY DEF Heard
<1>2. CASE ~May("late")
  BY <1>1, <1>2 DEF InTurns, InTurn, Source
<1>3. CASE Current(p) = 1
  <2>1. m.call \in 1..Len(script[p]) /\ HasSent(p, m.call, m.from)
    BY <1>1 DEF Causes
  <2>2. m.call \in Nat /\ m.call >= 1
    <3>1. m \in Answer /\ script[p] \in Seq(Operation)
      BY <1>1 DEF Types
    <3>2. m.call \in Nat /\ Len(script[p]) \in Nat
      BY <3>1 DEF Answer
    <3>. QED
      BY <2>1, <3>2
  <2>. QED
    BY <1>3, <2>1, <2>2 DEF HasSent
<1>. QED
  BY <1>2, <1>3 DEF Alone

-----------------------------------------------------------------------------
(* What an acknowledgement is worth.                                        *)

\* The servers that have executed call c, and those of the present call of p that have
\* no answer to it on its way.
Executed(c) == {s \in Server : <<c[1], c[2], s>> \in stored}
Acked(p) ==
  {s \in Server : /\ <<p, Current(p), s>> \in stored
                  /\ \A m \in answers : Source(m) # <<p, Current(p), s>>}

PutAnswersStored ==
  \A m \in answers : OpOf(<<m.to, m.call>>).type = "put" => Source(m) \in stored

Counted(p) ==
  node[p] # 0 /\ Op(p).type = "put" /\ Alone(<<p, Current(p)>>) =>
    contacted[p] <= Cardinality(Acked(p))

Acknowledged ==
  /\ ~May("nomem") => PutAnswersStored /\ \A p \in Process : Counted(p)
  /\ PutOkMeansStored

LEMMA SubsetOfServers ==
  ASSUME NEW S, NEW T, S \subseteq T, T \subseteq Server
  PROVE  /\ IsFiniteSet(T) /\ Cardinality(S) \in Nat /\ Cardinality(T) \in Nat
         /\ Cardinality(S) <= Cardinality(T)
<1>1. IsFiniteSet(Server)
  BY FS_Interval, SubmissionsAssumption DEF Server
<1>2. IsFiniteSet(T)
  BY <1>1, FS_Subset
<1>. QED
  BY <1>2, FS_Subset, FS_CardinalityType

\* The calls that have returned after a step.
LEMMA StillReturned ==
  ASSUME TypeInv, Same, NEW p \in Process, Returns(p), NEW c \in Returned'
  PROVE  /\ c[1] \in Process /\ OpOf(c)' = OpOf(c)
         /\ \/ c \in Returned /\ results'[c[1]][c[2]] = results[c[1]][c[2]]
            \/ c = <<p, Current(p)>>
<1>. USE DEF TypeInv
<1>1. PICK status \in {"ok", "fail"}, val \in Value \cup {Absent} : Return(p, status, val)
  BY ReturnsStep
<1>2. /\ UNCHANGED script
      /\ \A q \in Process \ {p} : results'[q] = results[q]
      /\ results'[p] = Append(results[p], [status |-> status, val |-> val, due |-> promise[p]])
  <2>1. node[p] # 0 /\ answers' \subseteq answers
    BY ReturnsStep
  <2>2. UNCHANGED script
    BY <1>1 DEF Return
  <2>. QED
    BY <1>1, <2>1, <2>2, ReturnType
<1>3. PICK q \in Process : c \in {q} \X DOMAIN results'[q]
  BY DEF Returned
<1>4. c[1] = q /\ c[2] \in DOMAIN results'[q] /\ c = <<q, c[2]>>
  BY <1>3
<1>5. \A o \in Process : results[o] \in Seq(Result)
  BY DEF Types
<1>6. OpOf(c)' = OpOf(c)
  BY <1>2 DEF OpOf
<1>7. CASE q # p
  <2>1. results'[q] = results[q]
    BY <1>2, <1>7
  <2>2. c \in {q} \X DOMAIN results[q]
    BY <1>3, <2>1
  <2>. QED
    BY <1>4, <1>6, <2>1, <2>2 DEF Returned
<1>8. CASE q = p
  <2>1. c[2] \in 1..(Len(results[p]) + 1)
    BY <1>2, <1>4, <1>5, <1>8
  <2>2. CASE c[2] = Len(results[p]) + 1
    BY <1>4, <1>6, <1>8, <2>2 DEF Current
  <2>3. CASE c[2] # Len(results[p]) + 1
    <3>1. c[2] \in 1..Len(results[p])
      BY <1>5, <2>1, <2>3
    <3>2. results'[p][c[2]] = results[p][c[2]]
      BY <1>2, <1>5, <3>1
    <3>3. c \in {p} \X DOMAIN results[p]
      BY <1>4, <1>5, <1>8, <3>1
    <3>. QED
      BY <1>4, <1>6, <1>8, <3>2, <3>3 DEF Returned
  <2>. QED
    BY <2>2, <2>3
<1>. QED
  BY <1>7, <1>8

\* The acknowledgements that a process has counted stay counted.
LEMMA StillAcked ==
  ASSUME NEW p, Current(p)' = Current(p), stored \subseteq stored',
         \A m \in answers' : m \in answers \/ Source(m) \notin stored
  PROVE  /\ Acked(p) \subseteq Acked(p)'
         /\ Cardinality(Acked(p)) \in Nat /\ Cardinality(Acked(p))' \in Nat
         /\ Cardinality(Acked(p)) <= Cardinality(Acked(p))'
<1>1. Acked(p) \subseteq Acked(p)'
  BY DEF Acked
<1>2. Acked(p)' \subseteq Server
  BY DEF Acked
<1>. QED
  BY <1>1, <1>2, SubsetOfServers

LEMMA StillCounted ==
  ASSUME Base, NEW p \in Process, Counted(p), Same, UNCHANGED <<script>>,
         node'[p] = node[p], contacted'[p] = contacted[p], Current(p)' = Current(p),
         stored \subseteq stored',
         \A m \in answers' : m \in answers \/ Source(m) \notin stored
  PROVE  Counted(p)'
<1>1. Alone(<<p, Current(p)>>)' <=> Alone(<<p, Current(p)>>)
  BY SameFaults DEF Alone
<1>2. Op(p)' = Op(p)
  BY DEF Op
<1>3. contacted[p] \in Nat
  BY DEF Base, TypeInv, Types
<1>. QED
  BY <1>1, <1>2, <1>3, StillAcked DEF Counted

\* A call that goes on has counted one more of the servers that have executed it, or
\* none.
LEMMA GoesOnCounted ==
  ASSUME Base, PutAnswersStored, NEW p \in Process, Counted(p), Same, GoesOn(p)
  PROVE  Counted(p)'
<1>. USE DEF Base, TypeInv
<1>1. /\ UNCHANGED <<script, stored, results>> /\ Op(p)' = Op(p) /\ Current(p)' = Current(p)
      /\ node[p] # 0 /\ contacted[p] \in Nat /\ contacted \in [Process -> Nat]
  <2>1. UNCHANGED <<script, stored, results>> /\ node[p] \in 1..args[p].n
    BY DEF GoesOn, GoOn, history
  <2>2. contacted \in [Process -> Nat] /\ node[p] # 0
    BY <2>1 DEF Types
  <2>. QED
    BY <2>1, <2>2 DEF Op, Current
<1>2. SUFFICES ASSUME Op(p).type = "put", Alone(<<p, Current(p)>>)
               PROVE  contacted'[p] <= Cardinality(Acked(p))'
  BY <1>1, SameFaults DEF Counted, Alone
<1>3. contacted[p] <= Cardinality(Acked(p))
  BY <1>1, <1>2 DEF Counted
<1>4. CASE UNCHANGED contacted
  <2>1. answers' \subseteq answers
    BY DEF GoesOn, TookNone, Took
  <2>. QED
    BY <1>1, <1>3, <1>4, <2>1, StillAcked
<1>5. ASSUME NEW m \in Heard(p), Took(p, m), contacted' = [contacted EXCEPT ![p] = @ + 1]
      PROVE  contacted'[p] <= Cardinality(Acked(p))'
  <2>1. m \in answers /\ m.to = p /\ p \in waiting /\ answers' = answers \ {m} /\ m.from \in Server
    BY <1>5 DEF Took, Heard, Types, Answer
  <2>2. Source(m) = <<p, Current(p), m.from>>
    BY <1>2, <2>1, OwnAnswers DEF Source
  <2>3. OpOf(<<m.to, m.call>>) = Op(p)
    BY <2>1, <1>2, OwnAnswers DEF OpOf, Op
  <2>4. Source(m) \in stored
    BY <1>2, <2>1, <2>3 DEF PutAnswersStored
  <2>5. m.from \in Acked(p)' /\ m.from \notin Acked(p)
    BY <1>1, <2>1, <2>2, <2>4 DEF Acked, Once
  <2>6. Acked(p) \cup {m.from} \subseteq Acked(p)' /\ Acked(p)' \subseteq Server
    BY <1>1, <2>1, <2>5 DEF Acked
  <2>7. Cardinality(Acked(p) \cup {m.from}) = Cardinality(Acked(p)) + 1
    <3>1. IsFiniteSet(Acked(p))
      BY SubsetOfServers DEF Acked
    <3>. QED
      BY <2>5, <3>1, FS_AddElement
  <2>8. /\ Cardinality(Acked(p) \cup {m.from}) <= Cardinality(Acked(p)')
        /\ Cardinality(Acked(p)') \in Nat
    BY <2>6, SubsetOfServers
  <2>9. Cardinality(Acked(p)) \in Nat
    BY SubsetOfServers DEF Acked
  <2>10. contacted'[p] = contacted[p] + 1
    BY <1>1, <1>5
  <2>. QED
    BY <1>1, <1>3, <2>7, <2>8, <2>9, <2>10
<1>. QED
  BY <1>4, <1>5 DEF GoesOn

\* A put that returns success has been executed by its W servers.
LEMMA ReturnsStored ==
  ASSUME Base, Acknowledged, NEW p \in Process, Same, Returns(p)
  PROVE  PutOkMeansStored'
<1>. USE DEF Base, TypeInv
<1>1. SUFFICES ASSUME NEW c \in Returned', OpOf(c)'.type = "put", Ok(c)', Alone(c), ~May("nomem")
               PROVE  Cardinality(Executed(c)') >= args'[c[1]].w
  BY SameFaults DEF PutOkMeansStored, Executed, Alone
<1>2. UNCHANGED <<stored, args>> /\ c[1] \in Process /\ OpOf(c).type = "put"
  BY <1>1, StillReturned DEF Returns, Return
<1>3. Executed(c)' = Executed(c)
  BY <1>2 DEF Executed
<1>4. CASE c \in Returned /\ results'[c[1]][c[2]] = results[c[1]][c[2]]
  BY <1>1, <1>2, <1>3, <1>4 DEF Acknowledged, PutOkMeansStored, Ok, Executed
<1>5. CASE c = <<p, Current(p)>>
  <2>1. node[p] # 0
    BY DEF Returns
  <2>2. Op(p).type = "put"
    BY <1>2, <1>5, <2>1, CurrentOp
  <2>3. ASSUME NEW status \in {"ok", "fail"}, NEW val \in Value \cup {Absent}, Return(p, status, val)
        PROVE  status = "ok"
    <3>1. /\ results'[p] = Append(results[p], [status |-> status, val |-> val, due |-> promise[p]])
          /\ results[p] \in Seq(Result)
      <4>1. answers' \subseteq answers
        BY ReturnsStep
      <4>. QED
        BY <2>1, <2>3, <4>1, ReturnType DEF Types
    <3>2. results'[p][Current(p)].status = status
      BY <3>1 DEF Current
    <3>. QED
      BY <1>1, <1>5, <3>2 DEF Ok
  <2>4. EnoughAcks(p)
    BY <2>2, <2>3 DEF Returns
  <2>5. contacted[p] <= Cardinality(Acked(p))
    BY <1>1, <1>5, <2>1, <2>2 DEF Acknowledged, Counted
  <2>6. Acked(p) \subseteq Executed(c) /\ Executed(c) \subseteq Server
    BY <1>5 DEF Acked, Executed
  <2>7. /\ Cardinality(Acked(p)) \in Nat /\ Cardinality(Executed(c)) \in Nat
        /\ Cardinality(Acked(p)) <= Cardinality(Executed(c))
    BY <2>6, SubsetOfServers
  <2>8. contacted[p] \in Nat /\ args[p].w \in Nat
    BY DEF Types
  <2>. QED
    BY <1>2, <1>3, <1>5, <2>4, <2>5, <2>7, <2>8 DEF EnoughAcks
<1>. QED
  BY <1>4, <1>5, StillReturned

\* The results stay what they are when no call returns.
LEMMA OldStored ==
  ASSUME Base, Acknowledged, Same, UNCHANGED <<results, script, args>>, stored \subseteq stored',
         stored' \subseteq Datagram
  PROVE  PutOkMeansStored'
<1>. USE DEF Base, TypeInv
<1>1. SUFFICES ASSUME NEW c \in Returned, OpOf(c).type = "put", Ok(c), Alone(c), ~May("nomem")
               PROVE  Cardinality(Executed(c)') >= args[c[1]].w
  BY SameFaults DEF PutOkMeansStored, Executed, Alone, Returned, OpOf, Ok
<1>2. Cardinality(Executed(c)) >= args[c[1]].w
  BY <1>1 DEF Acknowledged, PutOkMeansStored, Executed
<1>3. Executed(c) \subseteq Executed(c)' /\ Executed(c)' \subseteq Server
  BY DEF Executed
<1>4. /\ Cardinality(Executed(c)) \in Nat /\ Cardinality(Executed(c)') \in Nat
      /\ Cardinality(Executed(c)) <= Cardinality(Executed(c)')
  BY <1>3, SubsetOfServers
<1>5. args[c[1]].w \in Nat
  BY DEF Returned, Types
<1>. QED
  BY <1>2, <1>4, <1>5

LEMMA BeginCounted ==
  ASSUME Base, NEW p \in Process, Begin(p)
  PROVE  Counted(p)'
<1>1. contacted'[p] = 0
  BY DEF Begin, Base, TypeInv, Places, Types
<1>2. Cardinality(Acked(p)') \in Nat
  BY SubsetOfServers DEF Acked
<1>. QED
  BY <1>1, <1>2 DEF Counted

LEMMA NextAcknowledged ==
  ASSUME Base, Acknowledged, [Next]_vars
  PROVE  Acknowledged'
<1>. USE DEF Base, TypeInv
<1>0. stored' \subseteq Datagram
  BY NextBase DEF Types
<1>1. CASE UNCHANGED vars
  BY <1>1 DEF vars, calls, network, history, Acknowledged, PutAnswersStored, Counted, Acked, Alone,
              PutOkMeansStored, Returned, Ok, OpOf, Op, Current, May
<1>2. CASE Next
  <2>1. Same
    BY <1>2, NextStep
  <2>2. ASSUME NEW p \in Process, Begin(p) \/ Send(p)
        PROVE  Acknowledged'
    <3>1. UNCHANGED <<results, script, args, answers, stored>>
      BY <2>2 DEF Begin, Send, PutBegins, GetBegins, network, history
    <3>2. PutOkMeansStored'
      BY <1>0, <2>1, <3>1, OldStored
    <3>3. ASSUME ~May("nomem"), NEW q \in Process
          PROVE  PutAnswersStored' /\ Counted(q)'
      <4>1. PutAnswersStored'
        BY <3>1, <3>3 DEF Acknowledged, PutAnswersStored, OpOf
      <4>2. CASE q # p
        <5>1. node'[q] = node[q] /\ Current(q)' = Current(q) /\ contacted'[q] = contacted[q]
          BY <2>1, <2>2, <4>2, OthersUnmoved
        <5>. QED
          BY <2>1, <3>1, <3>3, <4>1, <5>1, StillCounted DEF Acknowledged
      <4>3. CASE q = p /\ Send(p)
        <5>1. node' = node /\ Current(q)' = Current(q) /\ contacted' = contacted
          BY <4>3 DEF Send, Current
        <5>. QED
          BY <2>1, <3>1, <3>3, <4>1, <5>1, StillCounted DEF Acknowledged
      <4>4. CASE q = p /\ Begin(p)
        BY <4>1, <4>4, BeginCounted
      <4>. QED
        BY <2>2, <4>2, <4>3, <4>4
    <3>. QED
      BY <2>1, <3>2, <3>3, SameFaults DEF Acknowledged
  <2>3. ASSUME NEW p \in Process, GoesOn(p) \/ Returns(p)
        PROVE  Acknowledged'
    <3>1. UNCHANGED <<script, args, stored>> /\ answers' \subseteq answers
      BY <2>3, ReturnsStep DEF GoesOn, GoOn, history, Took, TookNone, Returns, Return
    <3>2. PutOkMeansStored'
      <4>1. CASE Returns(p)
        BY <2>1, <4>1, ReturnsStored
      <4>2. CASE GoesOn(p)
        BY <1>0, <2>1, <3>1, <4>2, OldStored DEF GoesOn, GoOn
      <4>. QED
        BY <2>3, <4>1, <4>2
    <3>3. ASSUME ~May("nomem"), NEW q \in Process
          PROVE  PutAnswersStored' /\ Counted(q)'
      <4>1. PutAnswersStored'
        BY <3>1, <3>3 DEF Acknowledged, PutAnswersStored, OpOf
      <4>2. CASE q # p
        <5>1. node'[q] = node[q] /\ Current(q)' = Current(q) /\ contacted'[q] = contacted[q]
          BY <2>1, <2>3, <4>2, OthersUnmoved
        <5>. QED
          BY <2>1, <3>1, <3>3, <4>1, <5>1, StillCounted DEF Acknowledged
      <4>3. CASE q = p /\ GoesOn(p)
        BY <2>1, <3>3, <4>1, <4>3, GoesOnCounted DEF Acknowledged
      <4>4. CASE q = p /\ Returns(p)
        <5>1. PICK status \in {"ok", "fail"}, val \in Value \cup {Absent} : Return(p, status, val)
          BY <4>4, ReturnsStep
        <5>2. node'[p] = 0
          BY <5>1 DEF Return, Types
        <5>. QED
          BY <4>1, <4>4, <5>2 DEF Counted
      <4>. QED
        BY <2>3, <4>2, <4>3, <4>4
    <3>. QED
      BY <2>1, <3>2, <3>3, SameFaults DEF Acknowledged
  <2>4. ASSUME NEW r \in requests, Serve(r[1], r[2], r[3])
        PROVE  Acknowledged'
    <3>1. /\ UNCHANGED <<results, script, args, node, contacted>>
          /\ stored \subseteq stored' /\ r \notin stored
      <4>1. UNCHANGED <<results, script, args, node, contacted>>
        BY <2>4, ServeStep DEF calls
      <4>2. UNCHANGED <<table, stored>> \/ stored' = stored \cup {r}
        BY <2>4, ServeStep
      <4>. QED
        BY <2>4, <4>1, <4>2 DEF Once
    <3>2. PutOkMeansStored'
      BY <1>0, <2>1, <3>1, OldStored
    <3>3. ASSUME ~May("nomem"), NEW q \in Process
          PROVE  PutAnswersStored' /\ Counted(q)'
      <4>1. \A m \in answers' : m \in answers \/ (Source(m) = r /\ <<m.to, m.call>> = <<r[1], r[2]>>)
        <5>1. r = <<r[1], r[2], r[3]>>
          BY <2>4, ServeStep
        <5>2. \A m : Source(m) = r => <<m.to, m.call>> = <<r[1], r[2]>>
          BY <5>1 DEF Source
        <5>. QED
          BY <2>4, <5>2, ServeAnswers
      <4>2. OpOf(<<r[1], r[2]>>).type = "put" => r \in stored'
        <5>1. OpOf(<<r[1], r[2]>>) = OpOf(r)
          BY DEF OpOf
        <5>2. (OpOf(r).type = "get" \/ May("nomem")) \/ r \in stored'
          BY <2>4, ServeStep
        <5>. QED
          BY <3>3, <5>1, <5>2
      <4>3. PutAnswersStored'
        <5>. SUFFICES ASSUME NEW m \in answers', OpOf(<<m.to, m.call>>)'.type = "put"
                      PROVE  Source(m) \in stored'
          BY DEF PutAnswersStored, Source
        <5>1. OpOf(<<m.to, m.call>>).type = "put"
          BY <3>1 DEF OpOf
        <5>. QED
          BY <3>1, <3>3, <4>1, <4>2, <5>1 DEF Acknowledged, PutAnswersStored
      <4>4. Current(q)' = Current(q)
        BY <3>1 DEF Current
      <4>. QED
        BY <2>1, <3>1, <3>3, <4>1, <4>3, <4>4, StillCounted DEF Acknowledged
    <3>4. ~May("nomem") => PutAnswersStored' /\ \A q \in Process : Counted(q)'
      <4>1. r[1] \in Process
        BY <2>4 DEF Types, Datagram
      <4>. QED
        BY <3>3, <4>1
    <3>. QED
      BY <2>1, <3>2, <3>4, SameFaults DEF Acknowledged
  <2>5. CASE (\E r \in requests : Lose(r)) \/ (\E s \in Server : Restart(s))
    <3>1. UNCHANGED <<results, script, args, node, contacted, answers, stored>>
      BY <2>5, OtherStep DEF calls, history
    <3>2. PutOkMeansStored'
      BY <1>0, <2>1, <3>1, OldStored
    <3>3. \A q \in Process : Counted(q) => Counted(q)'
      BY <2>1, <3>1, StillCounted DEF Current
    <3>4. PutAnswersStored => PutAnswersStored'
      BY <3>1 DEF PutAnswersStored, OpOf
    <3>. QED
      BY <2>1, <3>2, <3>3, <3>4, SameFaults DEF Acknowledged
  <2>. QED
    BY <1>2, <2>2, <2>3, <2>4, <2>5, NextStep
<1>. QED
  BY <1>1, <1>2

LEMMA InitAcknowledged == Init => Acknowledged
<1>. SUFFICES ASSUME Init PROVE Acknowledged
  OBVIOUS
<1>1. Returned = {}
  BY DEF Init, Returned
<1>. QED
  BY <1>1 DEF Init, Acknowledged, PutAnswersStored, Counted, PutOkMeansStored

\* A put that returns success has been executed by W servers, restarts and lost
\* datagrams notwithstanding, if its answers cannot be mistaken.
THEOREM AcknowledgedStored == Spec => []PutOkMeansStored
<1>1. Acknowledged => PutOkMeansStored
  BY DEF Acknowledged
<1>. QED
  BY <1>1, InitBase, NextBase, InitAcknowledged, NextAcknowledged, PTL DEF Spec

-----------------------------------------------------------------------------
(* Where values come from.                                                  *)

PutBegun(k, v) ==
  \E d \in Calls : Begun(d) /\ OpOf(d).type = "put" /\ OpOf(d).key = k /\ OpOf(d).val = v

TablesFromPuts ==
  \A s \in Server, k \in Key : table[s][k] # Absent => PutBegun(k, table[s][k])

AnswersFromPuts ==
  \A m \in answers :
    OpOf(<<m.to, m.call>>).type = "get" /\ m.body # NotFound =>
      PutBegun(OpOf(<<m.to, m.call>>).key, m.body)

FromPuts == TablesFromPuts /\ AnswersFromPuts /\ NoInvention

\* A call that has begun has begun.
LEMMA StillBegun ==
  ASSUME TypeInv, [Next]_vars
  PROVE  \A k, v : PutBegun(k, v) => PutBegun(k, v)'
<1>. USE DEF TypeInv
<1>0. UNCHANGED script
  <2>1. ASSUME NEW p \in Process, Begin(p) \/ Send(p) \/ GoesOn(p) PROVE UNCHANGED script
    BY <2>1 DEF Begin, Send, GoesOn, GoOn
  <2>2. ASSUME NEW p \in Process, Returns(p) PROVE UNCHANGED script
    BY <2>2 DEF Returns, Return
  <2>3. ASSUME NEW r \in requests, Serve(r[1], r[2], r[3]) PROVE UNCHANGED script
    BY <2>3 DEF Serve, calls
  <2>. QED
    BY <2>1, <2>2, <2>3, NextStep, OtherStep DEF vars, calls
<1>1. ASSUME NEW p \in Process
      PROVE  \/ Current(p)' = Current(p) /\ (node[p] # 0 => node'[p] # 0)
             \/ Current(p)' = Current(p) + 1
  <2>0. node \in [Process -> Nat] /\ Current(p) \in Nat
    BY DEF Types, Current
  <2>1. ASSUME NEW q \in Process, Begin(q) \/ Send(q) \/ GoesOn(q)
        PROVE  Current(p)' = Current(p) /\ (node[p] # 0 => node'[p] # 0)
    BY <2>0, <2>1 DEF Begin, Send, GoesOn, GoOn, Current
  <2>2. ASSUME NEW q \in Process, Returns(q), Same
        PROVE  \/ Current(p)' = Current(p) /\ node'[p] = node[p]
               \/ Current(p)' = Current(p) + 1
    <3>1. CASE p # q
      BY <2>2, <3>1, OthersUnmoved
    <3>2. CASE p = q
      <4>1. PICK status \in {"ok", "fail"}, val \in Value \cup {Absent} : Return(p, status, val)
        BY <2>2, <3>2, ReturnsStep
      <4>2. node[p] # 0 /\ answers' \subseteq answers
        BY <2>2, <3>2, ReturnsStep
      <4>. QED
        BY <2>2, <4>1, <4>2, ReturnType
    <3>. QED
      BY <3>1, <3>2
  <2>3. ASSUME NEW r \in requests, Serve(r[1], r[2], r[3]) PROVE UNCHANGED <<node, results>>
    BY <2>3 DEF Serve, calls
  <2>4. CASE UNCHANGED <<node, results>>
    BY <2>4 DEF Current
  <2>. QED
    BY <2>1, <2>2, <2>3, <2>4, NextStep, OtherStep DEF vars, calls
<1>2. ASSUME NEW d \in Calls, Begun(d)
      PROVE  Begun(d)'
  <2>1. d[1] \in Process /\ d[2] \in Nat
    BY DEF Calls, Types
  <2>2. Current(d[1]) \in Nat
    BY <2>1 DEF Types, Current
  <2>. QED
    BY <1>1, <1>2, <2>1, <2>2 DEF Begun
<1>. QED
  BY <1>0, <1>2 DEF PutBegun, Calls, OpOf

\* A server stores what a put has sent, and answers what it has stored.
LEMMA ServeFromPuts ==
  ASSUME Base, FromPuts, Same, NEW r \in requests, Serve(r[1], r[2], r[3]),
         \A k, v : PutBegun(k, v) => PutBegun(k, v)'
  PROVE  TablesFromPuts' /\ AnswersFromPuts'
<1>. USE DEF Base, TypeInv
<1>1. /\ r[1] \in Process /\ r[2] \in Nat /\ r[3] \in Server
      /\ r = <<r[1], r[2], r[3]>>
  BY DEF Types, Datagram
<1>2. OpOf(r) \in Operation /\ r[2] \in 1..Len(script[r[1]]) /\ HasSent(r[1], r[2], r[3])
  BY ServeStep
<1>3. OpOf(r).type = "put" => PutBegun(OpOf(r).key, OpOf(r).val)
  <2>1. <<r[1], r[2]>> \in Calls
    BY <1>1, <1>2 DEF Calls, Types
  <2>2. Begun(<<r[1], r[2]>>)
    <3>1. node[r[1]] \in Nat /\ r[3] \in Nat /\ r[3] # 0
      BY <1>1 DEF Types, Server
    <3>. QED
      BY <1>2, <3>1 DEF HasSent, Begun
  <2>3. OpOf(<<r[1], r[2]>>) = OpOf(r)
    BY DEF OpOf
  <2>. QED
    BY <2>1, <2>2, <2>3 DEF PutBegun
<1>4. TablesFromPuts'
  <2>1. \/ UNCHANGED <<table, stored>>
        \/ /\ OpOf(r).type = "put"
           /\ table' = [table EXCEPT ![r[3]][OpOf(r).key] = OpOf(r).val]
    BY ServeStep
  <2>2. table \in [Server -> [Key -> Value \cup {Absent}]]
    BY DEF Types
  <2>3. ASSUME NEW s \in Server, NEW k \in Key
        PROVE  \/ table'[s][k] = table[s][k]
               \/ /\ OpOf(r).type = "put"
                  /\ k = OpOf(r).key /\ table'[s][k] = OpOf(r).val
    BY <2>1, <2>2
  <2>. QED
    BY <1>3, <2>3 DEF FromPuts, TablesFromPuts
<1>5. AnswersFromPuts'
  <2>1. UNCHANGED script
    BY ServeStep DEF calls
  <2>2. ASSUME NEW m \in answers', m \notin answers, OpOf(<<m.to, m.call>>).type = "get",
               m.body # NotFound
        PROVE  PutBegun(OpOf(<<m.to, m.call>>).key, m.body)
    <3>1. PICK body \in Value \cup {NotFound} :
            /\ answers' = answers \cup {[to |-> r[1], call |-> r[2], from |-> r[3], body |-> body]}
            /\ OpOf(r).type = "get" =>
                 body = NotFound \/ (body = table[r[3]][OpOf(r).key] /\ body # Absent)
      BY <2>2, ServeStep
    <3>2. m.to = r[1] /\ m.call = r[2] /\ m.body = body
      BY <2>2, <3>1
    <3>3. OpOf(<<m.to, m.call>>) = OpOf(r)
      BY <3>2 DEF OpOf
    <3>. QED
      BY <1>1, <1>2, <2>2, <3>1, <3>2, <3>3, OperationType DEF FromPuts, TablesFromPuts
  <2>3. \A m \in answers' :
          OpOf(<<m.to, m.call>>).type = "get" /\ m.body # NotFound =>
            PutBegun(OpOf(<<m.to, m.call>>).key, m.body)
    BY <2>2 DEF FromPuts, AnswersFromPuts
  <2>. QED
    BY <2>1, <2>3 DEF AnswersFromPuts, OpOf
<1>. QED
  BY <1>4, <1>5

\* A get that returns a value has read it in an answer to itself.
LEMMA ReturnsFromPuts ==
  ASSUME Base, FromPuts, Same, NEW p \in Process, Returns(p),
         \A k, v : PutBegun(k, v) => PutBegun(k, v)'
  PROVE  NoInvention'
<1>. USE DEF Base, TypeInv
<1>. SUFFICES ASSUME NEW c \in Returned', OpOf(c)'.type = "get", Ok(c)', Alone(c)',
                     NEW k, NEW v, k = OpOf(c)'.key, v = results'[c[1]][c[2]].val
              PROVE  PutBegun(k, v)'
  BY DEF NoInvention, PutBegun
<1>1. c[1] \in Process /\ OpOf(c)' = OpOf(c) /\ Alone(c)
  BY StillReturned, SameFaults DEF Alone
<1>2. SUFFICES PutBegun(k, v)
  OBVIOUS
<1>3. CASE c \in Returned /\ results'[c[1]][c[2]] = results[c[1]][c[2]]
  BY <1>1, <1>3 DEF FromPuts, NoInvention, PutBegun, Ok
<1>4. CASE c = <<p, Current(p)>>
  <2>1. node[p] # 0 /\ answers' \subseteq answers
    BY ReturnsStep
  <2>2. OpOf(c) = Op(p) /\ Op(p).type = "get"
    BY <1>1, <1>4, <2>1, CurrentOp
  <2>3. ASSUME NEW status \in {"ok", "fail"}, NEW val \in Value \cup {Absent}, Return(p, status, val)
        PROVE  status = "ok" /\ results'[p][Current(p)].val = val
    <3>1. /\ results'[p] = Append(results[p], [status |-> status, val |-> val, due |-> promise[p]])
          /\ results[p] \in Seq(Result)
      BY <2>1, <2>3, ReturnType DEF Types
    <3>2. /\ results'[p][Current(p)].status = status
          /\ results'[p][Current(p)].val = val
      BY <3>1 DEF Current
    <3>. QED
      BY <1>4, <3>2 DEF Ok
  <2>4. PICK m \in Heard(p) : Took(p, m) /\ m.body \in Value /\ Return(p, "ok", m.body)
    BY <2>2, <2>3 DEF Returns
  <2>5. p \in waiting /\ m \in answers /\ m.to = p
    BY <2>4 DEF Took, Heard
  <2>6. m.call = Current(p)
    BY <1>1, <1>4, <2>5, OwnAnswers
  <2>7. OpOf(<<m.to, m.call>>) = Op(p)
    BY <2>5, <2>6 DEF OpOf, Op
  <2>8. m.body # NotFound
    BY <2>4, SubmissionsAssumption
  <2>9. PutBegun(k, m.body)
    BY <1>1, <2>2, <2>5, <2>7, <2>8 DEF FromPuts, AnswersFromPuts
  <2>10. results'[p][Current(p)].val = m.body
    BY <2>3, <2>4
  <2>. QED
    BY <1>4, <2>9, <2>10
<1>. QED
  BY <1>3, <1>4, StillReturned

LEMMA NextFromPuts ==
  ASSUME Base, FromPuts, [Next]_vars
  PROVE  FromPuts'
<1>. USE DEF Base
<1>0. \A k, v : PutBegun(k, v) => PutBegun(k, v)'
  BY StillBegun
<1>1. ASSUME UNCHANGED <<results, script, faults>>
      PROVE  NoInvention'
  <2>. SUFFICES ASSUME NEW c \in Returned, OpOf(c).type = "get", Ok(c), Alone(c),
                       NEW k, NEW v, k = OpOf(c).key, v = results[c[1]][c[2]].val
                PROVE  PutBegun(k, v)'
    BY <1>1 DEF NoInvention, Returned, OpOf, Ok, Alone, May, PutBegun
  <2>1. PutBegun(k, v)
    BY DEF FromPuts, NoInvention, PutBegun
  <2>. QED
    BY <1>0, <2>1
<1>2. ASSUME UNCHANGED <<table, script>>, answers' \subseteq answers
      PROVE  TablesFromPuts' /\ AnswersFromPuts'
  <2>1. TablesFromPuts'
    BY <1>0, <1>2 DEF FromPuts, TablesFromPuts
  <2>2. ASSUME NEW m \in answers', OpOf(<<m.to, m.call>>)'.type = "get", m.body # NotFound
        PROVE  PutBegun(OpOf(<<m.to, m.call>>).key, m.body)'
    <3>1. PutBegun(OpOf(<<m.to, m.call>>).key, m.body)
      BY <1>2, <2>2 DEF FromPuts, AnswersFromPuts, OpOf
    <3>2. OpOf(<<m.to, m.call>>)' = OpOf(<<m.to, m.call>>)
      BY <1>2 DEF OpOf
    <3>. QED
      BY <1>0, <3>1, <3>2 DEF PutBegun
  <2>. QED
    BY <2>1, <2>2 DEF AnswersFromPuts, PutBegun
<1>3. CASE UNCHANGED vars
  BY <1>1, <1>2, <1>3 DEF vars, calls, network, FromPuts
<1>4. CASE Next
  <2>1. Same
    BY <1>4, NextStep
  <2>2. ASSUME NEW p \in Process, Begin(p) \/ Send(p) \/ GoesOn(p)
        PROVE  FromPuts'
    <3>1. UNCHANGED <<results, script, faults, table>> /\ answers' \subseteq answers
      BY <2>1, <2>2 DEF Same, Begin, Send, GoesOn, GoOn, Took, TookNone, network
    <3>. QED
      BY <1>1, <1>2, <3>1 DEF FromPuts
  <2>3. ASSUME NEW p \in Process, Returns(p)
        PROVE  FromPuts'
    <3>1. UNCHANGED <<script, table>> /\ answers' \subseteq answers
      BY <2>3, ReturnsStep DEF Returns, Return
    <3>. QED
      BY <1>0, <1>2, <2>1, <2>3, <3>1, ReturnsFromPuts DEF FromPuts
  <2>4. ASSUME NEW r \in requests, Serve(r[1], r[2], r[3])
        PROVE  FromPuts'
    <3>1. UNCHANGED <<results, script, faults>>
      BY <2>1, <2>4 DEF Same, Serve, calls
    <3>. QED
      BY <1>0, <1>1, <2>1, <2>4, <3>1, ServeFromPuts DEF FromPuts
  <2>5. CASE (\E r \in requests : Lose(r)) \/ (\E s \in Server : Restart(s))
    <3>1. UNCHANGED <<results, script, faults, answers>>
      BY <2>1, <2>5, OtherStep DEF Same, calls
    <3>2. AnswersFromPuts'
      <4>. SUFFICES ASSUME NEW m \in answers', OpOf(<<m.to, m.call>>)'.type = "get", m.body # NotFound
                    PROVE  PutBegun(OpOf(<<m.to, m.call>>).key, m.body)'
        BY DEF AnswersFromPuts, PutBegun
      <4>1. PutBegun(OpOf(<<m.to, m.call>>).key, m.body)
        BY <3>1 DEF FromPuts, AnswersFromPuts, OpOf
      <4>2. OpOf(<<m.to, m.call>>)' = OpOf(<<m.to, m.call>>)
        BY <3>1 DEF OpOf
      <4>. QED
        BY <1>0, <4>1, <4>2 DEF PutBegun
    <3>3. TablesFromPuts'
      <4>1. table \in [Server -> [Key -> Value \cup {Absent}]]
        BY DEF TypeInv, Types
      <4>2. \A s \in Server, k \in Key : table'[s][k] \in {table[s][k], Absent}
        BY <2>5, <4>1, OtherStep
      <4>. QED
        BY <1>0, <4>2 DEF FromPuts, TablesFromPuts
    <3>. QED
      BY <1>1, <3>1, <3>2, <3>3 DEF FromPuts
  <2>. QED
    BY <1>4, <2>2, <2>3, <2>4, <2>5, NextStep
<1>. QED
  BY <1>3, <1>4

LEMMA InitFromPuts == Init => FromPuts
<1>. SUFFICES ASSUME Init PROVE FromPuts
  OBVIOUS
<1>1. Returned = {}
  BY DEF Init, Returned
<1>. QED
  BY <1>1 DEF Init, FromPuts, TablesFromPuts, AnswersFromPuts, NoInvention

\* A get that succeeds returns a value that a put on its key has sent, if its answers
\* cannot be mistaken.
THEOREM NothingInvented == Spec => []NoInvention
<1>1. FromPuts => NoInvention
  BY DEF FromPuts
<1>. QED
  BY <1>1, InitBase, NextBase, InitFromPuts, NextFromPuts, PTL DEF Spec

-----------------------------------------------------------------------------
(* What a get returns after a put on its key has succeeded.                 *)

\* The byte of a vote does not wrap below 128, and no more than 128 servers vote.
Countable == Servers <= 128

FirstArgs == release = "projet01" => \A p \in Process : args[p] = AllServers

\* A call asks the first N nodes.
Within == \A r \in requests \cup stored : r[3] <= args[r[1]].n

\* The writer of a key is the only put on it under way, if one is.
OwnerIsLast ==
  \A k \in Key : writer[k] # NoPut =>
    /\ OpOf(writer[k]).type = "put" /\ OpOf(writer[k]).key = k
    /\ \A r \in requests : OpOf(r).type = "put" /\ OpOf(r).key = k =>
         <<r[1], r[2]>> = writer[k]
    /\ \A p \in Process : node[p] # 0 /\ Op(p).type = "put" /\ Op(p).key = k =>
         <<p, Current(p)>> = writer[k]

\* The servers that have executed the writer of a key hold its value, or have
\* restarted.
ReplicasAgree ==
  \A k \in Key : writer[k] # NoPut =>
    \A s \in Executed(writer[k]) : table[s][k] \in {OpOf(writer[k]).val, Absent}

\* The servers that the present call of p has done with.
Done(p) ==
  {s \in Server : /\ HasSent(p, Current(p), s)
                  /\ <<p, Current(p), s>> \notin requests
                  /\ \A m \in answers : Source(m) # <<p, Current(p), s>>}

\* W servers that have executed put c say nothing else to the get of p, so that any
\* other value has its votes from the others.
Bounded(p, c, Q) ==
  /\ Q \subseteq Executed(c) /\ Cardinality(Q) >= args[c[1]].w
  /\ \A m \in answers : m.to = p /\ m.call = Current(p) /\ m.from \in Q =>
       m.body \in {OpOf(c).val, NotFound}
  /\ \A v \in Value \ {OpOf(c).val} : votes[p][v] <= Cardinality(Done(p) \ Q)

\* The promise made to p can be kept.
Kept(p) ==
  promise[p] # Absent =>
    LET c == writer[Op(p).key]
    IN  /\ node[p] # 0 /\ Op(p).type = "get" /\ c # NoPut
        /\ promise[p] = OpOf(c).val /\ Meet(p, c[1])
        /\ Alone(<<p, Current(p)>>) /\ ~May("nomem")
        /\ \E Q \in SUBSET Server : Bounded(p, c, Q)

PromisesKept == \A p \in Process : Kept(p)

Promises == FirstArgs /\ Within /\ OwnerIsLast /\ ReplicasAgree /\ PromisesKept /\ Fresh

LEMMA InitPromises == Init => Promises
<1>. SUFFICES ASSUME Init PROVE Promises
  OBVIOUS
<1>1. Returned = {}
  BY DEF Init, Returned
<1>2. release \in {"projet01", "projet02"}
  BY InitTypeInv DEF TypeInv, Types
<1>3. FirstArgs
  <2>1. PICK line \in CommandLines :
          args = [p \in Process |->
             IF release = "projet02" THEN Cut(ParseOptArgs(line[p].given)) ELSE AllServers]
    BY DEF Init
  <2>. QED
    BY <1>2, <2>1 DEF FirstArgs
<1>4. OwnerIsLast /\ ReplicasAgree
  BY DEF Init, OwnerIsLast, ReplicasAgree
<1>. QED
  BY <1>1, <1>3, <1>4 DEF Init, Promises, Within, PromisesKept, Kept, Fresh

\* The servers a call asks, counted.
LEMMA FirstN ==
  ASSUME NEW n \in Nat, NEW S, S \subseteq 1..n
  PROVE  IsFiniteSet(S) /\ Cardinality(S) \in Nat /\ Cardinality(S) <= n
<1>1. IsFiniteSet(1..n) /\ Cardinality(1..n) = n
  BY FS_Interval
<1>. QED
  BY <1>1, FS_Subset, FS_CardinalityType

\* Two numbers below a third have a common bound below it.
LEMMA CommonBound ==
  ASSUME NEW a \in Nat, NEW b \in Nat, NEW k, a < k, b < k
  PROVE  \E n \in Nat : a <= n /\ b <= n /\ n < k
<1>1. CASE a <= b
  <2>1. b <= b
    OBVIOUS
  <2>. QED
    BY <1>1, <2>1
<1>2. CASE b <= a
  <2>1. a <= a
    OBVIOUS
  <2>. QED
    BY <1>2, <2>1
<1>. QED
  BY <1>1, <1>2

\* Two sets of servers that have no server in common.
LEMMA Apart ==
  ASSUME NEW n \in Nat, NEW S, NEW T, S \subseteq 1..n, T \subseteq 1..n, S \cap T = {}
  PROVE  Cardinality(S) + Cardinality(T) <= n
<1>1. IsFiniteSet(S) /\ IsFiniteSet(T) /\ S \cup T \subseteq 1..n
  BY FirstN
<1>2. Cardinality(S \cap T) = 0
  BY FS_EmptySet
<1>3. Cardinality(S \cup T) = Cardinality(S) + Cardinality(T) - Cardinality(S \cap T)
  BY <1>1, FS_Union
<1>4. Cardinality(S) \in Nat /\ Cardinality(T) \in Nat /\ Cardinality(S \cup T) <= n
  BY <1>1, FirstN
<1>. QED
  BY <1>2, <1>3, <1>4

\* The writer of a key is a call.
LEMMA WriterType ==
  ASSUME TypeInv, NEW k \in Key, writer[k] # NoPut
  PROVE  /\ writer[k][1] \in Process /\ writer[k][2] \in 1..Len(script[writer[k][1]])
         /\ writer[k] = <<writer[k][1], writer[k][2]>>
         /\ writer[k][2] \in Nat /\ OpOf(writer[k]) \in Operation
         /\ Executed(writer[k]) \subseteq Server
<1>1. /\ writer[k] \in Process \X Nat
      /\ writer[k][1] \in Process /\ writer[k][2] \in 1..Len(script[writer[k][1]])
  BY DEF TypeInv, Types, Writers
<1>2. script[writer[k][1]] \in Seq(Operation)
  BY <1>1 DEF TypeInv, Types
<1>. QED
  BY <1>1, <1>2 DEF OpOf, Executed

\* What a step has to leave alone for a promise to be kept.
LEMMA BoundStays ==
  ASSUME TypeInv, TypeInv', NEW p \in Process, NEW c \in Process \X Nat, NEW Q, Bounded(p, c, Q),
         Current(p)' = Current(p), UNCHANGED <<script, args>>, votes'[p] = votes[p],
         stored \subseteq stored', Done(p) \subseteq Done(p)',
         \A m \in answers' :
           m \in answers \/ (m.to = p /\ m.call = Current(p) /\ m.from \in Executed(c)
                               => m.body \in {OpOf(c).val, NotFound})
  PROVE  Bounded(p, c, Q)'
<1>1. OpOf(c)' = OpOf(c) /\ args'[c[1]] = args[c[1]]
  BY DEF OpOf
<1>2. Executed(c) \subseteq Executed(c)'
  BY DEF Executed
<1>3. /\ Q \subseteq Executed(c) /\ Cardinality(Q) >= args[c[1]].w
      /\ \A m \in answers : m.to = p /\ m.call = Current(p) /\ m.from \in Q =>
           m.body \in {OpOf(c).val, NotFound}
      /\ \A v \in Value \ {OpOf(c).val} : votes[p][v] <= Cardinality(Done(p) \ Q)
  BY DEF Bounded
<1>4. \A m \in answers' : m.to = p /\ m.call = Current(p) /\ m.from \in Q =>
        m.body \in {OpOf(c).val, NotFound}
  BY <1>3
<1>5. /\ Cardinality(Done(p) \ Q) \in Nat /\ Cardinality(Done(p)' \ Q) \in Nat
      /\ Cardinality(Done(p) \ Q) <= Cardinality(Done(p)' \ Q)
  <2>1. Done(p) \ Q \subseteq Done(p)' \ Q /\ Done(p)' \ Q \subseteq Server
    BY DEF Done
  <2>. QED
    BY <2>1, SubsetOfServers
<1>6. \A v \in Value : votes[p][v] \in Nat
  BY DEF TypeInv, Types
<1>7. \A v \in Value \ {OpOf(c).val} : votes'[p][v] <= Cardinality(Done(p)' \ Q)
  BY <1>3, <1>5, <1>6
<1>. QED
  BY <1>1, <1>2, <1>3, <1>4, <1>7 DEF Bounded

\* The promise made to p is kept by a step that leaves p and the writer of its key
\* alone.
LEMMA KeptStays ==
  ASSUME Base, Base', Same, NEW p \in Process, Kept(p),
         node'[p] = node[p], Current(p)' = Current(p), UNCHANGED <<script, args>>,
         votes'[p] = votes[p], promise'[p] \in {promise[p], Absent},
         promise'[p] # Absent => writer'[Op(p).key] = writer[Op(p).key],
         stored \subseteq stored', Done(p) \subseteq Done(p)',
         \A m \in answers' :
           m \in answers \/ (m.to = p /\ m.call = Current(p) /\ m.from \in Executed(writer[Op(p).key])
                               => m.body \in {OpOf(writer[Op(p).key]).val, NotFound})
  PROVE  Kept(p)'
<1>. SUFFICES ASSUME promise'[p] # Absent PROVE Kept(p)'
  BY DEF Kept
<1>. DEFINE k == Op(p).key
            c == writer[k]
<1>1. Op(p)' = Op(p) /\ promise'[p] = promise[p] /\ writer'[k] = writer[k]
  BY DEF Op
<1>2. /\ node[p] # 0 /\ Op(p).type = "get" /\ c # NoPut /\ promise[p] = OpOf(c).val
      /\ Meet(p, c[1]) /\ Alone(<<p, Current(p)>>) /\ ~May("nomem")
  BY <1>1 DEF Kept
<1>3. k \in Key /\ c \in Process \X Nat
  <2>1. k \in Key
    BY <1>2, CurrentOp, OperationType DEF Base, TypeInv
  <2>. QED
    BY <1>2, <2>1 DEF Base, TypeInv, Types
<1>4. PICK Q \in SUBSET Server : Bounded(p, c, Q)
  BY <1>1 DEF Kept
<1>5. PICK d \in Process \X Nat : d = c
  BY <1>3
<1>6. Bounded(p, d, Q)'
  BY <1>4, <1>5, BoundStays DEF Base
<1>7. OpOf(d)' = OpOf(d) /\ Meet(p, d[1])' = Meet(p, d[1])
  BY DEF OpOf, Meet
<1>8. Alone(<<p, Current(p)>>)' /\ ~May("nomem")'
  BY <1>2, SameFaults DEF Alone
<1>. QED
  BY <1>1, <1>2, <1>5, <1>6, <1>7, <1>8 DEF Kept

\* The servers a call has done with are among its first N.
LEMMA DoneFirstN ==
  ASSUME TypeInv, NEW p \in Process
  PROVE  args[p].n \in Nat /\ Done(p) \subseteq 1..args[p].n
<1>1. args[p].n \in Nat /\ args[p].n \in 0..Servers /\ node[p] \in Nat
  BY SubmissionsAssumption DEF TypeInv, Types
<1>2. ASSUME NEW s \in Server, HasSent(p, Current(p), s)
      PROVE  s \in 1..args[p].n
  <2>1. Current(p) \in Nat /\ s \in Nat /\ s >= 1
    BY SubmissionsAssumption DEF TypeInv, Types, Current, Server
  <2>. QED
    BY <1>1, <1>2, <2>1 DEF HasSent, TypeInv, Places
<1>. QED
  BY <1>1, <1>2 DEF Done

\* Nobody else is done with anything new, and nobody forgets.
LEMMA DoneStays ==
  ASSUME NEW p, Current(p)' = Current(p),
         \A s \in Server : HasSent(p, Current(p), s) => HasSent(p, Current(p), s)',
         \A r \in requests' : r \in requests \/ r[1] # p \/ ~HasSent(r[1], r[2], r[3]),
         \A m \in answers' : m \in answers \/ Source(m) \in requests
  PROVE  Done(p) \subseteq Done(p)'
<1>. SUFFICES ASSUME NEW s \in Done(p) PROVE s \in Done(p)'
  OBVIOUS
<1>1. /\ s \in Server /\ HasSent(p, Current(p), s) /\ <<p, Current(p), s>> \notin requests
      /\ \A m \in answers : Source(m) # <<p, Current(p), s>>
  BY DEF Done
<1>2. HasSent(p, Current(p), s)'
  BY <1>1
<1>3. <<p, Current(p), s>> \notin requests'
  BY <1>1
<1>4. \A m \in answers' : Source(m) # <<p, Current(p), s>>
  BY <1>1
<1>. QED
  BY <1>1, <1>2, <1>3, <1>4 DEF Done, Source

\* A step of another process leaves what p has sent and heard alone.
LEMMA OthersKept ==
  ASSUME Base, Base', Same, NEW q \in Process, Begin(q) \/ Send(q) \/ GoesOn(q) \/ Returns(q),
         NEW p \in Process \ {q}, Kept(p),
         promise'[p] \in {promise[p], Absent},
         promise'[p] # Absent => writer'[Op(p).key] = writer[Op(p).key]
  PROVE  Kept(p)'
<1>. USE DEF Base
<1>1. /\ node'[p] = node[p] /\ Current(p)' = Current(p) /\ (p \in waiting' <=> p \in waiting)
  BY OthersUnmoved
<1>2. UNCHANGED <<script, args, stored>> /\ votes'[p] = votes[p] /\ answers' \subseteq answers
  <2>1. votes \in [Process -> [Value -> Nat]]
    BY DEF TypeInv, Types
  <2>2. CASE Begin(q)
    BY <2>2 DEF Begin, PutBegins, GetBegins, network
  <2>3. CASE Send(q)
    BY <2>3 DEF Send, history
  <2>4. CASE GoesOn(q)
    BY <2>4 DEF GoesOn, GoOn, history, Took, TookNone
  <2>5. CASE Returns(q)
    <3>1. PICK status \in {"ok", "fail"}, val \in Value \cup {Absent} : Return(q, status, val)
      BY <2>5, ReturnsStep
    <3>. QED
      BY <2>1, <2>5, <3>1, ReturnsStep DEF Return
  <2>. QED
    BY <2>2, <2>3, <2>4, <2>5
<1>3. \A r \in requests' : r \in requests \/ r[1] # p
  <2>1. CASE Send(q)
    BY <2>1 DEF Send
  <2>2. CASE Begin(q) \/ GoesOn(q) \/ Returns(q)
    BY <2>2 DEF Begin, network, GoesOn, Returns, Return
  <2>. QED
    BY <2>1, <2>2
<1>4. Done(p) \subseteq Done(p)'
  <2>1. \A s \in Server : HasSent(p, Current(p), s) => HasSent(p, Current(p), s)'
    BY <1>1 DEF HasSent
  <2>. QED
    BY <1>1, <1>2, <1>3, <2>1, DoneStays
<1>. QED
  BY <1>1, <1>2, <1>4, KeptStays

\* What stays true of the writers while nothing new is put under way.
LEMMA OwnerStays ==
  ASSUME TypeInv, OwnerIsLast, UNCHANGED <<script, writer>>,
         \A r \in requests' : r \in requests \/
           \E p \in Process : node[p] # 0 /\ r[1] = p /\ r[2] = Current(p),
         \A p \in Process : node'[p] # 0 => node[p] # 0 /\ Current(p)' = Current(p)
  PROVE  OwnerIsLast'
<1>. SUFFICES ASSUME NEW k \in Key, writer[k] # NoPut
              PROVE  /\ OpOf(writer[k]).type = "put" /\ OpOf(writer[k]).key = k
                     /\ \A r \in requests' : OpOf(r).type = "put" /\ OpOf(r).key = k =>
                          <<r[1], r[2]>> = writer[k]
                     /\ \A p \in Process : node'[p] # 0 /\ Op(p)'.type = "put" /\ Op(p)'.key = k =>
                          <<p, Current(p)'>> = writer[k]
  BY DEF OwnerIsLast, OpOf
<1>1. OpOf(writer[k]).type = "put" /\ OpOf(writer[k]).key = k
  BY DEF OwnerIsLast
<1>2. ASSUME NEW r \in requests', OpOf(r).type = "put", OpOf(r).key = k
      PROVE  <<r[1], r[2]>> = writer[k]
  <2>1. CASE r \in requests
    BY <1>2, <2>1 DEF OwnerIsLast
  <2>2. CASE \E p \in Process : node[p] # 0 /\ r[1] = p /\ r[2] = Current(p)
    BY <1>2, <2>2 DEF OwnerIsLast, OpOf, Op
  <2>. QED
    BY <2>1, <2>2
<1>3. \A p \in Process : node'[p] # 0 => node[p] # 0 /\ Current(p)' = Current(p) /\ Op(p)' = Op(p)
  BY DEF Op
<1>4. \A p \in Process : node'[p] # 0 /\ Op(p)'.type = "put" /\ Op(p)'.key = k =>
        <<p, Current(p)'>> = writer[k]
  BY <1>3 DEF OwnerIsLast
<1>. QED
  BY <1>1, <1>2, <1>4

\* The tables and what they stand for.
LEMMA ReplicasStay ==
  ASSUME TypeInv, ReplicasAgree, UNCHANGED <<script, writer, stored>>,
         \A s \in Server, k \in Key : table'[s][k] \in {table[s][k], Absent}
  PROVE  ReplicasAgree'
<1>. SUFFICES ASSUME NEW k \in Key, writer[k] # NoPut, NEW s \in Executed(writer[k])
              PROVE  table'[s][k] \in {OpOf(writer[k]).val, Absent}
  BY DEF ReplicasAgree, Executed, OpOf
<1>1. s \in Server
  BY DEF Executed
<1>. QED
  BY <1>1 DEF ReplicasAgree

LEMMA FreshStays ==
  ASSUME Fresh, UNCHANGED results
  PROVE  Fresh'
BY DEF Fresh, Returned, Ok

LEMMA FirstArgsStay ==
  ASSUME FirstArgs, Same, UNCHANGED args
  PROVE  FirstArgs'
BY DEF FirstArgs, Same

\* A put begins: it is the writer of its key, unless it meets another one.
LEMMA PutBeginsKept ==
  ASSUME Base, Base', Promises, Same, NEW p \in Process, Begin(p), Op(p).type = "put"
  PROVE  Promises'
<1>. USE DEF Base, TypeInv
<1>. DEFINE k == Op(p).key
            put == <<p, Current(p)>>
<1>1. /\ node[p] = 0 /\ Current(p) <= Len(script[p]) /\ node' = [node EXCEPT ![p] = 1]
      /\ UNCHANGED <<table, script, args, results, waiting, votes, contacted, requests, answers, stored>>
      /\ PutBegins(p)
  BY DEF Begin, network, PutBegins
<1>2. /\ Current(p) \in 1..Len(script[p]) /\ Current(p) \in Nat /\ Op(p) \in Operation
      /\ k \in Key /\ OpOf(put) = Op(p)
  <2>1. Current(p) \in Nat
    BY DEF Current, Types
  <2>2. Current(p) \in 1..Len(script[p]) /\ Op(p) \in Operation /\ OpOf(put) = Op(p)
    BY <1>1, CurrentOp
  <2>. QED
    BY <2>1, <2>2, OperationType
<1>3. /\ writer' = [writer EXCEPT ![k] = IF PutsUnderWay(k) THEN NoPut ELSE put]
      /\ \A q \in Process :
           promise'[q] = IF node[q] # 0 /\ Op(q).key = k THEN Absent ELSE promise[q]
  BY <1>1 DEF PutBegins
<1>4. writer \in [Key -> (Process \X Nat) \cup {NoPut}]
  BY DEF Types
<1>5. \A o \in Key \ {k} : writer'[o] = writer[o]
  BY <1>3, <1>4
<1>6. writer'[k] # NoPut => writer'[k] = put /\ ~PutsUnderWay(k)
  BY <1>2, <1>3, <1>4
<1>7. /\ \A q \in Process : Current(q)' = Current(q) /\ Op(q)' = Op(q)
      /\ \A c : OpOf(c)' = OpOf(c) /\ Executed(c)' = Executed(c)
      /\ \A q \in Process : node'[q] # 0 => node[q] # 0 \/ q = p
  BY <1>1 DEF Current, Op, OpOf, Executed, Types
<1>8. OwnerIsLast'
  <2>1. ASSUME NEW o \in Key, writer'[o] # NoPut
        PROVE  /\ OpOf(writer'[o]).type = "put" /\ OpOf(writer'[o]).key = o
               /\ \A r \in requests : OpOf(r).type = "put" /\ OpOf(r).key = o =>
                    <<r[1], r[2]>> = writer'[o]
               /\ \A q \in Process : node'[q] # 0 /\ Op(q).type = "put" /\ Op(q).key = o =>
                    <<q, Current(q)>> = writer'[o]
    <3>1. CASE o = k
      BY <1>2, <1>6, <1>7, <2>1, <3>1 DEF PutsUnderWay
    <3>2. CASE o # k
      BY <1>5, <1>7, <2>1, <3>2 DEF Promises, OwnerIsLast
    <3>. QED
      BY <3>1, <3>2
  <2>. QED
    BY <1>1, <1>7, <2>1 DEF OwnerIsLast
<1>9. ReplicasAgree'
  <2>1. Executed(put) = {}
    <3>1. \A s \in Server : ~HasSent(p, Current(p), s)
      BY <1>1, <1>2, SubmissionsAssumption DEF HasSent, Server, Places
    <3>. QED
      BY <1>2, <3>1 DEF Executed, Causes
  <2>2. ASSUME NEW o \in Key, writer'[o] # NoPut, NEW s \in Executed(writer'[o])
        PROVE  table[s][o] \in {OpOf(writer'[o]).val, Absent}
    <3>1. o # k
      BY <1>6, <2>1, <2>2
    <3>. QED
      BY <1>5, <2>2, <3>1 DEF Promises, ReplicasAgree
  <2>. QED
    BY <1>1, <1>7, <2>2 DEF ReplicasAgree
<1>10. PromisesKept'
  <2>. SUFFICES ASSUME NEW q \in Process, promise'[q] # Absent PROVE Kept(q)'
    BY DEF PromisesKept, Kept
  <2>1. promise'[q] = promise[q] /\ Kept(q) /\ ~(node[q] # 0 /\ Op(q).key = k)
    BY <1>3 DEF Promises, PromisesKept
  <2>2. node[q] # 0 /\ Op(q).key # k /\ Op(q).key \in Key
    BY <2>1, CurrentOp, OperationType DEF Kept
  <2>. QED
    BY <1>1, <1>5, <2>1, <2>2, OthersKept
<1>. QED
  BY <1>1, <1>8, <1>9, <1>10, FirstArgsStay, FreshStays DEF Promises, Within

\* A get begins: a promise is made only when W servers have executed the put.
LEMMA GetBeginsKept ==
  ASSUME Base, Base', Acknowledged, Promises, Same, NEW p \in Process, Begin(p), Op(p).type # "put"
  PROVE  Promises'
<1>. USE DEF Base, TypeInv
<1>. DEFINE k == Op(p).key
            c == writer[k]
<1>1. /\ node[p] = 0 /\ Current(p) <= Len(script[p]) /\ node' = [node EXCEPT ![p] = 1]
      /\ UNCHANGED <<table, script, args, results, waiting, votes, contacted, requests, answers>>
      /\ UNCHANGED <<stored, writer>>
      /\ promise' = [promise EXCEPT ![p] = IF Undisturbed(p, c) THEN OpOf(c).val ELSE Absent]
  BY DEF Begin, network, GetBegins
<1>2. /\ Current(p) \in Nat /\ Op(p) \in Operation /\ Op(p).type = "get" /\ k \in Key
  <2>1. Current(p) \in Nat
    BY DEF Current, Types
  <2>2. Op(p) \in Operation
    <3>1. Types /\ Places
      OBVIOUS
    <3>. QED
      BY <1>1, <3>1, CurrentOp
  <2>. QED
    BY <2>1, <2>2, OperationType, Zenon
<1>3. /\ \A q \in Process : Current(q)' = Current(q) /\ Op(q)' = Op(q)
      /\ \A d : OpOf(d)' = OpOf(d) /\ Executed(d)' = Executed(d)
      /\ \A q \in Process : node'[q] # 0 => node[q] # 0 \/ q = p
  <2>1. \A q \in Process : node'[q] # 0 => node[q] # 0 \/ q = p
    BY <1>1 DEF Types
  <2>. QED
    BY <1>1, <2>1, Zenon DEF Current, Op, OpOf, Executed
<1>4. OwnerIsLast'
  <2>1. ASSUME NEW o \in Key, writer[o] # NoPut
        PROVE  /\ OpOf(writer[o]).type = "put" /\ OpOf(writer[o]).key = o
               /\ \A r \in requests : OpOf(r).type = "put" /\ OpOf(r).key = o =>
                    <<r[1], r[2]>> = writer[o]
               /\ \A q \in Process : node'[q] # 0 /\ Op(q).type = "put" /\ Op(q).key = o =>
                    <<q, Current(q)>> = writer[o]
    BY <1>3, <2>1 DEF Promises, OwnerIsLast
  <2>. QED
    BY <1>1, <1>3, <2>1 DEF OwnerIsLast
<1>5. ReplicasAgree'
  BY <1>1, <1>3 DEF Promises, ReplicasAgree
<1>6. ASSUME promise'[p] # Absent
      PROVE  Kept(p)'
  <2>1. Undisturbed(p, c) /\ promise'[p] = OpOf(c).val
    BY <1>1, <1>6 DEF Types
  <2>2. /\ c # NoPut /\ c[2] \in DOMAIN results[c[1]] /\ Ok(c) /\ Meet(p, c[1])
        /\ Alone(c) /\ Alone(<<p, Current(p)>>) /\ ~May("nomem")
    BY <2>1 DEF Undisturbed, Settled, Ok
  <2>3. c \in Returned
    BY <1>2, <2>2, WriterType DEF Returned
  <2>4. OpOf(c).type = "put"
    BY <1>2, <2>2 DEF Promises, OwnerIsLast
  <2>5. Cardinality(Executed(c)) >= args[c[1]].w
    BY <2>2, <2>3, <2>4 DEF Acknowledged, PutOkMeansStored, Executed
  <2>6. \A m \in answers : ~(m.to = p /\ m.call = Current(p))
    <3>. SUFFICES ASSUME NEW m \in answers, m.to = p, m.call = Current(p) PROVE FALSE
      OBVIOUS
    <3>1. HasSent(p, Current(p), m.from) /\ m.from \in Server
      BY DEF Causes, Types, Answer
    <3>. QED
      BY <1>1, <1>2, <3>1 DEF HasSent, Server, Places
  <2>7. \A v \in Value : votes[p][v] = 0
    BY <1>1 DEF Places
  <2>8. Cardinality(Done(p)' \ Executed(c)) \in Nat
    <3>1. Done(p)' \ Executed(c) \subseteq Server
      BY DEF Done
    <3>. QED
      BY <3>1, SubsetOfServers
  <2>9. PICK d \in Process \X Nat : d = c
    BY <1>2, <2>2 DEF Types
  <2>10. PICK Q : Q = Executed(d)
    OBVIOUS
  <2>11. Q \in SUBSET Server
    BY <2>10 DEF Executed
  <2>12. Bounded(p, d, Q)'
    <3>1. Q \subseteq Executed(d)' /\ Cardinality(Q) >= args'[d[1]].w
      BY <1>1, <1>3, <2>5, <2>9, <2>10
    <3>2. \A m \in answers' : ~(m.to = p /\ m.call = Current(p)')
      BY <1>1, <1>3, <2>6
    <3>3. \A v \in Value : votes'[p][v] <= Cardinality(Done(p)' \ Q)
      BY <1>1, <2>7, <2>8, <2>9, <2>10
    <3>. QED
      BY <3>1, <3>2, <3>3 DEF Bounded
  <2>13. OpOf(d)' = OpOf(d) /\ Meet(p, d[1])' = Meet(p, d[1])
    BY <1>1, <1>3 DEF Meet
  <2>14. Alone(<<p, Current(p)>>)' /\ ~May("nomem")'
    BY <1>3, <2>2, SameFaults DEF Alone
  <2>15. node'[p] # 0 /\ Op(p)' = Op(p) /\ writer'[k] = d
    BY <1>1, <1>3, <2>9 DEF Types
  <2>. QED
    BY <1>2, <2>1, <2>2, <2>9, <2>11, <2>12, <2>13, <2>14, <2>15 DEF Kept
<1>7. PromisesKept'
  <2>1. ASSUME NEW q \in Process \ {p} PROVE Kept(q)'
    <3>1. promise'[q] = promise[q] /\ Kept(q)
      BY <1>1 DEF Promises, PromisesKept, Types
    <3>. QED
      BY <1>1, <3>1, OthersKept
  <2>2. Kept(p)'
    BY <1>6 DEF Kept
  <2>. QED
    BY <2>1, <2>2 DEF PromisesKept
<1>. QED
  BY <1>1, <1>4, <1>5, <1>7, FirstArgsStay, FreshStays DEF Promises, Within

LEMMA SendKept ==
  ASSUME Base, Base', Promises, Same, NEW p \in Process, Send(p)
  PROVE  Promises'
<1>. USE DEF Base, TypeInv
<1>. DEFINE sent == <<p, Current(p), node[p]>>
<1>1. /\ node[p] \in 1..args[p].n /\ p \notin waiting
      /\ requests' = requests \cup {sent} /\ waiting' = waiting \cup {p}
      /\ UNCHANGED <<table, script, args, results, node, votes, contacted, answers>>
      /\ UNCHANGED <<stored, writer, promise>>
  BY DEF Send, history
<1>2. node[p] # 0 /\ node[p] \in Nat /\ args[p].n \in Nat /\ node[p] <= args[p].n
  BY <1>1 DEF Types
<1>3. \A q \in Process : Current(q)' = Current(q) /\ Op(q)' = Op(q)
  BY <1>1 DEF Current, Op
<1>4. Within'
  BY <1>1, <1>2 DEF Promises, Within
<1>5. OwnerIsLast'
  <2>1. \A r \in requests' :
          r \in requests \/ \E q \in Process : node[q] # 0 /\ r[1] = q /\ r[2] = Current(q)
    BY <1>1, <1>2
  <2>. QED
    BY <1>1, <1>3, <2>1, OwnerStays DEF Promises
<1>6. ReplicasAgree'
  BY <1>1, ReplicasStay DEF Promises
<1>7. PromisesKept'
  <2>1. ASSUME NEW q \in Process PROVE Kept(q)'
    <3>1. ~HasSent(p, Current(p), node[p])
      BY <1>1, <1>2 DEF HasSent, Current, Types
    <3>2. \A s \in Server : HasSent(q, Current(q), s) => HasSent(q, Current(q), s)'
      BY <1>1, <1>3 DEF HasSent
    <3>3. Done(q) \subseteq Done(q)'
      BY <1>1, <1>3, <3>1, <3>2, DoneStays
    <3>4. Kept(q)
      BY DEF Promises, PromisesKept
    <3>. QED
      BY <1>1, <1>3, <3>3, <3>4, KeptStays
  <2>. QED
    BY <2>1 DEF PromisesKept
<1>. QED
  BY <1>1, <1>4, <1>5, <1>6, <1>7, FirstArgsStay, FreshStays DEF Promises

\* The sender of m is not one of the W servers, and not one that p has done with.
Another(p, Q, m) ==
  /\ m.from \in Server \ (Q \cup Done(p)) /\ HasSent(p, Current(p), m.from)
  /\ <<p, Current(p), m.from>> \notin requests
  /\ \A n \in answers \ {m} : Source(n) # <<p, Current(p), m.from>>
  /\ Cardinality((Done(p) \ Q) \cup {m.from}) = Cardinality(Done(p) \ Q) + 1
  /\ votes[p][m.body] <= Cardinality(Done(p) \ Q)
  /\ votes[p][m.body] \in Nat /\ Cardinality(Done(p) \ Q) \in Nat

\* An answer that is not what it should be comes from another server.
LEMMA OneMore ==
  ASSUME Base, NEW p \in Process, p \in waiting, Alone(<<p, Current(p)>>),
         NEW c \in Process \X Nat, NEW Q \in SUBSET Server, Bounded(p, c, Q),
         NEW m \in Heard(p), m.body \in Value \ {OpOf(c).val}
  PROVE  Another(p, Q, m)
<1>. USE DEF Base, TypeInv
<1>1. m \in answers /\ m.to = p /\ m.call = Current(p) /\ m.from \in Server
  BY OwnAnswers DEF Heard, Types, Answer
<1>2. Source(m) = <<p, Current(p), m.from>>
  BY <1>1 DEF Source
<1>3. m.from \notin Q
  BY <1>1, SubmissionsAssumption DEF Bounded
<1>4. HasSent(p, Current(p), m.from)
  BY <1>1 DEF Causes
<1>5. /\ <<p, Current(p), m.from>> \notin requests
      /\ \A n \in answers \ {m} : Source(n) # <<p, Current(p), m.from>>
  BY <1>1, <1>2 DEF Once
<1>6. m.from \notin Done(p)
  BY <1>1, <1>2 DEF Done
<1>7. IsFiniteSet(Done(p) \ Q) /\ Cardinality(Done(p) \ Q) \in Nat
  <2>1. Done(p) \ Q \subseteq Server
    BY DEF Done
  <2>. QED
    BY <2>1, SubsetOfServers
<1>8. Cardinality((Done(p) \ Q) \cup {m.from}) = Cardinality(Done(p) \ Q) + 1
  BY <1>6, <1>7, FS_AddElement
<1>9. votes[p][m.body] <= Cardinality(Done(p) \ Q) /\ votes[p][m.body] \in Nat
  BY DEF Bounded, Types
<1>. QED
  BY <1>1, <1>3, <1>4, <1>5, <1>6, <1>7, <1>8, <1>9 DEF Another

\* A get that goes on has counted at most one more of the other servers.
LEMMA GoesOnBounded ==
  ASSUME Base, Base', Same, NEW p \in Process, GoesOn(p), Alone(<<p, Current(p)>>),
         NEW c \in Process \X Nat, NEW Q \in SUBSET Server, Bounded(p, c, Q)
  PROVE  Bounded(p, c, Q)'
<1>. USE DEF Base, TypeInv
<1>1. /\ UNCHANGED <<script, args, results, stored, requests>> /\ answers' \subseteq answers
      /\ waiting' = waiting \ {p} /\ node' = [node EXCEPT ![p] = @ + 1]
  BY DEF GoesOn, GoOn, history, Took, TookNone
<1>2. Current(p)' = Current(p) /\ node[p] \in Nat /\ node'[p] = node[p] + 1
  BY <1>1 DEF Current, Types
<1>3. \A s \in Server : HasSent(p, Current(p), s) => HasSent(p, Current(p), s)'
  BY <1>1, <1>2 DEF HasSent, Server
<1>4. Done(p) \subseteq Done(p)'
  BY <1>1, <1>2, <1>3, DoneStays
<1>5. CASE votes'[p] = votes[p]
  BY <1>1, <1>2, <1>4, <1>5, BoundStays
<1>6. CASE \E m \in Heard(p) :
             Took(p, m) /\ \A v \in Value : v = m.body \/ votes'[p][v] = votes[p][v]
  <2>1. PICK m \in Heard(p) :
          /\ p \in waiting /\ answers' = answers \ {m}
          /\ \A v \in Value : v = m.body \/ votes'[p][v] = votes[p][v]
    BY <1>6 DEF Took
  <2>2. SUFFICES \A v \in Value \ {OpOf(c).val} : votes'[p][v] <= Cardinality(Done(p)' \ Q)
    <3>1. OpOf(c)' = OpOf(c) /\ Executed(c)' = Executed(c)
      BY <1>1 DEF OpOf, Executed
    <3>2. Q \subseteq Executed(c)' /\ Cardinality(Q) >= args'[c[1]].w
      BY <1>1, <3>1 DEF Bounded
    <3>3. \A n \in answers' : n.to = p /\ n.call = Current(p)' /\ n.from \in Q =>
            n.body \in {OpOf(c).val, NotFound}
      BY <1>1, <1>2 DEF Bounded
    <3>4. ASSUME \A v \in Value \ {OpOf(c).val} : votes'[p][v] <= Cardinality(Done(p)' \ Q)
          PROVE  Bounded(p, c, Q)'
      BY <3>1, <3>2, <3>3, <3>4 DEF Bounded
    <3>. QED
      BY <3>4
  <2>3. /\ Cardinality(Done(p) \ Q) \in Nat /\ Cardinality(Done(p)' \ Q) \in Nat
        /\ Cardinality(Done(p) \ Q) <= Cardinality(Done(p)' \ Q)
    <3>1. Done(p) \ Q \subseteq Done(p)' \ Q /\ Done(p)' \ Q \subseteq Server
      BY <1>4 DEF Done
    <3>. QED
      BY <3>1, SubsetOfServers
  <2>4. ASSUME NEW v \in Value \ {OpOf(c).val}, v # m.body
        PROVE  votes'[p][v] <= Cardinality(Done(p)' \ Q)
    <3>1. votes'[p][v] = votes[p][v] /\ votes[p][v] \in Nat
      BY <2>1, <2>4 DEF Types
    <3>2. votes[p][v] <= Cardinality(Done(p) \ Q)
      BY DEF Bounded
    <3>. QED
      BY <2>3, <3>1, <3>2
  <2>5. ASSUME NEW v \in Value \ {OpOf(c).val}, v = m.body
        PROVE  votes'[p][v] <= Cardinality(Done(p)' \ Q)
    <3>1. /\ m.from \in Server \ (Q \cup Done(p)) /\ HasSent(p, Current(p), m.from)
          /\ <<p, Current(p), m.from>> \notin requests
          /\ \A n \in answers \ {m} : Source(n) # <<p, Current(p), m.from>>
          /\ Cardinality((Done(p) \ Q) \cup {m.from}) = Cardinality(Done(p) \ Q) + 1
          /\ votes[p][v] <= Cardinality(Done(p) \ Q) /\ votes[p][v] \in Nat
      <4>. HIDE DEF Base, TypeInv
      <4>1. m.body \in Value \ {OpOf(c).val}
        BY <2>5
      <4>2. Another(p, Q, m)
        BY <2>1, <4>1, OneMore
      <4>. QED
        BY <2>5, <4>2 DEF Another
    <3>2. m.from \in Done(p)'
      <4>1. HasSent(p, Current(p), m.from)'
        BY <1>3, <3>1
      <4>. QED
        BY <1>1, <1>2, <2>1, <3>1, <4>1 DEF Done, Source
    <3>3. (Done(p) \ Q) \cup {m.from} \subseteq Done(p)' \ Q /\ Done(p)' \ Q \subseteq Server
      BY <1>4, <3>1, <3>2 DEF Done
    <3>4. Cardinality((Done(p) \ Q) \cup {m.from}) <= Cardinality(Done(p)' \ Q)
      BY <3>3, SubsetOfServers
    <3>5. votes'[p][v] <= votes[p][v] + 1 /\ votes'[p][v] \in Nat
      BY DEF GoesOn, Types
    <3>. QED
      BY <2>3, <3>1, <3>4, <3>5
  <2>. QED
    BY <2>4, <2>5
<1>. QED
  BY <1>5, <1>6 DEF GoesOn

LEMMA GoesOnKept ==
  ASSUME Base, Base', Promises, Same, NEW p \in Process, GoesOn(p)
  PROVE  Promises'
<1>. USE DEF Base, TypeInv
<1>1. /\ UNCHANGED <<table, script, args, results, stored, requests, writer, promise>>
      /\ node' = [node EXCEPT ![p] = @ + 1] /\ node[p] # 0 /\ node[p] \in Nat
  BY DEF GoesOn, GoOn, history, Types
<1>2. \A q \in Process : Current(q)' = Current(q) /\ Op(q)' = Op(q)
  BY <1>1 DEF Current, Op
<1>3. OwnerIsLast'
  <2>1. \A q \in Process : node'[q] # 0 => node[q] # 0
    BY <1>1 DEF Types
  <2>. QED
    BY <1>1, <1>2, <2>1, OwnerStays DEF Promises
<1>4. ReplicasAgree'
  BY <1>1, ReplicasStay DEF Promises
<1>5. ASSUME promise[p] # Absent
      PROVE  Kept(p)'
  <2>. DEFINE k == Op(p).key
  <2>1. /\ writer[k] # NoPut /\ Op(p).type = "get"
        /\ promise[p] = OpOf(writer[k]).val /\ Meet(p, writer[k][1])
        /\ Alone(<<p, Current(p)>>) /\ ~May("nomem")
        /\ \E Q \in SUBSET Server : Bounded(p, writer[k], Q)
    BY <1>5 DEF Promises, PromisesKept, Kept
  <2>2. k \in Key
    BY <1>1, CurrentOp, OperationType
  <2>3. PICK c \in Process \X Nat : c = writer[k]
    BY <2>1, <2>2 DEF Types
  <2>4. PICK Q \in SUBSET Server : Bounded(p, c, Q)
    BY <2>1, <2>3
  <2>5. Bounded(p, c, Q)'
    BY <2>1, <2>4, GoesOnBounded
  <2>6. OpOf(c)' = OpOf(c) /\ Meet(p, c[1])' = Meet(p, c[1])
    BY <1>1 DEF OpOf, Meet
  <2>7. Alone(<<p, Current(p)>>)' /\ ~May("nomem")'
    BY <1>2, <2>1, SameFaults DEF Alone
  <2>8. node'[p] # 0
    BY <1>1 DEF Types
  <2>. QED
    BY <1>1, <1>2, <2>1, <2>3, <2>5, <2>6, <2>7, <2>8 DEF Kept
<1>6. PromisesKept'
  <2>1. ASSUME NEW q \in Process \ {p} PROVE Kept(q)'
    BY <1>1, OthersKept DEF Promises, PromisesKept
  <2>2. Kept(p)'
    BY <1>1, <1>5 DEF Kept
  <2>. QED
    BY <2>1, <2>2 DEF PromisesKept
<1>. QED
  BY <1>1, <1>3, <1>4, <1>6, FirstArgsStay, FreshStays DEF Promises, Within

\* R equal answers and W servers that do not give it are more servers than the two
\* calls ask.
LEMMA NotEnough ==
  ASSUME Base, Promises, Countable, ~May("nomem"), NEW p \in Process, p \in waiting,
         Alone(<<p, Current(p)>>), NEW c \in Process \X Nat, Meet(p, c[1]),
         NEW Q \in SUBSET Server, Bounded(p, c, Q),
         NEW m \in Heard(p), m.body \in Value \ {OpOf(c).val}
  PROVE  ~Enough(p, m)
<1>. SUFFICES ASSUME Enough(p, m) PROVE FALSE
  OBVIOUS
<1>. DEFINE others == (Done(p) \ Q) \cup {m.from}
<1>1. /\ m.from \in Server \ (Q \cup Done(p)) /\ HasSent(p, Current(p), m.from)
      /\ Cardinality(others) = Cardinality(Done(p) \ Q) + 1
      /\ votes[p][m.body] <= Cardinality(Done(p) \ Q)
      /\ votes[p][m.body] \in Nat /\ Cardinality(Done(p) \ Q) \in Nat
  <2>1. Another(p, Q, m)
    BY OneMore
  <2>. QED
    BY <2>1 DEF Another
<1>. USE DEF Base, TypeInv
<1>2. /\ args[p].n \in 0..Servers /\ args[p].r \in Nat /\ args[p].r <= args[p].n
      /\ args[c[1]].n \in 0..Servers /\ args[c[1]].w \in Nat
      /\ args[p].r + args[c[1]].w > args[p].n /\ args[p].r + args[c[1]].w > args[c[1]].n
  BY DEF Types, Places, Meet
<1>3. others \subseteq 1..args[p].n
  <2>1. m.from \in 1..args[p].n
    <3>1. node[p] \in Nat /\ node[p] <= args[p].n /\ Current(p) \in Nat
      BY DEF Types, Places, Current
    <3>2. m.from \in Nat /\ m.from >= 1
      BY <1>1, SubmissionsAssumption DEF Server
    <3>. QED
      BY <1>1, <1>2, <3>1, <3>2 DEF HasSent
  <2>. QED
    BY <2>1, DoneFirstN
<1>4. Q \subseteq 1..args[c[1]].n /\ Cardinality(Q) >= args[c[1]].w /\ Cardinality(Q) \in Nat
  <2>1. \A s \in Q : s \in Server /\ <<c[1], c[2], s>> \in stored
    BY DEF Bounded, Executed
  <2>2. \A s \in Q : s <= args[c[1]].n
    <3>1. ASSUME NEW s \in Q PROVE s <= args[c[1]].n
      <4>1. <<c[1], c[2], s>> \in requests \cup stored
        BY <2>1
      <4>. QED
        BY <4>1 DEF Promises, Within
    <3>. QED
      BY <3>1
  <2>3. Q \subseteq 1..args[c[1]].n
    BY <1>2, <2>1, <2>2, SubmissionsAssumption DEF Server
  <2>4. args[c[1]].n \in Nat
    BY <1>2, SubmissionsAssumption
  <2>. QED
    BY <2>3, <2>4, FirstN DEF Bounded
<1>5. Cardinality(others) + Cardinality(Q) < args[p].r + args[c[1]].w
  <2>1. PICK n \in Nat : /\ args[p].n <= n /\ args[c[1]].n <= n /\ n < args[p].r + args[c[1]].w
    <3>1. args[p].n \in Nat /\ args[c[1]].n \in Nat
      BY <1>2, SubmissionsAssumption
    <3>. QED
      BY <1>2, <3>1, CommonBound
  <2>2. others \subseteq 1..n /\ Q \subseteq 1..n /\ others \cap Q = {}
    <3>1. \A a \in Nat : a <= n => 1..a \subseteq 1..n
      OBVIOUS
    <3>2. args[p].n \in Nat /\ args[c[1]].n \in Nat
      BY <1>2, SubmissionsAssumption
    <3>3. 1..args[p].n \subseteq 1..n /\ 1..args[c[1]].n \subseteq 1..n
      BY <2>1, <3>1, <3>2, Zenon
    <3>. QED
      BY <1>1, <1>3, <1>4, <3>3, Zenon
  <2>3. Cardinality(others) + Cardinality(Q) <= n
    BY <2>2, Apart
  <2>. QED
    BY <1>1, <1>2, <1>4, <2>1, <2>3
<1>6. Cardinality(others) < args[p].r
  BY <1>1, <1>2, <1>4, <1>5
<1>7. release # "projet01"
  <2>1. release = "projet01" => args[p].r = 1
    BY DEF Promises, FirstArgs, AllServers
  <2>. QED
    BY <1>1, <1>6, <2>1
<1>8. PICK vote \in IncrementAndGet(p, m) : Reaches(vote[1], args[p].r)
  BY <1>7 DEF Enough, EnoughVotes
<1>9. vote[1] \in Nat /\ vote[1] <= votes[p][m.body] + 1
  <2>1. (IF votes[p][m.body] = 0 THEN 1 ELSE Bump(votes[p][m.body])) \in Nat
        /\ (IF votes[p][m.body] = 0 THEN 1 ELSE Bump(votes[p][m.body])) <= votes[p][m.body] + 1
    BY <1>1 DEF Bump
  <2>. QED
    BY <1>8, <2>1 DEF IncrementAndGet, Increment
<1>10. Cardinality(others) < 128
  <2>1. args[p].n <= 128
    BY <1>2, SubmissionsAssumption DEF Countable
  <2>. QED
    BY <1>1, <1>2, <1>6, <2>1
<1>. QED
  BY <1>1, <1>2, <1>6, <1>8, <1>9, <1>10 DEF Reaches

\* A get that returns another value than the promised one would have counted too many
\* servers.
LEMMA ReturnsPromised ==
  ASSUME Base, Promises, Countable, NEW p \in Process, promise[p] # Absent,
         p \in waiting, NEW m \in Heard(p), m.body \in Value, Enough(p, m)
  PROVE  m.body = promise[p]
<1>. DEFINE k == Op(p).key
<1>1. /\ node[p] # 0 /\ writer[k] # NoPut /\ promise[p] = OpOf(writer[k]).val
      /\ Meet(p, writer[k][1]) /\ Alone(<<p, Current(p)>>) /\ ~May("nomem")
      /\ \E Q \in SUBSET Server : Bounded(p, writer[k], Q)
  BY DEF Promises, PromisesKept, Kept
<1>2. k \in Key
  BY <1>1, CurrentOp, OperationType DEF Base, TypeInv
<1>3. PICK c \in Process \X Nat : c = writer[k]
  BY <1>1, <1>2 DEF Base, TypeInv, Types
<1>4. PICK Q \in SUBSET Server : Bounded(p, c, Q)
  BY <1>1, <1>3
<1>5. Meet(p, c[1])
  BY <1>1, <1>3
<1>6. m.body \notin Value \ {OpOf(c).val}
  BY <1>1, <1>4, <1>5, NotEnough
<1>. QED
  BY <1>1, <1>3, <1>6

LEMMA ReturnsKept ==
  ASSUME Base, Base', Promises, Countable, Same, NEW p \in Process, Returns(p)
  PROVE  Promises'
<1>. USE DEF Base, TypeInv
<1>1. PICK status \in {"ok", "fail"}, val \in Value \cup {Absent} : Return(p, status, val)
  BY ReturnsStep
<1>2. /\ UNCHANGED <<table, script, args, requests, stored, writer>>
      /\ promise' = [promise EXCEPT ![p] = Absent]
  BY <1>1 DEF Return
<1>3. /\ \A q \in Process \ {p} :
           node'[q] = node[q] /\ Current(q)' = Current(q) /\ results'[q] = results[q]
      /\ node'[p] = 0
  BY <1>1, <1>2, OthersUnmoved DEF Return, Types
<1>4. OwnerIsLast'
  <2>1. \A q \in Process : node'[q] # 0 => node[q] # 0 /\ Current(q)' = Current(q)
    BY <1>3
  <2>. QED
    BY <1>2, <2>1, OwnerStays DEF Promises
<1>5. ReplicasAgree'
  BY <1>2, ReplicasStay DEF Promises
<1>6. PromisesKept'
  <2>1. ASSUME NEW q \in Process \ {p} PROVE Kept(q)'
    <3>1. promise'[q] = promise[q] /\ Kept(q)
      BY <1>2 DEF Promises, PromisesKept, Types
    <3>. QED
      BY <1>2, <3>1, OthersKept
  <2>2. Kept(p)'
    BY <1>2 DEF Kept, Types
  <2>. QED
    BY <2>1, <2>2 DEF PromisesKept
<1>7. Fresh'
  <2>. SUFFICES ASSUME NEW d \in Returned', Ok(d)', results'[d[1]][d[2]].due # Absent
                PROVE  results'[d[1]][d[2]].val = results'[d[1]][d[2]].due
    BY DEF Fresh
  <2>1. CASE d \in Returned /\ results'[d[1]][d[2]] = results[d[1]][d[2]]
    BY <2>1 DEF Promises, Fresh, Ok
  <2>2. CASE d = <<p, Current(p)>>
    <3>1. ASSUME NEW st \in {"ok", "fail"}, NEW v \in Value \cup {Absent}, Return(p, st, v)
          PROVE  /\ results'[p][Current(p)].status = st /\ results'[p][Current(p)].val = v
                 /\ results'[p][Current(p)].due = promise[p]
      <4>1. /\ results'[p] = Append(results[p], [status |-> st, val |-> v, due |-> promise[p]])
            /\ results[p] \in Seq(Result)
        <5>1. node[p] # 0 /\ answers' \subseteq answers
          BY ReturnsStep
        <5>2. results'[p] = Append(results[p], [status |-> st, val |-> v, due |-> promise[p]])
          BY <3>1, <5>1, ReturnType, Zenon
        <5>3. results[p] \in Seq(Result)
          BY DEF Types
        <5>. QED
          BY <5>2, <5>3
      <4>. QED
        BY <4>1 DEF Current
    <3>2. promise[p] # Absent
      <4>1. results'[p][Current(p)].due = promise[p]
        BY <1>1, <3>1
      <4>. QED
        BY <2>2, <4>1
    <3>3. Op(p).type = "get"
      BY <3>2 DEF Promises, PromisesKept, Kept
    <3>4. ~Return(p, "fail", Absent)
      <4>. SUFFICES ASSUME Return(p, "fail", Absent) PROVE FALSE
        OBVIOUS
      <4>1. results'[p][Current(p)].status = "fail"
        BY <3>1
      <4>. QED
        BY <2>2, <4>1 DEF Ok
    <3>5. PICK m \in Heard(p) :
            Took(p, m) /\ m.body \in Value /\ Enough(p, m) /\ Return(p, "ok", m.body)
      BY <3>3, <3>4 DEF Returns
    <3>6. p \in waiting
      BY <3>5 DEF Took
    <3>7. m.body = promise[p]
      BY <3>2, <3>5, <3>6, ReturnsPromised
    <3>8. results'[p][Current(p)].val = m.body /\ results'[p][Current(p)].due = promise[p]
      BY <3>1, <3>5
    <3>. QED
      BY <2>2, <3>7, <3>8
  <2>. QED
    BY <2>1, <2>2, StillReturned
<1>. QED
  BY <1>2, <1>4, <1>5, <1>6, <1>7, FirstArgsStay DEF Promises, Within

\* A server that has executed the writer of a key answers with its value or with
\* nothing.
LEMMA ServeBody ==
  ASSUME Base, Promises, NEW r \in requests, Serve(r[1], r[2], r[3]), NEW p \in Process,
         node[p] # 0, Op(p).type = "get", writer[Op(p).key] # NoPut, NEW m \in answers',
         m \notin answers, m.to = p, m.call = Current(p), m.from \in Executed(writer[Op(p).key])
  PROVE  m.body \in {OpOf(writer[Op(p).key]).val, NotFound}
<1>. USE DEF Base, TypeInv
<1>1. PICK body \in Value \cup {NotFound} :
        /\ answers' = answers \cup {[to |-> r[1], call |-> r[2], from |-> r[3], body |-> body]}
        /\ OpOf(r).type = "get" =>
             body = NotFound \/ (body = table[r[3]][OpOf(r).key] /\ body # Absent)
  BY ServeStep
<1>2. m.to = r[1] /\ m.call = r[2] /\ m.from = r[3] /\ m.body = body
  BY <1>1
<1>3. OpOf(r) = Op(p)
  BY <1>2 DEF OpOf, Op
<1>4. Op(p).key \in Key
  BY CurrentOp, OperationType
<1>5. table[r[3]][Op(p).key] \in {OpOf(writer[Op(p).key]).val, Absent}
  BY <1>2, <1>4 DEF Promises, ReplicasAgree
<1>. QED
  BY <1>1, <1>2, <1>3, <1>5

LEMMA ServeKept ==
  ASSUME Base, Base', Promises, Same, NEW r \in requests, Serve(r[1], r[2], r[3])
  PROVE  Promises'
<1>. USE DEF Base, TypeInv
<1>1. /\ r \in Datagram /\ r = <<r[1], r[2], r[3]>> /\ OpOf(r) \in Operation
      /\ requests' = requests \ {r}
      /\ UNCHANGED <<script, args, results, node, waiting, votes, contacted, writer, promise>>
  BY ServeStep DEF calls
<1>2. /\ \A q \in Process : Current(q)' = Current(q) /\ Op(q)' = Op(q)
      /\ \A c : OpOf(c)' = OpOf(c)
  BY <1>1 DEF Current, Op, OpOf
<1>3. \/ UNCHANGED <<table, stored>>
      \/ /\ OpOf(r).type = "put"
         /\ table' = [table EXCEPT ![r[3]][OpOf(r).key] = OpOf(r).val]
         /\ stored' = stored \cup {r}
  BY ServeStep
<1>4. Within'
  BY <1>1, <1>3 DEF Promises, Within
<1>5. OwnerIsLast'
  BY <1>1, <1>2, OwnerStays DEF Promises
<1>6. ReplicasAgree'
  <2>1. CASE UNCHANGED <<table, stored>>
    BY <1>1, <1>2, <2>1 DEF Promises, ReplicasAgree, Executed
  <2>2. CASE /\ OpOf(r).type = "put"
             /\ table' = [table EXCEPT ![r[3]][OpOf(r).key] = OpOf(r).val]
             /\ stored' = stored \cup {r}
    <3>. SUFFICES ASSUME NEW k \in Key, writer[k] # NoPut, NEW s \in Server,
                         <<writer[k][1], writer[k][2], s>> \in stored'
                  PROVE  table'[s][k] \in {OpOf(writer[k]).val, Absent}
      BY <1>1, <1>2 DEF ReplicasAgree, Executed
    <3>1. table \in [Server -> [Key -> Value \cup {Absent}]] /\ r[3] \in Server /\ OpOf(r).key \in Key
      BY <1>1, OperationType DEF Types, Datagram
    <3>2. CASE s = r[3] /\ k = OpOf(r).key
      <4>1. <<r[1], r[2]>> = writer[k]
        BY <2>2, <3>2 DEF Promises, OwnerIsLast
      <4>2. OpOf(writer[k]) = OpOf(r)
        BY <4>1 DEF OpOf
      <4>3. table'[s][k] = OpOf(r).val
        BY <2>2, <3>1, <3>2
      <4>. QED
        BY <4>2, <4>3
    <3>3. CASE ~(s = r[3] /\ k = OpOf(r).key)
      <4>1. table'[s][k] = table[s][k]
        BY <2>2, <3>1, <3>3
      <4>2. <<writer[k][1], writer[k][2], s>> # r
        <5>. SUFFICES ASSUME <<writer[k][1], writer[k][2], s>> = r PROVE FALSE
          OBVIOUS
        <5>1. OpOf(writer[k]) = OpOf(r) /\ s = r[3]
          BY DEF OpOf
        <5>. QED
          BY <3>3, <5>1 DEF Promises, OwnerIsLast
      <4>. QED
        BY <2>2, <4>1, <4>2 DEF Promises, ReplicasAgree, Executed
    <3>. QED
      BY <3>2, <3>3
  <2>. QED
    BY <1>3, <2>1, <2>2
<1>7. ASSUME NEW p \in Process, promise[p] # Absent
      PROVE  Kept(p)'
  <2>1. Kept(p) /\ node[p] # 0 /\ Op(p).type = "get" /\ writer[Op(p).key] # NoPut
    BY <1>7 DEF Promises, PromisesKept, Kept
  <2>2. \A m \in answers' : m \in answers \/ Source(m) \in requests
    BY ServeAnswers
  <2>3. Done(p) \subseteq Done(p)'
    <3>1. \A s \in Server : HasSent(p, Current(p), s) => HasSent(p, Current(p), s)'
      BY <1>1, <1>2 DEF HasSent
    <3>. QED
      BY <1>1, <1>2, <2>2, <3>1, DoneStays
  <2>4. \A m \in answers' :
          m \in answers \/ (m.to = p /\ m.call = Current(p) /\ m.from \in Executed(writer[Op(p).key])
                              => m.body \in {OpOf(writer[Op(p).key]).val, NotFound})
    BY <2>1, ServeBody
  <2>5. stored \subseteq stored'
    BY <1>3
  <2>. QED
    BY <1>1, <1>2, <2>1, <2>3, <2>4, <2>5, KeptStays
<1>8. PromisesKept'
  BY <1>1, <1>7 DEF PromisesKept, Kept
<1>. QED
  BY <1>1, <1>4, <1>5, <1>6, <1>8, FirstArgsStay, FreshStays DEF Promises

LEMMA OtherKept ==
  ASSUME Base, Base', Promises, Same, (\E r \in requests : Lose(r)) \/ (\E s \in Server : Restart(s))
  PROVE  Promises'
<1>. USE DEF Base, TypeInv
<1>1. /\ UNCHANGED <<script, args, results, node, waiting, votes, contacted, answers>>
      /\ UNCHANGED <<stored, writer, promise>> /\ requests' \subseteq requests
  BY OtherStep DEF calls, history
<1>2. \A q \in Process : Current(q)' = Current(q) /\ Op(q)' = Op(q)
  BY <1>1 DEF Current, Op
<1>3. ReplicasAgree'
  <2>1. table \in [Server -> [Key -> Value \cup {Absent}]]
    BY DEF Types
  <2>2. \A s \in Server, k \in Key : table'[s][k] \in {table[s][k], Absent}
    BY <2>1, OtherStep
  <2>. QED
    BY <1>1, <2>2, ReplicasStay DEF Promises
<1>4. OwnerIsLast' /\ Within'
  BY <1>1, <1>2, OwnerStays DEF Promises, Within
<1>5. ASSUME NEW p \in Process PROVE Kept(p)'
  <2>1. Done(p) \subseteq Done(p)'
    <3>1. \A s \in Server : HasSent(p, Current(p), s) => HasSent(p, Current(p), s)'
      BY <1>1, <1>2 DEF HasSent
    <3>. QED
      BY <1>1, <1>2, <3>1, DoneStays
  <2>. QED
    BY <1>1, <1>2, <2>1, KeptStays DEF Promises, PromisesKept
<1>. QED
  BY <1>1, <1>3, <1>4, <1>5, FirstArgsStay, FreshStays DEF Promises, PromisesKept

LEMMA NextPromises ==
  ASSUME Base, Acknowledged, Promises, Countable, [Next]_vars
  PROVE  Promises'
<1>1. Base'
  BY NextBase
<1>2. CASE UNCHANGED vars
  <2>1. /\ UNCHANGED <<table, script, args, results, node, waiting, votes, contacted, answers>>
        /\ UNCHANGED <<stored, writer, promise, requests>> /\ Same
    BY <1>2 DEF vars, calls, network, history, Same
  <2>2. \A p \in Process : Current(p)' = Current(p)
    BY <2>1 DEF Current
  <2>3. OwnerIsLast' /\ Within' /\ ReplicasAgree'
    BY <2>1, <2>2, OwnerStays, ReplicasStay DEF Promises, Within, Base
  <2>4. ASSUME NEW p \in Process PROVE Kept(p)'
    <3>1. \A s \in Server : HasSent(p, Current(p), s) => HasSent(p, Current(p), s)'
      BY <2>1, <2>2 DEF HasSent
    <3>2. Done(p) \subseteq Done(p)'
      BY <2>1, <2>2, <3>1, DoneStays
    <3>. QED
      BY <1>1, <2>1, <2>2, <3>2, KeptStays DEF Promises, PromisesKept
  <2>. QED
    BY <2>1, <2>3, <2>4, FirstArgsStay, FreshStays DEF Promises, PromisesKept
<1>3. CASE Next
  <2>1. Same
    BY <1>3, NextStep DEF Base
  <2>2. ASSUME NEW p \in Process, Begin(p) \/ Send(p) \/ GoesOn(p) \/ Returns(p)
        PROVE  Promises'
    <3>1. CASE Begin(p)
      BY <1>1, <2>1, <3>1, PutBeginsKept, GetBeginsKept
    <3>. QED
      BY <1>1, <2>1, <2>2, <3>1, SendKept, GoesOnKept, ReturnsKept
  <2>3. ASSUME NEW r \in requests, Serve(r[1], r[2], r[3])
        PROVE  Promises'
    BY <1>1, <2>1, <2>3, ServeKept
  <2>. QED
    BY <1>1, <1>3, <2>1, <2>2, <2>3, NextStep, OtherKept DEF Base
<1>. QED
  BY <1>2, <1>3

\* A get that succeeds after a put on its key has succeeded returns the value of that
\* put, if no other put on the key comes between, their options make their servers
\* meet and nobody has more than 128 servers: with 129 of them the byte of a vote for
\* an old value could pass for any R.
THEOREM PutsAreRead == Countable /\ Spec => []Fresh
<1>. SUFFICES ASSUME Countable PROVE Spec => []Fresh
  BY DEF Countable
<1>0. Countable /\ Countable'
  BY DEF Countable
<1>1. Promises => Fresh
  BY DEF Promises
<1>. QED
  BY <1>0, <1>1, InitBase, NextBase, InitAcknowledged, NextAcknowledged, InitPromises, NextPromises,
     PTL DEF Spec
=============================================================================
