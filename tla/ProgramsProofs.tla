--------------------------- MODULE ProgramsProofs ---------------------------
(***************************************************************************)
(* What the command line programs promise, for all lists of nodes, tables, *)
(* command lines, files of servers and sizes of an experiment: the type of *)
(* every program's state, that a node is listed as OK only if it has       *)
(* answered, that a dump that nothing disturbs prints the table, that cat, *)
(* find and substr print or put the concatenation, the first place and the *)
(* slice, that a client starts with the servers of its file, and that the  *)
(* rows that test-parser prints are those that test-servers has measured.  *)
(* One program runs; the invariant is the conjunction of those of all, and *)
(* a step of one leaves the others' alone.                                 *)
(***************************************************************************)
EXTENDS Programs, FiniteSetTheorems, WellFoundedInduction, TLAPS

\* A set of numbers that is not empty has a smallest one.
LEMMA Smallest ==
  ASSUME NEW T, T \subseteq Nat, T # {}
  PROVE  \E n \in T : \A m \in T : n <= m
<1>1. PICK n \in T : \A m \in T : ~ (<<m, n>> \in OpToRel(<, Nat))
  BY WFMin, NatLessThanWellFounded, Zenon
<1>2. n \in T /\ \A m \in T : ~(m < n)
  BY <1>1, Zenon DEF OpToRel
<1>. QED
  BY <1>2

\* Sequences with the same members are the same.
LEMMA SameSeq ==
  ASSUME NEW X, NEW s \in Seq(X), NEW t \in Seq(X), Len(s) = Len(t),
         \A i \in 1..Len(s) : s[i] = t[i]
  PROVE  s = t
OBVIOUS

\* A part of a sequence.
LEMMA PartIs ==
  ASSUME NEW X, NEW s \in Seq(X), NEW m \in Nat, NEW n \in Nat, m + n <= Len(s)
  PROVE  /\ SubSeq(s, m + 1, m + n) \in Seq(X) /\ Len(SubSeq(s, m + 1, m + n)) = n
         /\ \A i \in 1..n : SubSeq(s, m + 1, m + n)[i] = s[m + i]
OBVIOUS

\* The numbers up to n are n.
LEMMA CountTo ==
  ASSUME NEW n \in Nat
  PROVE  IsFiniteSet(1..n) /\ Cardinality(1..n) = n
<1>1. IsFiniteSet(1..n) /\ Cardinality(1..n) = IF 1 > n THEN 0 ELSE n - 1 + 1
  BY FS_Interval
<1>. QED
  BY <1>1

-----------------------------------------------------------------------------
(* pps-list-nodes.                                                          *)

\* While projet02 waits for a node and no answer is late, only the ping of that node
\* may be on its way to a server that runs; otherwise there is none.
OnePing ==
  LET i == Len(verdict) + 1
  IN  /\ listing = "listen" =>
           /\ Len(verdict) < Len(nodes)
           /\ replies \subseteq {i} /\ replies \cap pings = {}
           /\ \A j \in pings : nodes[j] \in up => j = i
      /\ listing # "listen" => replies = {} /\ \A j \in pings : nodes[j] \notin up

\* The servers that the answers on their way come from have answered, and those heard
\* as well.
ListInv ==
  /\ ListTypeOK
  /\ \A i \in replies : nodes[i] \in answered
  /\ heard \subseteq answered
  /\ ~Final /\ listing = "listen" => Len(verdict) < Len(nodes)
  /\ ~Final /\ ~May("late") => OnePing
  /\ OkMeansAnswered

\* The first states of pps-list-nodes satisfy the invariant.
LEMMA ListBegins ==
  ASSUME ListInit
  PROVE  ListInv
BY ListAssumption DEF ListInit, ListInv, ListTypeOK, OnePing, OkMeansAnswered

\* A step of another program leaves the list alone.
LEMMA ListStays ==
  ASSUME ListInv, UNCHANGED <<release, faults, listVars>>
  PROVE  ListInv'
BY DEF listVars, ListInv, ListTypeOK, OnePing, OkMeansAnswered, Final, May

\* The nodes and the list that is printed are sequences.
LEMMA ListShapes ==
  ASSUME ListTypeOK
  PROVE  /\ nodes \in Seq(Server) /\ Len(nodes) \in Nat /\ DOMAIN nodes = 1..Len(nodes)
         /\ verdict \in Seq({"OK", "FAIL"}) /\ Len(verdict) \in Nat
         /\ DOMAIN verdict = 1..Len(verdict)
BY ListAssumption DEF ListTypeOK

\* A verdict is added in projet02.
LEMMA OneVerdict ==
  ASSUME ListTypeOK, NEW x \in {"OK", "FAIL"}
  PROVE  LET more == Append(verdict, x)
         IN  /\ more \in Seq({"OK", "FAIL"}) /\ Len(more) = Len(verdict) + 1
             /\ DOMAIN more = 1..Len(more)
             /\ \A i \in 1..Len(verdict) : more[i] = verdict[i]
             /\ more[Len(verdict) + 1] = x
BY ListShapes

\* Every step of pps-list-nodes and of the servers keeps the invariant.
LEMMA ListStep ==
  ASSUME ListInv, ListNext, Same
  PROVE  ListInv'
<1>. USE DEF Same, Final, May
<1>0. /\ nodes \in Seq(Server) /\ Len(nodes) \in Nat /\ DOMAIN nodes = 1..Len(nodes)
      /\ Len(verdict) \in Nat /\ ListTypeOK /\ DOMAIN verdict = 1..Len(verdict)
  BY ListShapes DEF ListInv
<1>1. CASE ListStart
  BY <1>1 DEF ListStart, ListInv, ListTypeOK, OnePing, OkMeansAnswered
<1>2. CASE PingAll
  BY <1>0, <1>2 DEF PingAll, ListInv, ListTypeOK, OkMeansAnswered
<1>3. CASE PingOne
  <2>. DEFINE i == Len(verdict) + 1
  <2>1. CASE i > Len(nodes)
    BY <1>0, <1>3, <2>1 DEF PingOne, ListInv, ListTypeOK, OnePing, OkMeansAnswered
  <2>2. CASE ~(i > Len(nodes))
    <3>1. i \in DOMAIN nodes /\ pings' \subseteq pings \cup {i}
      BY <1>0, <1>3, <2>2 DEF PingOne
    <3>2. ~May("late") => OnePing'
      BY <1>0, <1>3, <2>2, <3>1 DEF PingOne, ListInv, OnePing
    <3>. QED
      BY <1>0, <1>3, <2>2, <3>1, <3>2 DEF PingOne, ListInv, ListTypeOK, OnePing, OkMeansAnswered
  <2>. QED
    BY <2>1, <2>2
<1>4. CASE \E i \in pings : AnswerPing(i)
  <2>1. PICK i \in pings : AnswerPing(i)
    BY <1>4
  <2>2. i \in DOMAIN nodes /\ nodes[i] \in Server
    BY <1>0 DEF ListTypeOK
  <2>3. ~Final /\ ~May("late") => OnePing'
    BY <1>0, <2>1 DEF AnswerPing, ListInv, OnePing
  <2>. QED
    BY <1>0, <2>1, <2>2, <2>3 DEF AnswerPing, ListInv, ListTypeOK, OkMeansAnswered
<1>5. CASE \E a \in up : ServerDies(a)
  <2>1. PICK a \in up : ServerDies(a)
    BY <1>5
  <2>2. ~Final /\ ~May("late") => OnePing'
    BY <1>0, <2>1 DEF ServerDies, ListInv, OnePing
  <2>. QED
    BY <1>0, <2>1, <2>2 DEF ServerDies, ListInv, ListTypeOK, OkMeansAnswered
<1>6. CASE Collect
  <2>1. PICK i \in replies : replies' = replies \ {i} /\ heard' = heard \cup {nodes[i]}
    BY <1>6 DEF Collect, Sender
  <2>2. nodes[i] \in Server /\ nodes[i] \in answered
    BY <1>0, <2>1 DEF ListInv, ListTypeOK
  <2>. QED
    BY <1>0, <1>6, <2>1, <2>2 DEF Collect, ListInv, ListTypeOK, OkMeansAnswered
<1>7. CASE TakeAny
  <2>1. PICK i \in replies : replies' = replies \ {i}
    BY <1>7 DEF TakeAny
  <2>2. /\ verdict' \in Seq({"OK", "FAIL"}) /\ Len(verdict') = Len(verdict) + 1
        /\ \A j \in 1..Len(verdict) : verdict'[j] = verdict[j]
        /\ DOMAIN verdict' = 1..Len(verdict') 
    BY <1>0, <1>7, OneVerdict DEF TakeAny
  <2>3. Len(verdict) < Len(nodes) /\ ~Final /\ UNCHANGED <<release, faults, nodes, pings, up, heard, answered>>
         /\ listing = "listen" /\ listing' = "ping"
    BY <1>0, <1>7 DEF TakeAny, ListInv
  <2>4. ~May("late") => OnePing' /\ nodes[Len(verdict) + 1] \in answered
    BY <1>0, <2>1, <2>2, <2>3 DEF ListInv, OnePing
  <2>5. ~May("late") => OkMeansAnswered'
    BY <1>0, <2>2, <2>3, <2>4 DEF ListInv, OkMeansAnswered
  <2>. QED
    BY <1>0, <2>1, <2>2, <2>3, <2>4, <2>5 DEF ListInv, ListTypeOK, OkMeansAnswered
<1>8. CASE PrintAll
  <2>1. /\ verdict' \in Seq({"OK", "FAIL"}) /\ Len(verdict') = Len(nodes)
        /\ \A i \in DOMAIN verdict' : verdict'[i] = "OK" => nodes[i] \in heard
    BY <1>0, <1>8 DEF PrintAll
  <2>. QED
    BY <1>0, <1>8, <2>1 DEF PrintAll, ListInv, ListTypeOK, OkMeansAnswered
<1>9. CASE PrintFail
  <2>2. /\ verdict' \in Seq({"OK", "FAIL"}) /\ Len(verdict') = Len(verdict) + 1
        /\ \A j \in 1..Len(verdict) : verdict'[j] = verdict[j]
        /\ verdict'[Len(verdict) + 1] = "FAIL"
        /\ DOMAIN verdict' = 1..Len(verdict') 
    BY <1>0, <1>9, OneVerdict DEF PrintFail
  <2>3. /\ Len(verdict) < Len(nodes) /\ ~Final /\ listing = "listen" /\ listing' = "ping"
        /\ UNCHANGED <<release, faults, nodes, replies, pings, up, heard, answered>>
    BY <1>0, <1>9 DEF PrintFail, Silent, ListInv
  <2>4. ~May("late") => OnePing'
    BY <1>0, <1>9, <2>2, <2>3 DEF PrintFail, Silent, OnePing
  <2>5. ~May("late") => OkMeansAnswered'
    BY <1>0, <2>2, <2>3 DEF ListInv, OkMeansAnswered
  <2>. QED
    BY <1>0, <2>2, <2>3, <2>4, <2>5 DEF ListInv, ListTypeOK, OkMeansAnswered
<1>. QED
  BY <1>1, <1>2, <1>3, <1>4, <1>5, <1>6, <1>7, <1>8, <1>9 DEF ListNext, ListWork

-----------------------------------------------------------------------------
(* The start of a client of the submissions: its list of servers.           *)

\* The servers of the first n lines.
Upto(n) == [i \in 1..n |-> Address(i)]

\* No server follows line n.
EndsAt(n) == n < Len(file.lines) => file.lines[n + 1].port = NotANumber

\* What projet01 has: first the arrays get the servers, then the list.
Gathered ==
  /\ Len(members) \in Nat /\ Len(parsed) \in Nat /\ Len(members) <= Len(parsed)
  /\ starting \in {"open", "read"} => parsed = Upto(line) /\ members = <<>>
  /\ starting = "skip" => /\ line < Len(file.lines)
                          /\ parsed = Upto(line + 1) /\ members = <<>>
  /\ starting = "add" =>
       /\ parsed = Upto(line) /\ EndsAt(line)
       /\ Len(members) <= line /\ members = Upto(Len(members))
  /\ starting \in {"socket", "ready"} => members = Upto(line) /\ EndsAt(line)

\* What projet02 has: each line adds its server.
Added ==
  /\ Len(members) \in Nat /\ Len(members) <= line
  /\ starting \in {"open", "read"} => members = Upto(line)
  /\ starting \in {"socket", "ready"} => members = Upto(line) /\ EndsAt(line)

\* What has been read of the list of servers, in each stage of its reading.
FileInv ==
  /\ file \in Files \cup {NoFile} /\ starting \in Stages
  /\ IF file = NoFile
     THEN /\ starting \in {"open", "crashed", "socket", "ready", "failed"}
          /\ line = 0 /\ parsed = <<>> /\ members = <<>>
     ELSE /\ line \in 0..Len(file.lines)
          /\ starting = "open" => line = 0
          /\ IF release = "projet01" THEN Gathered
             ELSE starting \notin {"skip", "add"} /\ Added

\* The lines of a file that was found.
LEMMA LinesAre ==
  ASSUME file \in Files
  PROVE  file # NoFile /\ Len(file.lines) \in Nat /\ DOMAIN file.lines = 1..Len(file.lines)
BY FileAssumption

\* One more line adds its server at the end.
LEMMA UptoIs ==
  ASSUME NEW n \in Nat
  PROVE  /\ Len(Upto(n)) = n /\ Len(Upto(n + 1)) = n + 1
         /\ Append(Upto(n), Address(n + 1)) = Upto(n + 1)
         /\ \A i \in 1..n : Upto(n)[i] = Address(i)
<1>1. /\ Len(Upto(n)) = n /\ Len(Upto(n + 1)) = n + 1
      /\ Upto(n) \in Seq({Address(i) : i \in 1..(n + 1)})
  BY DEF Upto
<1>2. \A i \in 1..n : Upto(n)[i] = Address(i)
  BY DEF Upto
<1>3. \A i \in 1..(n + 1) : Upto(n + 1)[i] = Address(i)
  BY DEF Upto
<1>4. Append(Upto(n), Address(n + 1)) = [i \in 1..(n + 1) |-> IF i = n + 1 THEN Address(n + 1) ELSE Upto(n)[i]]
  BY <1>1
<1>. QED
  BY <1>1, <1>2, <1>4 DEF Upto

\* No line, no server.
LEMMA UptoNone == Upto(0) = <<>>
BY DEF Upto

\* The addresses depend on the file alone, which does not change.
LEMMA UptoStays ==
  ASSUME UNCHANGED <<release, file>>
  PROVE  \A n : Upto(n)' = Upto(n)
BY DEF Upto, Address, Port

\* The first states of the start of a client satisfy the invariant.
LEMMA FileStart ==
  ASSUME FileInit
  PROVE  FileInv
BY LinesAre, UptoNone DEF FileInit, FileInv, Gathered, Added, Stages

\* A step of another program leaves the start of a client alone.
LEMMA FileStays ==
  ASSUME FileInv, UNCHANGED <<release, faults, fileVars>>
  PROVE  FileInv'
BY UptoStays DEF fileVars, FileInv, Gathered, Added, EndsAt

\* The invariant implies the type and that the servers are those of the file.
LEMMA FileInvSuffices ==
  ASSUME FileInv
  PROVE  FileTypeOK /\ ServersAreNodes
<1>1. CASE file = NoFile
  BY <1>1 DEF FileInv, FileTypeOK, ServersAreNodes
<1>2. CASE file # NoFile
  <2>1. FileTypeOK
    BY <1>2 DEF FileInv, Gathered, Added, FileTypeOK
  <2>2. starting = "ready" => line \in 0..Len(file.lines) /\ members = Upto(line) /\ EndsAt(line)
    BY <1>2 DEF FileInv, Gathered, Added
  <2>. QED
    BY <1>2, <2>1, <2>2 DEF ServersAreNodes, Upto, EndsAt
<1>. QED
  BY <1>1, <1>2

\* Every step of the start of a client keeps the invariant.
LEMMA FileStep ==
  ASSUME FileInv, FileWork, Same
  PROVE  FileInv'
<1>1. UNCHANGED <<release, faults, file>>
  BY DEF FileWork, OpenFile, ParseLine, BadPort, SkipLine, ReadNode, EndOfFile, AddNode, NodesAdded,
         GetSocket, Same
<1>2. CASE file = NoFile
  BY <1>1, <1>2, FileAssumption
     DEF FileInv, FileWork, OpenFile, ParseLine, BadPort, SkipLine, ReadNode, EndOfFile, AddNode,
         NodesAdded, GetSocket, Stages
<1>3. CASE file # NoFile
  <2>. DEFINE Old == IF release = "projet01" THEN Gathered
                     ELSE starting \notin {"skip", "add"} /\ Added
  <2>0. /\ file \in Files /\ line \in 0..Len(file.lines) /\ Len(file.lines) \in Nat
        /\ line \in Nat /\ (starting = "open" => line = 0) /\ starting \in Stages /\ Old
    BY <1>3, LinesAre DEF FileInv
  <2>. SUFFICES line' \in 0..Len(file.lines) /\ (starting' = "open" => line' = 0)
                /\ starting' \in Stages /\ Old'
    BY <1>1, <1>3, <2>0 DEF FileInv
  <2>1. \A n : Upto(n)' = Upto(n) /\ EndsAt(n)' = EndsAt(n)
    BY <1>1, UptoStays DEF EndsAt
  <2>a. /\ Len(Upto(line)) = line /\ Len(Upto(line + 1)) = line + 1
        /\ Append(Upto(line), Address(line + 1)) = Upto(line + 1)
    BY <2>0, UptoIs
  <2>2. CASE OpenFile \/ GetSocket
    BY <1>1, <1>3, <2>0, <2>1, <2>2 DEF OpenFile, GetSocket, Gathered, Added, Stages
  <2>3. CASE ParseLine
    <3>1. line + 1 \in 0..Len(file.lines)
      BY <2>0, <2>3 DEF ParseLine, MoreLines
    <3>2. parsed' = Upto(line + 1) /\ Len(parsed') = line + 1
      BY <2>0, <2>a, <2>3 DEF ParseLine, Gathered
    <3>. QED
      BY <1>1, <2>0, <2>1, <2>3, <3>1, <3>2 DEF ParseLine, Gathered, Stages
  <2>4. CASE BadPort
    BY <1>1, <2>0, <2>1, <2>4 DEF BadPort, Gathered, Stages
  <2>5. CASE SkipLine
    BY <1>1, <2>0, <2>1, <2>5 DEF SkipLine, Gathered, Added, Stages
  <2>6. CASE ReadNode
    <3>1. line + 1 \in 0..Len(file.lines)
      BY <2>0, <2>6 DEF ReadNode, MoreLines
    <3>2. \/ members' = Upto(line + 1)
          \/ members' = Upto(line) /\ starting' = "failed"
      BY <2>0, <2>a, <2>6 DEF ReadNode, Add, Added
    <3>3. Len(Upto(line + 1)) = line + 1 /\ Len(Upto(line)) = line
      BY <2>0, UptoIs
    <3>. QED
      BY <1>1, <2>0, <2>1, <2>6, <3>1, <3>2, <3>3 DEF ReadNode, Add, Added, Stages
  <2>7. CASE EndOfFile
    BY <1>1, <2>0, <2>1, <2>7, UptoNone, UptoIs DEF EndOfFile, MoreLines, EndsAt, Gathered, Added, Stages
  <2>8. CASE AddNode
    <3>1. starting = "add" => release = "projet01"
      BY <2>0
    <3>2. /\ parsed = Upto(line) /\ Len(parsed) = line /\ Len(members) < line /\ EndsAt(line)
          /\ Len(members) \in Nat /\ members = Upto(Len(members)) /\ release = "projet01"
      BY <2>0, <2>8, <3>1, UptoIs DEF AddNode, ServersLeft, Gathered
    <3>3. PICK m \in Nat : m = Len(members) /\ m + 1 \in 1..line
      BY <2>0, <3>2
    <3>4. parsed[m + 1] = Address(m + 1)
      BY <2>0, <3>2, <3>3, UptoIs
    <3>a. Append(Upto(m), Address(m + 1)) = Upto(m + 1) /\ Len(Upto(m + 1)) = m + 1
      BY UptoIs
    <3>5. \/ members' = Upto(m + 1) /\ Len(members') = m + 1 /\ starting' = "add"
          \/ members' = members /\ starting' = "failed"
      BY <2>8, <3>2, <3>3, <3>4, <3>a DEF AddNode, Add
    <3>. QED
      BY <1>1, <2>0, <2>1, <2>8, <3>2, <3>3, <3>5 DEF AddNode, Gathered, Stages
  <2>9. CASE NodesAdded
    <3>1. release = "projet01" /\ parsed = Upto(line) /\ Len(parsed) = line
      BY <2>0, <2>9, UptoIs DEF NodesAdded, Gathered
    <3>. QED
      BY <1>1, <2>0, <2>1, <2>9, <3>1 DEF NodesAdded, ServersLeft, Gathered, Stages
  <2>. QED
    BY <2>2, <2>3, <2>4, <2>5, <2>6, <2>7, <2>8, <2>9 DEF FileWork
<1>. QED
  BY <1>2, <1>3

-----------------------------------------------------------------------------
(* Putting texts together.                                                  *)

\* What is left of a sequence behind its first n members.
LEMMA Rest ==
  ASSUME NEW X, NEW s \in Seq(X), NEW n \in Nat, n < Len(s)
  PROVE  LET r == SubSeq(s, n + 1, Len(s))
         IN  /\ r \in Seq(X) /\ Len(r) = Len(s) - n /\ r # <<>>
             /\ Head(r) = s[n + 1] /\ r[1] = s[n + 1]
             /\ Tail(r) = SubSeq(s, n + 2, Len(s))
<1>. DEFINE r == SubSeq(s, n + 1, Len(s))
<1>1. r \in Seq(X) /\ Len(r) = Len(s) - n
  OBVIOUS
<1>2. \A i \in 1..(Len(s) - n) : r[i] = s[n + i]
  OBVIOUS
<1>. DEFINE q == SubSeq(s, n + 2, Len(s))
<1>3. q \in Seq(X) /\ Len(q) = Len(s) - (n + 1)
  OBVIOUS
<1>4. \A i \in 1..(Len(s) - (n + 1)) : q[i] = s[n + 1 + i]
  OBVIOUS
<1>. HIDE DEF r, q
<1>5. 1 \in 1..(Len(s) - n) /\ r # <<>>
  BY <1>1
<1>6. r[1] = s[n + 1] /\ Head(r) = s[n + 1]
  BY <1>1, <1>2, <1>5
<1>7. Tail(r) \in Seq(X) /\ Len(Tail(r)) = Len(r) - 1 /\ \A i \in 1..(Len(r) - 1) : Tail(r)[i] = r[i + 1]
  BY <1>1, <1>5
<1>8. \A i \in 1..(Len(s) - (n + 1)) : Tail(r)[i] = q[i]
  BY <1>1, <1>2, <1>4, <1>7
<1>9. Tail(r) = q
  <2>1. Len(Tail(r)) = Len(q) /\ \A i \in 1..Len(Tail(r)) : Tail(r)[i] = q[i]
    <3>1. Len(Tail(r)) = Len(s) - (n + 1)
      BY <1>1, <1>7
    <3>. QED
      BY <1>3, <1>8, <3>1
  <2>. QED
    BY <1>3, <1>7, <2>1, SameSeq
<1>. QED
  BY <1>1, <1>5, <1>6, <1>9 DEF r, q
\* g[i] is the first i members of s put together.
IsFlat(g, s, n) == g = [i \in 1..n |-> IF i = 1 THEN s[i] ELSE g[i - 1] \o s[i]]

\* There are such partial concatenations, by the smallest length that has none.
LEMMA FlatExists ==
  ASSUME NEW s, NEW n \in Nat
  PROVE  \E g : IsFlat(g, s, n)
<1>. DEFINE bad == {m \in Nat : ~ \E g : IsFlat(g, s, m)}
<1>1. ASSUME bad # {} PROVE FALSE
  <2>1. PICK m \in bad : \A k \in bad : m <= k
    <3>. HIDE DEF bad
    <3>1. bad \subseteq Nat
      BY DEF bad
    <3>. QED
      BY <1>1, <3>1, Smallest
  <2>2. m \in Nat /\ ~ \E g : IsFlat(g, s, m)
    OBVIOUS
  <2>3. m # 0
    <3>1. IsFlat([i \in 1..0 |-> 0], s, 0)
      BY DEF IsFlat
    <3>. QED
      BY <2>2, <3>1
  <2>4. m - 1 \in Nat /\ m - 1 \notin bad
    BY <2>1, <2>2, <2>3
  <2>5. PICK g : IsFlat(g, s, m - 1)
    BY <2>4
  <2>. DEFINE h == [i \in 1..m |-> IF i < m THEN g[i] ELSE IF i = 1 THEN s[i] ELSE g[i - 1] \o s[i]]
  <2>6. ASSUME NEW i \in 1..m
        PROVE  h[i] = IF i = 1 THEN s[i] ELSE h[i - 1] \o s[i]
    <3>1. CASE i < m
      <4>1. i \in 1..(m - 1) /\ h[i] = g[i]
        BY <2>2, <3>1
      <4>2. g[i] = IF i = 1 THEN s[i] ELSE g[i - 1] \o s[i]
        BY <2>5, <4>1 DEF IsFlat
      <4>3. i # 1 => i - 1 \in 1..m /\ i - 1 < m
        BY <2>2, <4>1
      <4>. QED
        BY <4>1, <4>2, <4>3
    <3>2. CASE i = m
      <4>3. i # 1 => i - 1 \in 1..m /\ i - 1 < m
        BY <2>2, <3>2
      <4>. QED
        BY <3>2, <4>3
    <3>. QED
      BY <2>2, <3>1, <3>2
  <2>7. IsFlat(h, s, m)
    BY <2>6 DEF IsFlat
  <2>. QED
    BY <2>2, <2>7
<1>. QED
  BY <1>1

\* Those of sequences that begin alike agree, by the first place where they differ.
LEMMA FlatAgrees ==
  ASSUME NEW s, NEW t, NEW m \in Nat, NEW n \in Nat, m <= n,
         \A i \in 1..m : s[i] = t[i],
         NEW g, IsFlat(g, s, m), NEW h, IsFlat(h, t, n)
  PROVE  \A i \in 1..m : g[i] = h[i]
<1>. DEFINE bad == {i \in 1..m : g[i] # h[i]}
<1>1. ASSUME bad # {} PROVE FALSE
  <2>1. PICK i \in bad : \A k \in bad : i <= k
    <3>1. bad \subseteq Nat
      OBVIOUS
    <3>. HIDE DEF bad
    <3>. QED
      BY <1>1, <3>1, Smallest
  <2>2. i \in 1..m /\ i \in 1..n /\ g[i] # h[i]
    OBVIOUS
  <2>3. /\ g[i] = IF i = 1 THEN s[i] ELSE g[i - 1] \o s[i]
        /\ h[i] = IF i = 1 THEN t[i] ELSE h[i - 1] \o t[i]
    BY <2>2 DEF IsFlat
  <2>4. i # 1
    BY <2>2, <2>3
  <2>5. i - 1 \in 1..m /\ i - 1 \notin bad
    BY <2>1, <2>2, <2>4
  <2>. QED
    BY <2>2, <2>3, <2>4, <2>5
<1>. QED
  BY <1>1

\* FlattenSeq is the last one.
LEMMA FlattenIs ==
  ASSUME NEW s, NEW n \in Nat \ {0}, Len(s) = n
  PROVE  \E g : IsFlat(g, s, n) /\ FlattenSeq(s) = g[n]
<1>1. FlattenSeq(s) = (CHOOSE g : IsFlat(g, s, Len(s)))[Len(s)]
  BY DEF FlattenSeq, IsFlat
<1>2. \E g : IsFlat(g, s, n)
  BY FlatExists
<1>. QED
  BY <1>1, <1>2, Zenon

\* One more member is put behind the others.
LEMMA FlattenMore ==
  ASSUME NEW s, NEW t, NEW n \in Nat, Len(s) = n, Len(t) = n + 1, \A i \in 1..n : s[i] = t[i]
  PROVE  FlattenSeq(t) = IF n = 0 THEN t[1] ELSE FlattenSeq(s) \o t[n + 1]
<1>1. PICK h : IsFlat(h, t, n + 1) /\ FlattenSeq(t) = h[n + 1]
  BY FlattenIs
<1>2. h[n + 1] = IF n = 0 THEN t[n + 1] ELSE h[n] \o t[n + 1]
  <2>1. PICK i \in 1..(n + 1) : i = n + 1 /\ i - 1 = n /\ (i = 1 <=> n = 0)
    OBVIOUS
  <2>2. h[i] = IF i = 1 THEN t[i] ELSE h[i - 1] \o t[i]
    BY <1>1 DEF IsFlat
  <2>. QED
    BY <2>1, <2>2
<1>3. CASE n = 0
  BY <1>1, <1>2, <1>3
<1>4. CASE n # 0
  <2>1. PICK g : IsFlat(g, s, n) /\ FlattenSeq(s) = g[n]
    BY <1>4, FlattenIs
  <2>2. n + 1 \in Nat /\ n <= n + 1 /\ n \in 1..n
    BY <1>4
  <2>3. g[n] = h[n]
    BY <1>1, <2>1, <2>2, FlatAgrees
  <2>. QED
    BY <1>1, <1>2, <1>4, <2>1, <2>3
<1>. QED
  BY <1>3, <1>4

-----------------------------------------------------------------------------
(* The clients.                                                             *)

\* A text that fits into a message, and what other clients have put.
Short(t) == Len(t) <= MaxMsg
\* What other clients have put.
Others == {t \in Seq(Letter) : Short(t)}

\* The arguments that are left when n are read.
Left(n) == SubSeq(asked, n + 1, Len(asked))

\* What cat has put together: the beginning of its sources.
Cut(s) == SubSeq(s, 1, IF Len(s) < MaxMsg THEN Len(s) ELSE MaxMsg)

\* Values of the first n sources, as they were held.
Sources(n) ==
  {f \in [1..n -> UNION {Held(k) : k \in Key}] : \A i \in 1..n : f[i] \in Held(asked[i])}

\* What the arguments still to be read and the texts read are, while a client runs.
ReadInv ==
  IF command = "cat"
  THEN output = "running" =>
         \E n \in 0..Len(asked) :
           /\ argv = Left(n) /\ (n = 0 \/ n < Len(asked))
           /\ \E f \in Sources(n) : FlattenSeq(f) \in Text /\ Joint = Cut(FlattenSeq(f))
  ELSE /\ Len(got) <= Len(asked) /\ argv = Left(Len(got))
       /\ \A i \in 1..Len(got) : got[i] \in Held(asked[i])

\* How many arguments the clients that take a fixed number have, and have read.
ArgumentsInv ==
  /\ command \in {"put", "get"} => Len(asked) = 1
  /\ command = "put" => Len(got) = 0
  /\ command \in {"find", "substr"} => Len(asked) = 2

\* What substr has put, or why it has crashed.
SubstrInv ==
  command = "substr" =>
    /\ Len(got) <= 1 /\ (BadLength => got = <<>>)
    /\ output \in {"OK", "crash"} =>
         \E v \in Held(asked[1]) :
           /\ ~BadLength /\ ~Beyond(v)
           /\ output = "crash" => Count > MaxMsg
           /\ output = "OK" => Put \in Texts(v)

\* What find has printed.
FindInv ==
  command = "find" /\ output = "OK" =>
    Len(got) = 2 /\ numbers[1] = StrStr(got[1], got[2])

\* The invariant of the clients: the values of the store are ones that were held, and
\* what each client has read, printed or put.
ClientInv ==
  /\ ClientTypeOK
  /\ store \in [Key -> Text \cup {Absent}] /\ held \in [Key -> SUBSET (Others \cup {Absent})]
  /\ asked \in Seq(Key) /\ got \in Seq(Text)
  /\ output = "running" => \A k \in Key : store[k] \in held[k]
  /\ ArgumentsInv /\ ReadInv
  /\ SubstrInv /\ FindInv /\ CatIsConcatenation

\* What a key may answer with was held, and is a text of the store.
LEMMA HeldAre ==
  ASSUME ClientInv, NEW k \in Key
  PROVE  /\ Held(k) \subseteq Others /\ Held(k) \subseteq Text
         /\ output = "running" => Answers(k) \subseteq Held(k)
<1>1. <<>> \in Others
  BY ConfigAssumption DEF Others, Short
<1>2. Held(k) \subseteq Others
  BY <1>1 DEF Held, ClientInv
<1>3. Others \subseteq Text
  BY DEF Others, Text
<1>4. output = "running" => Answers(k) \subseteq Held(k)
  BY DEF Answers, Held, ClientInv
<1>. QED
  BY <1>2, <1>3, <1>4

\* The first argument that is left is the next one.
LEMMA LeftIs ==
  ASSUME asked \in Seq(Key), NEW n \in 0..Len(asked)
  PROVE  /\ Left(n) \in Seq(Key) /\ Len(Left(n)) = Len(asked) - n
         /\ n = 0 => Left(n) = asked
         /\ n < Len(asked) => /\ Left(n) # <<>> /\ Head(Left(n)) = asked[n + 1]
                              /\ Left(n)[1] = asked[n + 1]
                              /\ Tail(Left(n)) = Left(n + 1)
<1>1. Len(asked) \in Nat /\ n \in Nat /\ n + 1 + 1 = n + 2
  OBVIOUS
<1>2. Left(n) \in Seq(Key) /\ Len(Left(n)) = Len(asked) - n
  BY <1>1 DEF Left
<1>3. n = 0 => Left(n) = asked
  <2>1. SubSeq(asked, 1, Len(asked)) = asked
    OBVIOUS
  <2>. QED
    BY <2>1 DEF Left
<1>4. CASE n < Len(asked)
  <2>. DEFINE r == SubSeq(asked, n + 1, Len(asked))
  <2>1. /\ r # <<>> /\ Head(r) = asked[n + 1] /\ r[1] = asked[n + 1]
        /\ Tail(r) = SubSeq(asked, n + 2, Len(asked))
    BY <1>1, <1>4, Rest
  <2>2. Left(n) = r /\ Left(n + 1) = SubSeq(asked, n + 2, Len(asked))
    BY <1>1 DEF Left
  <2>. HIDE DEF r
  <2>. QED
    BY <1>2, <1>3, <2>1, <2>2
<1>. QED
  BY <1>2, <1>3, <1>4

\* The cut text is its beginning.
LEMMA CutIs ==
  ASSUME NEW u \in Text
  PROVE  /\ Cut(u) \in Text /\ Len(Cut(u)) = IF Len(u) < MaxMsg THEN Len(u) ELSE MaxMsg
         /\ Len(u) \in Nat /\ MaxMsg \in Nat
         /\ \A i \in 1..Len(Cut(u)) : Cut(u)[i] = u[i]
         /\ Len(Cut(u)) <= MaxMsg /\ (Len(Cut(u)) < MaxMsg => Cut(u) = u)
<1>. USE ConfigAssumption DEF Text
<1>1. PICK m \in 0..Len(u) : m = IF Len(u) < MaxMsg THEN Len(u) ELSE MaxMsg
  OBVIOUS
<1>2. Cut(u) = SubSeq(u, 1, m)
  BY <1>1 DEF Cut
<1>3. Cut(u) \in Text /\ Len(Cut(u)) = m /\ \A i \in 1..m : Cut(u)[i] = u[i]
  BY <1>2
<1>4. m < MaxMsg => Cut(u) = u
  BY <1>1, <1>2
<1>. QED
  BY <1>1, <1>3, <1>4

\* To cut a text and what is put behind it is to cut both at once.
LEMMA CutTwice ==
  ASSUME NEW s \in Text, NEW t \in Text
  PROVE  Joined(Cut(s), t) = Cut(s \o t)
<1>1. Len(s) \in Nat /\ Len(t) \in Nat /\ s \o t \in Text /\ Len(s \o t) = Len(s) + Len(t)
  BY DEF Text
<1>2. CASE Len(s) < MaxMsg
  <2>1. Cut(s) = s
    BY <1>2, CutIs
  <2>. QED
    BY <2>1 DEF Joined, Cut
<1>3. CASE ~(Len(s) < MaxMsg)
  <2>1. Cut(s) \in Text /\ Len(Cut(s)) = MaxMsg /\ MaxMsg \in Nat /\ \A i \in 1..MaxMsg : Cut(s)[i] = s[i]
    BY <1>3, CutIs
  <2>. DEFINE a == Cut(s) \o t
              b == s \o t
  <2>2. /\ a \in Text /\ Len(a) = MaxMsg + Len(t) /\ \A i \in 1..MaxMsg : a[i] = Cut(s)[i]
    <3>1. \A c \in Text : /\ c \o t \in Text /\ Len(c \o t) = Len(c) + Len(t)
                          /\ \A i \in 1..Len(c) : (c \o t)[i] = c[i]
      BY DEF Text
    <3>. QED
      BY <2>1, <3>1
  <2>3. \A i \in 1..MaxMsg : b[i] = s[i]
    BY <1>1, <1>3, <2>1 DEF Text
  <2>4. b \in Text /\ Len(b) = Len(s) + Len(t)
    BY <1>1
  <2>5. Joined(Cut(s), t) = Cut(a)
    BY DEF Joined, Cut
  <2>. HIDE DEF a, b
  <2>6. Cut(a) \in Text /\ Len(Cut(a)) = MaxMsg /\ \A i \in 1..MaxMsg : Cut(a)[i] = a[i]
    BY <1>1, <2>1, <2>2, CutIs
  <2>7. Cut(b) \in Text /\ Len(Cut(b)) = MaxMsg /\ \A i \in 1..MaxMsg : Cut(b)[i] = b[i]
    BY <1>1, <1>3, <2>1, <2>4, CutIs
  <2>8. \A i \in 1..MaxMsg : Cut(a)[i] = Cut(b)[i]
    BY <2>1, <2>2, <2>3, <2>6, <2>7
  <2>9. Cut(a) = Cut(b)
    BY <2>6, <2>7, <2>8, SameSeq DEF Text
  <2>. QED
    BY <2>5, <2>9 DEF b
<1>. QED
  BY <1>2, <1>3

\* The first states of the clients satisfy the invariant.
LEMMA ClientStart ==
  ASSUME ClientInit
  PROVE  ClientInv
<1>1. PICK words \in CommandLines : command = words[1] /\ argv = words[2]
  BY DEF ClientInit
<1>2. /\ command \in {"put", "get", "cat", "find", "substr"} /\ asked \in Seq(Key) /\ asked = argv
      /\ ArgumentsInv
  <2>1. asked = words[2] /\ asked = argv /\ command = words[1]
    BY <1>1 DEF ClientInit
  <2>2. \/ words \in {"put", "get"} \X [1..1 -> Key]
        \/ words \in {"find", "substr"} \X [1..2 -> Key]
        \/ words \in {"cat"} \X Seq(Key)
    BY <1>1, ClientAssumption
  <2>3. /\ \A l \in [1..1 -> Key] : l \in Seq(Key) /\ Len(l) = 1
        /\ \A l \in [1..2 -> Key] : l \in Seq(Key) /\ Len(l) = 2
    <3>1. ASSUME NEW n \in Nat, NEW l \in [1..n -> Key]
          PROVE  l \in Seq(Key) /\ Len(l) = n
      OBVIOUS
    <3>. QED
      BY <3>1
  <2>4. Len(got) = 0
    BY DEF ClientInit
  <2>. QED
    BY <2>1, <2>2, <2>3, <2>4 DEF ArgumentsInv
<1>3. ASSUME NEW k \in Key
      PROVE  store[k] \in Others \cup {Absent}
  <2>1. store[k] = Absent \/ (store[k] \in Seq(Letter) /\ KeyLength[k] + 1 + Len(store[k]) <= MaxMsg)
    BY ClientAssumption DEF ClientInit
  <2>. QED
    BY <2>1, ConfigAssumption DEF Others, Short
<1>4. store \in [Key -> Others \cup {Absent}]
  BY <1>3, ClientAssumption DEF ClientInit
<1>5. Others \subseteq Text /\ \A t \in Others : Len(t) <= MaxMsg
  BY DEF Others, Text, Short
<1>6. numbers \in (Numbers \X Numbers) \cup ((-1..MaxMsg) \X {0})
  <2>1. <<0, 0>> \in (-1..MaxMsg) \X {0}
    BY ConfigAssumption
  <2>2. numbers \in Numbers \X Numbers \/ numbers = <<0, 0>>
    BY DEF ClientInit
  <2>. QED
    BY <2>1, <2>2
<1>7. /\ store \in [Key -> Text \cup {Absent}] /\ held \in [Key -> SUBSET (Others \cup {Absent})]
      /\ \A k \in Key : store[k] \in held[k]
      /\ \A k \in Key : store[k] = Absent \/ (store[k] \in Text /\ Len(store[k]) <= MaxMsg)
  BY <1>4, <1>5 DEF ClientInit
<1>8. argv = Left(0) /\ 0 \in 0..Len(asked)
  BY <1>2, LeftIs
<1>9. ReadInv
  <2>1. got = <<>> /\ Joint = <<>>
    BY DEF ClientInit, Joint
  <2>2. <<>> \in Sources(0) /\ FlattenSeq(<<>>) = <<>> /\ <<>> \in Text
    BY DEF Sources, FlattenSeq, Text
  <2>3. Cut(<<>>) = <<>>
    BY <2>2, ConfigAssumption DEF Cut
  <2>4. CASE command = "cat"
    <3>1. <<>> \in Sources(0) /\ FlattenSeq(<<>>) \in Text /\ Joint = Cut(FlattenSeq(<<>>))
      BY <2>1, <2>2, <2>3
    <3>. QED
      BY <1>8, <2>4, <3>1 DEF ReadInv
  <2>5. CASE command # "cat"
    <3>1. Len(got) = 0 /\ Len(asked) \in Nat
      BY <1>2, <2>1
    <3>. QED
      BY <1>8, <2>5, <3>1 DEF ReadInv
  <2>. QED
    BY <2>4, <2>5
<1>. QED
  <2>1. got = <<>> /\ output = "running" /\ Len(got) = 0
    BY DEF ClientInit
  <2>2. <<>> \in Seq(Text) /\ DOMAIN <<>> = {}
    OBVIOUS
  <2>3. SubstrInv
    <3>1. 0 <= 1 /\ "running" \notin {"OK", "crash"}
      OBVIOUS
    <3>. QED
      BY <2>1, <3>1, Zenon DEF SubstrInv
  <2>4. FindInv /\ CatIsConcatenation
    BY <2>1 DEF FindInv, CatIsConcatenation
  <2>. QED
    BY <2>4, <1>2, <1>6, <1>7, <1>9, <2>1, <2>2, <2>3 DEF ClientInv, ClientTypeOK

\* pps-client-substr reads one value, and none when it refuses the length.
MayRead == command = "substr" => got = <<>> /\ ~BadLength

\* What a step that reads or ends without a put leaves alone.
LEMMA QuietStep ==
  ASSUME ClientInv, UNCHANGED <<store, held, command, asked>>,
         argv' \in Seq(Key), got' \in Seq(Text), \A i \in 1..Len(got') : Len(got'[i]) <= MaxMsg,
         numbers' \in (Numbers \X Numbers) \cup ((-1..MaxMsg) \X {0}),
         output' \in {"running", "OK", "FAIL", "crash"}, output = "running",
         ArgumentsInv', ReadInv', SubstrInv', FindInv', CatIsConcatenation'
  PROVE  ClientInv'
<1>1. \A i \in DOMAIN got' : got'[i] \in Text /\ Len(got'[i]) <= MaxMsg
  OBVIOUS
<1>. QED
  BY <1>1 DEF ClientInv, ClientTypeOK

\* A put that is printed as OK was executed.
LEMMA PutStep ==
  ASSUME ClientInv, NEW k \in Key, NEW v \in Text, PutAndPrint(k, v)
  PROVE  /\ output' \in {"OK", "FAIL"} /\ UNCHANGED held
         /\ store' \in [Key -> Text \cup {Absent}]
         /\ \A j \in Key : store'[j] = Absent \/ (store'[j] \in Text /\ Len(store'[j]) <= MaxMsg)
         /\ output' = "OK" => store'[k] = v /\ KeyLength[k] + 1 + Len(v) <= MaxMsg
<1>1. CASE output' = "FAIL" /\ UNCHANGED <<store, held>>
  BY <1>1 DEF ClientInv, ClientTypeOK
<1>2. CASE /\ FitsMessage(k, v) /\ store' = [store EXCEPT ![k] = v]
           /\ output' \in {"OK", "FAIL"} /\ UNCHANGED held
  <2>1. KeyLength[k] \in Nat /\ Len(v) \in Nat /\ MaxMsg \in Nat
    BY ConfigAssumption DEF Text
  <2>2. Len(v) <= MaxMsg /\ KeyLength[k] + 1 + Len(v) <= MaxMsg
    BY <1>2, <2>1 DEF FitsMessage
  <2>3. /\ store' \in [Key -> Text \cup {Absent}] /\ store'[k] = v
        /\ \A j \in Key : j # k => store'[j] = store[j]
    BY <1>2 DEF ClientInv
  <2>. QED
    BY <1>2, <2>2, <2>3 DEF ClientInv, ClientTypeOK
<1>. QED
  BY <1>1, <1>2 DEF PutAndPrint

\* The end of a program: the argument it puts to and what it has read stay.
LEMMA PutKeeps ==
  ASSUME ClientInv, NEW k \in Key, NEW v \in Text, PutAndPrint(k, v), output = "running",
         UNCHANGED <<command, argv, numbers, got, asked>>,
         SubstrInv', CatIsConcatenation', command # "find"
  PROVE  ClientInv'
<1>1. /\ output' \in {"OK", "FAIL"} /\ UNCHANGED held
      /\ store' \in [Key -> Text \cup {Absent}]
      /\ \A j \in Key : store'[j] = Absent \/ (store'[j] \in Text /\ Len(store'[j]) <= MaxMsg)
  BY PutStep
<1>2. ReadInv'
  BY <1>1 DEF ClientInv, ReadInv, Held, Left
<1>3. FindInv'
  BY DEF FindInv
<1>. QED
  BY <1>1, <1>2, <1>3 DEF ClientInv, ClientTypeOK, ArgumentsInv

\* A value is read: by get, find or substr.
LEMMA ReadStep ==
  ASSUME ClientInv, ReadNext, Same, output = "running", command \notin {"put", "cat"}, MayRead
  PROVE  ClientInv'
<1>1. /\ argv = Left(Len(got)) /\ Len(got) \in 0..Len(asked)
      /\ asked \in Seq(Key) /\ got \in Seq(Text)
      /\ \A i \in 1..Len(got) : got[i] \in Held(asked[i]) /\ Len(got[i]) <= MaxMsg
  BY DEF ClientInv, ReadInv, ClientTypeOK
<1>2. Len(got) < Len(asked)
  <2>1. CASE Len(got) = Len(asked)
    <3>1. Len(argv) = 0 /\ argv \in Seq(Key)
      BY <1>1, <2>1, LeftIs
    <3>. QED
      BY <3>1 DEF ReadNext
  <2>. QED
    BY <1>1, <2>1
<1>3. PICK n \in Nat : n = Len(got) /\ n + 1 \in 1..Len(asked)
  BY <1>1, <1>2
<1>4. Head(argv) = asked[n + 1] /\ asked[n + 1] \in Key /\ argv' = Left(n + 1) /\ argv' \in Seq(Key)
  <2>1. Head(argv) = asked[n + 1] /\ Tail(argv) = Left(n + 1)
    BY <1>1, <1>2, <1>3, LeftIs
  <2>2. n + 1 \in 0..Len(asked)
    BY <1>3
  <2>. QED
    BY <1>1, <1>3, <2>1, <2>2, LeftIs DEF ReadNext
<1>5. PICK v \in Answers(asked[n + 1]) : got' = Append(got, v)
  BY <1>4 DEF ReadNext
<1>6. v \in Held(asked[n + 1]) /\ v \in Text /\ Len(v) <= MaxMsg
  BY <1>4, <1>5, HeldAre DEF Others, Short
<1>7. /\ got' \in Seq(Text) /\ Len(got') = n + 1 /\ got'[n + 1] = v
      /\ \A i \in 1..n : got'[i] = got[i]
  BY <1>1, <1>3, <1>5, <1>6
<1>8. UNCHANGED <<store, held, command, numbers, output, asked>>
  BY DEF ReadNext
<1>9. \A k : Held(k)' = Held(k)
  BY <1>8 DEF Held
<1>10. ASSUME NEW i \in 1..Len(got')
       PROVE  Len(got'[i]) <= MaxMsg /\ got'[i] \in Held(asked[i])
  <2>1. i \in 1..n \/ i = n + 1
    BY <1>3, <1>7
  <2>. QED
    BY <1>1, <1>3, <1>6, <1>7, <2>1
<1>11. ReadInv'
  <2>1. Left(n + 1)' = Left(n + 1)
    BY <1>3, <1>8 DEF Left
  <2>. QED
    BY <1>3, <1>4, <1>7, <1>8, <1>9, <1>10, <2>1 DEF ReadInv
<1>12. SubstrInv' /\ FindInv' /\ CatIsConcatenation'
  <2>1. command = "substr" => Len(got') <= 1 /\ ~BadLength'
    BY <1>3, <1>7, <1>8 DEF MayRead, BadLength, ReadNext, Final, Same
  <2>2. output' = "running"
    BY <1>8
  <2>3. SubstrInv'
    <3>1. command' = command /\ output' \notin {"OK", "crash"}
      BY <1>8, <2>2
    <3>. QED
      BY <2>1, <3>1, Zenon DEF SubstrInv
  <2>4. FindInv' /\ CatIsConcatenation'
    BY <2>2 DEF FindInv, CatIsConcatenation
  <2>. QED
    BY <2>3, <2>4
<1>13. ArgumentsInv'
  BY <1>8 DEF ArgumentsInv, ClientInv
<1>. QED
  BY <1>4, <1>7, <1>8, <1>10, <1>11, <1>12, <1>13, QuietStep DEF ClientInv, ClientTypeOK

\* Another client puts.
LEMMA OtherPutStep ==
  ASSUME ClientInv, NEW k \in Key, NEW v \in Stored, OtherPut(k, v), Same
  PROVE  ClientInv'
<1>1. /\ output = "running" /\ store' = [store EXCEPT ![k] = v] /\ held' = [held EXCEPT ![k] = @ \cup {v}]
      /\ UNCHANGED <<command, argv, numbers, got, output, asked>>
      /\ KeyLength[k] + 1 + Len(v) <= MaxMsg
  BY DEF OtherPut, FitsMessage
<1>2. v \in Others /\ v \in Text /\ Len(v) <= MaxMsg
  <2>1. v \in Seq(Letter) /\ KeyLength[k] \in Nat /\ MaxMsg \in Nat
    BY ConfigAssumption, ClientAssumption
  <2>. QED
    BY <1>1, <2>1 DEF Others, Short, Text
<1>3. /\ store' \in [Key -> Text \cup {Absent}] /\ held' \in [Key -> SUBSET (Others \cup {Absent})]
      /\ \A j \in Key : held[j] \subseteq held'[j] /\ store'[j] \in held'[j]
      /\ \A j \in Key : store'[j] = store[j] \/ store'[j] = v
  BY <1>1, <1>2 DEF ClientInv
<1>4. \A j \in Key : Held(j) \subseteq Held(j)'
  BY <1>3 DEF Held
<1>5. ReadInv'
  <2>1. \A n : Left(n)' = Left(n)
    BY <1>1 DEF Left
  <2>2. asked \in Seq(Key) /\ ReadInv
    BY DEF ClientInv
  <2>3. CASE command = "cat"
    <3>1. PICK n \in 0..Len(asked) :
            /\ argv = Left(n) /\ (n = 0 \/ n < Len(asked))
            /\ \E f \in Sources(n) : FlattenSeq(f) \in Text /\ Joint = Cut(FlattenSeq(f))
      BY <1>1, <2>2, <2>3 DEF ReadInv
    <3>2. Sources(n) \subseteq Sources(n)'
      <4>1. \A i \in 1..n : asked[i] \in Key
        BY <2>2, <3>1
      <4>2. (UNION {Held(j) : j \in Key}) \subseteq (UNION {Held(j) : j \in Key})'
        BY <1>4
      <4>. QED
        BY <1>1, <1>4, <4>1, <4>2 DEF Sources
    <3>3. Joint' = Joint
      BY <1>1 DEF Joint
    <3>. QED
      BY <1>1, <2>1, <2>3, <3>1, <3>2, <3>3 DEF ReadInv
  <2>4. CASE command # "cat"
    <3>1. Len(got) <= Len(asked) /\ argv = Left(Len(got)) /\ \A i \in 1..Len(got) : got[i] \in Held(asked[i])
      BY <2>2, <2>4 DEF ReadInv
    <3>2. \A i \in 1..Len(got) : asked[i] \in Key
      <4>1. Len(got) \in Nat /\ Len(asked) \in Nat
        BY <2>2 DEF ClientInv
      <4>. QED
        BY <2>2, <3>1, <4>1
    <3>. QED
      BY <1>1, <1>4, <2>1, <2>4, <3>1, <3>2 DEF ReadInv
  <2>. QED
    BY <2>3, <2>4
<1>6. SubstrInv' /\ FindInv' /\ CatIsConcatenation'
  <2>1. output' = "running"
    BY <1>1
  <2>2. SubstrInv'
    <3>1. BadLength' <=> BadLength
      BY <1>1 DEF Same, Final, BadLength
    <3>. QED
      BY <1>1, <2>1, <3>1 DEF SubstrInv, ClientInv
  <2>. QED
    BY <2>1, <2>2 DEF FindInv, CatIsConcatenation
<1>7. ClientTypeOK'
  BY <1>1, <1>2, <1>3 DEF ClientInv, ClientTypeOK
<1>. QED
  BY <1>1, <1>3, <1>5, <1>6, <1>7 DEF ClientInv, ArgumentsInv

\* The program ends, with its answer printed.
LEMMA QuitStep ==
  ASSUME ClientInv, NEW text \in {"OK", "FAIL"}, Quit(text), output = "running",
         UNCHANGED <<command, argv, numbers, got, asked>>,
         text = "OK" => command \in {"put", "get"}, Same
  PROVE  ClientInv'
<1>1. output' = text /\ UNCHANGED <<store, held>>
  BY DEF Quit
<1>2. ReadInv'
  BY <1>1 DEF ClientInv, ReadInv, Held, Left
<1>3. SubstrInv' /\ FindInv' /\ CatIsConcatenation'
  <2>1. BadLength' <=> BadLength
    BY DEF BadLength, Same, Final
  <2>2. SubstrInv'
    BY <1>1, <2>1 DEF SubstrInv, ClientInv
  <2>. QED
    BY <1>1, <2>2 DEF FindInv, CatIsConcatenation
<1>. QED
  BY <1>1, <1>2, <1>3 DEF ClientInv, ClientTypeOK, ArgumentsInv

\* pps-client-put and pps-client-get.
LEMMA PutOrGetStep ==
  ASSUME ClientInv, PutClient \/ GetClient, Same
  PROVE  ClientInv'
<1>1. CASE PutClient
  <2>1. PICK v \in Stored : PutAndPrint(argv[1], v)
    BY <1>1 DEF PutClient
  <2>2. command = "put" /\ output = "running" /\ UNCHANGED <<command, argv, numbers, got, asked>>
    BY <1>1 DEF PutClient, Running
  <2>3. argv[1] \in Key
    <3>1. Len(asked) = 1 /\ argv = Left(0) /\ asked \in Seq(Key)
      BY <2>2 DEF ClientInv, ReadInv, ArgumentsInv
    <3>2. argv = asked
      BY <3>1, LeftIs
    <3>. QED
      BY <3>1, <3>2
  <2>4. v \in Text
    BY ClientAssumption DEF Text
  <2>5. SubstrInv' /\ CatIsConcatenation'
    BY <2>2 DEF SubstrInv, CatIsConcatenation
  <2>. QED
    BY <2>1, <2>2, <2>3, <2>4, <2>5, PutKeeps
<1>2. CASE GetClient
  <2>1. command = "get" /\ output = "running"
    BY <1>2 DEF GetClient, Running
  <2>2. CASE ReadNext
    BY <2>1, <2>2, ReadStep DEF MayRead
  <2>3. CASE Fail
    BY <2>1, <2>3, QuitStep DEF Fail
  <2>4. CASE Quit("OK") /\ UNCHANGED <<command, argv, numbers, got, asked>>
    BY <2>1, <2>4, QuitStep
  <2>. QED
    BY <1>2, <2>2, <2>3, <2>4 DEF GetClient
<1>. QED
  BY <1>1, <1>2

\* cat reads a source and puts what it holds behind the others.
LEMMA CatGetStep ==
  ASSUME ClientInv, CatGet
  PROVE  ClientInv'
<1>1. /\ command = "cat" /\ output = "running" /\ Len(argv) > 1
      /\ UNCHANGED <<store, held, command, numbers, output, asked>>
      /\ argv' = Tail(argv) /\ argv \in Seq(Key) /\ asked \in Seq(Key)
  BY DEF CatGet, Running, OneLeft, ClientInv, ClientTypeOK
<1>2. PICK n \in 0..Len(asked) :
        /\ argv = Left(n) /\ (n = 0 \/ n < Len(asked))
        /\ \E f \in Sources(n) : FlattenSeq(f) \in Text /\ Joint = Cut(FlattenSeq(f))
  BY <1>1 DEF ClientInv, ReadInv
<1>3. PICK f \in Sources(n) : FlattenSeq(f) \in Text /\ Joint = Cut(FlattenSeq(f))
  BY <1>2
<1>4. /\ n + 1 < Len(asked) /\ n \in Nat /\ Len(asked) \in Nat
  <2>1. Len(argv) = Len(asked) - n /\ Len(asked) \in Nat /\ n \in Nat
    BY <1>1, <1>2, LeftIs
  <2>. QED
    BY <1>1, <2>1
<1>5. /\ Head(argv) = asked[n + 1] /\ asked[n + 1] \in Key /\ argv' = Left(n + 1) /\ argv' \in Seq(Key)
  <2>1. Head(argv) = asked[n + 1] /\ Tail(argv) = Left(n + 1)
    BY <1>1, <1>2, <1>4, LeftIs
  <2>2. n + 1 \in 0..Len(asked) /\ n + 1 \in 1..Len(asked)
    BY <1>4
  <2>. QED
    BY <1>1, <2>1, <2>2, LeftIs
<1>6. PICK v \in Answers(asked[n + 1]) : got' = <<Joined(Joint, v)>>
  BY <1>5 DEF CatGet
<1>7. v \in Held(asked[n + 1]) /\ v \in Text
  BY <1>1, <1>5, HeldAre
<1>. DEFINE h == [i \in 1..(n + 1) |-> IF i <= n THEN f[i] ELSE v]
<1>8. h \in Sources(n + 1)
  <2>1. /\ f \in [1..n -> UNION {Held(k) : k \in Key}]
        /\ \A i \in 1..n : f[i] \in Held(asked[i])
    BY DEF Sources
  <2>2. v \in UNION {Held(k) : k \in Key}
    BY <1>5, <1>7
  <2>3. \A i \in 1..(n + 1) : i \in 1..n \/ (i = n + 1 /\ ~(i <= n))
    BY <1>4
  <2>4. \A i \in 1..(n + 1) : h[i] \in UNION {Held(k) : k \in Key} /\ h[i] \in Held(asked[i])
    BY <1>4, <1>7, <2>1, <2>2, <2>3
  <2>. QED
    BY <2>4 DEF Sources
<1>9. FlattenSeq(h) = IF n = 0 THEN v ELSE FlattenSeq(f) \o v
  <2>1. /\ DOMAIN f = 1..n /\ Len(f) = n
    <3>1. f \in [1..n -> UNION {Held(k) : k \in Key}]
      BY DEF Sources
    <3>. QED
      BY <1>4, <3>1
  <2>2. Len(h) = n + 1 /\ h[n + 1] = v /\ (n = 0 => h[1] = v) /\ \A i \in 1..n : f[i] = h[i]
    BY <1>4
  <2>. HIDE DEF h
  <2>. QED
    BY <1>4, <2>1, <2>2, FlattenMore
<1>10. FlattenSeq(h) \in Text /\ Joined(Joint, v) = Cut(FlattenSeq(h))
  <2>1. CASE n = 0
    <3>1. f = <<>> /\ FlattenSeq(f) = <<>>
      BY <2>1 DEF Sources, FlattenSeq
    <3>2. <<>> \o v = v
      BY <1>7 DEF Text
    <3>. QED
      BY <1>3, <1>7, <1>9, <2>1, <3>1, <3>2, CutTwice
  <2>2. CASE n # 0
    <3>1. FlattenSeq(f) \o v \in Text
      BY <1>3, <1>7 DEF Text
    <3>. QED
      BY <1>3, <1>7, <1>9, <2>2, <3>1, CutTwice
  <2>. QED
    BY <2>1, <2>2
<1>11. /\ got' \in Seq(Text) /\ Len(got') = 1 /\ Joint' = Cut(FlattenSeq(h))
       /\ got'[1] \in Text /\ Len(got'[1]) <= MaxMsg
  <2>1. Cut(FlattenSeq(h)) \in Text /\ Len(Cut(FlattenSeq(h))) <= MaxMsg
    BY <1>10, CutIs
  <2>2. got' = <<Cut(FlattenSeq(h))>>
    BY <1>6, <1>10
  <2>. HIDE DEF h
  <2>3. got' # <<>> /\ got'[1] = Cut(FlattenSeq(h)) /\ got' \in Seq(Text) /\ Len(got') = 1
    BY <2>1, <2>2
  <2>. QED
    BY <2>1, <2>3 DEF Joint
<1>. HIDE DEF h
<1>12. ReadInv'
  <2>1. Left(n + 1)' = Left(n + 1) /\ Sources(n + 1)' = Sources(n + 1)
    BY <1>1 DEF Left, Sources, Held
  <2>2. n + 1 \in 0..Len(asked) /\ n + 1 < Len(asked)
    BY <1>4
  <2>. QED
    BY <1>1, <1>5, <1>8, <1>10, <1>11, <2>1, <2>2 DEF ReadInv
<1>13. ArgumentsInv' /\ SubstrInv' /\ FindInv' /\ CatIsConcatenation'
  BY <1>1 DEF ArgumentsInv, SubstrInv, FindInv, CatIsConcatenation
<1>. QED
  BY <1>1, <1>5, <1>11, <1>12, <1>13, QuietStep DEF ClientInv, ClientTypeOK

\* cat puts the concatenation.
LEMMA CatPutStep ==
  ASSUME ClientInv, CatPut, Same
  PROVE  ClientInv'
<1>1. /\ command = "cat" /\ output = "running" /\ Len(argv) <= 1
      /\ UNCHANGED <<command, argv, numbers, got, asked>>
      /\ asked \in Seq(Key) /\ argv \in Seq(Key)
  BY DEF CatPut, Running, OneLeft, ClientInv, ClientTypeOK
<1>2. CASE ~(Joint # <<>> /\ KeyLength[argv[1]] # 0)
  BY <1>1, <1>2, QuitStep DEF CatPut
<1>3. CASE Joint # <<>> /\ KeyLength[argv[1]] # 0
  <2>1. PutAndPrint(argv[1], Joint)
    BY <1>3 DEF CatPut
  <2>2. PICK n \in 0..Len(asked) :
          /\ argv = Left(n) /\ (n = 0 \/ n < Len(asked))
          /\ \E f \in Sources(n) : FlattenSeq(f) \in Text /\ Joint = Cut(FlattenSeq(f))
    BY <1>1 DEF ClientInv, ReadInv
  <2>3. PICK f \in Sources(n) : FlattenSeq(f) \in Text /\ Joint = Cut(FlattenSeq(f))
    BY <2>2
  <2>4. n < Len(asked)
    <3>1. CASE n = 0
      <4>1. FlattenSeq(f) = <<>>
        BY <3>1 DEF Sources, FlattenSeq
      <4>2. Cut(<<>>) = <<>>
        BY ConfigAssumption DEF Cut
      <4>. QED
        BY <1>3, <2>3, <4>1, <4>2
    <3>. QED
      BY <2>2, <3>1
  <2>5. n = Len(asked) - 1 /\ Len(asked) \in Nat \ {0} /\ argv[1] = asked[Len(asked)]
    <3>1. Len(argv) = Len(asked) - n /\ argv[1] = asked[n + 1] /\ n \in Nat /\ Len(asked) \in Nat
      BY <1>1, <2>2, <2>4, LeftIs
    <3>. QED
      BY <1>1, <2>4, <3>1
  <2>6. argv[1] \in Key /\ argv[1] = Last(asked)
    BY <1>1, <2>5 DEF Last
  <2>7. Joint \in Text
    BY <2>3, CutIs
  <2>8. CatIsConcatenation'
    <3>1. ASSUME output' = "OK"
          PROVE  /\ f \in [1..(Len(asked) - 1) -> UNION {Held(k) : k \in Key}]
                 /\ \A i \in DOMAIN f : f[i] \in Held(asked[i])
                 /\ store'[Last(asked)] = FlattenSeq(f)
      <4>1. store'[argv[1]] = Joint /\ KeyLength[argv[1]] + 1 + Len(Joint) <= MaxMsg
        BY <2>1, <2>6, <2>7, <3>1, PutStep
      <4>2. Len(Joint) < MaxMsg
        <5>1. KeyLength[argv[1]] \in Nat /\ Len(Joint) \in Nat /\ MaxMsg \in Nat
          BY <2>6, <2>7, CutIs, ConfigAssumption
        <5>. QED
          BY <4>1, <5>1
      <4>3. Joint = FlattenSeq(f)
        BY <2>3, <4>2, CutIs
      <4>4. f \in [1..n -> UNION {Held(k) : k \in Key}] /\ \A i \in 1..n : f[i] \in Held(asked[i])
        BY DEF Sources
      <4>. QED
        BY <2>5, <2>6, <4>1, <4>3, <4>4
    <3>2. UNCHANGED <<held, asked>> /\ \A k : Held(k)' = Held(k)
      BY <1>1, <2>1, <2>6, <2>7, PutStep DEF Held
    <3>. QED
      BY <3>1, <3>2 DEF CatIsConcatenation, Put
  <2>9. SubstrInv'
    BY <1>1 DEF SubstrInv
  <2>. QED
    BY <1>1, <2>1, <2>6, <2>7, <2>8, <2>9, PutKeeps
<1>. QED
  BY <1>2, <1>3

\* cat ends without a put.
LEMMA CatFailsStep ==
  ASSUME ClientInv, CatFails, Same
  PROVE  ClientInv'
BY QuitStep DEF CatFails, Fail, Running

\* strstr finds the first place, or none.
LEMMA StrStrIs ==
  ASSUME NEW v \in Others, NEW s \in Others
  PROVE  LET p == StrStr(v, s)
         IN  \/ p = -1 /\ \A i \in 0..Len(v) : ~OccursAt(v, s, i)
             \/ /\ p \in 0..Len(v) /\ OccursAt(v, s, p)
                /\ \A i \in 0..Len(v) : i < p => ~OccursAt(v, s, i)
<1>1. Len(v) \in Nat
  BY DEF Others
<1>2. CASE Occurrences(v, s) = {}
  BY <1>2 DEF StrStr, Occurrences
<1>3. CASE Occurrences(v, s) # {}
  <2>1. Occurrences(v, s) \subseteq Nat
    BY <1>1 DEF Occurrences
  <2>2. \E i \in Occurrences(v, s) : \A j \in Occurrences(v, s) : i <= j
    BY <1>3, <2>1, Smallest
  <2>3. StrStr(v, s) \in Occurrences(v, s) /\ \A j \in Occurrences(v, s) : StrStr(v, s) <= j
    BY <1>3, <2>2 DEF StrStr
  <2>4. PICK p \in 0..Len(v) : p = StrStr(v, s) /\ OccursAt(v, s, p)
                               /\ \A j \in 0..Len(v) : OccursAt(v, s, j) => p <= j
    BY <2>3 DEF Occurrences
  <2>. QED
    BY <1>1, <2>4
<1>. QED
  BY <1>2, <1>3

\* pps-client-find.
LEMMA FindStep ==
  ASSUME ClientInv, FindClient, Same
  PROVE  ClientInv'
<1>1. command = "find" /\ output = "running"
  BY DEF FindClient, Running
<1>2. CASE ReadNext
  BY <1>1, <1>2, ReadStep DEF MayRead
<1>3. CASE Fail
  BY <1>1, <1>3, QuitStep DEF Fail
<1>4. CASE /\ Len(got) = 2 /\ numbers' = <<StrStr(got[1], got[2]), 0>> /\ Quit("OK")
           /\ UNCHANGED <<command, argv, got, asked>>
  <2>1. UNCHANGED <<store, held>> /\ output' = "OK"
    BY <1>4 DEF Quit
  <2>2. got[1] \in Others /\ got[2] \in Others
    <3>1. /\ Len(asked) = 2 /\ asked \in Seq(Key) /\ got \in Seq(Text)
          /\ \A i \in 1..Len(got) : got[i] \in Held(asked[i])
      BY <1>1 DEF ClientInv, ArgumentsInv, ReadInv
    <3>2. asked[1] \in Key /\ asked[2] \in Key /\ got[1] \in Held(asked[1]) /\ got[2] \in Held(asked[2])
      BY <1>4, <3>1
    <3>. QED
      BY <3>2, HeldAre
  <2>3. StrStr(got[1], got[2]) \in -1..MaxMsg
    <3>1. Len(got[1]) \in Nat /\ Len(got[1]) <= MaxMsg /\ MaxMsg \in Nat
      BY <2>2, ConfigAssumption DEF Others, Short
    <3>. QED
      BY <2>2, <3>1, StrStrIs
  <2>4. numbers' \in (-1..MaxMsg) \X {0} /\ numbers'[1] = StrStr(got[1], got[2])
    BY <1>4, <2>3
  <2>5. ReadInv'
    BY <1>1, <1>4, <2>1 DEF ClientInv, ReadInv, Held, Left
  <2>6. FindInv' /\ SubstrInv' /\ CatIsConcatenation'
    BY <1>1, <1>4, <2>4 DEF FindInv, SubstrInv, CatIsConcatenation
  <2>. QED
    BY <1>4, <2>1, <2>4, <2>5, <2>6 DEF ClientInv, ClientTypeOK, ArgumentsInv
<1>. QED
  BY <1>2, <1>3, <1>4 DEF FindClient

\* Numbers of substr are below the bounds of the types they are read as.
LEMMA CountIs ==
  ASSUME ClientTypeOK
  PROVE  /\ Count \in Nat /\ (numbers[2] >= 0 => Count = numbers[2])
         /\ numbers[1] \in Int /\ numbers[2] \in Int /\ numbers[1] <= MaxInt /\ numbers[2] <= MaxInt
         /\ MaxMsg \in Nat /\ MaxInt \in Nat /\ Word \in Nat \ {0}
         /\ \A n \in Nat : n < Word => n % Word = n
<1>1. MaxMsg \in Nat /\ MaxInt \in Nat /\ Word \in Nat \ {0} /\ MaxMsg <= MaxInt /\ MaxInt < Word
  BY ConfigAssumption, ClientAssumption
<1>2. \A n \in Numbers : n \in Int /\ n <= MaxInt
  <2>1. Word \div 2 \in Int
    BY <1>1
  <2>. QED
    BY <1>1, <2>1, ClientAssumption
<1>3. numbers[1] \in Int /\ numbers[2] \in Int /\ numbers[1] <= MaxInt /\ numbers[2] <= MaxInt
  BY <1>1, <1>2 DEF ClientTypeOK
<1>4. \A n \in Nat : n < Word => n % Word = n
  BY <1>1
<1>5. \A n \in Int : n % Word \in Nat
  BY <1>1
<1>. QED
  BY <1>1, <1>3, <1>4, <1>5 DEF Count

\* What substr puts is a text.
LEMMA TextsAre ==
  ASSUME NEW v \in Others, Count \in Nat
  PROVE  Texts(v) \subseteq Text
<1>2. Slice(v) \in [1..Count -> Letter \cup {Junk}]
  BY DEF Slice, Others
<1>3. Slice(v) \in Text /\ Append(Slice(v), Junk) \in Text /\ <<>> \in Text
  BY <1>2 DEF Text
<1>. QED
  BY <1>3 DEF Texts

\* pps-client-substr.
LEMMA SubstrStep ==
  ASSUME ClientInv, SubstrClient, Same
  PROVE  ClientInv'
<1>1. command = "substr" /\ output = "running" /\ (BadLength' <=> BadLength)
  <2>1. command = "substr" /\ output = "running" /\ UNCHANGED numbers
    BY DEF SubstrClient, Running, ReadNext, Fail
  <2>. QED
    BY <2>1 DEF BadLength, Same, Final
<1>2. CASE ~BadLength /\ got = <<>> /\ ReadNext
  BY <1>1, <1>2, ReadStep DEF MayRead
<1>3. CASE Fail
  BY <1>1, <1>3, QuitStep DEF Fail
<1>4. CASE /\ got # <<>>
           /\ IF Beyond(got[1]) THEN Quit("FAIL")
              ELSE IF Count > MaxMsg THEN Quit("crash")
              ELSE \E text \in Texts(got[1]) : PutAndPrint(argv[1], text)
           /\ UNCHANGED <<command, argv, numbers, got, asked>>
  <2>1. /\ Len(got) = 1 /\ ~BadLength /\ got[1] \in Held(asked[1])
        /\ argv = Left(1) /\ asked \in Seq(Key) /\ Len(asked) = 2
    <3>1. Len(got) <= 1 /\ ~BadLength /\ got \in Seq(Text) /\ asked \in Seq(Key) /\ Len(asked) = 2
      BY <1>1, <1>4 DEF ClientInv, SubstrInv, ArgumentsInv
    <3>2. Len(got) = 1
      <4>1. Len(got) \in Nat /\ (Len(got) = 0 => got = <<>>)
        BY <3>1
      <4>. QED
        BY <1>4, <3>1, <4>1
    <3>. QED
      BY <1>1, <3>1, <3>2 DEF ClientInv, ReadInv
  <2>2. /\ asked[1] \in Key /\ asked[2] \in Key /\ argv[1] = asked[2] /\ Last(asked) = asked[2]
        /\ got[1] \in Others
    <3>1. asked[1] \in Key /\ asked[2] \in Key /\ Last(asked) = asked[2]
      <4>1. asked \in Seq(Key) /\ 1 \in 1..Len(asked) /\ 2 \in 1..Len(asked)
        BY <2>1
      <4>2. Last(asked) = asked[2]
        BY <2>1 DEF Last
      <4>. QED
        BY <4>1, <4>2
    <3>2. argv[1] = asked[2]
      <4>1. asked \in Seq(Key) /\ 1 \in 0..Len(asked) /\ 1 < Len(asked) /\ 1 + 1 = 2
        BY <2>1
      <4>2. Left(1)[1] = asked[1 + 1]
        BY <4>1, LeftIs
      <4>. QED
        BY <2>1, <4>1, <4>2
    <3>. QED
      BY <2>1, <3>1, <3>2, HeldAre
  <2>3. CASE Beyond(got[1])
    BY <1>1, <1>4, <2>3, QuitStep
  <2>4. CASE ~Beyond(got[1]) /\ Count > MaxMsg
    <3>1. output' = "crash" /\ UNCHANGED <<store, held>>
      BY <1>4, <2>4 DEF Quit
    <3>2. Count' = Count /\ Beyond(got[1])' = Beyond(got[1]) /\ Held(asked[1])' = Held(asked[1])
      BY <1>4, <3>1 DEF Count, Beyond, Position, Held
    <3>3. SubstrInv'
      BY <1>1, <1>4, <2>1, <2>4, <3>1, <3>2 DEF SubstrInv
    <3>4. FindInv' /\ CatIsConcatenation' /\ ReadInv' /\ ArgumentsInv'
      BY <1>1, <1>4, <3>1 DEF ClientInv, FindInv, CatIsConcatenation, ReadInv, ArgumentsInv, Held, Left
    <3>. QED
      BY <1>4, <3>1, <3>3, <3>4 DEF ClientInv, ClientTypeOK
  <2>5. CASE ~Beyond(got[1]) /\ ~(Count > MaxMsg)
    <3>1. PICK text \in Texts(got[1]) : PutAndPrint(argv[1], text)
      BY <1>4, <2>5
    <3>2. Count \in Nat
      BY CountIs DEF ClientInv
    <3>3. text \in Text
      BY <2>2, <3>1, <3>2, TextsAre
    <3>4. /\ output' \in {"OK", "FAIL"} /\ UNCHANGED held
          /\ output' = "OK" => store'[argv[1]] = text
      BY <2>2, <3>1, <3>3, PutStep
    <3>5. SubstrInv'
      <4>1. /\ Beyond(got[1])' = Beyond(got[1]) /\ Texts(got[1])' = Texts(got[1])
            /\ Held(asked[1])' = Held(asked[1])
        BY <1>4, <3>4, Zenon DEF Count, Beyond, Position, Texts, Slice, Held
      <4>2. Len(got') = 1 /\ ~BadLength' /\ output' # "crash"
        BY <1>1, <1>4, <2>1, <3>4
      <4>3. output' = "OK" => store'[Last(asked)] \in Texts(got[1])
        BY <2>2, <3>1, <3>4
      <4>4. got' = got /\ asked' = asked
        BY <1>4
      <4>5. got'[1] \in Held(asked[1])' /\ ~Beyond(got[1])'
        BY <2>1, <2>5, <4>1, <4>4, Zenon
      <4>6. output' = "OK" => Put' \in Texts(got[1])'
        BY <4>1, <4>3, <4>4, Zenon DEF Put
      <4>. QED
        BY <4>2, <4>4, <4>5, <4>6 DEF SubstrInv
    <3>. QED
      BY <1>1, <1>4, <2>2, <3>1, <3>3, <3>5, PutKeeps DEF CatIsConcatenation
  <2>. QED
    BY <2>3, <2>4, <2>5
<1>. QED
  BY <1>2, <1>3, <1>4 DEF SubstrClient

\* Every step of the clients keeps the invariant.
LEMMA ClientStep ==
  ASSUME ClientInv, ClientNext, Same
  PROVE  ClientInv'
BY PutOrGetStep, CatGetStep, CatFailsStep, CatPutStep, FindStep, SubstrStep, OtherPutStep
   DEF ClientNext, ClientWork

\* A step of another program leaves the clients alone.
LEMMA ClientStays ==
  ASSUME ClientInv, UNCHANGED <<release, faults, clientVars>>
  PROVE  ClientInv'
<1>1. /\ ReadInv' = ReadInv /\ FindInv' = FindInv /\ CatIsConcatenation' = CatIsConcatenation
      /\ ArgumentsInv' = ArgumentsInv /\ ClientTypeOK' = ClientTypeOK
  BY DEF clientVars, ReadInv, FindInv, CatIsConcatenation, ArgumentsInv, ClientTypeOK, Held, Left,
         Sources, Joint, Put
<1>2. SubstrInv' = SubstrInv
  BY DEF clientVars, SubstrInv, BadLength, Final, Beyond, Position, Count, Texts, Slice, Put, Held
<1>. QED
  BY <1>1, <1>2 DEF clientVars, ClientInv

\* Where a value begins in another one.
LEMMA OccursIs ==
  ASSUME NEW v \in Others, NEW s \in Others, NEW i \in 0..Len(v)
  PROVE  OccursAt(v, s, i) <=> IsPrefix(s, SubSeq(v, i + 1, Len(v)))
<1>. DEFINE r == SubSeq(v, i + 1, Len(v))
<1>1. /\ v \in Seq(Letter) /\ s \in Seq(Letter) /\ Len(v) \in Nat /\ Len(s) \in Nat /\ i \in Nat
      /\ i <= Len(v)
  BY DEF Others
<1>2. r \in Seq(Letter) /\ Len(r) = Len(v) - i /\ \A j \in 1..(Len(v) - i) : r[j] = v[i + j]
  BY <1>1
<1>. HIDE DEF r
<1>3. i + Len(s) <= Len(v) <=> Len(s) <= Len(r)
  BY <1>1, <1>2
<1>4. ASSUME Len(s) <= Len(r)
      PROVE  SubSeq(v, i + 1, i + Len(s)) = s <=> SubSeq(s, 1, Len(s)) = SubSeq(r, 1, Len(s))
  <2>. DEFINE a == SubSeq(v, i + 1, i + Len(s))
              b == SubSeq(r, 1, Len(s))
  <2>1. a \in Seq(Letter) /\ Len(a) = Len(s) /\ \A j \in 1..Len(s) : a[j] = v[i + j]
    <3>1. i + Len(s) <= Len(v)
      BY <1>3, <1>4
    <3>2. i + Len(s) <= Len(v) /\ v \in Seq(Letter) /\ i \in Nat /\ Len(s) \in Nat
      BY <1>1, <3>1
    <3>3. /\ SubSeq(v, i + 1, i + Len(s)) \in Seq(Letter)
          /\ Len(SubSeq(v, i + 1, i + Len(s))) = Len(s)
          /\ \A j \in 1..Len(s) : SubSeq(v, i + 1, i + Len(s))[j] = v[i + j]
      <4>1. PICK k \in Nat : k = Len(s)
        BY <3>2
      <4>2. /\ SubSeq(v, i + 1, i + k) \in Seq(Letter) /\ Len(SubSeq(v, i + 1, i + k)) = k
            /\ \A j \in 1..k : SubSeq(v, i + 1, i + k)[j] = v[i + j]
        BY <3>2, <4>1, PartIs
      <4>. QED
        BY <4>1, <4>2
    <3>. QED
      BY <3>3
  <2>2. b \in Seq(Letter) /\ Len(b) = Len(s) /\ \A j \in 1..Len(s) : b[j] = r[j]
    BY <1>1, <1>2, <1>4
  <2>3. SubSeq(s, 1, Len(s)) = s
    BY <1>1
  <2>. HIDE DEF a, b
  <2>4. \A j \in 1..Len(s) : a[j] = b[j]
    BY <1>1, <1>2, <1>4, <2>1, <2>2
  <2>5. a = b
    BY <2>1, <2>2, <2>4, SameSeq
  <2>. QED
    BY <2>3, <2>5 DEF a, b
<1>. QED
  BY <1>3, <1>4 DEF OccursAt, IsPrefix, r

\* What find prints is the first place of the second value in the first.
LEMMA FindInvSuffices ==
  ASSUME ClientInv
  PROVE  FindIsFirst
<1>. SUFFICES ASSUME command = "find", output = "OK"
              PROVE  \E v \in Held(asked[1]), s \in Held(asked[2]) :
                       LET before == IF numbers[1] = -1 THEN Len(v) + 1 ELSE numbers[1]
                       IN  /\ \A i \in 0..(before - 1) : ~IsPrefix(s, SubSeq(v, i + 1, Len(v)))
                           /\ numbers[1] # -1 =>
                                IsPrefix(s, SubSeq(v, numbers[1] + 1, Len(v)))
  BY DEF FindIsFirst
<1>1. /\ Len(asked) = 2 /\ asked \in Seq(Key) /\ Len(got) = 2 /\ numbers[1] = StrStr(got[1], got[2])
      /\ \A i \in 1..Len(got) : got[i] \in Held(asked[i])
  BY DEF ClientInv, ArgumentsInv, ReadInv, FindInv
<1>2. PICK v \in Held(asked[1]), s \in Held(asked[2]) : numbers[1] = StrStr(v, s)
  BY <1>1
<1>3. v \in Others /\ s \in Others
  BY <1>1, HeldAre
<1>4. Len(v) \in Nat /\ \A i \in 0..Len(v) : OccursAt(v, s, i) <=> IsPrefix(s, SubSeq(v, i + 1, Len(v)))
  BY <1>3, OccursIs DEF Others
<1>5. CASE numbers[1] = -1 /\ \A i \in 0..Len(v) : ~OccursAt(v, s, i)
  BY <1>4, <1>5
<1>6. CASE /\ numbers[1] \in 0..Len(v) /\ OccursAt(v, s, numbers[1])
           /\ \A i \in 0..Len(v) : i < numbers[1] => ~OccursAt(v, s, i)
  BY <1>4, <1>6
<1>. QED
  BY <1>2, <1>3, <1>5, <1>6, StrStrIs

\* A slice inside the value is what is asked for.
LEMMA SliceIs ==
  ASSUME NEW v \in Others, NEW p \in Nat, NEW n \in Nat, p + n <= Len(v),
         Position(v) = p, Count = n, NEW text \in Texts(v)
  PROVE  IsPrefix(SubSeq(v, p + 1, p + n), text)
<1>1. v \in Seq(Letter) /\ Len(v) \in Nat /\ p <= Len(v) /\ Junk \notin Letter
  BY ClientAssumption DEF Others
<1>2. Slice(v) = [i \in 1..n |-> IF p + i \in DOMAIN v THEN v[p + i] ELSE Junk]
  BY <1>1 DEF Slice
<1>3. \A i \in 1..n : p + i \in DOMAIN v /\ v[p + i] \in Letter
  BY <1>1
<1>4. Slice(v) \in Seq(Letter) /\ Len(Slice(v)) = n /\ \A i \in 1..n : Slice(v)[i] = v[p + i]
  <2>1. Slice(v) = [i \in 1..n |-> v[p + i]]
    BY <1>2, <1>3
  <2>2. /\ Slice(v) \in [1..n -> Letter] /\ \A i \in 1..n : Slice(v)[i] = v[p + i]
    BY <1>3, <2>1
  <2>3. \A f \in [1..n -> Letter] : f \in Seq(Letter) /\ Len(f) = n
    OBVIOUS
  <2>. QED
    BY <2>2, <2>3
<1>. DEFINE a == SubSeq(v, p + 1, p + n)
<1>5. a \in Seq(Letter) /\ Len(a) = n /\ \A i \in 1..n : a[i] = v[p + i]
  BY <1>1
<1>. HIDE DEF a
<1>6. a = Slice(v)
  <2>1. Len(a) = Len(Slice(v)) /\ \A i \in 1..Len(a) : a[i] = Slice(v)[i]
    BY <1>4, <1>5
  <2>. QED
    BY <1>4, <1>5, <2>1, SameSeq
<1>7. Junk \notin ToSet(Slice(v))
  BY <1>1, <1>4 DEF ToSet
<1>8. text = Slice(v) \/ text = Append(Slice(v), Junk)
  BY <1>7 DEF Texts
<1>9. \A s \in Seq(Letter) : IsPrefix(s, s) /\ IsPrefix(s, Append(s, Junk))
  <2>. SUFFICES ASSUME NEW s \in Seq(Letter) PROVE IsPrefix(s, s) /\ IsPrefix(s, Append(s, Junk))
    OBVIOUS
  <2>. DEFINE t == Append(s, Junk)
  <2>1. /\ t \in Seq(Letter \cup {Junk}) /\ Len(t) = Len(s) + 1 /\ \A i \in 1..Len(s) : t[i] = s[i]
        /\ s \in Seq(Letter \cup {Junk}) /\ Len(s) \in Nat
    OBVIOUS
  <2>. HIDE DEF t
  <2>. DEFINE u == SubSeq(t, 1, Len(s))
  <2>2. u \in Seq(Letter \cup {Junk}) /\ Len(u) = Len(s) /\ \A i \in 1..Len(s) : u[i] = t[i]
    BY <2>1
  <2>. HIDE DEF u
  <2>3. u = s
    BY <2>1, <2>2, SameSeq
  <2>4. SubSeq(s, 1, Len(s)) = s
    OBVIOUS
  <2>. QED
    BY <2>1, <2>3, <2>4 DEF IsPrefix, t, u
<1>. HIDE DEF a
<1>10. IsPrefix(a, text)
  BY <1>4, <1>6, <1>8, <1>9
<1>. QED
  BY <1>10 DEF a

\* What substr puts is the slice that was asked for.
LEMMA SubstrInvSuffices ==
  ASSUME ClientInv
  PROVE  SubstrIsSlice
<1>. DEFINE start(v) == IF numbers[1] < 0 THEN Len(v) + numbers[1] ELSE numbers[1]
<1>. SUFFICES ASSUME command = "substr", Final, \A v \in Held(asked[1]) : start(v) >= 0,
                     output \in {"OK", "crash"}
              PROVE  /\ output # "crash"
                     /\ \E v \in Held(asked[1]) :
                          /\ start(v) + numbers[2] <= Len(v)
                          /\ IsPrefix(SubSeq(v, start(v) + 1, start(v) + numbers[2]), Put)
  BY DEF SubstrIsSlice
<1>1. PICK v \in Held(asked[1]) :
        /\ ~BadLength /\ ~Beyond(v)
        /\ output = "crash" => Count > MaxMsg
        /\ output = "OK" => Put \in Texts(v)
  BY DEF ClientInv, SubstrInv
<1>2. /\ numbers[1] \in Int /\ numbers[2] \in Int /\ numbers[1] <= MaxInt /\ numbers[2] <= MaxInt
      /\ numbers[2] >= 0 /\ Count = numbers[2] /\ MaxInt \in Nat /\ MaxMsg \in Nat /\ Word \in Nat \ {0}
      /\ \A n \in Nat : n < Word => n % Word = n
      /\ 2 * MaxInt < Word /\ MaxMsg <= MaxInt
  BY <1>1, CountIs, ClientAssumption DEF ClientInv, BadLength
<1>3. v \in Others /\ Len(v) \in Nat /\ Len(v) <= MaxMsg
  <2>1. asked \in Seq(Key) /\ Len(asked) = 2
    BY DEF ClientInv, ArgumentsInv
  <2>2. asked[1] \in Key
    BY <2>1
  <2>. QED
    BY <2>2, HeldAre DEF Others, Short
<1>4. PICK p \in Nat : p = start(v) /\ p <= MaxInt
  BY <1>2, <1>3
<1>5. Position(v) = p
  BY <1>2, <1>4 DEF Position
<1>6. p + Count <= Len(v)
  <2>1. p + Count \in Nat /\ p + Count < Word
    <3>1. /\ numbers[2] \in Nat /\ numbers[2] <= MaxInt /\ Count = numbers[2]
          /\ MaxInt \in Nat /\ Word \in Nat /\ 2 * MaxInt < Word
      BY <1>2
    <3>2. p \in Nat /\ p <= MaxInt
      BY <1>4
    <3>. QED
      BY <3>1, <3>2
  <2>2. (p + Count) % Word = p + Count
    BY <1>2, <2>1
  <2>. QED
    BY <1>1, <1>3, <1>5, <2>1, <2>2 DEF Beyond
<1>7. output = "OK" /\ Put \in Texts(v)
  BY <1>1, <1>2, <1>3, <1>4, <1>6
<1>8. IsPrefix(SubSeq(v, p + 1, p + numbers[2]), Put)
  BY <1>2, <1>3, <1>5, <1>6, <1>7, SliceIs
<1>. QED
  BY <1>2, <1>4, <1>6, <1>7, <1>8

-----------------------------------------------------------------------------
(* pps-dump-node.                                                           *)

\* g[s] is the list of packets when the pairs of list at the places s are packed.
IsPacked(g, base, list, n) ==
  g = [s \in SUBSET (1..n) |->
        IF s = {} THEN base ELSE LET x == Max(s) IN Pack(g[s \ {x}], list[x])]

\* The greatest of the numbers up to n is n, if it is among them.
LEMMA MaxIs ==
  ASSUME NEW n \in Nat, NEW s \in SUBSET (1..n), n \in s
  PROVE  Max(s) = n
<1>1. n \in s /\ \A y \in s : n >= y
  OBVIOUS
<1>2. PICK m : m = Max(s)
  OBVIOUS
<1>3. m \in s /\ \A y \in s : m >= y
  BY <1>1, <1>2 DEF Max
<1>4. m \in Int
  BY <1>3
<1>5. m >= n /\ n >= m
  BY <1>1, <1>3
<1>6. m = n
  BY <1>4, <1>5
<1>. QED
  BY <1>2, <1>6

\* FoldLeft, down to the packed subset of all places.
LEMMA FoldIs ==
  ASSUME NEW base, NEW list, NEW n \in Nat, DOMAIN list = 1..n
  PROVE  FoldLeft(Pack, base, list) = (CHOOSE g : IsPacked(g, base, list, n))[1..n]
<1>1. FoldLeft(Pack, base, list) = (CHOOSE g : IsPacked(g, base, list, n))[DOMAIN list]
  BY DEF FoldLeft, MapThenFoldSet, IsPacked
<1>. QED
  BY <1>1

\* There is such a function, by the smallest n that has none.
LEMMA PackedExists ==
  ASSUME NEW base, NEW list, NEW n \in Nat
  PROVE  \E g : IsPacked(g, base, list, n)
<1>. DEFINE T == {m \in Nat : ~ \E g : IsPacked(g, base, list, m)}
<1>1. ASSUME T # {}
      PROVE  FALSE
  <2>1. PICK m \in T : \A k \in T : m <= k
    BY <1>1, Smallest
  <2>2. m # 0
    <3>1. \A s \in SUBSET (1..0) : s = {}
      OBVIOUS
    <3>2. IsPacked([s \in SUBSET (1..0) |-> base], base, list, 0)
      BY <3>1, Zenon DEF IsPacked
    <3>. QED
      BY <2>1, <3>2
  <2>3. PICK k \in Nat : m = k + 1 /\ k \notin T
    <3>1. m - 1 \in Nat /\ m = (m - 1) + 1 /\ m - 1 < m
      BY <2>1, <2>2
    <3>. QED
      BY <2>1, <3>1
  <2>4. PICK g : IsPacked(g, base, list, k)
    BY <2>3
  <2>. DEFINE h == [s \in SUBSET (1..m) |->
                     IF m \in s THEN Pack(g[s \ {m}], list[m]) ELSE g[s]]
  <2>5. ASSUME NEW s \in SUBSET (1..m)
        PROVE  h[s] = IF s = {} THEN base
                      ELSE LET x == Max(s) IN Pack(h[s \ {x}], list[x])
    <3>1. CASE m \in s
      <4>1. Max(s) = m
        BY <2>1, <2>5, <3>1, MaxIs
      <4>2. s \ {m} \in SUBSET (1..m) /\ m \notin s \ {m}
        BY <2>5
      <4>3. h[s \ {m}] = g[s \ {m}] /\ h[s] = Pack(g[s \ {m}], list[m])
        BY <2>5, <3>1, <4>2, Zenon
      <4>. QED
        BY <3>1, <4>1, <4>3, Zenon
    <3>2. CASE m \notin s
      <4>1. s \in SUBSET (1..k)
        BY <2>3, <2>5, <3>2
      <4>2. \A x : s \ {x} \in SUBSET (1..m) /\ m \notin s \ {x}
        BY <2>5, <3>2
      <4>3. h[s] = g[s] /\ \A x : h[s \ {x}] = g[s \ {x}]
        BY <2>5, <3>2, <4>2, Zenon
      <4>4. g[s] = IF s = {} THEN base ELSE LET x == Max(s) IN Pack(g[s \ {x}], list[x])
        BY <2>4, <4>1, Zenon DEF IsPacked
      <4>. QED
        BY <4>3, <4>4, Zenon
    <3>. QED
      BY <3>1, <3>2
  <2>6. IsPacked(h, base, list, m)
    BY <2>5, Zenon DEF IsPacked
  <2>. QED
    BY <2>1, <2>6
<1>. QED
  BY <1>1

\* Packing a list one pair at a time.
LEMMA PackSteps ==
  ASSUME NEW base, NEW list, NEW n \in Nat, DOMAIN list = 1..n
  PROVE  \E f : /\ f[0] = base
                /\ \A m \in 1..n : f[m] = Pack(f[m - 1], list[m])
                /\ f[n] = FoldLeft(Pack, base, list)
<1>. DEFINE g == CHOOSE g : IsPacked(g, base, list, n)
            f == [m \in 0..n |-> g[1..m]]
<1>1. IsPacked(g, base, list, n)
  BY PackedExists, Zenon
<1>2. FoldLeft(Pack, base, list) = g[1..n]
  BY FoldIs, Zenon
<1>. HIDE DEF g
<1>3. f[0] = base
  <2>1. 1..0 = {} /\ 1..0 \in SUBSET (1..n) /\ 0 \in 0..n
    OBVIOUS
  <2>2. g[{}] = base
    BY <1>1, <2>1, Zenon DEF IsPacked
  <2>. QED
    BY <2>1, <2>2, Zenon
<1>4. ASSUME NEW m \in 1..n
      PROVE  f[m] = Pack(f[m - 1], list[m])
  <2>1. /\ 1..m \in SUBSET (1..n) /\ 1..m # {} /\ (1..m) \ {m} = 1..(m - 1)
        /\ m \in 0..n /\ m - 1 \in 0..n
    <3>1. m \in Nat /\ m <= n /\ 1 <= m
      BY <1>4
    <3>2. \A x : x \in (1..m) \ {m} <=> x \in 1..(m - 1)
      BY <3>1
    <3>3. \A x \in 1..m : x \in 1..n
      BY <3>1
    <3>. QED
      BY <3>1, <3>2, <3>3
  <2>2. Max(1..m) = m
    BY <1>4, MaxIs
  <2>3. g[1..m] = LET x == Max(1..m) IN Pack(g[(1..m) \ {x}], list[x])
    BY <1>1, <2>1, Zenon DEF IsPacked
  <2>4. g[1..m] = Pack(g[1..(m - 1)], list[m])
    BY <2>1, <2>2, <2>3, Zenon
  <2>5. f[m] = g[1..m] /\ f[m - 1] = g[1..(m - 1)]
    BY <2>1, Zenon
  <2>. QED
    BY <2>4, <2>5, Zenon
<1>5. f[n] = g[1..n]
  <2>1. n \in 0..n
    OBVIOUS
  <2>. QED
    BY <2>1, Zenon
<1>. QED
  BY <1>2, <1>3, <1>4, <1>5, Zenon

\* The packets, and those that are read from the socket.
Packet == [count : Nat \cup {Unread}, pairs : Seq(Key \X Value), size : 0..MaxMsg]

\* A packet is made of its fields.
LEMMA PacketIs ==
  ASSUME NEW q \in Packet
  PROVE  /\ q.pairs \in Seq(Key \X Value) /\ Len(q.pairs) \in Nat
         /\ DOMAIN q.pairs = 1..Len(q.pairs)
         /\ q.size \in Nat /\ q.size \in 0..MaxMsg /\ q.count \in Nat \cup {Unread}
         /\ q = [count |-> q.count, pairs |-> q.pairs, size |-> q.size]
<1>1. q.pairs \in Seq(Key \X Value) /\ q.size \in 0..MaxMsg /\ q.count \in Nat \cup {Unread}
  BY DEF Packet
<1>2. q = [count |-> q.count, pairs |-> q.pairs, size |-> q.size]
  BY DEF Packet
<1>. QED
  BY <1>1, <1>2, ConfigAssumption

\* Two of its fields are set.
LEMMA Filled ==
  ASSUME NEW q \in Packet, NEW d, NEW z
  PROVE  [q EXCEPT !.pairs = d, !.size = z] = [count |-> q.count, pairs |-> d, size |-> z]
<1>1. PICK c, d0, z0 : q = [count |-> c, pairs |-> d0, size |-> z0]
  BY PacketIs
<1>2. [q EXCEPT !.pairs = d, !.size = z] = [[q EXCEPT !.pairs = d] EXCEPT !.size = z]
  OBVIOUS
<1>3. [q EXCEPT !.pairs = d] = [count |-> c, pairs |-> d, size |-> z0]
  BY <1>1
<1>4. [[count |-> c, pairs |-> d, size |-> z0] EXCEPT !.size = z]
        = [count |-> c, pairs |-> d, size |-> z]
  OBVIOUS
<1>5. q.count = c
  BY <1>1
<1>. QED
  BY <1>2, <1>3, <1>4, <1>5, Zenon

\* A pair that fits goes into the last packet.
LEMMA PackFills ==
  ASSUME NEW l \in Seq(Packet), Len(l) > 0, NEW p, FitsIn(Last(l), p)
  PROVE  LET q == l[Len(l)]
         IN  Pack(l, p) = [l EXCEPT ![Len(l)] = [count |-> q.count,
                                                 pairs |-> Append(q.pairs, p),
                                                 size |-> q.size + PairSize(p)]]
<1>. DEFINE q == l[Len(l)]
            r == [l EXCEPT ![Len(l)].pairs = Append(@, p), ![Len(l)].size = @ + PairSize(p)]
            f == [q EXCEPT !.pairs = Append(q.pairs, p), !.size = q.size + PairSize(p)]
<1>1. Len(l) \in DOMAIN l /\ q \in Packet
  OBVIOUS
<1>2. r = [l EXCEPT ![Len(l)] = f]
  BY <1>1
<1>3. f = [count |-> q.count, pairs |-> Append(q.pairs, p), size |-> q.size + PairSize(p)]
  BY <1>1, Filled
<1>4. Pack(l, p) = r
  BY Zenon DEF Pack
<1>. QED
  BY <1>2, <1>3, <1>4, Zenon

\* The pairs of a packet begin where those of the one before it end.
Adjoin(l, off) ==
  /\ off[1] = 0
  /\ \A j \in 1..Len(l) : j < Len(l) => off[j + 1] = off[j] + Len(l[j].pairs)

\* The packets l hold the first m pairs of t: packet j those behind the place off[j].
Holds(l, off, t, m) ==
  /\ l \in Seq(Packet) /\ Len(l) > 0 /\ off \in [1..Len(l) -> 0..m]
  /\ l[1].count = Len(t)
  /\ \A j \in 1..Len(l) :
       /\ j > 1 => l[j].count = Unread /\ Len(l[j].pairs) > 0
       /\ off[j] + Len(l[j].pairs) <= m
       /\ \A i \in 1..Len(l[j].pairs) : l[j].pairs[i] = t[off[j] + i]
  /\ \A j, k \in 1..Len(l) : j < k => off[j] + Len(l[j].pairs) <= off[k]
  /\ off[Len(l)] + Len(l[Len(l)].pairs) = m
  /\ Adjoin(l, off)
  /\ m = 0 => Len(l) = 1 /\ l[1].size = Header
  /\ m > 0 /\ Header + PairSize(t[1]) <= MaxMsg => l[1].size > Header

\* The pairs of a table, and their sizes.
LEMMA TablesAre ==
  ASSUME NEW t \in Tables
  PROVE  /\ t \in Seq(Key \X Value) /\ Len(t) \in Nat /\ DOMAIN t = 1..Len(t)
         /\ \A i \in 1..Len(t) : /\ t[i] \in Key \X Value
                                 /\ PairSize(t[i]) \in 2..MaxMsg
                                 /\ KeyLength[t[i][1]] \in Nat
<1>1. t \in Seq(Key \X Value) /\ \A i \in DOMAIN t : PairSize(t[i]) <= MaxMsg
  BY DumpAssumption
<1>2. ASSUME NEW p \in Key \X Value
      PROVE  PairSize(p) \in Nat /\ PairSize(p) >= 2 /\ KeyLength[p[1]] \in Nat
  <2>1. KeyLength[p[1]] \in Nat /\ ValueLength[p[2]] \in Nat
    BY <1>2, ConfigAssumption, DumpAssumption
  <2>. QED
    BY <2>1 DEF PairSize
<1>3. MaxMsg \in Nat
  BY ConfigAssumption
<1>. QED
  BY <1>1, <1>2, <1>3

\* One more pair packed: into the last packet, or into a new one.
LEMMA PackKeeps ==
  ASSUME NEW t \in Tables, NEW m \in Nat, m < Len(t), NEW l, NEW off, Holds(l, off, t, m)
  PROVE  \E o : Holds(Pack(l, t[m + 1]), o, t, m + 1)
<1>. DEFINE p == t[m + 1]
            L == Len(l)
            q == l[L]
<1>1. /\ p \in Key \X Value /\ PairSize(p) \in Nat /\ PairSize(p) >= 2
      /\ PairSize(p) <= MaxMsg /\ MaxMsg \in Nat /\ Header \in Nat /\ Header < MaxMsg
      /\ Len(t) \in Nat
  BY TablesAre, ConfigAssumption, DumpAssumption
<1>2. /\ l \in Seq(Packet) /\ L \in Nat /\ L > 0 /\ DOMAIN l = 1..L /\ q \in Packet
      /\ off \in [1..L -> 0..m] /\ Last(l) = q
      /\ \A j \in 1..L : l[j] \in Packet
  BY DEF Holds, Last
<1>a. \A j \in 1..L : /\ l[j].pairs \in Seq(Key \X Value) /\ Len(l[j].pairs) \in Nat
                      /\ l[j].size \in Nat /\ off[j] \in Nat
  BY <1>2, PacketIs
<1>3. /\ q.pairs \in Seq(Key \X Value) /\ Len(q.pairs) \in Nat /\ q.size \in 0..MaxMsg
      /\ q.count \in Nat \cup {Unread}
  BY <1>2, PacketIs
<1>b. /\ off[L] + Len(q.pairs) = m /\ off[L] \in Nat
      /\ L > 1 => q.count = Unread
      /\ L = 1 => q.count = Len(t) 
      /\ \A i \in 1..Len(q.pairs) : q.pairs[i] = t[off[L] + i]
      /\ m = 0 => L = 1 /\ q.size = Header
  BY <1>2, <1>a DEF Holds
<1>c. /\ \A j \in 1..L : 
           /\ j > 1 => l[j].count = Unread /\ Len(l[j].pairs) > 0
           /\ off[j] + Len(l[j].pairs) <= m
           /\ \A i \in 1..Len(l[j].pairs) : l[j].pairs[i] = t[off[j] + i]
      /\ \A j, k \in 1..L : j < k => off[j] + Len(l[j].pairs) <= off[k]
      /\ l[1].count = Len(t)
      /\ m > 0 /\ Header + PairSize(t[1]) <= MaxMsg => l[1].size > Header
  BY DEF Holds
<1>d. off[1] = 0 /\ \A j \in 1..L : j < L => off[j + 1] = off[j] + Len(l[j].pairs)
  BY DEF Holds, Adjoin
<1>. HIDE DEF p, q, L
<1>4. CASE FitsIn(Last(l), p)
  <2>. DEFINE q2 == [count |-> q.count, pairs |-> Append(q.pairs, p),
                     size |-> q.size + PairSize(p)]
              l2 == [l EXCEPT ![L] = q2]
  <2>1. Pack(l, p) = l2
    BY <1>2, <1>4, PackFills DEF q, L
  <2>2. q.size + PairSize(p) \in 0..MaxMsg
    <3>1. q.size + PairSize(p) <= MaxMsg
      BY <1>2, <1>4, Zenon DEF FitsIn
    <3>. QED
      BY <1>1, <1>3, <3>1
  <2>3. /\ q2 \in Packet /\ q2.count = q.count /\ q2.pairs = Append(q.pairs, p)
        /\ q2.size = q.size + PairSize(p)
    <3>1. Append(q.pairs, p) \in Seq(Key \X Value)
      BY <1>1, <1>3
    <3>. QED
      BY <1>3, <2>2, <3>1 DEF Packet
  <2>4. /\ q2.pairs \in Seq(Key \X Value) /\ Len(q2.pairs) = Len(q.pairs) + 1
        /\ \A i \in 1..Len(q.pairs) : q2.pairs[i] = q.pairs[i]
        /\ q2.pairs[Len(q.pairs) + 1] = p
    BY <1>1, <1>3, <2>3
  <2>. HIDE DEF q2
  <2>5. /\ l2 \in Seq(Packet) /\ Len(l2) = L /\ l2[L] = q2
        /\ \A j \in 1..L : j # L => l2[j] = l[j]
    BY <1>2, <2>3
  <2>. HIDE DEF l2
  <2>6. off \in [1..L -> 0..(m + 1)]
    BY <1>2
  <2>7. ASSUME NEW j \in 1..L
        PROVE  /\ j > 1 => l2[j].count = Unread /\ Len(l2[j].pairs) > 0
               /\ off[j] + Len(l2[j].pairs) <= m + 1
               /\ \A i \in 1..Len(l2[j].pairs) : l2[j].pairs[i] = t[off[j] + i]
    <3>1. CASE j = L
      <4>1. q.count = Unread \/ ~(j > 1)
        BY <3>1, <1>b
      <4>2. \A i \in 1..Len(q.pairs) : q.pairs[i] = t[off[L] + i]
        BY <1>b
      <4>3. \A i \in 1..(Len(q.pairs) + 1) : q2.pairs[i] = t[off[L] + i]
        <5>1. off[L] + (Len(q.pairs) + 1) = m + 1
          BY <1>3, <1>b
        <5>2. q2.pairs[Len(q.pairs) + 1] = t[off[L] + (Len(q.pairs) + 1)]
          BY <2>4, <5>1 DEF p
        <5>3. ASSUME NEW i \in 1..(Len(q.pairs) + 1)
              PROVE  q2.pairs[i] = t[off[L] + i]
          <6>1. i \in 1..Len(q.pairs) \/ i = Len(q.pairs) + 1
            BY <1>3
          <6>. QED
            BY <2>4, <4>2, <5>2, <6>1
        <5>. QED
          BY <5>3
      <4>. QED
        <5>1. l2[j] = q2 /\ off[j] + Len(q2.pairs) = m + 1 /\ Len(q2.pairs) > 0
          <6>1. /\ off[L] + Len(q.pairs) = m /\ off[L] \in Nat /\ Len(q.pairs) \in Nat
                /\ Len(q2.pairs) = Len(q.pairs) + 1
            BY <1>3, <1>b, <2>4
          <6>2. l2[j] = q2
            BY <2>5, <3>1
          <6>3. off[j] = off[L]
            BY <3>1
          <6>. QED
            BY <6>1, <6>2, <6>3
        <5>2. \A i \in 1..Len(q2.pairs) : q2.pairs[i] = t[off[j] + i]
          BY <2>4, <3>1, <4>3
        <5>3. j > 1 => q2.count = Unread
          BY <2>3, <4>1
        <5>. QED
          BY <5>1, <5>2, <5>3
    <3>2. CASE j # L
      <4>1. l2[j] = l[j] /\ off[j] \in Nat /\ Len(l[j].pairs) \in Nat
        BY <1>a, <2>5, <3>2
      <4>2. /\ j > 1 => l[j].count = Unread /\ Len(l[j].pairs) > 0
            /\ off[j] + Len(l[j].pairs) <= m
            /\ \A i \in 1..Len(l[j].pairs) : l[j].pairs[i] = t[off[j] + i]
        BY <1>c
      <4>3. off[j] + Len(l[j].pairs) <= m + 1
        BY <4>1, <4>2
      <4>. QED
        BY <4>1, <4>2, <4>3
    <3>. QED
      BY <3>1, <3>2
  <2>8. ASSUME NEW j \in 1..L, NEW k \in 1..L, j < k
        PROVE  off[j] + Len(l2[j].pairs) <= off[k]
    <3>1. j # L /\ l2[j] = l[j]
      BY <1>2, <2>5, <2>8
    <3>. QED
      BY <1>c, <2>8, <3>1
  <2>9. l2[1].count = Len(t)
    BY <1>2, <1>c, <1>b, <2>3, <2>5
  <2>10. Header + PairSize(t[1]) <= MaxMsg => l2[1].size > Header
    <3>1. CASE m = 0
      <4>1. L = 1 /\ q.size = Header
        BY <3>1, <1>b
      <4>. QED
        BY <1>1, <2>3, <2>5, <4>1
    <3>2. CASE m > 0
      <4>1. Header + PairSize(t[1]) <= MaxMsg => l[1].size > Header
        BY <3>2, <1>c
      <4>2. l2[1].size = l[1].size \/ (L = 1 /\ l2[1].size = l[1].size + PairSize(p))
        BY <1>2, <2>3, <2>5 DEF q
      <4>3. l[1].size \in Nat
        BY <1>a, <1>2
      <4>. QED
        BY <1>1, <4>1, <4>2, <4>3
    <3>. QED
      BY <3>1, <3>2
  <2>11. off[L] + Len(l2[L].pairs) = m + 1
    <3>1. /\ off[L] + Len(q.pairs) = m /\ off[L] \in Nat /\ Len(q.pairs) \in Nat
          /\ Len(q2.pairs) = Len(q.pairs) + 1
      BY <1>3, <1>b, <2>4
    <3>2. l2[L] = q2
      BY <2>5
    <3>. QED
      BY <3>1, <3>2
  <2>12. Adjoin(l2, off)
    BY <1>d, <2>5 DEF Adjoin
  <2>13. Holds(l2, off, t, m + 1)
    BY <1>2, <2>5, <2>6, <2>7, <2>8, <2>9, <2>10, <2>11, <2>12 DEF Holds
  <2>. QED
    BY <2>1, <2>13 DEF p
<1>5. CASE ~FitsIn(Last(l), p)
  <2>. DEFINE new == [count |-> Unread, pairs |-> <<p>>, size |-> PairSize(p)]
              l2 == Append(l, new)
              o == [j \in 1..(L + 1) |-> IF j = L + 1 THEN m ELSE off[j]]
  <2>1. Pack(l, p) = l2
    BY <1>5 DEF Pack
  <2>2. new \in Packet /\ Len(new.pairs) = 1 /\ Len(new.pairs) > 0 /\ new.pairs[1] = p /\ new.count = Unread
    BY <1>1 DEF Packet
  <2>. HIDE DEF new
  <2>3. /\ l2 \in Seq(Packet) /\ Len(l2) = L + 1 /\ l2[L + 1] = new
        /\ \A j \in 1..L : l2[j] = l[j]
    BY <1>2, <2>2
  <2>4. o \in [1..(L + 1) -> 0..(m + 1)] /\ o[L + 1] = m /\ \A j \in 1..L : o[j] = off[j]
    BY <1>2
  <2>. HIDE DEF l2, o
  <2>5. ASSUME NEW j \in 1..(L + 1)
        PROVE  /\ j > 1 => l2[j].count = Unread /\ Len(l2[j].pairs) > 0
               /\ o[j] + Len(l2[j].pairs) <= m + 1
               /\ \A i \in 1..Len(l2[j].pairs) : l2[j].pairs[i] = t[o[j] + i]
    <3>1. CASE j = L + 1
      <4>1. l2[j] = new /\ o[j] = m
        BY <2>3, <2>4, <3>1
      <4>2. \A i \in 1..1 : new.pairs[i] = t[m + i]
        BY <2>2 DEF p
      <4>3. \A i \in 1..Len(new.pairs) : new.pairs[i] = t[m + i]
        BY <2>2, <4>2
      <4>4. o[j] + Len(l2[j].pairs) <= m + 1
        <5>1. Len(l2[j].pairs) = 1
          BY <2>2, <4>1, Zenon
        <5>. QED
          BY <4>1, <5>1
      <4>. QED
        BY <2>2, <4>1, <4>3, <4>4, Zenon
    <3>2. CASE j \in 1..L
      <4>1. l2[j] = l[j] /\ o[j] = off[j] /\ off[j] \in Nat /\ Len(l[j].pairs) \in Nat
        BY <1>a, <2>3, <2>4, <3>2
      <4>2. /\ j > 1 => l[j].count = Unread /\ Len(l[j].pairs) > 0
            /\ off[j] + Len(l[j].pairs) <= m
            /\ \A i \in 1..Len(l[j].pairs) : l[j].pairs[i] = t[off[j] + i]
        BY <1>c, <3>2
      <4>3. off[j] + Len(l[j].pairs) <= m + 1
        BY <4>1, <4>2
      <4>. QED
        BY <4>1, <4>2, <4>3
    <3>. QED
      BY <1>2, <3>1, <3>2
  <2>6. ASSUME NEW j \in 1..(L + 1), NEW k \in 1..(L + 1), j < k
        PROVE  o[j] + Len(l2[j].pairs) <= o[k]
    <3>1. j \in 1..L /\ l2[j] = l[j] /\ o[j] = off[j]
      BY <1>2, <2>3, <2>4, <2>6
    <3>2. CASE k = L + 1
      BY <1>c, <2>4, <3>1, <3>2
    <3>3. CASE k \in 1..L
      <4>1. o[k] = off[k]
        BY <2>4, <3>3
      <4>. QED
        BY <1>c, <2>6, <3>1, <3>3, <4>1
    <3>. QED
      BY <1>2, <3>2, <3>3
  <2>7. l2[1] = l[1] /\ l2[1].count = Len(t)
    BY <1>2, <1>c, <2>3
  <2>8. Header + PairSize(t[1]) <= MaxMsg => l2[1].size > Header
    <3>1. CASE m = 0
      <4>1. L = 1 /\ q.size = Header
        BY <3>1, <1>b
      <4>. QED
        BY <1>1, <1>2, <1>5, <3>1, <4>1 DEF FitsIn, p
    <3>2. CASE m > 0
      BY <3>2, <1>c, <2>7
    <3>. QED
      BY <3>1, <3>2
  <2>9. o[L + 1] + Len(l2[L + 1].pairs) = m + 1
    BY <2>2, <2>3, <2>4
  <2>10. Adjoin(l2, o)
    <3>1. o[1] = 0
      BY <1>2, <1>d, <2>4
    <3>2. ASSUME NEW j \in 1..(L + 1), j < L + 1
          PROVE  o[j + 1] = o[j] + Len(l2[j].pairs)
      <4>1. j \in 1..L /\ o[j] = off[j] /\ l2[j] = l[j]
        BY <1>2, <2>3, <2>4, <3>2
      <4>2. CASE j = L
        BY <1>b, <2>4, <4>1, <4>2 DEF q
      <4>3. CASE j # L
        <5>1. j < L /\ j + 1 \in 1..L
          BY <1>2, <4>1, <4>3
        <5>. QED
          BY <1>d, <2>4, <4>1, <5>1
      <4>. QED
        BY <4>2, <4>3
    <3>. QED
      BY <2>3, <3>1, <3>2 DEF Adjoin
  <2>11. Holds(l2, o, t, m + 1)
    BY <1>2, <2>3, <2>4, <2>5, <2>6, <2>7, <2>8, <2>9, <2>10 DEF Holds
  <2>. QED
    BY <2>1, <2>11 DEF p
<1>. QED
  BY <1>4, <1>5

\* The packets hold the table.
LEMMA Packing ==
  ASSUME NEW t \in Tables
  PROVE  LET first == [count |-> Len(t), pairs |-> <<>>, size |-> Header]
         IN  \E off : Holds(FoldLeft(Pack, <<first>>, t), off, t, Len(t))
<1>. DEFINE first == [count |-> Len(t), pairs |-> <<>>, size |-> Header]
            n == Len(t)
<1>1. n \in Nat /\ DOMAIN t = 1..n
  BY TablesAre
<1>2. PICK f : /\ f[0] = <<first>>
               /\ \A m \in 1..n : f[m] = Pack(f[m - 1], t[m])
               /\ f[n] = FoldLeft(Pack, <<first>>, t)
  BY <1>1, PackSteps
<1>3. \E off : Holds(f[0], off, t, 0)
  <2>. DEFINE off == [j \in 1..1 |-> 0]
  <2>1. /\ first \in Packet /\ first.count = n /\ first.size = Header /\ first.pairs = <<>>
        /\ Len(first.pairs) = 0
    BY <1>1, ConfigAssumption, DumpAssumption DEF Packet
  <2>. HIDE DEF first
  <2>2. <<first>> \in Seq(Packet) /\ Len(<<first>>) = 1 /\ <<first>>[1] = first
    BY <2>1
  <2>3. Adjoin(<<first>>, off)
    BY <2>2 DEF Adjoin
  <2>4. Holds(<<first>>, off, t, 0)
    BY <2>1, <2>2, <2>3 DEF Holds
  <2>. QED
    BY <1>2, <2>4
<1>. HIDE DEF first
<1>. DEFINE bad == {m \in 0..n : ~ \E off : Holds(f[m], off, t, m)}
<1>4. ASSUME bad # {}
      PROVE  FALSE
  <2>1. bad \subseteq Nat
    BY <1>1
  <2>2. PICK m \in bad : \A k \in bad : m <= k
    BY <1>4, <2>1, Smallest
  <2>3. m # 0 /\ m \in 0..n
    BY <1>3, <2>2
  <2>4. m - 1 \in 0..n /\ m \in 1..n /\ m - 1 < n /\ m - 1 \in Nat /\ ~(m <= m - 1)
        /\ (m - 1) + 1 = m
    BY <1>1, <2>3
  <2>5. PICK off : Holds(f[m - 1], off, t, m - 1)
    BY <2>2, <2>4
  <2>6. \E o : Holds(Pack(f[m - 1], t[(m - 1) + 1]), o, t, (m - 1) + 1)
    BY <2>4, <2>5, PackKeeps
  <2>7. \E o : Holds(f[m], o, t, m)
    BY <1>2, <2>4, <2>6
  <2>. QED
    BY <2>2, <2>7
<1>5. n \in 0..n
  BY <1>1
<1>6. \E off : Holds(f[n], off, t, n)
  BY <1>4, <1>5
<1>. QED
  BY <1>2, <1>6 DEF first

\* The datagrams d hold the table t.
Parts(d, off, t) ==
  /\ d \in Seq(Packet) /\ Len(d) > 0 /\ off \in [1..Len(d) -> 0..Len(t)]
  /\ \A j \in 1..Len(d) :
       /\ j > 1 => d[j].count = Unread /\ Len(d[j].pairs) > 0
       /\ off[j] + Len(d[j].pairs) <= Len(t)
       /\ \A i \in 1..Len(d[j].pairs) : d[j].pairs[i] = t[off[j] + i]
  /\ \A j, k \in 1..Len(d) : j < k => off[j] + Len(d[j].pairs) <= off[k]
  /\ d[1].count = Len(t)

\* The last byte of a datagram matters to the number of pairs only.
LEMMA Truncated ==
  ASSUME NEW q \in Packet
  PROVE  LET w == WithoutLastByte(q)
         IN  /\ w \in Packet /\ w.pairs = q.pairs /\ w.size = q.size
             /\ q.count = Unread => w.count = Unread
             /\ q.size # Header \/ q.count = 0 => w.count = q.count
             /\ q.count # Unread => w.count \in 0..q.count
<1>1. CASE q.size = Header /\ q.count # Unread
  <2>. DEFINE c == (q.count \div 256) * 256
              w == [count |-> c, pairs |-> q.pairs, size |-> q.size]
  <2>1. q.count \in Nat /\ c \in Nat /\ (q.count = 0 => c = 0) /\ c \in 0..q.count
    BY <1>1, PacketIs
  <2>2. WithoutLastByte(q) = [q EXCEPT !.count = c]
    BY <1>1 DEF WithoutLastByte
  <2>. HIDE DEF c
  <2>3. PICK c0, d0, z0 : q = [count |-> c0, pairs |-> d0, size |-> z0]
    BY PacketIs
  <2>4. q.pairs = d0 /\ q.size = z0
    BY <2>3
  <2>5. [q EXCEPT !.count = c] = [count |-> c, pairs |-> d0, size |-> z0]
    BY <2>3
  <2>6. WithoutLastByte(q) = w
    BY <2>2, <2>4, <2>5
  <2>7. w \in Packet
    BY <2>1, PacketIs DEF Packet
  <2>8. w.count = c /\ w.pairs = q.pairs /\ w.size = q.size
    OBVIOUS
  <2>. QED
    BY <1>1, <2>1, <2>6, <2>7, <2>8
<1>2. CASE ~(q.size = Header /\ q.count # Unread)
  <2>1. q.count # Unread => q.count \in 0..q.count
    BY PacketIs
  <2>. QED
    BY <1>2, <2>1 DEF WithoutLastByte
<1>. QED
  BY <1>1, <1>2

\* The datagrams of a dump hold the table, the first with its number of pairs unless it
\* is a release that cuts the last byte off a packet without a pair.
LEMMA DumpHolds ==
  ASSUME NEW t \in Tables
  PROVE  /\ Dump(t) \in Seq(Packet) /\ Len(Dump(t)) > 0
         /\ Plain(t) => \E off : Parts(Dump(t), off, t)
<1>. DEFINE first == [count |-> Len(t), pairs |-> <<>>, size |-> Header]
            l == FoldLeft(Pack, <<first>>, t)
            w(q) == IF Final THEN WithoutLastByte(q) ELSE Whole(q)
            d == [i \in DOMAIN l |-> w(l[i])]
<1>1. PICK off : Holds(l, off, t, Len(t))
  BY Packing
<1>2. Dump(t) = d
  BY DEF Dump
<1>. HIDE DEF first, l
<1>3. l \in Seq(Packet) /\ Len(l) \in Nat /\ DOMAIN l = 1..Len(l)
  BY <1>1 DEF Holds
<1>4. ASSUME NEW q \in Packet
      PROVE  /\ w(q) \in Packet /\ w(q).pairs = q.pairs /\ w(q).size = q.size
             /\ q.count = Unread => w(q).count = Unread
             /\ ~Final \/ q.size # Header \/ q.count = 0 => w(q).count = q.count
  BY Truncated DEF Whole
<1>. HIDE DEF w
<1>5. /\ d \in Seq(Packet) /\ Len(d) = Len(l)
      /\ \A j \in 1..Len(l) : d[j] = w(l[j]) /\ l[j] \in Packet /\ d[j].pairs = l[j].pairs
                              /\ (l[j].count = Unread => d[j].count = Unread)
  BY <1>3, <1>4
<1>6. ASSUME Plain(t)
      PROVE  d[1].count = Len(t)
  <2>1. l[1].count = Len(t) /\ 1 \in 1..Len(l) /\ Len(t) \in Nat /\ Header \in Nat
    BY <1>1, <1>3, TablesAre, DumpAssumption DEF Holds
  <2>2. CASE Len(t) = 0 \/ ~Final
    BY <1>4, <1>5, <2>1, <2>2
  <2>3. CASE Len(t) > 0 /\ Final
    <3>1. Header + PairSize(t[1]) <= MaxMsg
      BY <1>6, <2>3 DEF Plain
    <3>2. l[1].size > Header
      BY <1>1, <2>3, <3>1 DEF Holds
    <3>3. l[1].size # Header
      BY <2>1, <3>2
    <3>. QED
      BY <1>4, <1>5, <2>1, <3>3
  <2>. QED
    BY <2>1, <2>2, <2>3
<1>. HIDE DEF d
<1>7. ASSUME Plain(t)
      PROVE  Parts(d, off, t)
  <2>1. /\ Len(l) > 0 /\ off \in [1..Len(l) -> 0..Len(t)]
        /\ \A j \in 1..Len(l) :
             /\ j > 1 => l[j].count = Unread /\ Len(l[j].pairs) > 0
             /\ off[j] + Len(l[j].pairs) <= Len(t)
             /\ \A i \in 1..Len(l[j].pairs) : l[j].pairs[i] = t[off[j] + i]
        /\ \A j, k \in 1..Len(l) : j < k => off[j] + Len(l[j].pairs) <= off[k]
    BY <1>1 DEF Holds
  <2>2. ASSUME NEW j \in 1..Len(d)
        PROVE  /\ j > 1 => d[j].count = Unread /\ Len(d[j].pairs) > 0
               /\ off[j] + Len(d[j].pairs) <= Len(t)
               /\ \A i \in 1..Len(d[j].pairs) : d[j].pairs[i] = t[off[j] + i]
               /\ \A k \in 1..Len(d) : j < k => off[j] + Len(d[j].pairs) <= off[k]
    <3>1. /\ d[j].pairs = l[j].pairs /\ (l[j].count = Unread => d[j].count = Unread)
          /\ Len(d) = Len(l) /\ j \in 1..Len(l)
      BY <1>5, <2>2
    <3>2. /\ j > 1 => l[j].count = Unread /\ Len(l[j].pairs) > 0
          /\ off[j] + Len(l[j].pairs) <= Len(t)
          /\ \A i \in 1..Len(l[j].pairs) : l[j].pairs[i] = t[off[j] + i]
          /\ \A k \in 1..Len(l) : j < k => off[j] + Len(l[j].pairs) <= off[k]
      BY <2>1, <3>1
    <3>. QED
      BY <3>1, <3>2, Zenon
  <2>. QED
    BY <1>5, <1>6, <1>7, <2>1, <2>2 DEF Parts
<1>8. Len(l) > 0
  BY <1>1 DEF Holds
<1>. QED
  BY <1>2, <1>5, <1>7, <1>8

\* Of the d datagrams that hold the table t, those at the places ix are in p, and the
\* pairs of r are those of the table at the places at: no pair is in both.
Carried(d, off, t, p, r, ix, at) ==
  /\ Parts(d, off, t)
  /\ ix \in [1..Len(p) -> 1..Len(d)]
  /\ \A j \in 1..Len(p) : p[j] = d[ix[j]]
  /\ \A j, k \in 1..Len(p) : ix[j] = ix[k] => j = k
  /\ Len(r) \in Nat
  /\ at \in [1..Len(r) -> 1..Len(t)]
  /\ \A i \in 1..Len(r) : r[i] = t[at[i]]
  /\ \A i, k \in 1..Len(r) : at[i] = at[k] => i = k
  /\ \A j \in 1..Len(p), i \in 1..Len(r) :
       ~(off[ix[j]] < at[i] /\ at[i] <= off[ix[j]] + Len(p[j].pairs))

\* What DumpIsTable assumes: no datagram twice, no lack of memory, and a table whose
\* dump is plain, leaves room and has no text that may be a small number.
Undisturbed ==
  /\ ~May("duplicated") /\ ~May("nomem")
  /\ Plain(table) /\ LeavesRoom(table) /\ Unmistakable(table)

\* The shape of the state of pps-dump-node.
DumpShape ==
  /\ table \in Tables /\ packets \in Seq(Packet)
  /\ nbr_pairs \in Nat \cup {Unread} /\ pairs \in Seq(Strings \X Strings)
  /\ dumping \in {"start", "asked", "waiting", "printed", "FAIL", "failed"}
  /\ dumping \in {"start", "asked"} => packets = <<>> /\ nbr_pairs = Unread /\ pairs = <<>>

\* The packet with the number of pairs is lost or read.
HeaderGone(p) == \A j \in 1..Len(p) : p[j].count = Unread

\* Undisturbed, the pairs that were sent with the packets that were read are pairs of
\* the table that no packet on its way holds.  They are what was read after the number
\* of pairs; when text was taken for that number, it is never reached, as what is read
\* counts no more pairs but one for the header.
DumpTraced ==
  Undisturbed =>
    /\ nbr_pairs \in {Unread, Len(table), Huge}
    /\ nbr_pairs = Unread => pairs = <<>>
    /\ \E off, ix, at : \E r \in Seq(Strings \X Strings) :
         /\ Carried(Dump(table), off, table, packets, r, ix, at)
         /\ nbr_pairs # Huge => r = pairs
         /\ nbr_pairs = Huge => Len(pairs) <= Len(r) + (IF HeaderGone(packets) THEN 1 ELSE 0)
    /\ nbr_pairs = Len(table) => HeaderGone(packets)
    /\ dumping = "printed" => ~Wanting

\* The invariant of pps-dump-node.
DumpInv == DumpShape /\ DumpTraced

-----------------------------------------------------------------------------
\* A number that is never reached, and no number.
LEMMA HugeIs == Huge \in Nat /\ Unread \notin Nat
BY SMT DEF Huge, Unread

\* Two sequences one behind the other.
LEMMA SeqJoin ==
  ASSUME NEW X, NEW s \in Seq(X), NEW t \in Seq(X)
  PROVE  s \o t \in Seq(X) /\ Len(s \o t) = Len(s) + Len(t)
OBVIOUS

\* A sequence without its i-th element.
LEMMA Removed ==
  ASSUME NEW S, NEW s \in Seq(S), NEW i \in 1..Len(s)
  PROVE  LET r == RemoveAt(s, i)
         IN  /\ r \in Seq(S) /\ Len(r) = Len(s) - 1
             /\ \A j \in 1..Len(r) : r[j] = s[IF j < i THEN j ELSE j + 1]
<1>. DEFINE a == SubSeq(s, 1, i - 1)
            b == SubSeq(s, i + 1, Len(s))
<1>1. a \in Seq(S) /\ Len(a) = i - 1 /\ \A j \in 1..(i - 1) : a[j] = s[j]
  OBVIOUS
<1>2. b \in Seq(S) /\ Len(b) = Len(s) - i /\ \A j \in 1..(Len(s) - i) : b[j] = s[i + j]
  OBVIOUS
<1>. HIDE DEF a, b
<1>. DEFINE r == a \o b
<1>3. r \in Seq(S) /\ Len(r) = Len(s) - 1
  <2>a. a \in Seq(S) /\ b \in Seq(S)
    BY <1>1, <1>2
  <2>1. r \in Seq(S) /\ Len(r) = Len(a) + Len(b)
    BY <2>a
  <2>. HIDE DEF r
  <2>2. Len(s) \in Nat /\ i \in Int
    OBVIOUS
  <2>. QED
    BY <1>1, <1>2, <2>1, <2>2
<1>4. ASSUME NEW j \in 1..Len(r)
      PROVE  r[j] = s[IF j < i THEN j ELSE j + 1]
  <2>1. CASE j < i
    BY <1>1, <1>2, <1>3, <2>1
  <2>2. CASE ~(j < i)
    <3>1. j - (i - 1) \in 1..(Len(s) - i) /\ i + (j - (i - 1)) = j + 1 /\ j > i - 1
      BY <1>3, <2>2
    <3>2. r[j] = b[j - (i - 1)]
      BY <1>1, <1>2, <1>3, <3>1
    <3>. QED
      BY <1>2, <2>2, <3>1, <3>2
  <2>. QED
    BY <2>1, <2>2
<1>5. RemoveAt(s, i) = r
  BY DEF RemoveAt, a, b
<1>. QED
  BY <1>3, <1>4, <1>5

\* Where a packet comes from when the i-th one has left.
Skip(i, j) == IF j < i THEN j ELSE j + 1
\* The places of the packets that are left.
Moved(p, ix, i) == [j \in 1..Len(RemoveAt(p, i)) |-> ix[Skip(i, j)]]

\* A packet less on its way, by a loss or a read.
LEMMA LeaveOne ==
  ASSUME NEW d, NEW off, NEW t, NEW p \in Seq(Packet), NEW r, NEW ix, NEW at,
         Carried(d, off, t, p, r, ix, at), NEW i \in 1..Len(p)
  PROVE  /\ Carried(d, off, t, RemoveAt(p, i), r, Moved(p, ix, i), at)
         /\ \A j \in 1..Len(RemoveAt(p, i)) : Moved(p, ix, i)[j] # ix[i]
<1>. DEFINE q == RemoveAt(p, i)
            new == [j \in 1..Len(q) |-> ix[Skip(i, j)]]
<1>1. /\ q \in Seq(Packet) /\ Len(q) = Len(p) - 1
      /\ \A j \in 1..Len(q) : q[j] = p[Skip(i, j)]
  BY Removed DEF Skip
<1>2. ASSUME NEW j \in 1..Len(q)
      PROVE  /\ Skip(i, j) \in 1..Len(p) /\ Skip(i, j) # i
             /\ \A k \in 1..Len(q) : Skip(i, j) = Skip(i, k) => j = k
  BY <1>1 DEF Skip
<1>3. /\ ix \in [1..Len(p) -> 1..Len(d)]
      /\ \A j \in 1..Len(p) : p[j] = d[ix[j]]
      /\ \A j, k \in 1..Len(p) : ix[j] = ix[k] => j = k
      /\ \A j \in 1..Len(p), k \in 1..Len(r) :
           ~(off[ix[j]] < at[k] /\ at[k] <= off[ix[j]] + Len(p[j].pairs))
  BY DEF Carried
<1>. HIDE DEF q
<1>4. new \in [1..Len(q) -> 1..Len(d)]
  BY <1>2, <1>3
<1>5. ASSUME NEW j \in 1..Len(q)
      PROVE  /\ new[j] = ix[Skip(i, j)] /\ q[j] = d[new[j]] /\ new[j] # ix[i]
             /\ \A k \in 1..Len(q) : new[j] = new[k] => j = k
             /\ \A k \in 1..Len(r) :
                  ~(off[new[j]] < at[k] /\ at[k] <= off[new[j]] + Len(q[j].pairs))
  <2>1. new[j] = ix[Skip(i, j)] /\ q[j] = p[Skip(i, j)] /\ Skip(i, j) \in 1..Len(p)
    BY <1>1, <1>2
  <2>2. q[j] = d[new[j]] /\ new[j] # ix[i]
    BY <1>2, <1>3, <2>1
  <2>3. ASSUME NEW k \in 1..Len(q), new[j] = new[k]
        PROVE  j = k
    <3>1. new[k] = ix[Skip(i, k)] /\ Skip(i, k) \in 1..Len(p)
      BY <1>2
    <3>. QED
      BY <1>2, <1>3, <2>1, <2>3, <3>1
  <2>4. ASSUME NEW k \in 1..Len(r)
        PROVE  ~(off[new[j]] < at[k] /\ at[k] <= off[new[j]] + Len(q[j].pairs))
    BY <1>3, <2>1, Zenon
  <2>. QED
    BY <2>1, <2>2, <2>3, <2>4
<1>. HIDE DEF new
<1>6. Carried(d, off, t, q, r, new, at)
  BY <1>4, <1>5 DEF Carried
<1>. QED
  BY <1>5, <1>6 DEF q, new, Moved

\* The pairs of a packet that is read were neither read before nor are on their way.
LEMMA TakeOne ==
  ASSUME NEW d, NEW off, NEW t, NEW p \in Seq(Packet), NEW r \in Seq(Strings \X Strings),
         NEW ix, NEW at, Len(t) \in Nat,
         Carried(d, off, t, p, r, ix, at), NEW i \in 1..Len(p)
  PROVE  \E new, to : Carried(d, off, t, RemoveAt(p, i), r \o p[i].pairs, new, to)
<1>. DEFINE q == RemoveAt(p, i)
            new == Moved(p, ix, i)
            n == Len(r)
            x == p[i].pairs
            m == Len(x)
            o == off[ix[i]]
            all == r \o x
            to == [k \in 1..(n + m) |-> IF k <= n THEN at[k] ELSE o + (k - n)]
<1>1. Carried(d, off, t, q, r, new, at) /\ \A j \in 1..Len(q) : new[j] # ix[i]
  BY LeaveOne, Zenon
<1>. HIDE DEF new, q
<1>2. /\ ix[i] \in 1..Len(d) /\ p[i] = d[ix[i]] /\ d \in Seq(Packet) /\ Len(d) \in Nat
      /\ off \in [1..Len(d) -> 0..Len(t)] /\ p[i] \in Packet
  <2>1. /\ ix \in [1..Len(p) -> 1..Len(d)] /\ \A j \in 1..Len(p) : p[j] = d[ix[j]]
        /\ Parts(d, off, t)
    BY DEF Carried
  <2>2. d \in Seq(Packet) /\ off \in [1..Len(d) -> 0..Len(t)]
    BY <2>1 DEF Parts
  <2>3. ix[i] \in 1..Len(d) /\ p[i] = d[ix[i]]
    BY <2>1
  <2>4. p[i] \in Packet /\ Len(d) \in Nat
    BY <2>2
  <2>. QED
    BY <2>2, <2>3, <2>4, Zenon
<1>3. /\ x \in Seq(Key \X Value) /\ m \in Nat /\ o \in Nat /\ n \in Nat
      /\ o + m <= Len(t) /\ \A k \in 1..m : x[k] = t[o + k]
  <2>1. x \in Seq(Key \X Value) /\ m \in Nat
    BY <1>2, PacketIs
  <2>2. o \in Nat /\ n \in Nat
    BY <1>2
  <2>3. o + m <= Len(t) /\ \A k \in 1..m : x[k] = t[o + k]
    <3>1. Parts(d, off, t)
      BY DEF Carried
    <3>2. \A j \in 1..Len(d) : /\ off[j] + Len(d[j].pairs) <= Len(t)
                               /\ \A k \in 1..Len(d[j].pairs) : d[j].pairs[k] = t[off[j] + k]
      BY <3>1, Zenon DEF Parts
    <3>. QED
      BY <1>2, <3>2, Zenon
  <2>. QED
    BY <2>1, <2>2, <2>3
<1>4. /\ at \in [1..n -> 1..Len(t)] /\ \A k \in 1..n : r[k] = t[at[k]]
      /\ \A k, l \in 1..n : at[k] = at[l] => k = l
      /\ \A k \in 1..n : ~(o < at[k] /\ at[k] <= o + m)
  BY DEF Carried
<1>. HIDE DEF x, m, o, n
<1>5. /\ Len(all) = n + m /\ all \in Seq(Strings \X Strings)
      /\ \A k \in 1..n : all[k] = r[k]
      /\ \A k \in 1..m : all[n + k] = x[k]
  <2>1. x \in Seq(Strings \X Strings)
    BY <1>3 DEF Strings
  <2>2. all \in Seq(Strings \X Strings) /\ Len(all) = Len(r) + Len(x)
    BY <2>1
  <2>3. /\ \A k \in 1..Len(r) : all[k] = r[k]
        /\ \A k \in 1..Len(x) : all[Len(r) + k] = x[k]
    BY <2>1
  <2>. HIDE DEF all
  <2>. QED
    BY <2>2, <2>3 DEF n, m
<1>. HIDE DEF all
<1>n. /\ n \in Nat /\ m \in Nat /\ o \in Nat /\ o + m <= Len(t) /\ Len(t) \in Nat
  BY <1>2, <1>3
<1>6. Len(all) = n + m
  BY <1>2, <1>3, <1>5
<1>7. ASSUME NEW k \in 1..(n + m)
      PROVE  /\ to[k] \in 1..Len(t) /\ all[k] = t[to[k]]
             /\ k <= n => to[k] = at[k]
             /\ ~(k <= n) => to[k] = o + (k - n) /\ k - n \in 1..m
  <2>1. CASE k <= n
    <3>1. k \in 1..n
      BY <1>n, <2>1
    <3>. QED
      BY <1>4, <1>5, <2>1, <3>1
  <2>2. CASE ~(k <= n)
    <3>1. k - n \in 1..m /\ n + (k - n) = k /\ o + (k - n) \in 1..Len(t)
      BY <1>n, <2>2
    <3>2. to[k] = o + (k - n)
      BY <2>2
    <3>3. all[k] = x[k - n]
      BY <1>5, <3>1
    <3>4. x[k - n] = t[o + (k - n)]
      BY <1>3, <3>1
    <3>. QED
      BY <2>2, <3>1, <3>2, <3>3, <3>4
  <2>. QED
    BY <2>1, <2>2
<1>8. to \in [1..(n + m) -> 1..Len(t)]
  BY <1>7
<1>. HIDE DEF to
<1>9. ASSUME NEW k \in 1..(n + m), NEW l \in 1..(n + m), to[k] = to[l]
      PROVE  k = l
  <2>1. CASE k <= n /\ l <= n
    <3>1. k \in 1..n /\ l \in 1..n /\ to[k] = at[k] /\ to[l] = at[l]
      BY <1>n, <1>7, <2>1
    <3>. QED
      BY <1>4, <1>9, <3>1
  <2>2. CASE ~(k <= n) /\ ~(l <= n)
    <3>1. o + (k - n) = o + (l - n)
      BY <1>7, <1>9, <2>2
    <3>. QED
      BY <1>n, <3>1
  <2>3. CASE k <= n /\ ~(l <= n)
    <3>1. k \in 1..n /\ to[l] = o + (l - n) /\ l - n \in 1..m /\ to[k] = at[k]
      BY <1>n, <1>7, <2>3
    <3>2. o < at[k] /\ at[k] <= o + m
      <4>1. at[k] = o + (l - n)
        BY <1>9, <3>1
      <4>. QED
        BY <1>n, <3>1, <4>1
    <3>. QED
      BY <1>4, <3>1, <3>2
  <2>4. CASE ~(k <= n) /\ l <= n
    <3>1. l \in 1..n /\ to[k] = o + (k - n) /\ k - n \in 1..m /\ to[l] = at[l]
      BY <1>n, <1>7, <2>4
    <3>2. o < at[l] /\ at[l] <= o + m
      <4>1. at[l] = o + (k - n)
        BY <1>9, <3>1
      <4>. QED
        BY <1>n, <3>1, <4>1
    <3>. QED
      BY <1>4, <3>1, <3>2
  <2>. QED
    BY <2>1, <2>2, <2>3, <2>4
<1>10. ASSUME NEW j \in 1..Len(q), NEW k \in 1..(n + m)
       PROVE  ~(off[new[j]] < to[k] /\ to[k] <= off[new[j]] + Len(q[j].pairs))
  <2>1. CASE k <= n
    <3>1. k \in 1..n /\ to[k] = at[k]
      BY <1>n, <1>7, <2>1
    <3>. QED
      BY <1>1, <3>1 DEF Carried, n
  <2>2. CASE ~(k <= n)
    <3>1. to[k] = o + (k - n) /\ k - n \in 1..m
      BY <1>7, <2>2
    <3>2. o < to[k] /\ to[k] <= o + m /\ to[k] \in Nat
      BY <1>n, <3>1
    <3>3. new[j] \in 1..Len(d) /\ q[j] = d[new[j]] /\ new[j] # ix[i]
      BY <1>1 DEF Carried
    <3>4. \/ new[j] < ix[i] /\ off[new[j]] + Len(q[j].pairs) <= o
          \/ ix[i] < new[j] /\ o + m <= off[new[j]]
      <4>1. new[j] < ix[i] \/ ix[i] < new[j]
        <5>1. \A f, g \in 1..Len(d) : f < g \/ f = g \/ g < f
          OBVIOUS
        <5>. QED
          BY <1>2, <3>3, <5>1, Zenon
      <4>2. \A f, g \in 1..Len(d) : f < g => off[f] + Len(d[f].pairs) <= off[g]
        BY DEF Carried, Parts
      <4>. QED
        BY <1>2, <3>3, <4>1, <4>2 DEF o, m, x
    <3>5. off[new[j]] \in Nat /\ Len(q[j].pairs) \in Nat
      <4>1. q[j] \in Packet
        BY <1>2, <3>3
      <4>2. Len(q[j].pairs) \in Nat
        BY <4>1, PacketIs
      <4>3. off[new[j]] \in 0..Len(t)
        BY <1>2, <3>3
      <4>. QED
        BY <1>n, <4>2, <4>3
    <3>. DEFINE b == off[new[j]]
                w == Len(q[j].pairs)
                z == to[k]
    <3>6. b \in Nat /\ w \in Nat /\ z \in Nat
      BY <3>2, <3>5
    <3>7. b + w <= o \/ o + m <= b
      BY <3>4
    <3>8. o < z /\ z <= o + m
      BY <3>2
    <3>. HIDE DEF b, w, z
    <3>9. ~(b < z /\ z <= b + w)
      BY <1>n, <3>6, <3>7, <3>8
    <3>. QED
      BY <3>9 DEF b, w, z
  <2>. QED
    BY <2>1, <2>2
<1>11. Carried(d, off, t, q, all, new, to)
  <2>1. Len(all) \in Nat
    <3>1. Len(all) = n + m
      BY <1>5
    <3>. QED
      BY <1>n, <3>1
  <2>. QED
    BY <1>1, <1>2, <1>6, <1>7, <1>8, <1>9, <1>10, <2>1 DEF Carried
<1>. QED
  BY <1>11 DEF all, x, q

\* Not more is read than was sent, and if it is as much, it is the same.
LEMMA ReadOnce ==
  ASSUME NEW d, NEW off, NEW t \in Seq(Key \X Value), NEW p,
         NEW r \in Seq(Strings \X Strings), NEW ix, NEW at,
         Carried(d, off, t, p, r, ix, at)
  PROVE  /\ Len(r) <= Len(t)
         /\ Len(r) >= Len(t) => Len(r) = Len(t) /\ ToSet(r) = ToSet(t)
<1>. DEFINE n == Len(r)
            m == Len(t)
<1>1. n \in Nat /\ m \in Nat
  OBVIOUS
<1>2. /\ at \in [1..n -> 1..m] /\ \A i \in 1..n : r[i] = t[at[i]]
      /\ \A i, k \in 1..n : at[i] = at[k] => i = k
  BY DEF Carried
<1>3. DOMAIN r = 1..n /\ DOMAIN t = 1..m
  OBVIOUS
<1>. HIDE DEF n, m
<1>4. at \in Injection(1..n, 1..m)
  BY <1>2 DEF Injection, IsInjective
<1>5. /\ IsFiniteSet(1..m) /\ Cardinality(1..m) = m
      /\ IsFiniteSet(1..n) /\ Cardinality(1..n) = n
  BY <1>1, CountTo
<1>6. n <= m /\ (n = m <=> at \in Surjection(1..n, 1..m))
  BY <1>4, <1>5, FS_Injection
<1>7. ASSUME n >= m
      PROVE  n = m /\ ToSet(r) = ToSet(t)
  <2>1. n = m
    BY <1>1, <1>6, <1>7
  <2>2. at \in Surjection(1..n, 1..m)
    BY <1>6, <2>1
  <2>3. \A k \in 1..m : \E i \in 1..n : at[i] = k
    BY <2>2 DEF Surjection
  <2>4. \A i \in 1..n : r[i] = t[at[i]] /\ at[i] \in 1..m
    BY <1>2
  <2>5. \A k \in 1..m : \E i \in 1..n : r[i] = t[k]
    BY <2>3, <2>4
  <2>6. ToSet(r) = ToSet(t)
    BY <1>3, <2>4, <2>5 DEF ToSet
  <2>. QED
    BY <2>1, <2>6
<1>. QED
  BY <1>6, <1>7 DEF n, m

\* The loop over a packet stops at most at its end.
LEMMA UpToIs ==
  ASSUME NEW s \in Seq(Key \X Value)
  PROVE  /\ UpToEmptyKey(s) \in Seq(Key \X Value)
         /\ IsWhole(s) <=> \A i \in 1..Len(s) : KeyLength[s[i][1]] > 0
<1>. DEFINE n == Len(s)
            A == {i \in 1..n : \A j \in 1..i : KeyLength[s[j][1]] > 0}
            c == Cardinality(A)
<1>1. n \in Nat /\ DOMAIN s = 1..n
  OBVIOUS
<1>2. IsFiniteSet(1..n) /\ Cardinality(1..n) = n
  BY <1>1, CountTo
<1>3. IsFiniteSet(A) /\ c <= n /\ (c = n => A = 1..n)
  <2>1. A \in SUBSET (1..n)
    OBVIOUS
  <2>. HIDE DEF A
  <2>. QED
    BY <1>2, <2>1, FS_Subset
<1>4. c \in Nat
  BY <1>3, FS_CardinalityType
<1>5. UpToEmptyKey(s) = SubSeq(s, 1, c)
  BY <1>1, Zenon DEF UpToEmptyKey
<1>6. A = 1..n <=> \A i \in 1..n : KeyLength[s[i][1]] > 0
  <2>1. ASSUME A = 1..n, NEW i \in 1..n
        PROVE  KeyLength[s[i][1]] > 0
    <3>1. i \in A /\ i \in 1..i
      BY <2>1
    <3>. QED
      BY <3>1, Zenon DEF A
  <2>2. ASSUME \A i \in 1..n : KeyLength[s[i][1]] > 0
        PROVE  A = 1..n
    <3>1. \A i \in 1..n : \A j \in 1..i : j \in 1..n
      BY <1>1
    <3>. QED
      BY <2>2, <3>1, Zenon
  <2>. QED
    BY <2>1, <2>2
<1>. HIDE DEF A, n
<1>. HIDE DEF c
<1>7. SubSeq(s, 1, c) \in Seq(Key \X Value) /\ Len(SubSeq(s, 1, c)) = c
  <2>1. c \in Nat /\ c <= Len(s)
    BY <1>3, <1>4 DEF n
  <2>. QED
    BY <2>1
<1>8. ASSUME SubSeq(s, 1, c) = s
      PROVE  A = 1..n
  <2>1. c = n
    BY <1>7, <1>8 DEF n
  <2>. QED
    BY <1>3, <2>1
<1>9. ASSUME A = 1..n
      PROVE  SubSeq(s, 1, c) = s
  <2>1. c = n
    BY <1>2, <1>9 DEF c
  <2>2. SubSeq(s, 1, n) = s
    BY <1>1 DEF n
  <2>. QED
    BY <2>1, <2>2
<1>. QED
  BY <1>5, <1>6, <1>7, <1>8, <1>9 DEF IsWhole, n

\* The shape has the type.
LEMMA DumpShapeSuffices ==
  ASSUME DumpShape
  PROVE  DumpTypeOK
<1>1. DOMAIN packets = 1..Len(packets) /\ \A i \in 1..Len(packets) : packets[i] \in Packet
  BY DEF DumpShape
<1>2. \A i \in DOMAIN packets :
        /\ packets[i].count \in Nat \cup {Unread} /\ packets[i].pairs \in Seq(Key \X Value)
        /\ packets[i].size \in 0..MaxMsg
  BY <1>1, PacketIs
<1>. QED
  BY <1>2 DEF DumpShape, DumpTypeOK

\* At first everything is on its way, or nothing.
LEMMA CarryAll ==
  ASSUME NEW d, NEW off, NEW t, Parts(d, off, t)
  PROVE  \E ix, at : Carried(d, off, t, d, <<>>, ix, at)
<1>. DEFINE ix == [j \in 1..Len(d) |-> j]
            at == [j \in 1..0 |-> 1]
<1>1. ix \in [1..Len(d) -> 1..Len(d)] /\ at \in [1..0 -> 1..Len(t)] /\ Len(<<>>) = 0
  OBVIOUS
<1>2. Carried(d, off, t, d, <<>>, ix, at)
  BY <1>1 DEF Carried
<1>. QED
  BY <1>2

\* Nothing is on its way.
LEMMA CarryNone ==
  ASSUME NEW d, NEW off, NEW t, Parts(d, off, t)
  PROVE  \E ix, at : Carried(d, off, t, <<>>, <<>>, ix, at)
<1>. DEFINE ix == [j \in 1..0 |-> j]
            at == [j \in 1..0 |-> 1]
<1>1. ix \in [1..0 -> 1..Len(d)] /\ at \in [1..0 -> 1..Len(t)] /\ Len(<<>>) = 0
  OBVIOUS
<1>2. Carried(d, off, t, <<>>, <<>>, ix, at)
  BY <1>1 DEF Carried
<1>. QED
  BY <1>2

\* The table and its dump before a packet was read.
LEMMA TracedStart ==
  ASSUME NEW t \in Tables, Plain(t)
  PROVE  /\ \E off, ix, at : Carried(Dump(t), off, t, Dump(t), <<>>, ix, at)
         /\ \E off, ix, at : Carried(Dump(t), off, t, <<>>, <<>>, ix, at)
<1>1. PICK off : Parts(Dump(t), off, t)
  BY DumpHolds
<1>. QED
  BY <1>1, CarryAll, CarryNone

\* Pairs of text that was cut elsewhere are pairs of strings.
LEMMA OddAre ==
  ASSUME NEW n \in Nat
  PROVE  Odd(n) \in Seq(Strings \X Strings) /\ Len(Odd(n)) = n
<1>1. <<Junk, Junk>> \in Strings \X Strings
  BY DEF Strings
<1>. QED
  BY <1>1 DEF Odd

\* Every pair of a packet is a pair of strings, wherever the packet is cut.
LEMMA CutAre ==
  ASSUME NEW q \in Packet
  PROVE  /\ Aligned(q) \subseteq Seq(Strings \X Strings)
         /\ Shifted(q) \subseteq Seq(Strings \X Strings)
         /\ Spare(q) \in 0..1
<1>1. UpToEmptyKey(q.pairs) \in Seq(Strings \X Strings)
  <2>1. UpToEmptyKey(q.pairs) \in Seq(Key \X Value)
    BY PacketIs, UpToIs
  <2>. HIDE DEF UpToEmptyKey
  <2>. QED
    BY <2>1 DEF Strings
<1>2. Spare(q) \in 0..1
  BY DEF Spare
<1>3. Behind(q) \subseteq Seq(Strings \X Strings)
  <2>1. \A n \in 0..Spare(q) : n \in Nat
    BY <1>2
  <2>2. \A n \in 0..Spare(q) : Odd(n) \in Seq(Strings \X Strings)
    BY <2>1, OddAre
  <2>3. <<>> \in Seq(Strings \X Strings)
    OBVIOUS
  <2>. QED
    BY <2>2, <2>3, Zenon DEF Behind
<1>4. Aligned(q) \subseteq Seq(Strings \X Strings)
  <2>1. \A tail \in Behind(q) : UpToEmptyKey(q.pairs) \o tail \in Seq(Strings \X Strings)
    BY <1>1, <1>3
  <2>. QED
    BY <2>1, Zenon DEF Aligned
<1>5. Shifted(q) \subseteq Seq(Strings \X Strings)
  <2>1. Len(q.pairs) \in Nat
    BY PacketIs
  <2>2. \A n \in 0..(Len(q.pairs) + Spare(q)) : n \in Nat
    BY <1>2, <2>1
  <2>3. \A n \in 0..(Len(q.pairs) + Spare(q)) : Odd(n) \in Seq(Strings \X Strings)
    BY <2>2, OddAre
  <2>. QED
    BY <2>3, Zenon DEF Shifted
<1>. QED
  BY <1>2, <1>4, <1>5

\* Every pair that is read is a pair of strings.
LEMMA ParsedAre ==
  ASSUME NEW q \in Packet, NEW s \in Parsed(q), NEW c \in Copies(s)
  PROVE  s \in Seq(Strings \X Strings) /\ c \in Seq(Strings \X Strings)
<1>1. /\ Aligned(q) \subseteq Seq(Strings \X Strings)
      /\ Shifted(q) \subseteq Seq(Strings \X Strings)
  BY CutAre
<1>2. HeaderAsText(q) \subseteq Seq(Strings \X Strings)
  <2>1. <<>> \in Seq(Strings \X Strings) /\ Odd(1) \in Seq(Strings \X Strings)
    BY OddAre
  <2>2. \A x \in Aligned(q) \cup Shifted(q) : Odd(1) \o x \in Seq(Strings \X Strings)
    BY <1>1, <2>1
  <2>. QED
    BY <2>1, <2>2, Zenon DEF HeaderAsText
<1>3. s \in Seq(Strings \X Strings)
  BY <1>1, <1>2, Zenon DEF Parsed
<1>4. c \in Seq(Strings \X Strings)
  <2>1. CASE c = s
    BY <1>3, <2>1
  <2>2. CASE c # s
    <3>1. PICK i \in DOMAIN s, j \in {1, 2} : c = [s EXCEPT ![i][j] = NULL]
      <4>1. c \in {[s EXCEPT ![i][j] = NULL] : i \in DOMAIN s, j \in {1, 2}}
        BY <2>2 DEF Copies
      <4>. QED
        BY <4>1
    <3>. DEFINE one == [s[i] EXCEPT ![j] = NULL]
    <3>2. s[i] \in Strings \X Strings
      BY <1>3
    <3>3. PICK x \in Strings, y \in Strings : s[i] = <<x, y>>
      BY <3>2
    <3>4. NULL \in Strings
      BY DEF Strings
    <3>5. one \in Strings \X Strings
      <4>1. j = 1 => one = <<NULL, y>>
        BY <3>3
      <4>2. j = 2 => one = <<x, NULL>>
        BY <3>3
      <4>. QED
        BY <3>4, <4>1, <4>2
    <3>6. c = [s EXCEPT ![i] = one]
      BY <3>1
    <3>. HIDE DEF one
    <3>. QED
      BY <1>3, <3>5, <3>6
  <2>. QED
    BY <2>1, <2>2
<1>. QED
  BY <1>3, <1>4

\* What it means that a table is whole.
LEMMA NoEmptyKey ==
  ASSUME NEW t \in Tables, IsWhole(t)
  PROVE  \A i \in 1..Len(t) : KeyLength[t[i][1]] > 0
<1>1. t \in Seq(Key \X Value)
  BY TablesAre
<1>. QED
  BY <1>1, UpToIs

\* A packet that is not full and has no empty key is read as it was written.
LEMMA WholeIs ==
  ASSUME NEW q \in Packet, IsWhole(q.pairs), Spare(q) = 0
  PROVE  Aligned(q) = {q.pairs}
<1>1. Behind(q) = {<<>>}
  <2>1. Odd(0) = <<>>
    BY DEF Odd
  <2>2. \A n : n \in 0..0 <=> n = 0
    OBVIOUS
  <2>. QED
    BY <2>1, <2>2 DEF Behind
<1>2. q.pairs \o <<>> = q.pairs
  <2>1. q.pairs \in Seq(Key \X Value)
    BY PacketIs
  <2>. QED
    BY <2>1
<1>3. UpToEmptyKey(q.pairs) = q.pairs
  BY DEF IsWhole
<1>4. {UpToEmptyKey(q.pairs) \o tail : tail \in Behind(q)} = {q.pairs}
  BY <1>1, <1>2, <1>3
<1>. QED
  BY <1>4, Zenon DEF Aligned

\* In a dump that is plain and leaves room, a packet is read as it was written.
LEMMA PlainPacket ==
  ASSUME NEW t \in Tables, Plain(t), LeavesRoom(t), NEW off, Parts(Dump(t), off, t),
         NEW k \in 1..Len(Dump(t))
  PROVE  LET q == Dump(t)[k]
         IN  /\ q \in Packet
             /\ Aligned(q) = {q.pairs} /\ Spare(q) = 0
             /\ Unmistakable(t) /\ q.count = Unread => Announced(q) = {Huge}
             /\ q.count # Unread => q.count = Len(t) /\ Announced(q) = {Len(t)}
             /\ k > 1 => q.count = Unread
<1>. DEFINE d == Dump(t)
            q == d[k]
<1>1. /\ d \in Seq(Packet) /\ q \in Packet /\ Len(t) \in Nat
      /\ DOMAIN d = 1..Len(d) /\ t \in Seq(Key \X Value)
  BY TablesAre DEF Parts
<1>2. /\ off \in [1..Len(d) -> 0..Len(t)] /\ off[k] + Len(q.pairs) <= Len(t)
      /\ \A i \in 1..Len(q.pairs) : q.pairs[i] = t[off[k] + i]
      /\ k > 1 => q.count = Unread /\ Len(q.pairs) > 0
      /\ d[1].count = Len(t)
  BY DEF Parts
<1>3. q.size < MaxMsg
  BY <1>1 DEF LeavesRoom
<1>. HIDE DEF d
<1>. HIDE DEF q
<1>0. q \in Packet
  BY <1>1
<1>4. q.pairs \in Seq(Key \X Value) /\ Len(q.pairs) \in Nat /\ q.size \in Nat /\ MaxMsg \in Nat
  BY <1>0, PacketIs, ConfigAssumption
<1>5. \A i \in 1..Len(t) : KeyLength[t[i][1]] > 0
  <2>1. IsWhole(t)
    BY SMT DEF Plain
  <2>. QED
    BY <2>1, NoEmptyKey, Zenon
<1>6. \A i \in 1..Len(q.pairs) : KeyLength[q.pairs[i][1]] > 0
  <2>1. ASSUME NEW i \in 1..Len(q.pairs)
        PROVE  off[k] + i \in 1..Len(t)
    <3>1. off[k] \in Nat
      BY <1>2 DEF d
    <3>2. off[k] + Len(q.pairs) <= Len(t) /\ Len(q.pairs) \in Nat /\ Len(t) \in Nat
      BY <1>1, <1>2, <1>4
    <3>. QED
      BY <3>1, <3>2
  <2>. QED
    BY <1>2, <1>5, <2>1
<1>7. IsWhole(q.pairs)
  BY <1>4, <1>6, UpToIs
<1>8. Spare(q) = 0
  BY <1>3, <1>4 DEF Spare
<1>9. Aligned(q) = {q.pairs}
  BY <1>1, <1>7, <1>8, WholeIs DEF q
<1>10. /\ k > 1 => q.count = Unread
       /\ q.count # Unread => q.count = Len(t)
  <2>1. CASE k > 1
    BY <1>2, <2>1
  <2>2. CASE k = 1
    BY <1>2, <2>2 DEF q, d
  <2>. QED
    BY <2>1, <2>2
<1>11. ASSUME q.count # Unread
       PROVE  Announced(q) = {Len(t)}
  <2>1. q.count = Len(t) /\ (Final \/ Len(t) < 32768)
    BY <1>10, <1>11 DEF Plain
  <2>. QED
    BY <1>11, <2>1 DEF Announced
<1>12. ASSUME Unmistakable(t), q.count = Unread
       PROVE  Announced(q) = {Huge}
  <2>1. ~MayBeSmall(q)
    BY <1>1, <1>12 DEF Unmistakable, d, q
  <2>. QED
    BY <1>12, <2>1 DEF Announced
<1>. QED
  BY <1>1, <1>8, <1>9, <1>10, <1>11, <1>12 DEF q, d

\* Before a packet is read, the packets are what matters.
LEMMA TracedUnread ==
  ASSUME DumpShape,
         Undisturbed => /\ nbr_pairs = Unread /\ pairs = <<>> /\ dumping # "printed"
                        /\ \E off, ix, at :
                             Carried(Dump(table), off, table, packets, <<>>, ix, at)
  PROVE  DumpTraced
<1>1. Unread # Huge /\ (table \in Tables => Unread # Len(table))
  BY TablesAre, HugeIs
<1>2. <<>> \in Seq(Strings \X Strings)
  OBVIOUS
<1>. QED
  BY <1>1, <1>2 DEF DumpTraced, DumpShape

\* A packet less on its way: if it was the one with the number of pairs, that is gone.
LEMMA HeaderLeaves ==
  ASSUME NEW d, NEW off, NEW t, NEW p \in Seq(Packet), NEW r, NEW ix, NEW at,
         Carried(d, off, t, p, r, ix, at), NEW i \in 1..Len(p)
  PROVE  /\ HeaderGone(p) => HeaderGone(RemoveAt(p, i))
         /\ p[i].count # Unread => HeaderGone(RemoveAt(p, i))
<1>. DEFINE q == RemoveAt(p, i)
            new == Moved(p, ix, i)
<1>1. /\ Len(q) = Len(p) - 1 /\ \A j \in 1..Len(q) : q[j] = p[Skip(i, j)]
      /\ \A j \in 1..Len(q) : Skip(i, j) \in 1..Len(p)
  BY Removed DEF Skip
<1>2. HeaderGone(p) => HeaderGone(q)
  BY <1>1 DEF HeaderGone
<1>3. Carried(d, off, t, q, r, new, at) /\ \A j \in 1..Len(q) : new[j] # ix[i]
  BY LeaveOne
<1>4. ASSUME p[i].count # Unread, NEW j \in 1..Len(q)
      PROVE  q[j].count = Unread
  <2>1. /\ ix[i] \in 1..Len(d) /\ p[i] = d[ix[i]]
        /\ new[j] \in 1..Len(d) /\ q[j] = d[new[j]]
    BY <1>3 DEF Carried
  <2>2. \A k \in 1..Len(d) : k > 1 => d[k].count = Unread
    BY DEF Carried, Parts
  <2>3. \A k \in 1..Len(d) : k = 1 \/ k > 1
    BY DEF Carried, Parts
  <2>. QED
    BY <1>3, <1>4, <2>1, <2>2, <2>3
<1>. QED
  BY <1>2, <1>4 DEF HeaderGone

\* The first states of pps-dump-node satisfy the invariant.
LEMMA DumpStart ==
  ASSUME DumpInit
  PROVE  DumpInv
<1>1. DumpShape
  BY DEF DumpInit, DumpShape
<1>2. ASSUME Undisturbed
      PROVE  /\ nbr_pairs = Unread /\ pairs = <<>> /\ dumping = "start"
             /\ \E off, ix, at : Carried(Dump(table), off, table, packets, <<>>, ix, at)
  BY <1>2, TracedStart DEF DumpInit, Undisturbed
<1>3. DumpTraced
  BY <1>2, <1>1, TracedUnread
<1>. QED
  BY <1>1, <1>3 DEF DumpInv

\* The table and the packets it makes do not change.
LEMMA DumpSame ==
  ASSUME UNCHANGED <<release, faults, table>>
  PROVE  Dump(table)' = Dump(table) /\ Undisturbed' = Undisturbed
<1>1. Final' = Final
  BY DEF Final
<1>2. Dump(table)' = Dump(table)
  BY <1>1 DEF Dump
<1>3. Plain(table)' = Plain(table)
  BY <1>1 DEF Plain
<1>4. LeavesRoom(table)' = LeavesRoom(table)
  BY <1>2 DEF LeavesRoom
<1>5. Unmistakable(table)' = Unmistakable(table)
  BY <1>1, <1>2 DEF Unmistakable, MayBeSmall
<1>6. May("duplicated")' = May("duplicated") /\ May("nomem")' = May("nomem")
  BY DEF May
<1>. QED
  BY <1>2, <1>3, <1>4, <1>5, <1>6 DEF Undisturbed

\* A step of another program leaves the dump alone.
LEMMA DumpStays ==
  ASSUME DumpInv, UNCHANGED <<release, faults, dumpVars>>
  PROVE  DumpInv'
<1>1. Dump(table)' = Dump(table) /\ Undisturbed' = Undisturbed
  BY DumpSame DEF dumpVars
<1>2. DumpShape'
  BY DEF DumpInv, DumpShape, dumpVars
<1>3. DumpTraced'
  BY <1>1 DEF DumpInv, DumpTraced, dumpVars, Wanting, HeaderGone
<1>. QED
  BY <1>2, <1>3 DEF DumpInv

\* The server sends its dump.
LEMMA DumpServed ==
  ASSUME DumpInv, ServeDump, Same
  PROVE  DumpInv'
<1>1. Dump(table)' = Dump(table) /\ Undisturbed' = Undisturbed
  BY DumpSame DEF ServeDump, Same
<1>2. Dump(table) \in Seq(Packet) /\ Len(Dump(table)) \in Nat /\ table \in Tables
  BY DumpHolds DEF DumpInv, DumpShape
<1>3. packets' \in Seq(Packet)
  BY <1>2 DEF ServeDump
<1>4. DumpShape'
  BY <1>3 DEF DumpInv, DumpShape, ServeDump
<1>5. ASSUME Undisturbed
      PROVE  /\ nbr_pairs' = Unread /\ pairs' = <<>>
             /\ \E off, ix, at : Carried(Dump(table), off, table, packets', <<>>, ix, at)
  <2>1. packets' = Dump(table) /\ Plain(table)
    BY <1>5 DEF ServeDump, Undisturbed
  <2>2. nbr_pairs' = Unread /\ pairs' = <<>>
    BY DEF DumpInv, DumpShape, ServeDump
  <2>. QED
    BY <1>2, <2>1, <2>2, TracedStart
<1>6. DumpTraced'
  <2>1. /\ Unread # Huge /\ Unread # Len(table) /\ <<>> \in Seq(Strings \X Strings)
        /\ dumping' # "printed" /\ table' = table
    BY <1>2, TablesAre, HugeIs DEF ServeDump
  <2>. QED
    BY <1>1, <1>5, <2>1 DEF DumpTraced
<1>. QED
  BY <1>4, <1>6 DEF DumpInv

\* A packet is lost.
LEMMA PacketLost ==
  ASSUME DumpInv, LosePacket, Same
  PROVE  DumpInv'
<1>1. Dump(table)' = Dump(table) /\ Undisturbed' = Undisturbed
  BY DumpSame DEF LosePacket, Same
<1>2. PICK i \in DOMAIN packets : packets' = RemoveAt(packets, i)
  BY DEF LosePacket
<1>3. packets \in Seq(Packet) /\ i \in 1..Len(packets) /\ packets # <<>>
  BY <1>2 DEF DumpInv, DumpShape
<1>4. packets' \in Seq(Packet)
  BY <1>2, <1>3, Removed
<1>5. DumpShape'
  BY <1>3, <1>4 DEF DumpInv, DumpShape, LosePacket
<1>6. ASSUME NEW off, NEW ix, NEW at, NEW r,
             Carried(Dump(table), off, table, packets, r, ix, at)
      PROVE  /\ \E new : Carried(Dump(table), off, table, packets', r, new, at)
             /\ HeaderGone(packets) => HeaderGone(packets)'
  <2>1. HeaderGone(packets)' <=> HeaderGone(packets')
    BY DEF HeaderGone
  <2>. QED
    BY <1>2, <1>3, <1>6, <2>1, LeaveOne, HeaderLeaves
<1>7. ASSUME Undisturbed
      PROVE  /\ nbr_pairs' = nbr_pairs /\ pairs' = pairs /\ table' = table
             /\ \E off, ix, at : \E r \in Seq(Strings \X Strings) :
                  /\ Carried(Dump(table), off, table, packets', r, ix, at)
                  /\ nbr_pairs # Huge => r = pairs
                  /\ nbr_pairs = Huge =>
                       Len(pairs) <= Len(r) + (IF HeaderGone(packets)' THEN 1 ELSE 0)
             /\ nbr_pairs = Len(table) => HeaderGone(packets)'
             /\ dumping' = dumping
  <2>1. PICK off, ix, at : \E r \in Seq(Strings \X Strings) :
          /\ Carried(Dump(table), off, table, packets, r, ix, at)
          /\ nbr_pairs # Huge => r = pairs
          /\ nbr_pairs = Huge => Len(pairs) <= Len(r) + (IF HeaderGone(packets) THEN 1 ELSE 0)
    BY <1>7 DEF DumpInv, DumpTraced
  <2>2. PICK r \in Seq(Strings \X Strings) :
          /\ Carried(Dump(table), off, table, packets, r, ix, at)
          /\ nbr_pairs # Huge => r = pairs
          /\ nbr_pairs = Huge => Len(pairs) <= Len(r) + (IF HeaderGone(packets) THEN 1 ELSE 0)
    BY <2>1
  <2>3. Len(pairs) \in Nat /\ Len(r) \in Nat
    BY DEF DumpInv, DumpShape
  <2>4. nbr_pairs = Huge => Len(pairs) <= Len(r) + (IF HeaderGone(packets)' THEN 1 ELSE 0)
    BY <1>6, <2>2, <2>3
  <2>5. nbr_pairs = Len(table) => HeaderGone(packets)'
    BY <1>6, <1>7, <2>2 DEF DumpInv, DumpTraced
  <2>. QED
    BY <1>6, <2>2, <2>4, <2>5 DEF LosePacket
<1>8. DumpTraced'
  BY <1>1, <1>7 DEF DumpInv, DumpTraced, Wanting
<1>. QED
  BY <1>5, <1>8 DEF DumpInv

\* However a packet is cut, it yields no more pairs than it has, but one for its header.
LEMMA CutShort ==
  ASSUME NEW q \in Packet, Aligned(q) = {q.pairs}, Spare(q) = 0, NEW s \in Parsed(q)
  PROVE  Len(s) <= Len(q.pairs) + (IF q.count = Unread THEN 0 ELSE 1)
<1>0. Len(q.pairs) \in Nat
  BY PacketIs
<1>1. q.pairs \in Seq(Strings \X Strings) /\ Len(q.pairs) \in Nat
  <2>1. q.pairs \in Seq(Key \X Value)
    BY PacketIs
  <2>. QED
    BY <2>1 DEF Strings
<1>2. ASSUME NEW x \in Aligned(q) \cup Shifted(q)
      PROVE  x \in Seq(Strings \X Strings) /\ Len(x) \in Nat /\ Len(x) <= Len(q.pairs)
  <2>1. CASE x \in Aligned(q)
    BY <1>1, <2>1
  <2>2. CASE x \in Shifted(q)
    <3>1. PICK n \in 0..Len(q.pairs) : x = Odd(n)
      BY <1>1, <2>2 DEF Shifted
    <3>. QED
      BY <1>1, <3>1, OddAre
  <2>. QED
    BY <1>2, <2>1, <2>2
<1>3. ASSUME s \in HeaderAsText(q)
      PROVE  Len(s) <= Len(q.pairs) + 1
  <2>1. s = <<>> \/ s = Odd(1) \/ \E x \in Aligned(q) \cup Shifted(q) : s = Odd(1) \o x
    BY <1>3, Zenon DEF HeaderAsText
  <2>2. Odd(1) \in Seq(Strings \X Strings) /\ Len(Odd(1)) = 1 /\ Len(<<>>) = 0
    BY OddAre
  <2>3. s = <<>> \/ s = Odd(1) => Len(s) <= Len(q.pairs) + 1
    <3>1. s = <<>> \/ s = Odd(1) => Len(s) = 0 \/ Len(s) = 1
      BY <2>2, Zenon
    <3>. DEFINE n == Len(s)
                m == Len(q.pairs)
    <3>2. m \in Nat
      BY <1>0
    <3>. HIDE DEF n, m
    <3>3. n = 0 \/ n = 1 => n <= m + 1
      BY <3>2
    <3>. QED
      BY <3>1, <3>3, Zenon DEF n, m
  <2>4. ASSUME NEW x \in Aligned(q) \cup Shifted(q), s = Odd(1) \o x
        PROVE  Len(s) <= Len(q.pairs) + 1
    <3>1. x \in Seq(Strings \X Strings) /\ Len(x) \in Nat /\ Len(x) <= Len(q.pairs)
      BY <1>2
    <3>2. Len(Odd(1) \o x) = 1 + Len(x)
      BY <2>2, <3>1, SeqJoin
    <3>. QED
      BY <1>1, <2>4, <3>1, <3>2
  <2>. QED
    BY <2>1, <2>3, <2>4, Zenon
<1>4. CASE q.count = Unread
  <2>1. s \in Aligned(q) \cup Shifted(q)
    BY <1>4 DEF Parsed
  <2>. QED
    BY <1>2, <1>4, <2>1
<1>5. CASE q.count # Unread
  <2>1. s \in HeaderAsText(q) \/ s \in Aligned(q)
    BY <1>5 DEF Parsed
  <2>2. s \in Aligned(q) => Len(s) <= Len(q.pairs) + 1
    BY <1>1, <1>2
  <2>. QED
    BY <1>3, <1>5, <2>1, <2>2
<1>. QED
  BY <1>4, <1>5

\* A packet is read: the first that is, or a later one.
LEMMA PacketRead ==
  ASSUME DumpInv, ReadPacket, Same
  PROVE  DumpInv'
<1>1. Dump(table)' = Dump(table) /\ Undisturbed' = Undisturbed
  BY DumpSame DEF ReadPacket, Same
<1>2. PICK i \in DOMAIN packets :
        /\ packets' = RemoveAt(packets, i)
        /\ IF IsFirst THEN nbr_pairs' \in Announced(packets[i]) ELSE UNCHANGED nbr_pairs
        /\ \E s \in Parsed(packets[i]) : \E c \in Copies(s) : pairs' = pairs \o c
  BY DEF ReadPacket
<1>. DEFINE q == packets[i]
<1>3. PICK s \in Parsed(q) : \E c \in Copies(s) : pairs' = pairs \o c
  BY <1>2
<1>4. PICK c \in Copies(s) : pairs' = pairs \o c
  BY <1>3
<1>5. /\ packets \in Seq(Packet) /\ i \in 1..Len(packets) /\ q \in Packet
      /\ packets' \in Seq(Packet) /\ pairs \in Seq(Strings \X Strings)
      /\ nbr_pairs \in Nat \cup {Unread} /\ table \in Tables
  <2>1. packets \in Seq(Packet) /\ i \in 1..Len(packets)
    BY DEF DumpInv, DumpShape
  <2>2. q \in Packet
    BY <2>1
  <2>3. packets' \in Seq(Packet)
    BY <1>2, <2>1, Removed
  <2>. QED
    BY <2>1, <2>2, <2>3 DEF DumpInv, DumpShape
<1>. HIDE DEF q
<1>6. c \in Seq(Strings \X Strings)
  BY <1>5, ParsedAre
<1>7. pairs' \in Seq(Strings \X Strings)
  BY <1>4, <1>5, <1>6
<1>8. nbr_pairs' \in Nat \cup {Unread}
  <2>1. q.count \in Nat \cup {Unread}
    BY <1>5, PacketIs
  <2>2. Misread \subseteq Nat
    BY DumpAssumption, Zenon
  <2>3. AnyNumber \subseteq Nat /\ {Huge} \subseteq Nat
    BY <2>2, HugeIs DEF AnyNumber
  <2>4. \/ Announced(q) = {q.count} \/ Announced(q) = AnyNumber \/ Announced(q) = {Huge}
    BY DEF Announced
  <2>. QED
    BY <1>2, <1>5, <2>1, <2>3, <2>4 DEF q
<1>9. DumpShape'
  BY <1>5, <1>7, <1>8 DEF DumpInv, DumpShape, ReadPacket
<1>10. ASSUME Undisturbed
       PROVE  /\ nbr_pairs' \in {Len(table), Huge}
              /\ \E off, ix, at : \E r \in Seq(Strings \X Strings) :
                   /\ Carried(Dump(table), off, table, packets', r, ix, at)
                   /\ nbr_pairs' # Huge => r = pairs'
                   /\ nbr_pairs' = Huge =>
                        Len(pairs') <= Len(r) + (IF HeaderGone(packets') THEN 1 ELSE 0)
              /\ nbr_pairs' = Len(table) => HeaderGone(packets')
              /\ dumping' = "waiting"
  <2>1. c = s /\ dumping' = "waiting" /\ Plain(table) /\ LeavesRoom(table) /\ Unmistakable(table)
    BY <1>10 DEF Undisturbed, Copies, ReadPacket
  <2>2. PICK off, ix, at : \E r \in Seq(Strings \X Strings) :
          /\ Carried(Dump(table), off, table, packets, r, ix, at)
          /\ nbr_pairs # Huge => r = pairs
          /\ nbr_pairs = Huge => Len(pairs) <= Len(r) + (IF HeaderGone(packets) THEN 1 ELSE 0)
    BY <1>10 DEF DumpInv, DumpTraced
  <2>3. PICK r \in Seq(Strings \X Strings) :
          /\ Carried(Dump(table), off, table, packets, r, ix, at)
          /\ nbr_pairs # Huge => r = pairs
          /\ nbr_pairs = Huge => Len(pairs) <= Len(r) + (IF HeaderGone(packets) THEN 1 ELSE 0)
    BY <2>2
  <2>4. Parts(Dump(table), off, table) /\ q = Dump(table)[ix[i]] /\ ix[i] \in 1..Len(Dump(table))
    BY <1>5, <2>3 DEF Carried, q
  <2>5. /\ Aligned(q) = {q.pairs} /\ Spare(q) = 0
        /\ q.count = Unread => Announced(q) = {Huge}
        /\ q.count # Unread => Announced(q) = {Len(table)}
    BY <1>5, <2>1, <2>4, PlainPacket
  <2>6. /\ nbr_pairs \in {Unread, Len(table), Huge} /\ (IsFirst => pairs = <<>>)
        /\ nbr_pairs = Len(table) => HeaderGone(packets)
    BY <1>10 DEF DumpInv, DumpTraced, IsFirst
  <2>7. q.pairs \in Seq(Key \X Value) /\ Len(table) \in Nat /\ Len(table) + 1 < Huge
    BY <1>5, PacketIs, TablesAre, DumpAssumption
  <2>8. q.pairs \in Seq(Strings \X Strings)
    BY <2>7 DEF Strings
  <2>9. \E new, to : Carried(Dump(table), off, table, packets', r \o q.pairs, new, to)
    BY <1>2, <1>5, <2>3, <2>7, TakeOne DEF q
  <2>10. /\ HeaderGone(packets) => HeaderGone(packets') /\ q.count = Unread
         /\ q.count # Unread => HeaderGone(packets')
    <3>1. HeaderGone(packets) => q.count = Unread
      BY <1>5 DEF HeaderGone, q
    <3>. QED
      BY <1>2, <1>5, <2>3, <3>1, HeaderLeaves DEF q
  <2>11. /\ r \o q.pairs \in Seq(Strings \X Strings)
         /\ Len(r \o q.pairs) = Len(r) + Len(q.pairs)
    BY <2>8, SeqJoin
  <2>12. /\ s \in Seq(Strings \X Strings) /\ pairs' = pairs \o s
         /\ Len(pairs') = Len(pairs) + Len(s)
    <3>1. s \in Seq(Strings \X Strings) /\ pairs' = pairs \o s
      BY <1>4, <1>6, <2>1
    <3>. QED
      BY <1>5, <3>1, SeqJoin
  <2>13. Huge # Len(table) /\ Unread # Huge /\ Unread # Len(table) /\ Huge \in Nat
    BY <2>7, HugeIs
  <2>14. nbr_pairs' \in {Len(table), Huge}
    BY <1>2, <2>5, <2>6 DEF q, IsFirst
  <2>15. CASE nbr_pairs' = Len(table)
    <3>1. CASE IsFirst
      <4>1. q.count # Unread
        BY <1>2, <2>5, <2>13, <2>15, <3>1 DEF q
      <4>2. s = q.pairs /\ r = pairs
        BY <2>3, <2>5, <2>13, <3>1, <4>1 DEF Parsed, IsFirst
      <4>. QED
        BY <2>1, <2>9, <2>10, <2>11, <2>12, <2>13, <2>15, <4>1, <4>2
    <3>2. CASE ~IsFirst
      <4>1. nbr_pairs = Len(table) /\ HeaderGone(packets) /\ q.count = Unread
        BY <1>2, <2>6, <2>10, <2>15, <3>2
      <4>2. s = q.pairs /\ r = pairs
        BY <2>3, <2>5, <2>13, <3>2, <4>1 DEF Parsed
      <4>. QED
        BY <2>1, <2>9, <2>10, <2>11, <2>12, <2>13, <2>15, <4>1, <4>2
    <3>. QED
      BY <3>1, <3>2
  <2>16. CASE nbr_pairs' = Huge
    <3>1. Len(r) \in Nat /\ Len(q.pairs) \in Nat /\ Len(pairs) \in Nat /\ Len(s) \in Nat
      BY <1>5, <2>3, <2>8, <2>12
    <3>2. Len(pairs) <= Len(r) + (IF HeaderGone(packets) THEN 1 ELSE 0)
      <4>1. nbr_pairs # Huge => r = pairs
        BY <2>3
      <4>. QED
        BY <2>3, <3>1, <4>1
    <3>3. Len(s) <= Len(q.pairs) + (IF q.count = Unread THEN 0 ELSE 1)
      BY <1>5, <2>5, CutShort, Zenon
    <3>4. Len(pairs') <= Len(r) + Len(q.pairs) + (IF HeaderGone(packets') THEN 1 ELSE 0)
      <4>. DEFINE h == IF HeaderGone(packets) THEN 1 ELSE 0
                  g == IF HeaderGone(packets') THEN 1 ELSE 0
                  u == IF q.count = Unread THEN 0 ELSE 1
      <4>1. h \in Nat /\ u \in Nat /\ g \in Nat /\ h + u <= g
        BY <2>10
      <4>2. Len(pairs) <= Len(r) + h /\ Len(s) <= Len(q.pairs) + u
        BY <3>2, <3>3
      <4>. HIDE DEF h, g, u
      <4>3. Len(pairs') <= Len(r) + Len(q.pairs) + g
        BY <2>12, <3>1, <4>1, <4>2
      <4>. QED
        BY <4>3 DEF g
    <3>. QED
      BY <2>1, <2>9, <2>11, <2>13, <2>16, <3>4
  <2>. QED
    BY <2>14, <2>15, <2>16
<1>11. DumpTraced'
  <2>1. Len(table) # Unread /\ Huge # Unread /\ table' = table
    BY <1>5, TablesAre, HugeIs DEF ReadPacket
  <2>2. HeaderGone(packets)' <=> HeaderGone(packets')
    BY DEF HeaderGone
  <2>. QED
    BY <1>1, <1>10, <2>1, <2>2 DEF DumpTraced
<1>. QED
  BY <1>9, <1>11 DEF DumpInv

\* Every step of pps-dump-node, of the server and of the network keeps the invariant.
LEMMA DumpStep ==
  ASSUME DumpInv, DumpNext, Same
  PROVE  DumpInv'
<1>. USE DEF DumpInv, DumpShape
<1>1. CASE AskDump
  <2>1. Dump(table)' = Dump(table) /\ Undisturbed' = Undisturbed
    BY <1>1, DumpSame DEF AskDump, Same
  <2>2. dumping' # "printed" /\ DumpShape'
    BY <1>1 DEF AskDump
  <2>. QED
    BY <1>1, <2>1, <2>2 DEF AskDump, DumpTraced, HeaderGone
<1>2. CASE ServeDump
  BY <1>2, DumpServed
<1>3. CASE ReadPacket
  BY <1>3, PacketRead
<1>4. CASE GiveUpDump
  <2>1. Dump(table)' = Dump(table) /\ Undisturbed' = Undisturbed
    BY <1>4, DumpSame DEF GiveUpDump, Same
  <2>2. dumping' # "printed" /\ DumpShape'
    BY <1>4 DEF GiveUpDump
  <2>. QED
    BY <1>4, <2>1, <2>2 DEF GiveUpDump, DumpTraced, HeaderGone
<1>5. CASE PrintPairs
  <2>1. Dump(table)' = Dump(table) /\ Undisturbed' = Undisturbed
    BY <1>5, DumpSame DEF PrintPairs, Same
  <2>2. DumpShape'
    BY <1>5 DEF PrintPairs
  <2>3. ~Wanting'
    BY <1>5 DEF PrintPairs, Wanting
  <2>. QED
    BY <1>5, <2>1, <2>2, <2>3 DEF PrintPairs, DumpTraced, HeaderGone
<1>6. CASE LosePacket
  BY <1>6, PacketLost
<1>7. CASE DuplicatePacket
  <2>1. Undisturbed' = Undisturbed /\ ~Undisturbed
    BY <1>7, DumpSame DEF DuplicatePacket, Same, Undisturbed
  <2>2. PICK i \in DOMAIN packets : packets' = Append(packets, packets[i])
    BY <1>7 DEF DuplicatePacket
  <2>3. packets' \in Seq(Packet) /\ packets # <<>>
    BY <2>2
  <2>4. DumpShape'
    BY <1>7, <2>3 DEF DuplicatePacket
  <2>. QED
    BY <2>1, <2>4 DEF DumpTraced
<1>. QED
  BY <1>1, <1>2, <1>3, <1>4, <1>5, <1>6, <1>7 DEF DumpNext, DumpWork

\* What is printed is the table.
LEMMA DumpInvSuffices ==
  ASSUME DumpInv
  PROVE  DumpTypeOK /\ DumpIsTable
<1>1. DumpTypeOK
  BY DumpShapeSuffices DEF DumpInv
<1>2. ASSUME dumping = "printed", Undisturbed
      PROVE  Len(pairs) = Len(table) /\ ToSet(pairs) = ToSet(table)
  <2>1. PICK off, ix, at : \E r \in Seq(Strings \X Strings) :
          /\ Carried(Dump(table), off, table, packets, r, ix, at)
          /\ nbr_pairs # Huge => r = pairs
          /\ nbr_pairs = Huge => Len(pairs) <= Len(r) + (IF HeaderGone(packets) THEN 1 ELSE 0)
    BY <1>2 DEF DumpInv, DumpTraced
  <2>2. PICK r \in Seq(Strings \X Strings) :
          /\ Carried(Dump(table), off, table, packets, r, ix, at)
          /\ nbr_pairs # Huge => r = pairs
          /\ nbr_pairs = Huge => Len(pairs) <= Len(r) + (IF HeaderGone(packets) THEN 1 ELSE 0)
    BY <2>1
  <2>3. /\ table \in Seq(Key \X Value) /\ Len(table) \in Nat /\ Len(table) + 1 < Huge
        /\ pairs \in Seq(Strings \X Strings) /\ Len(pairs) \in Nat /\ Len(r) \in Nat
    BY TablesAre, DumpAssumption DEF DumpInv, DumpShape
  <2>4. /\ Len(r) <= Len(table)
        /\ Len(r) >= Len(table) => Len(r) = Len(table) /\ ToSet(r) = ToSet(table)
    BY <2>2, <2>3, ReadOnce
  <2>5. nbr_pairs \in {Len(table), Huge} /\ ~(Len(pairs) < nbr_pairs)
    BY <1>2 DEF DumpInv, DumpTraced, Wanting
  <2>6. nbr_pairs # Huge
    BY <2>2, <2>3, <2>4, <2>5, HugeIs
  <2>. QED
    BY <2>2, <2>3, <2>4, <2>5, <2>6
<1>3. DumpIsTable
  BY <1>2 DEF DumpIsTable, Undisturbed
<1>. QED
  BY <1>1, <1>3

-----------------------------------------------------------------------------
(* test-servers and test-parser.                                            *)

\* Sequences of one and of two members.
LEMMA TwoWords ==
  ASSUME NEW X, NEW a \in X, NEW b \in X
  PROVE  /\ <<a>> \in Seq(X) /\ Len(<<a>>) = 1
         /\ <<a, b>> \in Seq(X) /\ Len(<<a, b>>) = 2
OBVIOUS

\* Where the line of W = w begins in the file of t tests, counted from 0.
Row(t, w) == 2 + (w - 1) * (t + 3)

\* The successes among the n lines of r behind line b.
Hits(r, b, n) == {k \in 1..n : r[b + k] = "SUCCESS"}
Successes(r, b, n) == Cardinality(Hits(r, b, n))

\* The last z of the first n rows had no success, and the one before them had.
NoneSince(o, n, z) ==
  /\ z <= n
  /\ \A k \in (n - z + 1)..n : o[k][1] = 0
  /\ z < n => o[n - z][1] # 0

\* What the lines of results.txt are.
Words == {"N tests", "blank", "W", "SUCCESS", "FAILURE", "ratio", "aborting"}

\* The shape of the state.
TestShape ==
  /\ size \in Sizes
  /\ results \in Seq(Words) /\ rows \in Seq(Nat \X Nat) /\ outcomes \in Seq(Nat \X Nat)
  /\ servers \in [at : {"start", "loop", "done", "killed"}, W : Nat, i : Nat, suc : Nat,
                  zeros : Nat]
  /\ parser \in [at : {"start", "loop", "row", "done", "spinning"}, line : Nat, i : Nat,
                 s : Nat, zeros : Nat]

\* How far test-servers has come.
Writing ==
  /\ servers.W = Len(outcomes) + 1 /\ servers.i <= tests /\ servers.suc <= servers.i
  /\ servers.zeros <= 3 /\ Len(outcomes) <= N
  /\ servers.at = "start" =>
       results = <<>> /\ outcomes = <<>> /\ servers.zeros = 0 /\ servers.i = 0
  /\ servers.at \in {"loop", "killed"} => Len(outcomes) < N /\ servers.zeros < 3
  /\ servers.at = "done" => Len(outcomes) = N \/ servers.zeros = 3

\* It has not seen three W without a success before.
NoThree ==
  /\ NoneSince(outcomes, Len(outcomes), servers.zeros)
  /\ \A n \in 3..(Len(outcomes) - 1) : \E k \in (n - 2)..n : outcomes[k][1] # 0

\* The row in hand, of which a part is left when it is killed.
LastRow ==
  /\ servers.at \in {"loop", "killed"} =>
       Len(results) <= Row(tests, servers.W) + 1 + servers.i
  /\ servers.at = "loop" =>
       /\ Len(results) = Row(tests, servers.W) + 1 + servers.i
       /\ servers.suc = Successes(results, Row(tests, servers.W) + 1, servers.i)

\* The rows in the file.
Written ==
  \A w \in 1..Len(outcomes) :
    Row(tests, w) + 1 + tests <= Len(results) =>
      LET s == Successes(results, Row(tests, w) + 1, tests)
      IN  outcomes[w] = <<s, tests - s>>

\* How far test-parser has come.
Reading ==
  /\ servers.at \in {"start", "loop"} => parser.at = "start"
  /\ parser.at = "start" => parser.line = 0 /\ rows = <<>> /\ parser.zeros = 0
  /\ parser.line <= Len(results) /\ parser.zeros <= 3
  /\ parser.i <= tests /\ parser.s <= parser.i
  /\ parser.at = "row" => Len(rows) < N /\ parser.zeros < 3
  /\ parser.at = "done" => Len(rows) = N \/ parser.zeros = 3

\* What it has read is what was written.
SameRows ==
  /\ Len(rows) <= Len(outcomes) /\ \A w \in 1..Len(rows) : rows[w] = outcomes[w]
  /\ NoneSince(outcomes, Len(rows), parser.zeros)

\* Where it is in the file.
AtLine ==
  /\ parser.at = "loop" => parser.line = Row(tests, Len(rows) + 1)
  /\ parser.at = "row" =>
       /\ parser.line = Row(tests, Len(rows) + 1) + 1 + parser.i
       /\ parser.s = Successes(results, Row(tests, Len(rows) + 1) + 1, parser.i)

\* The invariant of the measurements.
TestInv ==
  TestShape /\ Writing /\ NoThree /\ LastRow /\ Written /\ Reading /\ SameRows /\ AtLine

-----------------------------------------------------------------------------
\* The rows follow each other, each with t outcomes and three lines more.
LEMMA RowIs ==
  ASSUME NEW t \in Nat
  PROVE  /\ Row(t, 1) = 2
         /\ \A w \in Nat : Row(t, w + 1) = Row(t, w) + t + 3
         /\ \A w \in Nat : w > 0 => Row(t, w) \in Nat
         /\ \A v, w \in Nat : v <= w => Row(t, v) <= Row(t, w)
<1>1. Row(t, 1) = 2
  BY DEF Row
<1>2. ASSUME NEW w \in Nat
      PROVE  Row(t, w + 1) = Row(t, w) + t + 3
  <2>1. ((w + 1) - 1) * (t + 3) = (w - 1) * (t + 3) + (t + 3)
    OBVIOUS
  <2>2. (w - 1) * (t + 3) \in Int
    OBVIOUS
  <2>. QED
    BY <2>1, <2>2 DEF Row
<1>3. ASSUME NEW v \in Nat, NEW w \in Nat, v <= w
      PROVE  Row(t, v) <= Row(t, w) /\ Row(t, w) \in Int /\ Row(t, v) \in Int
  <2>1. (w - v) * (t + 3) >= 0
    BY <1>3
  <2>2. (w - 1) * (t + 3) = (v - 1) * (t + 3) + (w - v) * (t + 3)
    OBVIOUS
  <2>3. (w - 1) * (t + 3) \in Int /\ (v - 1) * (t + 3) \in Int /\ (w - v) * (t + 3) \in Int
    OBVIOUS
  <2>. QED
    BY <2>1, <2>2, <2>3 DEF Row
<1>4. ASSUME NEW w \in Nat, w > 0
      PROVE  Row(t, w) \in Nat
  <2>1. 1 <= w /\ 1 \in Nat
    BY <1>4
  <2>2. Row(t, w) \in Int /\ Row(t, 1) <= Row(t, w)
    BY <1>3, <2>1
  <2>. QED
    BY <1>1, <2>2
<1>. QED
  BY <1>1, <1>2, <1>3, <1>4

\* One line more, and one success more if it is one.
LEMMA SuccessesAre ==
  ASSUME NEW r, NEW b \in Nat, NEW n \in Nat
  PROVE  /\ Successes(r, b, n) \in 0..n
         /\ Successes(r, b, 0) = 0
         /\ Successes(r, b, n + 1) =
              IF r[b + n + 1] = "SUCCESS" THEN Successes(r, b, n) + 1 ELSE Successes(r, b, n)
<1>1. IsFiniteSet(Hits(r, b, n)) /\ Cardinality(Hits(r, b, n)) <= n
  <2>1. Hits(r, b, n) \in SUBSET (1..n)
    BY DEF Hits
  <2>2. IsFiniteSet(1..n) /\ Cardinality(1..n) = n
    BY CountTo
  <2>. QED
    BY <2>1, <2>2, FS_Subset
<1>2. Successes(r, b, n) \in 0..n
  <2>1. Cardinality(Hits(r, b, n)) \in Nat
    BY <1>1, FS_CardinalityType
  <2>. QED
    BY <1>1, <2>1 DEF Successes
<1>3. Successes(r, b, 0) = 0
  <2>1. Hits(r, b, 0) = {}
    BY DEF Hits
  <2>. QED
    BY <2>1, FS_EmptySet DEF Successes
<1>4. CASE r[b + n + 1] = "SUCCESS"
  <2>1. Hits(r, b, n + 1) = Hits(r, b, n) \cup {n + 1} /\ n + 1 \notin Hits(r, b, n)
    <3>1. b + (n + 1) = b + n + 1
      OBVIOUS
    <3>. QED
      BY <1>4, <3>1 DEF Hits
  <2>2. Cardinality(Hits(r, b, n) \cup {n + 1}) = Cardinality(Hits(r, b, n)) + 1
    BY <1>1, <2>1, FS_AddElement
  <2>. QED
    BY <1>2, <1>3, <1>4, <2>1, <2>2 DEF Successes
<1>5. CASE r[b + n + 1] # "SUCCESS"
  <2>1. Hits(r, b, n + 1) = Hits(r, b, n)
    <3>1. b + (n + 1) = b + n + 1
      OBVIOUS
    <3>. QED
      BY <1>5, <3>1 DEF Hits
  <2>. QED
    BY <1>2, <1>3, <1>5, <2>1 DEF Successes
<1>. QED
  BY <1>4, <1>5

\* The count depends on the lines alone.
LEMMA SuccessesStay ==
  ASSUME NEW r, NEW q, NEW b \in Nat, NEW n \in Nat,
         \A k \in 1..(b + n) : q[k] = r[k]
  PROVE  Successes(q, b, n) = Successes(r, b, n)
<1>1. \A k \in 1..n : b + k \in 1..(b + n)
  OBVIOUS
<1>2. Hits(q, b, n) = Hits(r, b, n)
  BY <1>1 DEF Hits
<1>. QED
  BY <1>2 DEF Successes

\* One more row.
LEMMA NoneSinceMore ==
  ASSUME NEW o, NEW n \in Nat, NEW z \in Nat, NoneSince(o, n, z)
  PROVE  /\ o[n + 1][1] = 0 => NoneSince(o, n + 1, z + 1)
         /\ o[n + 1][1] # 0 => NoneSince(o, n + 1, 0)
<1>1. ASSUME o[n + 1][1] = 0
      PROVE  NoneSince(o, n + 1, z + 1)
  <2>1. z + 1 <= n + 1 /\ (n + 1) - (z + 1) = n - z /\ (n + 1) - (z + 1) + 1 = n - z + 1
    BY DEF NoneSince
  <2>2. \A k \in (n - z + 1)..(n + 1) : k \in (n - z + 1)..n \/ k = n + 1
    OBVIOUS
  <2>. QED
    BY <1>1, <2>1, <2>2 DEF NoneSince
<1>2. ASSUME o[n + 1][1] # 0
      PROVE  NoneSince(o, n + 1, 0)
  BY <1>2 DEF NoneSince
<1>. QED
  BY <1>1, <1>2

\* The number is the only one.
LEMMA NoneSinceOne ==
  ASSUME NEW o, NEW n \in Nat, NEW y \in Nat, NEW z \in Nat, NoneSince(o, n, y),
         NoneSince(o, n, z)
  PROVE  y = z
<1>1. ~(y < z)
  <2>1. ASSUME y < z
        PROVE  FALSE
    <3>1. n - y \in (n - z + 1)..n /\ y < n
      BY <2>1 DEF NoneSince
    <3>. QED
      BY <3>1 DEF NoneSince
  <2>. QED
    BY <2>1
<1>2. ~(z < y)
  <2>1. ASSUME z < y
        PROVE  FALSE
    <3>1. n - z \in (n - y + 1)..n /\ z < n
      BY <2>1 DEF NoneSince
    <3>. QED
      BY <3>1 DEF NoneSince
  <2>. QED
    BY <2>1
<1>. QED
  BY <1>1, <1>2

\* It depends on the first n rows alone.
LEMMA NoneSinceStays ==
  ASSUME NEW o, NEW n \in Nat, NEW z \in Nat, NEW q, \A k \in 1..n : q[k] = o[k],
         NoneSince(o, n, z)
  PROVE  NoneSince(q, n, z)
<1>1. \A k \in (n - z + 1)..n : k \in 1..n
  BY DEF NoneSince
<1>2. z < n => n - z \in 1..n
  OBVIOUS
<1>. QED
  BY <1>1, <1>2 DEF NoneSince

\* The sequences of the state.
LEMMA TestSeqs ==
  ASSUME TestInv
  PROVE  results \in Seq(Words) /\ rows \in Seq(Nat \X Nat) /\ outcomes \in Seq(Nat \X Nat)
BY DEF TestInv, TestShape

\* The numbers of the state.
Counts ==
  /\ N \in Nat /\ tests \in Nat /\ tests > 0
  /\ Len(results) \in Nat /\ Len(rows) \in Nat /\ Len(outcomes) \in Nat
  /\ servers.W \in Nat /\ servers.i \in Nat /\ servers.suc \in Nat /\ servers.zeros \in Nat
  /\ parser.line \in Nat /\ parser.i \in Nat /\ parser.s \in Nat /\ parser.zeros \in Nat
  /\ servers.at \in {"start", "loop", "done", "killed"}
  /\ parser.at \in {"start", "loop", "row", "done", "spinning"}

\* They are natural numbers.
LEMMA TestCounts ==
  ASSUME TestShape
  PROVE  Counts
<1>1. N \in Nat /\ tests \in Nat /\ tests > 0
  <2>1. size \in Nat \X (Nat \ {0})
    BY SizesAssumption DEF TestShape
  <2>. QED
    BY <2>1 DEF N, tests
<1>2. results \in Seq(Words) /\ rows \in Seq(Nat \X Nat) /\ outcomes \in Seq(Nat \X Nat)
  BY DEF TestShape
<1>3. Len(results) \in Nat /\ Len(rows) \in Nat /\ Len(outcomes) \in Nat
  BY <1>2
<1>4. /\ servers.W \in Nat /\ servers.i \in Nat /\ servers.suc \in Nat /\ servers.zeros \in Nat
      /\ servers.at \in {"start", "loop", "done", "killed"}
  BY DEF TestShape
<1>5. /\ parser.line \in Nat /\ parser.i \in Nat /\ parser.s \in Nat /\ parser.zeros \in Nat
      /\ parser.at \in {"start", "loop", "row", "done", "spinning"}
  BY DEF TestShape
<1>. QED
  BY <1>1, <1>3, <1>4, <1>5 DEF Counts

\* The safety part of ParserReports: a parser that has ended has printed the rows that
\* were measured.
Reported == parser.at = "done" => rows = outcomes

\* The invariant implies the type, and that the parser has printed what was measured:
\* as many rows as there were, since both stop behind three W without a success or behind N.
LEMMA TestInvSuffices ==
  ASSUME TestInv
  PROVE  TestTypeOK /\ Reported
<1>. USE DEF Counts
<1>0. Counts
  BY TestCounts DEF TestInv
<1>1. TestTypeOK
  <2>1. /\ servers.W \in 1..(N + 1) /\ servers.i \in 0..tests /\ servers.suc \in 0..tests
        /\ servers.zeros \in 0..3 /\ Len(outcomes) <= N
    <3>1. /\ servers.W = Len(outcomes) + 1 /\ servers.i <= tests /\ servers.suc <= servers.i
          /\ servers.zeros <= 3 /\ Len(outcomes) <= N
      BY DEF TestInv, Writing
    <3>2. /\ servers.W \in Nat /\ servers.i \in Nat /\ servers.suc \in Nat
          /\ servers.zeros \in Nat /\ Len(outcomes) \in Nat /\ N \in Nat /\ tests \in Nat
      BY <1>0
    <3>3. servers.W \in 1..(N + 1)
      BY <3>1, <3>2
    <3>4. servers.i \in 0..tests /\ servers.suc \in 0..tests
      BY <3>1, <3>2
    <3>5. servers.zeros \in 0..3
      BY <3>1, <3>2
    <3>. QED
      BY <3>1, <3>3, <3>4, <3>5
  <2>2. /\ parser.line \in 0..Len(results) /\ parser.i \in 0..tests /\ parser.s \in 0..tests
        /\ parser.zeros \in 0..3
    <3>1. /\ parser.line <= Len(results) /\ parser.zeros <= 3
          /\ parser.i <= tests /\ parser.s <= parser.i
      BY DEF TestInv, Reading
    <3>2. /\ parser.line \in Nat /\ parser.i \in Nat /\ parser.s \in Nat
          /\ parser.zeros \in Nat /\ Len(results) \in Nat /\ tests \in Nat
      BY <1>0
    <3>3. parser.line \in 0..Len(results)
      BY <3>1, <3>2
    <3>4. parser.i \in 0..tests /\ parser.s \in 0..tests
      BY <3>1, <3>2
    <3>5. parser.zeros \in 0..3
      BY <3>1, <3>2
    <3>. QED
      BY <3>3, <3>4, <3>5
  <2>3. Len(rows) <= N
    BY <1>0, <2>1 DEF TestInv, SameRows
  <2>4. servers \in [at : {"start", "loop", "done", "killed"}, W : 1..(N + 1),
                     i : 0..tests, suc : 0..tests, zeros : 0..3]
    BY <2>1 DEF TestInv, TestShape
  <2>5. parser \in [at : {"start", "loop", "row", "done", "spinning"}, line : 0..Len(results),
                    i : 0..tests, s : 0..tests, zeros : 0..3]
    BY <2>2 DEF TestInv, TestShape
  <2>. QED
    BY <2>1, <2>3, <2>4, <2>5 DEF TestInv, TestTypeOK, TestShape, N, tests
<1>2. ASSUME parser.at = "done"
      PROVE  rows = outcomes
  <2>1. Len(rows) = Len(outcomes)
    <3>1. Len(outcomes) <= N /\ (Len(rows) = N \/ parser.zeros = 3)
      BY <1>2 DEF TestInv, Writing, Reading
    <3>2. Len(rows) <= Len(outcomes)
      BY DEF TestInv, SameRows
    <3>3. CASE Len(rows) = N
      BY <1>0, <3>1, <3>2, <3>3
    <3>4. CASE parser.zeros = 3 /\ Len(rows) < Len(outcomes)
      <4>1. NoneSince(outcomes, Len(rows), 3)
        BY <3>4 DEF TestInv, SameRows
      <4>2. Len(rows) \in 3..(Len(outcomes) - 1)
        BY <1>0, <3>4, <4>1 DEF NoneSince
      <4>3. PICK k \in (Len(rows) - 2)..Len(rows) : outcomes[k][1] # 0
        BY <4>2 DEF TestInv, NoThree
      <4>4. k \in (Len(rows) - 3 + 1)..Len(rows)
        BY <1>0
      <4>. QED
        BY <4>1, <4>3, <4>4 DEF NoneSince
    <3>. QED
      BY <1>0, <3>1, <3>2, <3>3, <3>4
  <2>. QED
    BY <2>1, SameSeq, TestSeqs DEF TestInv, SameRows
<1>. QED
  BY <1>1, <1>2 DEF Reported

\* The first states of the measurements satisfy the invariant.
LEMMA TestStart ==
  ASSUME TestInit
  PROVE  TestInv
<1>. USE DEF TestInit, Counts
<1>1. TestShape
  BY DEF TestShape
<1>0. Counts
  BY <1>1, TestCounts
<1>2. NoneSince(<<>>, 0, 0) /\ Len(<<>>) = 0
  BY DEF NoneSince
<1>3. Writing /\ Reading
  BY <1>0, <1>2 DEF Writing, Reading
<1>4. NoThree /\ SameRows
  BY <1>0, <1>2 DEF NoThree, SameRows
<1>5. LastRow /\ Written /\ AtLine
  BY <1>0, <1>2 DEF LastRow, Written, AtLine
<1>. QED
  BY <1>1, <1>3, <1>4, <1>5 DEF TestInv

\* A step of another program leaves the measurements alone.
LEMMA TestStays ==
  ASSUME TestInv, UNCHANGED testVars
  PROVE  TestInv'
<1>. USE DEF TestInv, testVars, N, tests
<1>1. TestShape'
  BY DEF TestShape
<1>2. Writing' /\ NoThree' /\ LastRow' /\ Written'
  BY DEF Writing, NoThree, LastRow, Written
<1>3. Reading' /\ SameRows' /\ AtLine'
  BY DEF Reading, SameRows, AtLine
<1>. QED
  BY <1>1, <1>2, <1>3

-----------------------------------------------------------------------------
\* The steps of test-servers.
ServersRecord == [at : {"start", "loop", "done", "killed"}, W : Nat, i : Nat, suc : Nat, zeros : Nat]

\* The heading is written.
LEMMA HeaderStep ==
  ASSUME TestInv, WriteHeader
  PROVE  TestInv'
<1>. USE DEF Counts
<1>0. Counts
  BY TestCounts DEF TestInv
<1>1. /\ N' = N /\ tests' = tests /\ outcomes' = outcomes /\ parser' = parser /\ rows' = rows
      /\ size' = size
  BY DEF WriteHeader, N, tests
<1>2. /\ servers.at = "start" /\ outcomes = <<>> /\ Len(outcomes) = 0 /\ servers.zeros = 0
      /\ servers.i = 0 /\ servers.suc = 0 /\ servers.W = 1
  <2>1. servers.at = "start"
    BY DEF WriteHeader
  <2>2. Writing
    BY DEF TestInv
  <2>3. /\ servers.W = Len(outcomes) + 1 /\ servers.suc <= servers.i
        /\ outcomes = <<>> /\ servers.zeros = 0 /\ servers.i = 0
    BY <2>1, <2>2 DEF Writing
  <2>4. Len(<<>>) = 0
    OBVIOUS
  <2>5. servers.suc = 0
    BY <1>0, <2>3
  <2>. QED
    BY <2>1, <2>3, <2>4, <2>5
<1>3. parser.at = "start"
  BY <1>2 DEF TestInv, Reading
<1>4. /\ servers'.at = (IF N = 0 THEN "done" ELSE "loop")
      /\ servers'.W = 1 /\ servers'.i = 0 /\ servers'.suc = 0 /\ servers'.zeros = 0
      /\ servers' \in ServersRecord
  BY <1>2 DEF WriteHeader, TestInv, TestShape, ServersRecord
<1>5. results' \in Seq(Words) /\ Len(results') = IF N = 0 THEN 2 ELSE 3
  <2>. DEFINE head == <<"N tests", "blank">>
              tail == IF N = 0 THEN <<>> ELSE <<"W">>
  <2>1. "N tests" \in Words /\ "blank" \in Words /\ "W" \in Words
    BY DEF Words
  <2>2. head \in Seq(Words) /\ Len(head) = 2
    BY <2>1, TwoWords
  <2>3. tail \in Seq(Words) /\ Len(tail) = IF N = 0 THEN 0 ELSE 1
    <3>1. <<>> \in Seq(Words) /\ Len(<<>>) = 0
      OBVIOUS
    <3>2. <<"W">> \in Seq(Words) /\ Len(<<"W">>) = 1
      BY <2>1, TwoWords
    <3>. QED
      BY <3>1, <3>2
  <2>4. results' = head \o tail
    BY DEF WriteHeader
  <2>. HIDE DEF head, tail
  <2>5. head \o tail \in Seq(Words) /\ Len(head \o tail) = Len(head) + Len(tail)
    BY <2>2, <2>3, SeqJoin
  <2>. QED
    BY <2>2, <2>3, <2>4, <2>5
<1>6. TestShape'
  BY <1>1, <1>4, <1>5 DEF TestInv, TestShape, ServersRecord
<1>7. Row(tests, 1) = 2 /\ Successes(results', 3, 0) = 0 /\ 2 + 1 = 3
  <2>1. tests \in Nat /\ 3 \in Nat /\ 0 \in Nat
    BY <1>0
  <2>2. Row(tests, 1) = 2
    BY <2>1, RowIs
  <2>3. Successes(results', 3, 0) = 0
    BY <2>1, SuccessesAre
  <2>. QED
    BY <2>2, <2>3
<1>8. Writing'
  BY <1>0, <1>1, <1>2, <1>4 DEF TestInv, Writing
<1>9. NoThree'
  BY <1>1, <1>2, <1>4 DEF TestInv, NoThree
<1>10. LastRow'
  BY <1>0, <1>1, <1>4, <1>5, <1>7 DEF LastRow
<1>11. Written'
  BY <1>1, <1>2 DEF Written
<1>12. Reading'
  BY <1>0, <1>1, <1>3, <1>4, <1>5 DEF TestInv, Reading
<1>13. SameRows' /\ AtLine'
  BY <1>1, <1>3 DEF TestInv, SameRows, AtLine
<1>. QED
  BY <1>6, <1>8, <1>9, <1>10, <1>11, <1>12, <1>13 DEF TestInv

\* Where the rows end.
LEMMA RowsEnd ==
  ASSUME TestInv, NEW w \in 1..Len(outcomes)
  PROVE  /\ Row(tests, w) \in Nat /\ Row(tests, servers.W) \in Nat
         /\ Row(tests, w) + tests + 3 <= Row(tests, servers.W)
<1>. USE DEF Counts
<1>0. Counts
  BY TestCounts DEF TestInv
<1>1. servers.W = Len(outcomes) + 1
  BY DEF TestInv, Writing
<1>2. w \in Nat /\ w + 1 \in Nat /\ w > 0 /\ w + 1 <= servers.W /\ servers.W > 0
  BY <1>0, <1>1
<1>3. Row(tests, w + 1) = Row(tests, w) + tests + 3 /\ Row(tests, w + 1) <= Row(tests, servers.W)
  BY <1>0, <1>2, RowIs
<1>. QED
  BY <1>0, <1>2, <1>3, RowIs

\* A row that is whole stays in a file that begins the same.
LEMMA RowStays ==
  ASSUME TestInv, NEW q, NEW w \in 1..Len(outcomes),
         Row(tests, w) + 1 + tests <= Len(results),
         \A k \in 1..(Row(tests, w) + 1 + tests) : q[k] = results[k]
  PROVE  LET s == Successes(q, Row(tests, w) + 1, tests)
         IN  outcomes[w] = <<s, tests - s>>
<1>. USE DEF Counts
<1>0. Counts
  BY TestCounts DEF TestInv
<1>1. LET s == Successes(results, Row(tests, w) + 1, tests)
      IN  outcomes[w] = <<s, tests - s>>
  <2>1. Written
    BY DEF TestInv
  <2>. QED
    BY <2>1 DEF Written
<1>. DEFINE b == Row(tests, w) + 1
<1>2. tests \in Nat /\ b \in Nat
  <2>1. Row(tests, w) \in Nat
    BY RowsEnd
  <2>2. tests \in Nat
    BY <1>0
  <2>. QED
    BY <2>1, <2>2
<1>3. \A k \in 1..(b + tests) : q[k] = results[k]
  OBVIOUS
<1>. HIDE DEF b
<1>4. Successes(q, b, tests) = Successes(results, b, tests)
  BY <1>2, <1>3, SuccessesStay
<1>. QED
  BY <1>1, <1>4 DEF b

\* The rows that are whole stay when the file grows or is cut behind them.
LEMMA WrittenStays ==
  ASSUME TestInv, tests' = tests, outcomes' = outcomes, NEW n \in Nat,
         \A k \in 1..n : results'[k] = results[k],
         \A w \in 1..Len(outcomes) :
           Row(tests, w) + 1 + tests <= Len(results') =>
             Row(tests, w) + 1 + tests <= n /\ Row(tests, w) + 1 + tests <= Len(results)
  PROVE  Written'
<1>. USE DEF Counts
<1>0. Counts
  BY TestCounts DEF TestInv
<1>1. ASSUME NEW w \in 1..Len(outcomes), Row(tests, w) + 1 + tests <= Len(results')
      PROVE  LET s == Successes(results', Row(tests, w) + 1, tests)
             IN  outcomes[w] = <<s, tests - s>>
  <2>1. Row(tests, w) + 1 + tests \in Nat
    <3>1. Row(tests, w) \in Nat
      BY RowsEnd
    <3>2. tests \in Nat
      BY <1>0
    <3>. QED
      BY <3>1, <3>2
  <2>2. Row(tests, w) + 1 + tests <= n /\ Row(tests, w) + 1 + tests <= Len(results)
    BY <1>1
  <2>3. \A k \in 1..(Row(tests, w) + 1 + tests) : results'[k] = results[k]
    BY <2>1, <2>2
  <2>. QED
    BY <2>2, <2>3, RowStays
<1>. QED
  BY <1>1 DEF Written

\* A put, and its outcome written behind the others.
LEMMA RunStep ==
  ASSUME TestInv, RunTest
  PROVE  TestInv'
<1>. USE DEF Counts
<1>0. Counts
  BY TestCounts DEF TestInv
<1>1. /\ N' = N /\ tests' = tests /\ outcomes' = outcomes /\ parser' = parser /\ rows' = rows
      /\ size' = size
  BY DEF RunTest, N, tests
<1>2. PICK outcome \in {"SUCCESS", "FAILURE"} :
        /\ results' = Append(results, outcome)
        /\ servers' = [servers EXCEPT !.i = @ + 1,
                                      !.suc = IF outcome = "SUCCESS" THEN @ + 1 ELSE @]
  BY DEF RunTest
<1>3. servers.at = "loop" /\ servers.i < tests
  BY DEF RunTest
<1>. DEFINE suc == IF outcome = "SUCCESS" THEN servers.suc + 1 ELSE servers.suc
<1>4. /\ servers'.at = "loop" /\ servers'.W = servers.W /\ servers'.zeros = servers.zeros
      /\ servers'.i = servers.i + 1 /\ servers'.suc = suc /\ servers' \in ServersRecord
  <2>1. servers \in ServersRecord /\ suc \in Nat /\ servers.i + 1 \in Nat
    BY <1>0 DEF TestInv, TestShape, ServersRecord
  <2>. HIDE DEF suc
  <2>2. servers' = [[servers EXCEPT !.i = servers.i + 1] EXCEPT !.suc = suc]
    BY <1>2 DEF suc
  <2>. QED
    BY <1>3, <2>1, <2>2 DEF ServersRecord
<1>5. /\ results' \in Seq(Words) /\ Len(results') = Len(results) + 1
      /\ results'[Len(results) + 1] = outcome
      /\ \A k \in 1..Len(results) : results'[k] = results[k]
  <2>1. outcome \in Words /\ results \in Seq(Words)
    BY TestSeqs DEF Words
  <2>. QED
    BY <1>2, <2>1
<1>6. TestShape'
  BY <1>1, <1>4, <1>5 DEF TestInv, TestShape, ServersRecord
<1>. DEFINE b == Row(tests, servers.W) + 1
<1>7. /\ b \in Nat /\ Len(results) = b + servers.i
      /\ servers.suc = Successes(results, b, servers.i)
  <2>1. servers.W > 0
    BY <1>0 DEF TestInv, Writing
  <2>2. Row(tests, servers.W) \in Nat
    BY <1>0, <2>1, RowIs
  <2>. QED
    BY <1>3, <2>2 DEF TestInv, LastRow
<1>. HIDE DEF b
<1>8. suc = Successes(results', b, servers.i + 1)
  <2>1. b + servers.i <= Len(results)
    BY <1>0, <1>7
  <2>2. Successes(results', b, servers.i) = servers.suc
    <3>1. servers.i \in Nat /\ Len(results) \in Nat /\ b \in Nat
      BY <1>0, <1>7
    <3>3. \A k \in 1..(b + servers.i) : results'[k] = results[k]
      <4>1. 1..(b + servers.i) \subseteq 1..Len(results)
        BY <3>1, <2>1
      <4>. QED
        BY <4>1, <1>5
    <3>2. Successes(results', b, servers.i) = Successes(results, b, servers.i)
      <4>1. PICK n \in Nat : n = servers.i
        BY <3>1
      <4>2. \A k \in 1..n : b + k \in 1..(b + n)
        BY <3>1
      <4>3. \A k \in 1..n : results'[b + k] = results[b + k]
        BY <3>3, <4>1, <4>2
      <4>4. Hits(results', b, n) = Hits(results, b, n)
        BY <4>3 DEF Hits
      <4>. QED
        BY <4>1, <4>4 DEF Successes
    <3>. QED
      BY <3>2, <1>7
  <2>3. results'[b + servers.i + 1] = outcome
    BY <1>5, <1>7
  <2>4. servers.i \in Nat /\ b \in Nat
    BY <1>0, <1>7
  <2>5. Successes(results', b, servers.i + 1) =
          IF results'[b + servers.i + 1] = "SUCCESS"
          THEN Successes(results', b, servers.i) + 1 ELSE Successes(results', b, servers.i)
    BY <2>4, SuccessesAre
  <2>. QED
    BY <2>2, <2>3, <2>5
<1>9. Written'
  <2>1. \A w \in 1..Len(outcomes) : Row(tests, w) + 1 + tests <= Len(results)
    <3>1. ASSUME NEW w \in 1..Len(outcomes)
          PROVE  Row(tests, w) + 1 + tests <= Len(results)
      <4>1. Row(tests, w) \in Nat /\ Row(tests, w) + tests + 3 <= b - 1
        BY <1>7, RowsEnd DEF b
      <4>2. tests \in Nat /\ servers.i \in Nat
        BY <1>0
      <4>3. b \in Nat /\ Len(results) = b + servers.i
        BY <1>7
      <4>4. Row(tests, w) + 1 + tests <= b
        BY <4>1, <4>2, <4>3
      <4>5. b <= Len(results)
        BY <4>2, <4>3
      <4>6. PICK x \in Nat : x = Row(tests, w) + 1 + tests
        BY <4>1, <4>2
      <4>7. Len(results) \in Nat /\ x <= b
        BY <1>0, <4>4, <4>6
      <4>8. x <= Len(results)
        BY <4>3, <4>5, <4>7
      <4>. QED
        BY <4>6, <4>8
    <3>. QED
      BY <3>1
  <2>. QED
    BY <1>0, <1>1, <1>5, <2>1, WrittenStays
<1>10. Writing'
  <2>1. Writing
    BY DEF TestInv
  <2>2. suc <= servers.i + 1 /\ servers.i + 1 <= tests
    <3>1. servers.i \in Nat /\ servers.suc \in Nat /\ tests \in Nat
      BY <1>0
    <3>2. servers.suc <= servers.i /\ servers.i < tests
      BY <1>3, <2>1 DEF Writing
    <3>. QED
      BY <3>1, <3>2
  <2>. HIDE DEF suc
  <2>. QED
    BY <1>1, <1>3, <1>4, <2>1, <2>2 DEF Writing
<1>11. NoThree'
  BY <1>1, <1>4 DEF TestInv, NoThree
<1>12. LastRow'
  <2>1. Len(results') = b + servers'.i
    BY <1>0, <1>4, <1>5, <1>7
  <2>. QED
    BY <1>0, <1>1, <1>4, <1>7, <1>8, <2>1 DEF LastRow, b
<1>13. parser.at = "start"
  BY <1>3 DEF TestInv, Reading
<1>14. Reading'
  BY <1>0, <1>1, <1>3, <1>4, <1>5, <1>13 DEF TestInv, Reading
<1>15. SameRows' /\ AtLine'
  BY <1>1, <1>13 DEF TestInv, SameRows, AtLine
<1>. QED
  BY <1>6, <1>9, <1>10, <1>11, <1>12, <1>14, <1>15 DEF TestInv

\* test-servers is killed, and a part of the file is left.
LEMMA KillStep ==
  ASSUME TestInv, KillServers
  PROVE  TestInv'
<1>. USE DEF Counts
<1>0. Counts
  BY TestCounts DEF TestInv
<1>1. /\ N' = N /\ tests' = tests /\ outcomes' = outcomes /\ parser' = parser /\ rows' = rows
      /\ size' = size
  BY DEF KillServers, N, tests
<1>2. PICK n \in 0..Len(results) : results' = SubSeq(results, 1, n)
  BY DEF KillServers
<1>3. /\ servers.at = "loop" /\ servers'.at = "killed" /\ servers'.W = servers.W
      /\ servers'.zeros = servers.zeros /\ servers'.i = servers.i /\ servers'.suc = servers.suc
      /\ servers' \in ServersRecord
  BY DEF KillServers, TestInv, TestShape, ServersRecord
<1>4. /\ results' \in Seq(Words) /\ Len(results') = n /\ n \in Nat /\ n <= Len(results)
      /\ \A k \in 1..n : results'[k] = results[k]
  BY <1>2, TestSeqs
<1>5. TestShape'
  BY <1>1, <1>3, <1>4 DEF TestInv, TestShape, ServersRecord
<1>6. Written'
  <2>1. \A w \in 1..Len(outcomes) :
          Row(tests, w) + 1 + tests <= n =>
            Row(tests, w) + 1 + tests <= n /\ Row(tests, w) + 1 + tests <= Len(results)
    <3>1. \A w \in 1..Len(outcomes) : Row(tests, w) \in Nat
      BY RowsEnd
    <3>. QED
      BY <1>0, <1>4, <3>1
  <2>. QED
    BY <1>1, <1>4, <2>1, WrittenStays
<1>7. Writing'
  BY <1>1, <1>3 DEF TestInv, Writing
<1>8. NoThree'
  BY <1>1, <1>3 DEF TestInv, NoThree
<1>9. LastRow'
  <2>1. servers.W > 0 /\ Len(results) = Row(tests, servers.W) + 1 + servers.i
    BY <1>0, <1>3 DEF TestInv, Writing, LastRow
  <2>2. n <= Row(tests, servers.W) + 1 + servers.i
    BY <1>4, <2>1
  <2>. QED
    BY <1>1, <1>3, <1>4, <2>2 DEF LastRow
<1>10. parser.at = "start"
  BY <1>3 DEF TestInv, Reading
<1>11. Reading'
  BY <1>0, <1>1, <1>3, <1>4, <1>10 DEF TestInv, Reading
<1>12. SameRows' /\ AtLine'
  BY <1>1, <1>10 DEF TestInv, SameRows, AtLine
<1>. QED
  BY <1>5, <1>6, <1>7, <1>8, <1>9, <1>11, <1>12 DEF TestInv

\* The end of a W: its row is whole, and the next begins or the experiment ends.
LEMMA EndStep ==
  ASSUME TestInv, EndOfTests
  PROVE  TestInv'
<1>. USE DEF Counts
<1>0. Counts
  BY TestCounts DEF TestInv
<1>1. N' = N /\ tests' = tests /\ parser' = parser /\ rows' = rows /\ size' = size
  BY DEF EndOfTests, N, tests
<1>. DEFINE L == Len(outcomes)
            b == Row(tests, servers.W) + 1
            new == <<servers.suc, tests - servers.suc>>
            zeros == Zeros(servers.zeros, servers.suc)
            next == IF zeros = 3 THEN "aborting" ELSE IF servers.W < N THEN "W" ELSE "end"
            tail == IF next = "end" THEN <<>> ELSE <<next>>
<1>2. /\ servers.at = "loop" /\ servers.i = tests
      /\ outcomes' = Append(outcomes, new)
      /\ results' = (results \o <<"ratio", "blank">>) \o tail
      /\ servers' = [at |-> IF next = "W" THEN "loop" ELSE "done",
                     W |-> servers.W + 1, i |-> 0, suc |-> 0, zeros |-> zeros]
  BY DEF EndOfTests
<1>3. L < N /\ servers.W = L + 1 /\ servers.zeros < 3 /\ servers.suc <= tests /\ L \in Nat
  <2>1. Writing
    BY DEF TestInv
  <2>2. L < N /\ servers.W = L + 1 /\ servers.zeros < 3 /\ servers.suc <= servers.i
    BY <1>2, <2>1 DEF Writing
  <2>. QED
    BY <1>0, <1>2, <2>2
<1>4. /\ zeros \in Nat /\ zeros <= 3
      /\ servers.suc = 0 => zeros = servers.zeros + 1
      /\ servers.suc # 0 => zeros = 0
  <2>1. servers.zeros \in Nat /\ servers.suc \in Nat
    BY <1>0
  <2>2. servers.zeros \in 0..2
    BY <1>3, <2>1
  <2>. QED
    BY <2>1, <2>2 DEF Zeros
<1>5. /\ next = "W" => L + 1 < N /\ zeros < 3
      /\ next # "W" => L + 1 = N \/ zeros = 3
      /\ next \in {"W", "aborting", "end"}
  <2>1. servers.W < N <=> L + 1 < N
    BY <1>3
  <2>2. ~(L + 1 < N) => L + 1 = N
    BY <1>0, <1>3
  <2>3. zeros # 3 => zeros < 3
    BY <1>4
  <2>. HIDE DEF zeros, L
  <2>. QED
    BY <2>1, <2>2, <2>3
<1>6. b \in Nat /\ Len(results) = b + tests /\ servers.suc = Successes(results, b, tests)
  <2>1. LastRow
    BY DEF TestInv
  <2>2. servers.W \in Nat /\ servers.W > 0 /\ tests \in Nat
    BY <1>0, <1>3
  <2>3. Row(tests, servers.W) \in Nat
    BY <2>2, RowIs
  <2>. QED
    BY <1>2, <2>1, <2>3 DEF LastRow
<1>7. Row(tests, servers.W + 1) = b + tests + 2
  <2>1. servers.W \in Nat /\ tests \in Nat
    BY <1>0
  <2>2. Row(tests, servers.W + 1) = Row(tests, servers.W) + tests + 3
    BY <2>1, RowIs
  <2>3. Row(tests, servers.W) \in Int
    BY <1>6, <2>1 DEF Row
  <2>. QED
    BY <2>1, <2>2, <2>3
<1>8. /\ results' \in Seq(Words)
      /\ Len(results') = b + tests + 2 + (IF next = "end" THEN 0 ELSE 1)
      /\ \A k \in 1..Len(results) : results'[k] = results[k]
  <2>. DEFINE ratio == <<"ratio", "blank">>
  <2>1. /\ "ratio" \in Words /\ "blank" \in Words
        /\ next # "end" => next \in Words
    BY <1>5 DEF Words
  <2>2. ratio \in Seq(Words) /\ Len(ratio) = 2
    BY <2>1, TwoWords
  <2>. HIDE DEF next
  <2>3. tail \in Seq(Words) /\ Len(tail) = IF next = "end" THEN 0 ELSE 1
    <3>1. <<>> \in Seq(Words) /\ Len(<<>>) = 0
      OBVIOUS
    <3>2. next \in Words => <<next>> \in Seq(Words) /\ Len(<<next>>) = 1
      BY TwoWords
    <3>. QED
      BY <2>1, <3>1, <3>2
  <2>. HIDE DEF ratio, tail
  <2>4. results \in Seq(Words)
    BY TestSeqs
  <2>5. results \o ratio \in Seq(Words) /\ Len(results \o ratio) = Len(results) + 2
    BY <2>2, <2>4, SeqJoin
  <2>6. /\ (results \o ratio) \o tail \in Seq(Words)
        /\ Len((results \o ratio) \o tail) = Len(results) + 2 + Len(tail)
    BY <2>3, <2>5, SeqJoin
  <2>7. results' = (results \o ratio) \o tail
    BY <1>2 DEF ratio
  <2>8. \A k \in 1..Len(results) : (results \o ratio)[k] = results[k]
    BY <2>2, <2>4
  <2>9. \A k \in 1..Len(results \o ratio) : ((results \o ratio) \o tail)[k] = (results \o ratio)[k]
    BY <2>3, <2>5
  <2>10. \A k \in 1..Len(results) : k \in 1..Len(results \o ratio)
    BY <1>0, <2>5
  <2>. QED
    BY <1>6, <2>3, <2>6, <2>7, <2>8, <2>9, <2>10
<1>9. /\ outcomes' \in Seq(Nat \X Nat) /\ Len(outcomes') = L + 1
      /\ outcomes'[L + 1] = new /\ new[1] = servers.suc
      /\ \A k \in 1..L : outcomes'[k] = outcomes[k]
  <2>1. tests - servers.suc \in Nat /\ servers.suc \in Nat
    BY <1>0, <1>3
  <2>2. new \in Nat \X Nat /\ new[1] = servers.suc
    BY <2>1
  <2>3. outcomes \in Seq(Nat \X Nat)
    BY TestSeqs
  <2>. HIDE DEF new
  <2>. QED
    BY <1>2, <2>2, <2>3
<1>10. /\ servers'.at = (IF next = "W" THEN "loop" ELSE "done") /\ servers'.W = L + 2
       /\ servers'.i = 0 /\ servers'.suc = 0 /\ servers'.zeros = zeros
       /\ servers' \in ServersRecord
  <2>1. servers.W + 1 = L + 2 /\ servers.W + 1 \in Nat
    BY <1>0, <1>3
  <2>. HIDE DEF next, zeros, L
  <2>. QED
    BY <1>2, <1>4, <2>1 DEF ServersRecord
<1>. HIDE DEF next, zeros, L, b, new, tail
<1>11. TestShape'
  BY <1>1, <1>8, <1>9, <1>10 DEF TestInv, TestShape, ServersRecord
<1>12. Writing'
  <2>1. servers'.W = Len(outcomes') + 1 /\ Len(outcomes') <= N
    BY <1>0, <1>3, <1>9, <1>10
  <2>2. servers'.i <= tests /\ servers'.suc <= servers'.i
    BY <1>0, <1>10
  <2>3. servers'.at = "loop" => Len(outcomes') < N /\ servers'.zeros < 3
    BY <1>5, <1>9, <1>10
  <2>4. servers'.at = "done" => Len(outcomes') = N \/ servers'.zeros = 3
    BY <1>5, <1>9, <1>10
  <2>5. servers'.at \in {"loop", "done"} /\ servers'.zeros <= 3
    BY <1>4, <1>10
  <2>. QED
    BY <1>1, <2>1, <2>2, <2>3, <2>4, <2>5 DEF Writing
<1>13. NoThree'
  <2>1. NoThree
    BY DEF TestInv
  <2>2. NoneSince(outcomes, L, servers.zeros)
    BY <2>1 DEF NoThree, L
  <2>3. PICK q : q = outcomes'
    OBVIOUS
  <2>4. NoneSince(q, L, servers.zeros)
    BY <1>0, <1>3, <1>9, <2>2, <2>3, NoneSinceStays
  <2>5. q[L + 1][1] = servers.suc
    BY <1>9, <2>3
  <2>6. NoneSince(q, L + 1, zeros)
    <3>1. /\ q[L + 1][1] = 0 => NoneSince(q, L + 1, servers.zeros + 1)
          /\ q[L + 1][1] # 0 => NoneSince(q, L + 1, 0)
      BY <1>0, <1>3, <2>4, NoneSinceMore
    <3>. QED
      BY <1>4, <2>5, <3>1
  <2>7. ASSUME NEW n \in 3..L
        PROVE  \E k \in (n - 2)..n : q[k][1] # 0
    <3>1. CASE n < L
      <4>1. n \in 3..(L - 1)
        BY <1>3, <3>1
      <4>2. PICK k \in (n - 2)..n : outcomes[k][1] # 0
        BY <2>1, <4>1 DEF NoThree, L
      <4>3. k \in 1..L
        BY <1>3
      <4>. QED
        BY <1>9, <2>3, <4>2, <4>3
    <3>2. CASE n = L
      <4>1. /\ L - servers.zeros \in (n - 2)..n /\ L - servers.zeros \in 1..L
            /\ servers.zeros < L
        <5>1. servers.zeros \in 0..2 /\ L \in Nat /\ L >= 3
          <6>1. servers.zeros \in Nat
            BY <1>0
          <6>2. L >= 3
            BY <3>2
          <6>. QED
            BY <1>3, <6>1, <6>2
        <5>. QED
          BY <3>2, <5>1
      <4>2. q[L - servers.zeros][1] # 0
        BY <2>4, <4>1 DEF NoneSince
      <4>. QED
        BY <4>1, <4>2
    <3>. QED
      BY <1>3, <3>1, <3>2
  <2>8. Len(outcomes') - 1 = L
    BY <1>3, <1>9
  <2>. QED
    BY <1>9, <1>10, <2>3, <2>6, <2>7, <2>8 DEF NoThree
<1>14. LastRow'
  <2>1. ASSUME next = "W"
        PROVE  /\ Len(results') = Row(tests, servers'.W) + 1 + servers'.i
               /\ servers'.suc = Successes(results', Row(tests, servers'.W) + 1, servers'.i)
    <3>1. servers'.W = servers.W + 1
      BY <1>0, <1>3, <1>10
    <3>2. Row(tests, servers'.W) = b + tests + 2
      BY <1>7, <3>1
    <3>3. Row(tests, servers'.W) + 1 \in Nat
      BY <1>0, <1>6, <3>2
    <3>4. Successes(results', Row(tests, servers'.W) + 1, 0) = 0
      BY <3>3, SuccessesAre
    <3>5. Len(results') = Row(tests, servers'.W) + 1 + 0
      BY <1>0, <1>6, <1>8, <2>1, <3>2
    <3>. QED
      BY <1>10, <3>4, <3>5
  <2>2. servers'.at # "killed" /\ (servers'.at = "loop" => next = "W")
    BY <1>10
  <2>3. next = "W" => Len(results') <= Row(tests, servers'.W) + 1 + servers'.i
    <3>1. Len(results') \in Nat
      BY <1>8
    <3>. QED
      BY <2>1, <3>1
  <2>. QED
    BY <1>1, <2>1, <2>2, <2>3 DEF LastRow
<1>15. Written'
  <2>1. ASSUME NEW w \in 1..Len(outcomes')
        PROVE  LET s == Successes(results', Row(tests, w) + 1, tests)
               IN  outcomes'[w] = <<s, tests - s>>
    <3>1. w \in 1..L \/ w = L + 1
      BY <1>3, <1>9
    <3>2. CASE w \in 1..L
      <4>1. w \in 1..Len(outcomes)
        BY <3>2 DEF L
      <4>2. Row(tests, w) \in Nat /\ Row(tests, w) + tests + 3 <= b - 1
        BY <1>6, <4>1, RowsEnd DEF b
      <4>3. Row(tests, w) + 1 + tests <= Len(results)
        BY <1>0, <1>6, <4>2
      <4>4. \A k \in 1..(Row(tests, w) + 1 + tests) : results'[k] = results[k]
        BY <1>0, <1>8, <4>2, <4>3
      <4>. QED
        BY <1>9, <3>2, <4>1, <4>3, <4>4, RowStays
    <3>3. CASE w = L + 1
      <4>1. \A k \in 1..(b + tests) : results'[k] = results[k]
        BY <1>6, <1>8
      <4>2. tests \in Nat /\ b \in Nat
        BY <1>0, <1>6
      <4>3. Successes(results', b, tests) = Successes(results, b, tests)
        BY <4>1, <4>2, SuccessesStay
      <4>4. Row(tests, w) + 1 = b
        BY <1>3, <3>3 DEF b
      <4>. QED
        BY <1>6, <1>9, <3>3, <4>3, <4>4 DEF new
    <3>. QED
      BY <3>1, <3>2, <3>3
  <2>. QED
    BY <1>1, <2>1 DEF Written
<1>16. parser.at = "start"
  BY <1>2 DEF TestInv, Reading
<1>17. Reading'
  <2>1. Reading
    BY DEF TestInv
  <2>2. parser.line = 0 /\ 0 <= Len(results')
    BY <1>8, <1>16, <2>1 DEF Reading
  <2>. QED
    BY <1>1, <1>16, <2>1, <2>2 DEF Reading
<1>18. SameRows' /\ AtLine'
  <2>1. rows = <<>> /\ parser.zeros = 0 /\ Len(<<>>) = 0
    BY <1>16 DEF TestInv, Reading
  <2>2. NoneSince(outcomes', 0, 0)
    BY DEF NoneSince
  <2>3. Len(rows) = 0 /\ Len(rows) <= Len(outcomes')
    BY <1>3, <1>9, <2>1
  <2>4. SameRows'
    BY <1>1, <2>1, <2>2, <2>3 DEF SameRows
  <2>. QED
    BY <1>1, <1>16, <2>4 DEF AtLine
<1>. QED
  BY <1>11, <1>12, <1>13, <1>14, <1>15, <1>17, <1>18 DEF TestInv

-----------------------------------------------------------------------------
\* The steps of test-parser, which leaves the file alone.
LEMMA ParserKeeps ==
  ASSUME TestInv, UNCHANGED <<size, results, servers, outcomes>>
  PROVE  /\ N' = N /\ tests' = tests /\ size' = size /\ results' = results
         /\ servers' = servers /\ outcomes' = outcomes
         /\ Writing' /\ NoThree' /\ LastRow' /\ Written'
<1>1. /\ N' = N /\ tests' = tests /\ size' = size /\ results' = results
      /\ servers' = servers /\ outcomes' = outcomes
  BY DEF N, tests
<1>2. Writing'
  BY <1>1 DEF TestInv, Writing
<1>3. NoThree'
  BY <1>1 DEF TestInv, NoThree
<1>4. LastRow'
  BY <1>1 DEF TestInv, LastRow
<1>5. Written'
  BY <1>1 DEF TestInv, Written
<1>. QED
  BY <1>1, <1>2, <1>3, <1>4, <1>5

\* The shape of the parser's state.
ParserRecord == [at : {"start", "loop", "row", "done", "spinning"}, line : Nat, i : Nat, s : Nat,
            zeros : Nat]

\* The parser moves in the file, and has written the same rows.
LEMMA ParserMoves ==
  ASSUME TestInv, UNCHANGED <<size, results, servers, outcomes>>, rows' = rows,
         parser' \in ParserRecord, parser'.zeros = parser.zeros, parser'.at # "start",
         servers.at \in {"done", "killed"},
         parser'.line <= Len(results), parser'.i <= tests, parser'.s <= parser'.i,
         parser'.at = "row" => Len(rows) < N /\ parser.zeros < 3,
         parser'.at = "done" => Len(rows) = N \/ parser.zeros = 3,
         AtLine'
  PROVE  TestInv'
<1>1. /\ N' = N /\ tests' = tests /\ size' = size /\ results' = results
      /\ servers' = servers /\ outcomes' = outcomes
      /\ Writing' /\ NoThree' /\ LastRow' /\ Written'
  BY ParserKeeps
<1>2. TestShape'
  BY <1>1 DEF TestInv, TestShape, ParserRecord
<1>3. Reading'
  <2>1. parser.zeros <= 3
    BY DEF TestInv, Reading
  <2>. QED
    BY <1>1, <2>1 DEF Reading
<1>4. SameRows'
  BY <1>1 DEF TestInv, SameRows
<1>. QED
  BY <1>1, <1>2, <1>3, <1>4 DEF TestInv

\* The parser loops at the end of the file.
LEMMA ParserSpins ==
  ASSUME TestInv, UNCHANGED <<size, results, servers, outcomes>>, Spin,
         servers.at \in {"done", "killed"}
  PROVE  TestInv'
<1>1. /\ parser'.at = "spinning" /\ parser'.line = parser.line /\ parser'.i = parser.i
      /\ parser'.s = parser.s /\ parser'.zeros = parser.zeros /\ parser' \in ParserRecord
      /\ rows' = rows
  BY DEF Spin, TestInv, TestShape, ParserRecord
<1>2. parser.line <= Len(results) /\ parser.i <= tests /\ parser.s <= parser.i
  BY DEF TestInv, Reading
<1>3. AtLine'
  BY <1>1 DEF AtLine
<1>. QED
  BY <1>1, <1>2, <1>3, ParserMoves

\* The heading is read.
LEMMA ReadHeaderStep ==
  ASSUME TestInv, ReadHeader
  PROVE  TestInv'
<1>. USE DEF Counts
<1>0. Counts
  BY TestCounts DEF TestInv
<1>1. /\ UNCHANGED <<size, results, servers, outcomes>> /\ servers.at \in {"done", "killed"}
      /\ parser.at = "start"
  BY DEF ReadHeader
<1>2. CASE ~Has(2)
  <2>1. Spin
    BY <1>2 DEF ReadHeader
  <2>. QED
    BY <1>1, <2>1, ParserSpins
<1>3. CASE Has(2)
  <2>1. rows' = rows /\ parser' = [[parser EXCEPT !.at = "loop"] EXCEPT !.line = 2]
    BY <1>3 DEF ReadHeader
  <2>2. parser \in ParserRecord
    BY DEF TestInv, TestShape, ParserRecord
  <2>3. /\ parser'.at = "loop" /\ parser'.line = 2 /\ parser'.i = parser.i
        /\ parser'.s = parser.s /\ parser'.zeros = parser.zeros /\ parser' \in ParserRecord
    BY <2>1, <2>2 DEF ParserRecord
  <2>4. /\ parser.line = 0 /\ rows = <<>> /\ parser.i <= tests /\ parser.s <= parser.i
    BY <1>1 DEF TestInv, Reading
  <2>5. 2 <= Len(results)
    BY <1>0, <1>3, <2>4 DEF Has
  <2>6. AtLine'
    <3>1. N' = N /\ tests' = tests
      BY <1>1, ParserKeeps
    <3>2. tests \in Nat
      BY <1>0
    <3>3. Row(tests, 1) = 2
      BY <3>2, RowIs
    <3>4. Len(rows) + 1 = 1
      <4>1. Len(<<>>) = 0
        OBVIOUS
      <4>. QED
        BY <2>4, <4>1
    <3>. QED
      BY <2>1, <2>3, <3>1, <3>3, <3>4 DEF AtLine
  <2>. QED
    BY <1>1, <2>1, <2>3, <2>4, <2>5, <2>6, ParserMoves
<1>. QED
  BY <1>2, <1>3

\* The parser is at work when test-servers has ended.
LEMMA HasEnded ==
  ASSUME TestInv, parser.at # "start"
  PROVE  servers.at \in {"done", "killed"}
<1>. USE DEF Counts
<1>0. Counts
  BY TestCounts DEF TestInv
<1>1. servers.at \notin {"start", "loop"}
  BY DEF TestInv, Reading
<1>. QED
  BY <1>0, <1>1

\* The line of a W is read.
LEMMA ReadWStep ==
  ASSUME TestInv, ReadW
  PROVE  TestInv'
<1>. USE DEF Counts
<1>0. Counts
  BY TestCounts DEF TestInv
<1>1. /\ UNCHANGED <<size, results, servers, outcomes>> /\ parser.at = "loop" /\ MoreRows
  BY DEF ReadW
<1>2. servers.at \in {"done", "killed"}
  BY <1>1, HasEnded
<1>3. CASE ~Has(1)
  <2>1. Spin
    BY <1>3 DEF ReadW
  <2>. QED
    BY <1>1, <1>2, <2>1, ParserSpins
<1>4. CASE Has(1)
  <2>1. /\ rows' = rows
        /\ parser' = [[[[parser EXCEPT !.at = "row"] EXCEPT !.line = parser.line + 1]
                       EXCEPT !.i = 0] EXCEPT !.s = 0]
    BY <1>4 DEF ReadW
  <2>2. parser \in ParserRecord /\ parser.line + 1 \in Nat
    BY <1>0 DEF TestInv, TestShape, ParserRecord
  <2>3. /\ parser'.at = "row" /\ parser'.line = parser.line + 1 /\ parser'.i = 0
        /\ parser'.s = 0 /\ parser'.zeros = parser.zeros /\ parser' \in ParserRecord
    BY <2>1, <2>2 DEF ParserRecord
  <2>4. parser.line = Row(tests, Len(rows) + 1)
    BY <1>1 DEF TestInv, AtLine
  <2>5. AtLine'
    <3>1. N' = N /\ tests' = tests /\ results' = results
      BY <1>1, ParserKeeps
    <3>2. Row(tests, Len(rows) + 1) + 1 \in Nat
      BY <1>0, <2>4
    <3>3. Successes(results, Row(tests, Len(rows) + 1) + 1, 0) = 0
      BY <3>2, SuccessesAre
    <3>4. parser'.line = Row(tests, Len(rows) + 1) + 1 + 0
      BY <1>0, <2>3, <2>4, <3>2
    <3>. QED
      BY <2>1, <2>3, <3>1, <3>3, <3>4 DEF AtLine
  <2>6. parser'.line <= Len(results)
    BY <1>4, <2>3 DEF Has
  <2>7. parser'.i <= tests /\ parser'.s <= parser'.i
    BY <1>0, <2>3
  <2>8. Len(rows) < N /\ parser.zeros < 3
    BY <1>1 DEF MoreRows
  <2>. QED
    BY <1>1, <1>2, <2>1, <2>3, <2>5, <2>6, <2>7, <2>8, ParserMoves
<1>. QED
  BY <1>3, <1>4

\* An outcome is read.
LEMMA ReadStatusStep ==
  ASSUME TestInv, ReadStatus
  PROVE  TestInv'
<1>. USE DEF Counts
<1>0. Counts
  BY TestCounts DEF TestInv
<1>1. /\ UNCHANGED <<size, results, servers, outcomes>> /\ parser.at = "row"
      /\ parser.i < tests
  BY DEF ReadStatus
<1>2. servers.at \in {"done", "killed"}
  BY <1>1, HasEnded
<1>3. CASE ~Has(1)
  <2>1. Spin
    BY <1>3 DEF ReadStatus
  <2>. QED
    BY <1>1, <1>2, <2>1, ParserSpins
<1>4. CASE Has(1)
  <2>. DEFINE s == IF results[parser.line + 1] = "SUCCESS" THEN parser.s + 1 ELSE parser.s
              b == Row(tests, Len(rows) + 1) + 1
  <2>0. s \in Nat
    BY <1>0
  <2>1. /\ rows' = rows
        /\ parser' = [[[parser EXCEPT !.line = parser.line + 1] EXCEPT !.i = parser.i + 1]
                       EXCEPT !.s = s]
    BY <1>4 DEF ReadStatus
  <2>2. parser \in ParserRecord /\ parser.line + 1 \in Nat /\ parser.i + 1 \in Nat
    BY <1>0 DEF TestInv, TestShape, ParserRecord
  <2>. HIDE DEF s
  <2>3. /\ parser'.at = "row" /\ parser'.line = parser.line + 1 /\ parser'.i = parser.i + 1
        /\ parser'.s = s /\ parser'.zeros = parser.zeros /\ parser' \in ParserRecord
    BY <1>1, <2>0, <2>1, <2>2 DEF ParserRecord
  <2>4. parser.line = b + parser.i /\ parser.s = Successes(results, b, parser.i)
    BY <1>1 DEF TestInv, AtLine
  <2>5. b \in Nat
    <3>1. Len(rows) + 1 \in Nat /\ Len(rows) + 1 > 0 /\ tests \in Nat
      BY <1>0
    <3>2. Row(tests, Len(rows) + 1) \in Nat
      BY <3>1, RowIs
    <3>. QED
      BY <3>2
  <2>. HIDE DEF b
  <2>6. AtLine'
    <3>1. N' = N /\ tests' = tests /\ results' = results
      BY <1>1, ParserKeeps
    <3>2. parser'.line = b + parser'.i
      BY <1>0, <2>3, <2>4, <2>5
    <3>3. b \in Nat /\ parser.i \in Nat
      BY <1>0, <2>5
    <3>4. Successes(results, b, parser.i + 1) =
            IF results[b + parser.i + 1] = "SUCCESS"
            THEN Successes(results, b, parser.i) + 1 ELSE Successes(results, b, parser.i)
      BY <3>3, SuccessesAre
    <3>5. s = Successes(results, b, parser.i + 1)
      BY <2>4, <3>4 DEF s
    <3>. QED
      BY <2>1, <2>3, <3>1, <3>2, <3>5 DEF AtLine, b
  <2>7. parser'.line <= Len(results)
    BY <1>4, <2>3 DEF Has
  <2>8. parser'.i <= tests /\ parser'.s <= parser'.i
    <3>1. parser.s <= parser.i
      BY DEF TestInv, Reading
    <3>2. parser.i \in Nat /\ parser.s \in Nat /\ tests \in Nat
      BY <1>0
    <3>3. parser.i + 1 <= tests /\ parser.s + 1 <= parser.i + 1 /\ parser.s <= parser.i + 1
      BY <1>1, <3>1, <3>2
    <3>4. s = parser.s + 1 \/ s = parser.s
      BY DEF s
    <3>. QED
      BY <2>3, <3>3, <3>4
  <2>9. Len(rows) < N /\ parser.zeros < 3
    BY <1>1 DEF TestInv, Reading
  <2>. QED
    BY <1>1, <1>2, <2>1, <2>3, <2>6, <2>7, <2>8, <2>9, ParserMoves
<1>. QED
  BY <1>3, <1>4

\* A row that is whole for the parser, its ratio and empty line included, is one
\* that test-servers has ended: of the others the file lacks the end, and behind the
\* third row without a success the parser reads no row.
LEMMA RowWasWritten ==
  ASSUME TestInv, parser.at = "row", parser.i = tests, Has(2)
  PROVE  Len(rows) + 1 <= Len(outcomes)
<1>. USE DEF Counts
<1>0. Counts
  BY TestCounts DEF TestInv
<1>1. Len(rows) <= Len(outcomes) /\ NoneSince(outcomes, Len(rows), parser.zeros)
  BY DEF TestInv, SameRows
<1>2. Len(rows) < N /\ parser.zeros < 3
  BY DEF TestInv, Reading
<1>3. ASSUME Len(rows) = Len(outcomes)
      PROVE  FALSE
  <2>1. CASE servers.at = "killed"
    <3>1. servers.W = Len(outcomes) + 1 /\ servers.i <= tests
      BY DEF TestInv, Writing
    <3>2. Len(results) <= Row(tests, servers.W) + 1 + servers.i
      BY <2>1 DEF TestInv, LastRow
    <3>3. parser.line = Row(tests, servers.W) + 1 + tests
      BY <1>3, <3>1 DEF TestInv, AtLine
    <3>4. servers.W \in Nat /\ servers.W > 0 /\ tests \in Nat
      BY <1>0, <3>1
    <3>5. Row(tests, servers.W) \in Nat
      BY <3>4, RowIs
    <3>6. parser.line + 2 <= Len(results)
      BY DEF Has
    <3>. QED
      BY <1>0, <3>1, <3>2, <3>3, <3>5, <3>6
  <2>2. CASE servers.at = "done"
    <3>1. servers.zeros = 3
      BY <1>2, <1>3, <2>2 DEF TestInv, Writing
    <3>2. NoneSince(outcomes, Len(rows), 3)
      BY <1>3, <3>1 DEF TestInv, NoThree
    <3>3. parser.zeros = 3
      BY <1>0, <1>1, <3>2, NoneSinceOne
    <3>. QED
      BY <1>2, <3>3
  <2>. QED
    BY <2>1, <2>2, HasEnded
<1>. QED
  BY <1>0, <1>1, <1>3

\* The end of a row is read, and the row is one of those that were written.
LEMMA ReadRatioStep ==
  ASSUME TestInv, ReadRatio
  PROVE  TestInv'
<1>. USE DEF Counts
<1>0. Counts
  BY TestCounts DEF TestInv
<1>1. /\ UNCHANGED <<size, results, servers, outcomes>> /\ parser.at = "row"
      /\ parser.i = tests
  BY DEF ReadRatio
<1>2. servers.at \in {"done", "killed"}
  BY <1>1, HasEnded
<1>3. CASE ~Has(2)
  <2>1. Spin
    BY <1>3 DEF ReadRatio
  <2>. QED
    BY <1>1, <1>2, <2>1, ParserSpins
<1>4. CASE Has(2)
  <2>. DEFINE r == Len(rows)
              row == <<parser.s, tests - parser.s>>
              zeros == ZerosRead(parser.zeros, parser.s)
  <2>0. /\ N' = N /\ tests' = tests /\ size' = size /\ results' = results
        /\ servers' = servers /\ outcomes' = outcomes
        /\ Writing' /\ NoThree' /\ LastRow' /\ Written'
    BY <1>1, ParserKeeps
  <2>1. /\ rows' = Append(rows, row)
        /\ parser' = [[[parser EXCEPT !.at = "loop"] EXCEPT !.line = parser.line + 2]
                       EXCEPT !.zeros = zeros]
    BY <1>4 DEF ReadRatio
  <2>2. parser.s <= tests /\ parser.zeros < 3 /\ r < N
    BY <1>1 DEF TestInv, Reading
  <2>3. zeros \in Nat /\ zeros <= 3
    <3>1. parser.zeros \in Nat /\ parser.s \in Nat
      BY <1>0
    <3>2. parser.zeros \in 0..2
      BY <2>2, <3>1
    <3>. QED
      BY <3>1, <3>2 DEF ZerosRead
  <2>4. parser \in ParserRecord /\ parser.line + 2 \in Nat
    BY <1>0 DEF TestInv, TestShape, ParserRecord
  <2>. HIDE DEF zeros
  <2>5. /\ parser'.at = "loop" /\ parser'.line = parser.line + 2 /\ parser'.i = parser.i
        /\ parser'.s = parser.s /\ parser'.zeros = zeros /\ parser' \in ParserRecord
    BY <2>1, <2>3, <2>4 DEF ParserRecord
  <2>6. /\ rows' \in Seq(Nat \X Nat) /\ Len(rows') = r + 1 /\ rows'[r + 1] = row
        /\ \A k \in 1..r : rows'[k] = rows[k]
    <3>1. tests - parser.s \in Nat /\ parser.s \in Nat
      BY <1>0, <2>2
    <3>2. row \in Nat \X Nat
      BY <3>1
    <3>3. rows \in Seq(Nat \X Nat)
      BY TestSeqs
    <3>. HIDE DEF row
    <3>. QED
      BY <2>1, <3>2, <3>3
  <2>7. r + 1 <= Len(outcomes)
    BY <1>1, <1>4, RowWasWritten
  <2>8. /\ parser.line = Row(tests, r + 1) + 1 + tests
        /\ parser.s = Successes(results, Row(tests, r + 1) + 1, tests)
    BY <1>1 DEF TestInv, AtLine
  <2>9. r + 1 \in Nat /\ r + 1 > 0 /\ tests \in Nat /\ r + 1 \in 1..Len(outcomes) /\ r \in Nat
    BY <1>0, <2>7
  <2>10. parser.line + 2 <= Len(results)
    BY <1>4 DEF Has
  <2>11. outcomes[r + 1] = row
    <3>1. Row(tests, r + 1) + 1 + tests <= Len(results)
      BY <1>0, <2>8, <2>10
    <3>2. Written
      BY DEF TestInv
    <3>. QED
      BY <2>8, <2>9, <3>1, <3>2 DEF Written
  <2>12. row[1] = parser.s
    OBVIOUS
  <2>. HIDE DEF r, row
  <2>13. TestShape'
    BY <2>0, <2>5, <2>6 DEF TestInv, TestShape, ParserRecord
  <2>14. Reading'
    <3>1. parser.i <= tests /\ parser.s <= parser.i
      BY DEF TestInv, Reading
    <3>. QED
      BY <1>2, <2>0, <2>3, <2>5, <2>10, <3>1 DEF Reading
  <2>15. SameRows'
    <3>1. \A w \in 1..r : rows[w] = outcomes[w]
      BY DEF TestInv, SameRows, r
    <3>2. ASSUME NEW w \in 1..(r + 1)
          PROVE  rows'[w] = outcomes[w]
      <4>1. w \in 1..r \/ w = r + 1
        BY <2>9
      <4>. QED
        BY <2>6, <2>11, <3>1, <4>1
    <3>3. NoneSince(outcomes, r, parser.zeros)
      BY DEF TestInv, SameRows, r
    <3>4. /\ outcomes[r + 1][1] = 0 => NoneSince(outcomes, r + 1, parser.zeros + 1)
          /\ outcomes[r + 1][1] # 0 => NoneSince(outcomes, r + 1, 0)
      BY <1>0, <2>9, <3>3, NoneSinceMore
    <3>5. NoneSince(outcomes, r + 1, zeros)
      BY <2>11, <2>12, <3>4 DEF zeros, ZerosRead
    <3>. QED
      BY <2>0, <2>5, <2>6, <2>7, <3>2, <3>5 DEF SameRows
  <2>16. AtLine'
    <3>1. Row(tests, (r + 1) + 1) = Row(tests, r + 1) + tests + 3
      BY <2>9, RowIs
    <3>2. Row(tests, r + 1) \in Nat
      BY <2>9, RowIs
    <3>3. parser.line + 2 = Row(tests, (r + 1) + 1)
      BY <2>8, <2>9, <3>1, <3>2
    <3>. QED
      BY <2>0, <2>5, <2>6, <3>3 DEF AtLine
  <2>. QED
    BY <2>0, <2>13, <2>14, <2>15, <2>16 DEF TestInv
<1>. QED
  BY <1>3, <1>4

\* The rows are printed.
LEMMA PrintRowsStep ==
  ASSUME TestInv, PrintRows
  PROVE  TestInv'
<1>. USE DEF Counts
<1>0. Counts
  BY TestCounts DEF TestInv
<1>1. /\ UNCHANGED <<size, results, servers, outcomes>> /\ parser.at = "loop" /\ ~MoreRows
      /\ rows' = rows
  BY DEF PrintRows
<1>2. servers.at \in {"done", "killed"}
  BY <1>1, HasEnded
<1>3. /\ parser'.at = "done" /\ parser'.line = parser.line /\ parser'.i = parser.i
      /\ parser'.s = parser.s /\ parser'.zeros = parser.zeros /\ parser' \in ParserRecord
  BY DEF PrintRows, TestInv, TestShape, ParserRecord
<1>4. parser.line <= Len(results) /\ parser.i <= tests /\ parser.s <= parser.i
  BY DEF TestInv, Reading
<1>5. Len(rows) = N \/ parser.zeros = 3
  <2>1. Len(rows) <= Len(outcomes)
    BY DEF TestInv, SameRows
  <2>2. Len(outcomes) <= N
    BY DEF TestInv, Writing
  <2>3. parser.zeros <= 3
    BY DEF TestInv, Reading
  <2>4. ~(Len(rows) < N) \/ ~(parser.zeros < 3)
    BY <1>1 DEF MoreRows
  <2>. QED
    BY <1>0, <2>1, <2>2, <2>3, <2>4
<1>6. AtLine'
  BY <1>3 DEF AtLine
<1>. QED
  BY <1>1, <1>2, <1>3, <1>4, <1>5, <1>6, ParserMoves

\* Every step of test-servers and test-parser keeps the invariant.
LEMMA TestStep ==
  ASSUME TestInv, TestNext
  PROVE  TestInv'
BY HeaderStep, RunStep, EndStep, KillStep, ReadHeaderStep, ReadWStep, ReadStatusStep,
   ReadRatioStep, PrintRowsStep DEF TestNext, TestWork

-----------------------------------------------------------------------------
(* The programs together.                                                   *)

\* The invariant of all programs.
IInv ==
  /\ ListInv /\ DumpInv /\ ClientInv /\ FileInv /\ TestInv
  /\ program \in {"pps-list-nodes", "pps-dump-node", "pps-client", "get_nodes", "test-servers"}

\* It holds in the first states: of the programs that do not run, too.
LEMMA Starts ==
  ASSUME Init
  PROVE  IInv
<1>1. ListInit /\ DumpInit /\ ClientInit /\ FileInit /\ TestInit
  BY DEF Init
<1>2. program \in {"pps-list-nodes", "pps-dump-node", "pps-client", "get_nodes", "test-servers"}
  BY DEF Init
<1>. QED
  BY <1>1, <1>2, ListBegins, DumpStart, ClientStart, FileStart, TestStart DEF IInv

\* Every step keeps it: that of the program that runs by the lemma about its steps, the
\* others since it leaves them alone.
LEMMA Steps ==
  ASSUME IInv, [Next]_vars
  PROVE  IInv'
<1>1. CASE UNCHANGED vars
  <2>1. /\ UNCHANGED <<release, faults, listVars>> /\ UNCHANGED <<release, faults, dumpVars>>
        /\ UNCHANGED <<release, faults, clientVars>> /\ UNCHANGED <<release, faults, fileVars>>
        /\ UNCHANGED testVars /\ UNCHANGED program
    BY <1>1 DEF vars
  <2>. QED
    BY <2>1, ListStays, DumpStays, ClientStays, FileStays, TestStays DEF IInv
<1>2. CASE Next
  <2>1. Same /\ UNCHANGED <<release, faults>> /\ UNCHANGED program
    BY <1>2 DEF Next, Same
  <2>2. CASE Listing(ListNext)
    <3>1. ListNext /\ UNCHANGED <<dumpVars, clientVars, fileVars, testVars>>
      BY <2>2 DEF Listing
    <3>. QED
      BY <2>1, <3>1, ListStep, DumpStays, ClientStays, FileStays, TestStays DEF IInv
  <2>3. CASE Dumping(DumpNext)
    <3>1. DumpNext /\ UNCHANGED <<listVars, clientVars, fileVars, testVars>>
      BY <2>3 DEF Dumping
    <3>. QED
      BY <2>1, <3>1, ListStays, DumpStep, ClientStays, FileStays, TestStays DEF IInv
  <2>4. CASE Calling(ClientNext)
    <3>1. ClientNext /\ UNCHANGED <<listVars, dumpVars, fileVars, testVars>>
      BY <2>4 DEF Calling
    <3>. QED
      BY <2>1, <3>1, ListStays, DumpStays, ClientStep, FileStays, TestStays DEF IInv
  <2>5. CASE Starting(FileWork)
    <3>1. FileWork /\ UNCHANGED <<listVars, dumpVars, clientVars, testVars>>
      BY <2>5 DEF Starting
    <3>. QED
      BY <2>1, <3>1, ListStays, DumpStays, ClientStays, FileStep, TestStays DEF IInv
  <2>6. CASE Testing(TestNext)
    <3>1. TestNext /\ UNCHANGED <<listVars, dumpVars, clientVars, fileVars>>
      BY <2>6 DEF Testing
    <3>. QED
      BY <2>1, <3>1, ListStays, DumpStays, ClientStays, FileStays, TestStep DEF IInv
  <2>. QED
    BY <1>2, <2>2, <2>3, <2>4, <2>5, <2>6 DEF Next
<1>. QED
  BY <1>1, <1>2

\* It holds always.
LEMMA Invariant == Spec => []IInv
<1>1. Init => IInv
  BY Starts
<1>2. IInv /\ [Next]_vars => IInv'
  BY Steps
<1>. QED
  BY <1>1, <1>2, PTL DEF Spec

\* What it implies.
LEMMA Suffices ==
  ASSUME IInv
  PROVE  /\ TypeOK /\ OkMeansAnswered /\ DumpIsTable /\ CatIsConcatenation /\ FindIsFirst
         /\ SubstrIsSlice /\ ServersAreNodes /\ Reported
<1>1. ListTypeOK /\ OkMeansAnswered
  BY DEF IInv, ListInv
<1>2. DumpTypeOK /\ DumpIsTable
  BY DumpInvSuffices DEF IInv
<1>3. ClientTypeOK /\ CatIsConcatenation
  BY DEF IInv, ClientInv
<1>4. FindIsFirst /\ SubstrIsSlice
  BY FindInvSuffices, SubstrInvSuffices DEF IInv
<1>5. FileTypeOK /\ ServersAreNodes
  BY FileInvSuffices DEF IInv
<1>6. TestTypeOK /\ Reported
  BY TestInvSuffices DEF IInv
<1>. QED
  BY <1>1, <1>2, <1>3, <1>4, <1>5, <1>6 DEF IInv, TypeOK

\* The state of every program has its type: the places in the lists, files and
\* datagrams are inside them.
THEOREM TypeCorrect == Spec => []TypeOK
<1>1. IInv => TypeOK
  BY Suffices
<1>. QED
  BY <1>1, Invariant, PTL

\* pps-list-nodes prints OK only behind a node that has answered its ping, in
\* projet02 unless an answer comes after the program has given up waiting for it.
THEOREM ListedNodesAnswered == Spec => []OkMeansAnswered
<1>1. IInv => OkMeansAnswered
  BY Suffices
<1>. QED
  BY <1>1, Invariant, PTL

\* A dump that is printed is the table of the server, in whatever order its packets
\* come and as long as none comes twice: when one is lost nothing is printed.
THEOREM DumpsAreTables == Spec => []DumpIsTable
<1>1. IInv => DumpIsTable
  BY Suffices
<1>. QED
  BY <1>1, Invariant, PTL

\* When pps-client-cat prints OK it has put the whole concatenation of values that its
\* sources had while it ran, in the order of its arguments.
THEOREM CatConcatenates == Spec => []CatIsConcatenation
<1>1. IInv => CatIsConcatenation
  BY Suffices
<1>. QED
  BY <1>1, Invariant, PTL

\* pps-client-find prints the first place of one value in another, both of them ones that
\* their keys had, and -1 only if there is none.
THEOREM FindFindsTheFirst == Spec => []FindIsFirst
<1>1. IInv => FindIsFirst
  BY Suffices
<1>. QED
  BY <1>1, Invariant, PTL

\* In the final release pps-client-substr, whose position is not before the start of a
\* value its key had, does not crash, and prints OK only for a slice inside such a value,
\* which it has put with what was in memory behind it.
THEOREM SubstrSlices == Spec => []SubstrIsSlice
<1>1. IInv => SubstrIsSlice
  BY Suffices
<1>. QED
  BY <1>1, Invariant, PTL

\* A client of the submissions that starts has the servers of its file up to the first
\* line without a port, in their order.
THEOREM StartedWithItsServers == Spec => []ServersAreNodes
<1>1. IInv => ServersAreNodes
  BY Suffices
<1>. QED
  BY <1>1, Invariant, PTL

\* test-parser, which does not know how many rows there are, prints those that
\* test-servers has measured, all of them and no other, or does not end.
THEOREM ParserPrintsWhatWasMeasured == Spec => []Reported
<1>1. IInv => Reported
  BY Suffices
<1>. QED
  BY <1>1, Invariant, PTL

-----------------------------------------------------------------------------
(* When nothing fails: what ReportsTheLiving and StartsFromFile say of a    *)
(* program that has come to its end.                                        *)

\* What pps-list-nodes has to print.
Truth == [i \in DOMAIN nodes |-> IF nodes[i] \in up THEN "OK" ELSE "FAIL"]

\* When nothing goes wrong and pps-list-nodes is done, it has reported every server that
\* runs as OK and every other as FAIL: the safety part of ReportsTheLiving.
LivingReported == faults = {} /\ listing = "done" => verdict = Truth

\* Nothing of a server that runs gets lost: the ping or the answer of its node is on its
\* way, or the program has heard of it.  What projet02 has printed is true so far.
LivingInv ==
  faults = {} =>
    /\ answered \subseteq up
    /\ Final /\ listing = "listen" =>
         \A i \in DOMAIN nodes : nodes[i] \in up => i \in pings \cup replies \/ nodes[i] \in heard
    /\ ~Final =>
         /\ \A i \in DOMAIN verdict : verdict[i] = "FAIL" => nodes[i] \notin up
         /\ listing = "listen" => LET i == Len(verdict) + 1
                                  IN  nodes[i] \in up => i \in pings \cup replies
    /\ LivingReported

\* It holds in the first states.
LEMMA LivingBegins ==
  ASSUME ListInit
  PROVE  LivingInv
BY DEF ListInit, LivingInv, LivingReported

\* Every step of pps-list-nodes and of the servers keeps it.
LEMMA LivingStep ==
  ASSUME ListInv, LivingInv, ListNext, Same
  PROVE  LivingInv'
<1>. SUFFICES ASSUME faults = {}
              PROVE  LivingInv'
  BY DEF LivingInv, Same
<1>. USE DEF Final, May
<1>0. /\ UNCHANGED <<release, faults>> /\ DOMAIN nodes = 1..Len(nodes) /\ Len(nodes) \in Nat
      /\ Len(verdict) \in Nat /\ DOMAIN verdict = 1..Len(verdict) /\ ListTypeOK
      /\ \A i \in DOMAIN verdict : verdict[i] \in {"OK", "FAIL"}
  BY ListShapes DEF Same, ListInv
<1>1. CASE ListStart
  BY <1>0, <1>1 DEF ListStart, LivingInv, LivingReported
<1>2. CASE PingAll
  BY <1>0, <1>2 DEF PingAll, LivingInv, LivingReported
<1>3. CASE PingOne
  <2>. DEFINE i == Len(verdict) + 1
  <2>1. UNCHANGED <<nodes, up, replies, heard, verdict, answered>> /\ ~Final
    BY <1>3 DEF PingOne
  <2>2. CASE i > Len(nodes)
    <3>0. Len(verdict) <= Len(nodes)
      BY <1>0 DEF ListTypeOK
    <3>1. Len(verdict) = Len(nodes) /\ listing' = "done"
      <4>1. listing' = "done"
        BY <1>3, <2>2 DEF PingOne
      <4>2. \A m, n \in Nat : m + 1 > n /\ m <= n => m = n
        OBVIOUS
      <4>. QED
        BY <1>0, <2>2, <3>0, <4>1, <4>2, Zenon
    <3>2. \A j \in DOMAIN nodes : verdict[j] = "OK" => nodes[j] \in up
      BY <1>0, <2>1, <3>1 DEF ListInv, OkMeansAnswered, LivingInv
    <3>3. \A j \in DOMAIN nodes : verdict[j] = "FAIL" => nodes[j] \notin up
      BY <1>0, <2>1, <3>1 DEF LivingInv
    <3>4. \A j \in DOMAIN nodes : verdict[j] = Truth[j]
      BY <1>0, <3>1, <3>2, <3>3 DEF Truth
    <3>5. verdict = Truth
      <4>1. verdict = [j \in DOMAIN verdict |-> verdict[j]]
        BY ListShapes, <1>0
      <4>. QED
        BY <1>0, <3>1, <3>4, <4>1 DEF Truth
    <3>6. LivingReported'
      BY <2>1, <3>5 DEF LivingReported, Truth
    <3>. QED
      BY <1>0, <2>1, <3>1, <3>6 DEF LivingInv
  <2>3. CASE ~(i > Len(nodes))
    <3>1. pings' = pings \cup {i} /\ listing' = "listen"
      <4>1. listing' = "listen" /\ (pings' = pings \cup {i} \/ May("lost"))
        BY <1>3, <2>3, Zenon DEF PingOne
      <4>. QED
        BY <4>1
    <3>2. LivingReported'
      BY <3>1 DEF LivingReported
    <3>. HIDE DEF i
    <3>3. i \in pings'
      BY <3>1
    <3>. QED
      BY <1>0, <2>1, <3>1, <3>2, <3>3 DEF LivingInv, i
  <2>. QED
    BY <2>2, <2>3
<1>4. CASE \E i \in pings : AnswerPing(i)
  <2>1. PICK i \in pings : AnswerPing(i)
    BY <1>4
  <2>2. /\ pings' = pings \ {i} /\ replies' = replies \cup {i} /\ nodes[i] \in up
        /\ answered' = answered \cup {nodes[i]}
        /\ UNCHANGED <<nodes, up, heard, verdict, listing>>
    BY <2>1 DEF AnswerPing
  <2>3. LivingReported => LivingReported'
    BY <1>0, <2>2, Zenon DEF LivingReported, Truth
  <2>4. \A j : j \in pings \cup replies => j \in pings' \cup replies'
    BY <2>2
  <2>5. answered \subseteq up => answered' \subseteq up'
    BY <2>2
  <2>. QED
    BY <1>0, <2>2, <2>3, <2>4, <2>5, Zenon DEF LivingInv
<1>5. CASE \E a \in up : ServerDies(a)
  BY <1>5 DEF ServerDies
<1>6. CASE Collect
  <2>1. PICK i \in replies : replies' = replies \ {i} /\ heard' = heard \cup {nodes[i]}
    BY <1>6 DEF Collect, Sender
  <2>2. UNCHANGED <<nodes, up, pings, verdict, answered, listing>> /\ Final /\ listing = "listen"
    BY <1>6 DEF Collect
  <2>. QED
    BY <1>0, <2>1, <2>2 DEF LivingInv, LivingReported
<1>7. CASE TakeAny
  <2>1. /\ ~Final /\ listing' = "ping" /\ DOMAIN verdict' = 1..(Len(verdict) + 1)
        /\ \A j \in 1..Len(verdict) : verdict'[j] = verdict[j]
        /\ verdict'[Len(verdict) + 1] = "OK"
    BY <1>0, <1>7, OneVerdict DEF TakeAny
  <2>2. UNCHANGED <<nodes, up, pings, heard, answered>>
    BY <1>7 DEF TakeAny
  <2>3. ASSUME NEW j \in DOMAIN verdict', verdict'[j] = "FAIL"
        PROVE  nodes[j] \notin up
    <3>1. j \in 1..Len(verdict)
      BY <1>0, <2>1, <2>3
    <3>. QED
      BY <1>0, <2>1, <2>3, <3>1 DEF LivingInv
  <2>. QED
    BY <1>0, <2>1, <2>2, <2>3 DEF LivingInv, LivingReported
<1>8. CASE PrintAll
  <2>1. /\ Final /\ listing = "listen" /\ replies = {} /\ \A i \in pings : nodes[i] \notin up
    BY <1>8 DEF PrintAll, Silent
  <2>2. /\ verdict' = [i \in DOMAIN nodes |-> IF nodes[i] \in heard THEN "OK" ELSE "FAIL"]
        /\ UNCHANGED <<nodes, up, pings, replies, heard, answered>> /\ listing' = "done"
    BY <1>8 DEF PrintAll
  <2>3. \A i \in DOMAIN nodes : nodes[i] \in heard <=> nodes[i] \in up
    BY <2>1 DEF LivingInv, ListInv
  <2>4. verdict' = Truth'
    BY <2>2, <2>3 DEF Truth
  <2>. QED
    BY <1>0, <2>1, <2>2, <2>4 DEF LivingInv, LivingReported
<1>9. CASE PrintFail
  <2>1. /\ ~Final /\ listing' = "ping" /\ DOMAIN verdict' = 1..(Len(verdict) + 1)
        /\ \A j \in 1..Len(verdict) : verdict'[j] = verdict[j]
    BY <1>0, <1>9, OneVerdict DEF PrintFail
  <2>2. /\ UNCHANGED <<nodes, up, pings, replies, heard, answered>> /\ listing = "listen"
        /\ replies = {} /\ \A i \in pings : nodes[i] \notin up
    BY <1>9 DEF PrintFail, Silent
  <2>3. nodes[Len(verdict) + 1] \notin up
    BY <2>1, <2>2 DEF LivingInv
  <2>4. ASSUME NEW j \in DOMAIN verdict', verdict'[j] = "FAIL"
        PROVE  nodes[j] \notin up
    <3>1. j \in 1..Len(verdict) \/ j = Len(verdict) + 1
      BY <1>0, <2>1, <2>4
    <3>. QED
      BY <1>0, <2>1, <2>3, <2>4, <3>1 DEF LivingInv
  <2>. QED
    BY <1>0, <2>1, <2>2, <2>4 DEF LivingInv, LivingReported
<1>. QED
  BY <1>1, <1>2, <1>3, <1>4, <1>5, <1>6, <1>7, <1>8, <1>9 DEF ListNext, ListWork

\* A step of another program leaves it alone.
LEMMA LivingStays ==
  ASSUME LivingInv, UNCHANGED <<release, faults, listVars>>
  PROVE  LivingInv'
BY DEF listVars, LivingInv, LivingReported, Truth, Final

\* When nothing fails, pps-list-nodes ends with the truth about every node.
THEOREM LivingAreReported == Spec => []LivingReported
<1>1. Init => LivingInv
  BY LivingBegins DEF Init
<1>2. ASSUME IInv, LivingInv, [Next]_vars
      PROVE  LivingInv'
  <2>1. CASE UNCHANGED vars
    BY <1>2, <2>1, LivingStays DEF vars
  <2>2. CASE Next
    <3>1. Same /\ UNCHANGED <<release, faults>> /\ ListInv
      BY <1>2, <2>2 DEF Next, Same, IInv
    <3>2. ListNext \/ UNCHANGED listVars
      BY <2>2 DEF Next, Listing, Dumping, Calling, Starting, Testing
    <3>. QED
      BY <1>2, <3>1, <3>2, LivingStep, LivingStays
  <2>. QED
    BY <1>2, <2>1, <2>2
<1>3. LivingInv => LivingReported
  BY DEF LivingInv, LivingReported
<1>. QED
  BY <1>1, <1>2, <1>3, Invariant, PTL DEF Spec

\* When nothing fails, a client of the submissions whose file is readable neither gives
\* up nor crashes, and starts with a server of every line: the safety part of
\* StartsFromFile.
ReadableStarts ==
  Readable /\ faults = {} =>
    /\ starting \notin {"failed", "crashed", "undefined"}
    /\ starting = "ready" => Len(members) = Len(file.lines)

\* What stands for a port is a number.
LEMMA PortIs ==
  ASSUME NEW f \in Files, NEW i \in DOMAIN f.lines
  PROVE  f.lines[i].port \in Int
<1>. DEFINE Line == [ip : {"short", "full", "none"}, port : Nat \cup {-1}]
<1>1. f.lines \in Seq(Line)
  BY FileAssumption, Zenon
<1>2. \A l \in Line : l.port \in Int
  OBVIOUS
<1>. HIDE DEF Line
<1>3. f.lines[i] \in Line
  BY <1>1
<1>. QED
  BY <1>2, <1>3

\* Every step of the start of a client keeps it.
LEMMA ReadableStep ==
  ASSUME FileInv, FileInv', ReadableStarts, FileWork, Same
  PROVE  ReadableStarts'
<1>. USE DEF May
<1>1. UNCHANGED <<release, faults, file>>
  BY DEF FileWork, OpenFile, ParseLine, BadPort, SkipLine, ReadNode, EndOfFile, AddNode, NodesAdded,
         GetSocket, Same
<1>. SUFFICES ASSUME Readable, faults = {}
              PROVE  ReadableStarts'
  BY <1>1 DEF ReadableStarts, Readable, Address, Port, Signed, Unsigned
<1>2. /\ file \in Files /\ file # NoFile /\ Len(file.lines) \in Nat
      /\ DOMAIN file.lines = 1..Len(file.lines) /\ line \in 0..Len(file.lines)
  BY LinesAre DEF Readable, FileInv
<1>3. /\ starting \notin {"failed", "crashed", "undefined"}
      /\ starting \in {"skip", "add"} => release = "projet01"
  BY <1>2 DEF ReadableStarts, FileInv
<1>4. \A i \in DOMAIN file.lines : /\ Address(i)[1] = "short" /\ Address(i)[2] > 0
                                   /\ file.lines[i].port # NotANumber
  BY DEF Readable, Address
<1>5. MoreLines => line + 1 \in DOMAIN file.lines
  BY <1>2 DEF MoreLines
<1>6. starting' \notin {"failed", "crashed", "undefined"}
  <2>1. CASE OpenFile
    <3>1. file # NoFile /\ ~May("nomem")
      BY <1>2
    <3>2. starting' = "read"
      BY <2>1, <3>1 DEF OpenFile
    <3>. QED
      BY <3>2
  <2>2. CASE ParseLine
    BY <1>4, <1>5, <2>2 DEF ParseLine
  <2>3. CASE BadPort
    <3>1. line + 1 \in DOMAIN file.lines /\ Address(line + 1)[2] <= 0
      BY <1>5, <2>3 DEF BadPort
    <3>2. Address(line + 1)[2] \in Int
      <4>1. file.lines[line + 1].port \in Int
        BY <1>2, <3>1, PortIs
      <4>. QED
        BY <4>1 DEF Address, Port, Signed, Unsigned
    <3>. QED
      BY <1>4, <3>1, <3>2
  <2>4. CASE SkipLine
    BY <2>4 DEF SkipLine
  <2>5. CASE ReadNode
    BY <1>3, <1>4, <1>5, <2>5 DEF ReadNode, Add
  <2>6. CASE EndOfFile
    BY <2>6 DEF EndOfFile
  <2>7. CASE AddNode
    <3>1. release = "projet01" /\ starting = "add" /\ Len(members) < Len(parsed)
      BY <1>3, <2>7 DEF AddNode, ServersLeft
    <3>2. parsed = Upto(line) /\ Len(parsed) = line /\ Len(members) \in Nat
      BY <1>2, <3>1, UptoIs DEF FileInv, Gathered
    <3>3. Len(members) + 1 \in 1..line
      BY <1>2, <3>1, <3>2
    <3>4. parsed[Len(members) + 1] = Address(Len(members) + 1)
      <4>1. line \in Nat
        BY <1>2
      <4>2. \A i \in 1..line : Upto(line)[i] = Address(i)
        BY <4>1, UptoIs
      <4>. QED
        BY <3>2, <3>3, <4>2
    <3>5. Len(members) + 1 \in DOMAIN file.lines
      BY <1>2, <3>3
    <3>. QED
      BY <1>3, <1>4, <2>7, <3>4, <3>5 DEF AddNode, Add
  <2>8. CASE NodesAdded \/ GetSocket
    BY <2>8 DEF NodesAdded, GetSocket
  <2>. QED
    BY <2>1, <2>2, <2>3, <2>4, <2>5, <2>6, <2>7, <2>8 DEF FileWork
<1>7. ASSUME starting' = "ready"
      PROVE  Len(members') = Len(file'.lines)
  <2>1. line' \in 0..Len(file.lines) /\ members' = Upto(line)' /\ EndsAt(line)'
    BY <1>1, <1>2, <1>7 DEF FileInv, Gathered, Added
  <2>2. Len(members') = line'
    BY <1>1, <2>1 DEF Upto
  <2>3. line' = Len(file.lines)
    <3>1. line' < Len(file.lines) => /\ line' + 1 \in DOMAIN file.lines
                                     /\ file.lines[line' + 1].port = NotANumber
      BY <1>1, <1>2, <2>1 DEF EndsAt
    <3>2. ~(line' < Len(file.lines))
      BY <1>4, <3>1, Zenon
    <3>. QED
      BY <1>2, <2>1, <3>2
  <2>. QED
    BY <1>1, <2>2, <2>3
<1>. QED
  BY <1>6, <1>7 DEF ReadableStarts

\* When nothing fails, a client starts from a file that it can read, with all servers
\* in it.
THEOREM ReadableFilesStart == Spec => []ReadableStarts
<1>1. Init => ReadableStarts
  BY DEF Init, FileInit, ReadableStarts
<1>2. ASSUME IInv, IInv', ReadableStarts, [Next]_vars
      PROVE  ReadableStarts'
  <2>1. (FileWork /\ Same) \/ UNCHANGED <<release, faults, fileVars>>
    BY <1>2 DEF Next, Listing, Dumping, Calling, Starting, Testing, Same, vars
  <2>2. CASE FileWork /\ Same
    BY <1>2, <2>2, ReadableStep DEF IInv
  <2>3. CASE UNCHANGED <<release, faults, fileVars>>
    BY <1>2, <2>3 DEF fileVars, ReadableStarts, Readable, Address, Port
  <2>. QED
    BY <2>1, <2>2, <2>3
<1>. QED
  BY <1>1, <1>2, Invariant, PTL DEF Spec

\* The datagrams d are all of the table t, one behind the other, and the number of pairs
\* that they announce is at most the one they have.
Covers(d, off, t) ==
  /\ d \in Seq(Packet) /\ Len(d) > 0 /\ off \in [1..Len(d) -> 0..Len(t)]
  /\ Adjoin(d, off)
  /\ \A j \in 1..Len(d) :
       /\ j > 1 => d[j].count = Unread
       /\ off[j] + Len(d[j].pairs) <= Len(t)
       /\ \A i \in 1..Len(d[j].pairs) : d[j].pairs[i] = t[off[j] + i]
  /\ off[Len(d)] + Len(d[Len(d)].pairs) = Len(t)
  /\ d[1].count \in 0..Len(t)

\* A dump covers its table.
LEMMA DumpCovers ==
  ASSUME NEW t \in Tables
  PROVE  \E off : Covers(Dump(t), off, t)
<1>. DEFINE first == [count |-> Len(t), pairs |-> <<>>, size |-> Header]
            l == FoldLeft(Pack, <<first>>, t)
            w(q) == IF Final THEN WithoutLastByte(q) ELSE Whole(q)
            d == [i \in DOMAIN l |-> w(l[i])]
<1>1. PICK off : Holds(l, off, t, Len(t))
  BY Packing
<1>2. Dump(t) = d
  BY DEF Dump
<1>. HIDE DEF first, l
<1>3. /\ l \in Seq(Packet) /\ Len(l) \in Nat /\ DOMAIN l = 1..Len(l) /\ Len(l) > 0
      /\ off \in [1..Len(l) -> 0..Len(t)] /\ l[1].count = Len(t) /\ Adjoin(l, off)
      /\ off[Len(l)] + Len(l[Len(l)].pairs) = Len(t)
      /\ \A j \in 1..Len(l) : /\ j > 1 => l[j].count = Unread
                              /\ off[j] + Len(l[j].pairs) <= Len(t)
                              /\ \A i \in 1..Len(l[j].pairs) : l[j].pairs[i] = t[off[j] + i]
  BY <1>1 DEF Holds
<1>4. ASSUME NEW q \in Packet
      PROVE  /\ w(q) \in Packet /\ w(q).pairs = q.pairs
             /\ q.count = Unread => w(q).count = Unread
             /\ q.count # Unread => w(q).count \in 0..q.count
  <2>1. q.count # Unread => q.count \in 0..q.count
    BY PacketIs
  <2>. QED
    BY <2>1, Truncated DEF Whole
<1>. HIDE DEF w
<1>5. /\ d \in Seq(Packet) /\ Len(d) = Len(l)
      /\ \A j \in 1..Len(l) : /\ d[j] = w(l[j]) /\ l[j] \in Packet /\ d[j].pairs = l[j].pairs
                              /\ l[j].count = Unread => d[j].count = Unread
                              /\ l[j].count # Unread => d[j].count \in 0..l[j].count
  BY <1>3, <1>4
<1>. HIDE DEF d
<1>6. d[1].count \in 0..Len(t)
  <2>1. 1 \in 1..Len(l) /\ Len(t) # Unread
    BY <1>3, TablesAre DEF Unread
  <2>. QED
    BY <1>3, <1>5, <2>1
<1>7. Adjoin(d, off)
  BY <1>3, <1>5 DEF Adjoin
<1>8. \A j \in 1..Len(d) :
        /\ j > 1 => d[j].count = Unread
        /\ off[j] + Len(d[j].pairs) <= Len(t)
        /\ \A i \in 1..Len(d[j].pairs) : d[j].pairs[i] = t[off[j] + i]
  BY <1>3, <1>5
<1>9. off[Len(d)] + Len(d[Len(d)].pairs) = Len(t) /\ Len(d) > 0
  <2>1. Len(l) \in 1..Len(l)
    BY <1>3
  <2>. QED
    BY <1>3, <1>5, <2>1
<1>10. Covers(d, off, t)
  BY <1>3, <1>5, <1>6, <1>7, <1>8, <1>9 DEF Covers
<1>. QED
  BY <1>2, <1>10

\* Nothing fails, and the table is one that a dump can carry: no key is empty and no
\* packet is filled.  The first pair need not fit into the first packet.  In projet02
\* the low bytes of the number of pairs have no sign.
Clear ==
  /\ faults = {} /\ IsWhole(table) /\ LeavesRoom(table)
  /\ ~Final => Len(table) < 32768

\* The datagrams d from the k-th on are on their way, and those before it are read.
Fed(d, off, k) ==
  /\ Covers(d, off, table) /\ k \in 0..Len(d)
  /\ Len(packets) = Len(d) - k /\ \A j \in 1..Len(packets) : packets[j] = d[k + j]
  /\ k = 0 => nbr_pairs = Unread /\ pairs = <<>>
  /\ k > 0 => nbr_pairs = d[1].count /\ Len(pairs) = off[k] + Len(d[k].pairs)
  /\ \A i \in 1..Len(pairs) : pairs[i] = table[i]

\* What the reader waits for is on its way.
FedInv == Clear /\ dumping = "waiting" => \E off, k : Fed(Dump(table), off, k)

\* A dump of which nothing is lost, late or doubled does not fail once it is asked for:
\* the reader never waits for a pair that no packet brings, and of a plain table it
\* prints all pairs in their order.  (The safety part of DumpSucceeds.)
DumpsDoNotFail ==
  Clear /\ dumping \in {"asked", "waiting"} =>
    /\ dumping' \in {"asked", "waiting", "printed"}
    /\ Plain(table) /\ dumping' = "printed" => pairs' = table

\* A packet of such a dump is read as it was written.
LEMMA ClearPacket ==
  ASSUME NEW t \in Tables, IsWhole(t), LeavesRoom(t), NEW off, Covers(Dump(t), off, t),
         NEW k \in 1..Len(Dump(t))
  PROVE  LET q == Dump(t)[k]
         IN  q \in Packet /\ Aligned(q) = {q.pairs}
<1>. DEFINE d == Dump(t)
            q == d[k]
<1>1. /\ d \in Seq(Packet) /\ q \in Packet /\ Len(t) \in Nat
      /\ DOMAIN d = 1..Len(d) /\ t \in Seq(Key \X Value)
  BY TablesAre DEF Covers
<1>2. /\ off \in [1..Len(d) -> 0..Len(t)] /\ off[k] + Len(q.pairs) <= Len(t)
      /\ \A i \in 1..Len(q.pairs) : q.pairs[i] = t[off[k] + i]
  BY DEF Covers
<1>3. q.size < MaxMsg
  BY <1>1 DEF LeavesRoom
<1>. HIDE DEF d
<1>4. q.pairs \in Seq(Key \X Value) /\ Len(q.pairs) \in Nat /\ q.size \in Nat /\ MaxMsg \in Nat
  BY <1>1, PacketIs, ConfigAssumption
<1>5. off[k] \in Nat
  BY <1>2 DEF d
<1>. HIDE DEF q
<1>6. \A i \in 1..Len(t) : KeyLength[t[i][1]] > 0
  BY <1>1, UpToIs
<1>7. \A i \in 1..Len(q.pairs) : KeyLength[q.pairs[i][1]] > 0
  <2>1. ASSUME NEW i \in 1..Len(q.pairs)
        PROVE  off[k] + i \in 1..Len(t)
    <3>1. off[k] + Len(q.pairs) <= Len(t)
      BY <1>2
    <3>2. Len(t) \in Nat
      BY <1>1
    <3>. QED
      BY <1>4, <1>5, <3>1, <3>2
  <2>. QED
    BY <1>2, <1>6, <2>1
<1>8. IsWhole(q.pairs)
  BY <1>4, <1>7, UpToIs
<1>9. Spare(q) = 0
  BY <1>3, <1>4 DEF Spare
<1>10. Aligned(q) = {q.pairs}
  BY <1>1, <1>8, <1>9, WholeIs DEF q
<1>. QED
  BY <1>1, <1>10 DEF q, d

\* Clear is of the table and the faults.
LEMMA ClearSame ==
  ASSUME UNCHANGED <<release, faults, table>>
  PROVE  Clear' = Clear /\ Dump(table)' = Dump(table)
<1>1. Dump(table)' = Dump(table)
  BY DumpSame
<1>2. LeavesRoom(table)' = LeavesRoom(table) /\ IsWhole(table)' = IsWhole(table)
  BY <1>1 DEF LeavesRoom, IsWhole
<1>3. Final' = Final
  BY DEF Final
<1>. QED
  BY <1>1, <1>2, <1>3 DEF Clear

\* A packet is read: the first of those on their way.
LEMMA FedRead ==
  ASSUME DumpInv, Clear, NEW off, NEW k, Fed(Dump(table), off, k), ReadPacket
  PROVE  /\ k + 1 \in 1..Len(Dump(table)) /\ dumping' = "waiting"
         /\ Len(packets') = Len(Dump(table)) - (k + 1)
         /\ \A j \in 1..Len(packets') : packets'[j] = Dump(table)[k + 1 + j]
         /\ nbr_pairs' = Dump(table)[1].count
         /\ Len(pairs') = off[k + 1] + Len(Dump(table)[k + 1].pairs)
         /\ \A i \in 1..Len(pairs') : pairs'[i] = table[i]
<1>. DEFINE d == Dump(table)
            q == d[k + 1]
<1>1. PICK i \in DOMAIN packets :
        /\ i = 1 \/ May("late")
        /\ packets' = RemoveAt(packets, i)
        /\ IF IsFirst THEN nbr_pairs' \in Announced(packets[i]) ELSE UNCHANGED nbr_pairs
        /\ \E s \in Parsed(packets[i]) : \E c \in Copies(s) : pairs' = pairs \o c
  BY DEF ReadPacket
<1>2. /\ packets \in Seq(Packet) /\ table \in Tables /\ pairs \in Seq(Strings \X Strings)
      /\ Len(packets) \in Nat
  BY DEF DumpInv, DumpShape
<1>3. ~May("late") /\ ~May("nomem")
  BY DEF Clear, May
<1>4. i = 1 /\ 1 \in 1..Len(packets)
  BY <1>1, <1>2, <1>3
<1>5. /\ d \in Seq(Packet) /\ Len(d) \in Nat /\ k \in 0..Len(d) /\ Len(packets) = Len(d) - k
      /\ off \in [1..Len(d) -> 0..Len(table)] /\ Len(table) \in Nat /\ d[1].count \in 0..Len(table)
      /\ Adjoin(d, off) /\ \A j \in 1..Len(d) : j > 1 => d[j].count = Unread
  <2>1. Covers(d, off, table) /\ k \in 0..Len(d) /\ Len(packets) = Len(d) - k
    BY DEF Fed
  <2>. HIDE DEF d
  <2>. QED
    BY <1>2, <2>1, TablesAre DEF Covers
<1>6. packets[1] = q
  BY <1>4 DEF Fed
<1>7. q \in Packet /\ Aligned(q) = {q.pairs} /\ k + 1 \in 1..Len(d)
  <2>1. k + 1 \in 1..Len(d)
    BY <1>4, <1>5
  <2>2. IsWhole(table) /\ LeavesRoom(table)
    BY SMT DEF Clear
  <2>3. Covers(d, off, table)
    BY DEF Fed
  <2>. QED
    BY <1>2, <2>1, <2>2, <2>3, ClearPacket, Zenon
<1>8. IsFirst <=> k = 0
  <2>1. k > 0 => nbr_pairs # Unread
    <3>1. k > 0 => nbr_pairs = d[1].count
      BY DEF Fed
    <3>. QED
      BY <1>5, <3>1 DEF Unread
  <2>2. k = 0 => nbr_pairs = Unread
    BY DEF Fed
  <2>. QED
    BY <1>5, <2>1, <2>2 DEF IsFirst
<1>9. q.count # Unread <=> k = 0
  <2>1. k = 0 => q.count # Unread
    BY <1>5 DEF Unread
  <2>2. k > 0 => q.count = Unread
    BY <1>5, <1>7
  <2>. QED
    BY <1>5, <2>1, <2>2
<1>. HIDE DEF q
<1>10. q.pairs \in Seq(Key \X Value) /\ Len(q.pairs) \in Nat
  BY <1>7, PacketIs
<1>11. Parsed(q) = {q.pairs}
  BY <1>7, <1>8, <1>9 DEF Parsed
<1>12. pairs' = pairs \o q.pairs
  <2>1. \E s \in Parsed(q) : \E c \in Copies(s) : pairs' = pairs \o c
    BY <1>1, <1>4, <1>6
  <2>2. Copies(q.pairs) = {q.pairs}
    BY <1>3 DEF Copies
  <2>. QED
    BY <1>11, <2>1, <2>2
<1>13. Len(pairs') = Len(pairs) + Len(q.pairs)
  BY <1>2, <1>10, <1>12
<1>14. nbr_pairs' = d[1].count
  <2>1. CASE k = 0
    <3>1. nbr_pairs' \in Announced(q) /\ q.count # Unread
      BY <1>1, <1>4, <1>6, <1>8, <1>9, <2>1
    <3>2. q.count = d[1].count
      BY <2>1 DEF q
    <3>3. Final \/ q.count < 32768
      <4>1. ~Final => Len(table) < 32768
        BY DEF Clear
      <4>2. q.count \in 0..Len(table)
        BY <1>5, <3>2
      <4>. QED
        BY <1>5, <4>1, <4>2
    <3>4. nbr_pairs' = q.count
      BY <3>1, <3>3 DEF Announced
    <3>. QED
      BY <3>2, <3>4
  <2>2. CASE k # 0
    <3>1. nbr_pairs' = nbr_pairs
      BY <1>1, <1>8, <2>2
    <3>2. k > 0
      BY <1>5, <2>2
    <3>. QED
      BY <3>1, <3>2 DEF Fed
  <2>. QED
    BY <2>1, <2>2
<1>15. Len(pairs) = off[k + 1]
  <2>1. CASE k = 0
    <3>1. pairs = <<>> /\ off[1] = 0
      BY <1>5, <2>1 DEF Fed, Adjoin
    <3>2. Len(pairs) = 0
      BY <3>1
    <3>3. k + 1 = 1
      BY <2>1
    <3>. QED
      BY <3>1, <3>2, <3>3, Zenon
  <2>2. CASE k # 0
    <3>1. k \in 1..Len(d) /\ k < Len(d) /\ k > 0
      BY <1>5, <1>7, <2>2
    <3>2. Len(pairs) = off[k] + Len(d[k].pairs)
      BY <3>1 DEF Fed
    <3>. QED
      BY <1>5, <3>1, <3>2 DEF Adjoin
  <2>. QED
    BY <2>1, <2>2
<1>16. /\ packets' \in Seq(Packet) /\ Len(packets') = Len(packets) - 1
       /\ \A j \in 1..Len(packets') : packets'[j] = packets[j + 1]
  <2>1. packets' = RemoveAt(packets, 1)
    BY <1>1, <1>4
  <2>2. /\ packets' \in Seq(Packet) /\ Len(packets') = Len(packets) - 1
        /\ \A j \in 1..Len(packets') : packets'[j] = packets[IF j < 1 THEN j ELSE j + 1]
    BY <1>2, <1>4, <2>1, Removed
  <2>. QED
    BY <2>2
<1>17. ASSUME NEW j \in 1..Len(packets')
       PROVE  packets'[j] = d[k + 1 + j]
  <2>1. j + 1 \in 1..Len(packets) /\ k + (j + 1) = k + 1 + j
    BY <1>2, <1>5, <1>16, <1>17
  <2>2. packets[j + 1] = d[k + (j + 1)]
    BY <2>1 DEF Fed
  <2>. QED
    BY <1>16, <2>1, <2>2
<1>18. Len(packets') = Len(d) - (k + 1)
  BY <1>5, <1>16
<1>19. dumping' = "waiting"
  BY <1>3 DEF ReadPacket
<1>20. ASSUME NEW j \in 1..Len(pairs')
       PROVE  pairs'[j] = table[j]
  <2>1. q.pairs \in Seq(Strings \X Strings)
    BY <1>10 DEF Strings
  <2>2. CASE j <= Len(pairs)
    <3>1. j \in 1..Len(pairs)
      BY <1>2, <1>20, <2>2
    <3>2. pairs'[j] = pairs[j]
      BY <1>2, <1>12, <2>1, <3>1
    <3>. QED
      BY <3>1, <3>2 DEF Fed
  <2>3. CASE ~(j <= Len(pairs))
    <3>1. j - Len(pairs) \in 1..Len(q.pairs) /\ Len(pairs) + (j - Len(pairs)) = j
      BY <1>2, <1>10, <1>13, <1>20, <2>3
    <3>2. pairs'[j] = q.pairs[j - Len(pairs)]
      BY <1>2, <1>12, <2>1, <3>1
    <3>3. \A n \in 1..Len(q.pairs) : q.pairs[n] = table[off[k + 1] + n]
      BY <1>7 DEF Fed, Covers, q
    <3>. QED
      BY <1>15, <3>1, <3>2, <3>3
  <2>. QED
    BY <2>2, <2>3
<1>. HIDE DEF d
<1>. QED
  BY <1>7, <1>13, <1>14, <1>15, <1>17, <1>18, <1>19, <1>20 DEF d, q

\* The reader that has read everything wants no more.
LEMMA FedEnough ==
  ASSUME DumpInv, NEW off, NEW k, Fed(Dump(table), off, k), packets = <<>>
  PROVE  ~Wanting
<1>. DEFINE d == Dump(table)
<1>1. table \in Tables /\ Len(table) \in Nat
  BY TablesAre DEF DumpInv, DumpShape
<1>2. /\ Len(d) \in Nat /\ Len(d) > 0 /\ k \in 0..Len(d) /\ Len(packets) = Len(d) - k
      /\ off[Len(d)] + Len(d[Len(d)].pairs) = Len(table)
  BY DEF Fed, Covers
<1>3. k = Len(d) /\ k > 0
  BY <1>2
<1>4. nbr_pairs \in 0..Len(table) /\ Len(pairs) = Len(table)
  <2>1. d[1].count \in 0..Len(table)
    BY DEF Fed, Covers
  <2>. QED
    BY <1>2, <1>3, <2>1 DEF Fed
<1>. QED
  BY <1>1, <1>4 DEF Wanting, Unread

\* The reader that wants no more has read all of a plain table, in its order.
LEMMA FedEnds ==
  ASSUME DumpInv, NEW off, NEW k, Fed(Dump(table), off, k), ~Wanting, Plain(table)
  PROVE  pairs = table
<1>. DEFINE d == Dump(table)
<1>1. /\ table \in Tables /\ Len(table) \in Nat /\ table \in Seq(Key \X Value)
      /\ pairs \in Seq(Strings \X Strings) /\ Len(pairs) \in Nat
  BY TablesAre DEF DumpInv, DumpShape
<1>2. d[1].count = Len(table)
  <2>1. PICK at : Parts(d, at, table)
    BY <1>1, DumpHolds
  <2>. QED
    BY <2>1 DEF Parts
<1>3. nbr_pairs # Unread /\ ~(Len(pairs) < nbr_pairs)
  BY DEF Wanting
<1>4. k \in 1..Len(d)
  <2>1. k \in 0..Len(d) /\ k # 0
    BY <1>3 DEF Fed
  <2>. QED
    BY <2>1
<1>5. nbr_pairs = Len(table) /\ Len(pairs) = off[k] + Len(d[k].pairs)
  BY <1>2, <1>4 DEF Fed
<1>6. off[k] + Len(d[k].pairs) <= Len(table)
  BY <1>4 DEF Fed, Covers
<1>7. Len(pairs) = Len(table)
  BY <1>1, <1>3, <1>5, <1>6
<1>8. \A i \in 1..Len(pairs) : pairs[i] = table[i]
  BY DEF Fed
<1>9. table \in Seq(Strings \X Strings)
  BY <1>1 DEF Strings
<1>. QED
  BY <1>1, <1>7, <1>8, <1>9, SameSeq

\* Every step of pps-dump-node, of the server and of the network keeps it and does not
\* let a dump fail.
LEMMA FedStep ==
  ASSUME DumpInv, FedInv, DumpNext, Same
  PROVE  FedInv' /\ DumpsDoNotFail
<1>1. UNCHANGED <<release, faults, table>>
  BY DEF DumpNext, DumpWork, AskDump, ServeDump, ReadPacket, GiveUpDump, PrintPairs,
         LosePacket, DuplicatePacket, Same
<1>2. Clear' = Clear /\ Dump(table)' = Dump(table)
  BY <1>1, ClearSame
<1>. SUFFICES ASSUME Clear
              PROVE  FedInv' /\ DumpsDoNotFail
  BY <1>2 DEF FedInv, DumpsDoNotFail
<1>3. ~May("late") /\ ~May("nomem") /\ ~May("lost") /\ ~May("duplicated")
  BY DEF Clear, May
<1>4. table \in Tables
  BY DEF DumpInv, DumpShape
<1>5. CASE AskDump
  BY <1>3, <1>5 DEF AskDump, FedInv, DumpsDoNotFail
<1>6. CASE ServeDump
  <2>1. packets' = Dump(table) /\ dumping' = "waiting"
    BY <1>3, <1>6 DEF ServeDump
  <2>2. nbr_pairs' = Unread /\ pairs' = <<>>
    BY <1>6 DEF ServeDump, DumpInv, DumpShape
  <2>3. PICK off : Covers(Dump(table), off, table)
    BY <1>4, DumpCovers
  <2>4. Len(Dump(table)) \in Nat
    BY <2>3 DEF Covers
  <2>5. Fed(Dump(table), off, 0)'
    BY <1>1, <1>2, <2>1, <2>2, <2>3, <2>4 DEF Fed
  <2>. QED
    BY <2>1, <2>5 DEF FedInv, DumpsDoNotFail
<1>7. CASE ReadPacket
  <2>1. PICK off, k : Fed(Dump(table), off, k)
    BY <1>7 DEF FedInv, ReadPacket
  <2>. DEFINE d == Dump(table)
  <2>2. /\ k + 1 \in 1..Len(d) /\ dumping' = "waiting"
        /\ Len(packets') = Len(d) - (k + 1)
        /\ \A j \in 1..Len(packets') : packets'[j] = d[k + 1 + j]
        /\ nbr_pairs' = d[1].count
        /\ Len(pairs') = off[k + 1] + Len(d[k + 1].pairs)
        /\ \A i \in 1..Len(pairs') : pairs'[i] = table[i]
    BY <1>7, <2>1, FedRead
  <2>3. Covers(d, off, table)
    BY <2>1 DEF Fed
  <2>. HIDE DEF d
  <2>4. Covers(d, off, table)' /\ d' = d
    BY <1>1, <1>2, <2>3 DEF d
  <2>5. k + 1 \in 0..Len(d) /\ k + 1 > 0 /\ k + 1 # 0
    BY <2>2
  <2>6. Fed(d, off, k + 1)'
    BY <1>1, <2>2, <2>4, <2>5 DEF Fed
  <2>. QED
    BY <2>2, <2>6 DEF FedInv, DumpsDoNotFail, d
<1>8. CASE GiveUpDump
  <2>1. packets = <<>> /\ dumping = "waiting" /\ Wanting
    BY <1>3, <1>8 DEF GiveUpDump, NothingComes
  <2>2. PICK off, k : Fed(Dump(table), off, k)
    BY <2>1 DEF FedInv
  <2>. QED
    BY <2>1, <2>2, FedEnough
<1>9. CASE PrintPairs
  <2>1. dumping = "waiting" /\ ~Wanting /\ dumping' = "printed" /\ pairs' = pairs
    BY <1>9 DEF PrintPairs
  <2>2. PICK off, k : Fed(Dump(table), off, k)
    BY <2>1 DEF FedInv
  <2>3. Plain(table) => pairs = table
    BY <2>1, <2>2, FedEnds
  <2>. QED
    BY <2>1, <2>3 DEF FedInv, DumpsDoNotFail
<1>10. CASE LosePacket \/ DuplicatePacket
  BY <1>3, <1>10 DEF LosePacket, DuplicatePacket
<1>. QED
  BY <1>5, <1>6, <1>7, <1>8, <1>9, <1>10 DEF DumpNext, DumpWork

\* A step of another program leaves it alone.
LEMMA FedStays ==
  ASSUME FedInv, UNCHANGED <<release, faults, dumpVars>>
  PROVE  FedInv' /\ DumpsDoNotFail
<1>1. Clear' = Clear /\ Dump(table)' = Dump(table)
  BY ClearSame DEF dumpVars
<1>2. \A off, k : Fed(Dump(table), off, k)' = Fed(Dump(table), off, k)
  BY <1>1 DEF Fed, dumpVars
<1>. QED
  BY <1>1, <1>2 DEF FedInv, DumpsDoNotFail, dumpVars

\* When nothing fails, a dump of a table without empty keys whose packets have room is
\* never given up, even if a header alone fills the first packet and its number of pairs
\* loses a byte, and if that is not so, all pairs are printed in their order.
THEOREM DumpsEndWell == Spec => [][DumpsDoNotFail]_vars
<1>1. Init => FedInv
  BY DEF Init, DumpInit, FedInv
<1>2. ASSUME IInv, FedInv, [Next]_vars
      PROVE  FedInv' /\ [DumpsDoNotFail]_vars
  <2>1. CASE UNCHANGED vars
    BY <1>2, <2>1, FedStays DEF vars
  <2>2. CASE Next
    <3>1. Same /\ UNCHANGED <<release, faults>> /\ DumpInv
      BY <1>2, <2>2 DEF Next, Same, IInv
    <3>2. DumpNext \/ UNCHANGED dumpVars
      BY <2>2 DEF Next, Listing, Dumping, Calling, Starting, Testing
    <3>. QED
      BY <1>2, <3>1, <3>2, FedStep, FedStays
  <2>. QED
    BY <1>2, <2>1, <2>2
<1>. QED
  BY <1>1, <1>2, Invariant, PTL DEF Spec
=============================================================================
