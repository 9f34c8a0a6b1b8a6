-------------------------- MODULE ClientInitProofs --------------------------
(***************************************************************************)
(* What a client has when it sends its requests, whatever it is given and  *)
(* whatever servers.txt says: coherent options, and the servers that       *)
(* follow the key on the ring.                                             *)
(***************************************************************************)
EXTENDS ClientInit, FiniteSetTheorems, WellFoundedInduction, TLAPS

-----------------------------------------------------------------------------
(* The options.                                                             *)

\* While they are read, options are what the user gave or what they are by
\* default; it is parse_opt_args's last step that changes others.
ParsedSoFar ==
  /\ opts \in [Option -> Nat \ {0}]
  /\ asked \in [Option -> Nat]
  /\ given \subseteq Option
  /\ \A f \in given : parsing = "reading" => opts[f] = asked[f]
  /\ parsing = "reading" => \A f \in Option \ given : opts[f] = Default[f]

OptionsInv == ParsedSoFar /\ OptionsCoherent

\* Reading an option keeps what was given before and says what is given now.
LEMMA ReadOptionKeeps ==
  ASSUME OptionsInv, NEW f \in Option, NEW n \in Number, ReadOption(f, n)
  PROVE  OptionsInv'
<1>1. n \in Nat \ {0}
  BY ArgsAssumption DEF ReadOption
<1>2. opts' \in [Option -> Nat \ {0}] /\ asked' \in [Option -> Nat] /\ given' \subseteq Option
  BY <1>1 DEF OptionsInv, ParsedSoFar, ReadOption
<1>3. \A g \in given' : opts'[g] = asked'[g]
  BY DEF OptionsInv, ParsedSoFar, ReadOption
<1>4. \A g \in Option \ given' : opts'[g] = Default[g]
  BY DEF OptionsInv, ParsedSoFar, ReadOption
<1>5. parsing' = "reading"
  BY DEF ReadOption
<1> QED
  BY <1>2, <1>3, <1>4, <1>5 DEF OptionsInv, ParsedSoFar, OptionsCoherent

\* The end of the options reconciles what was given with the defaults.
LEMMA EndReconciles ==
  ASSUME OptionsInv, EndOfOptions
  PROVE  OptionsInv'
<1>0. parsing = "reading" /\ UNCHANGED <<given, asked>>
  BY DEF EndOfOptions
<1> USE DEF Option
<1>1. CASE Incoherent
  BY <1>0, <1>1 DEF EndOfOptions, OptionsInv, ParsedSoFar, OptionsCoherent
<1>2. CASE ~Incoherent /\ "-n" \in given
  <2>1. opts' = CutDown /\ parsing' = "done"
    BY <1>2 DEF EndOfOptions
  <2>2. /\ opts' \in [Option -> Nat \ {0}]
        /\ opts'["-n"] = opts["-n"]
        /\ opts'["-r"] = Smaller(opts["-n"], opts["-r"])
        /\ opts'["-w"] = Smaller(opts["-n"], opts["-w"])
    BY <2>1 DEF CutDown, Smaller, OptionsInv, ParsedSoFar
  <2>3. opts'["-r"] \in 1..opts'["-n"] /\ opts'["-w"] \in 1..opts'["-n"]
    BY <2>2 DEF Smaller, OptionsInv, ParsedSoFar
  <2>4. \A f \in given : opts'[f] = asked[f]
    BY <1>0, <1>2, <2>2 DEF Smaller, Incoherent, OptionsInv, ParsedSoFar
  <2> QED
    BY <1>0, <2>1, <2>2, <2>3, <2>4 DEF OptionsInv, ParsedSoFar, OptionsCoherent
<1>3. CASE ~Incoherent /\ "-n" \notin given
  <2> DEFINE needed(f) == IF f \in given THEN opts[f] ELSE 1
  <2>1. opts' = Raised /\ parsing' = "done"
    BY <1>3 DEF EndOfOptions
  <2>2. needed("-r") \in Nat \ {0} /\ needed("-w") \in Nat \ {0}
    BY DEF OptionsInv, ParsedSoFar
  <2>3. /\ opts' \in [Option -> Nat \ {0}]
        /\ opts'["-n"] = Larger(opts["-n"], Larger(needed("-r"), needed("-w")))
        /\ opts'["-r"] = opts["-r"] /\ opts'["-w"] = opts["-w"]
    BY <2>1, <2>2 DEF Raised, Larger, OptionsInv, ParsedSoFar
  <2>4. opts["-n"] = 3 /\ \A f \in {"-r", "-w"} \ given : opts[f] = 2
    BY <1>0, <1>3 DEF Default, OptionsInv, ParsedSoFar
  <2>5. \A m, p, q \in Nat : m <= Larger(m, Larger(p, q)) /\ p <= Larger(m, Larger(p, q))
                                                /\ q <= Larger(m, Larger(p, q))
    BY DEF Larger
  <2>6. opts["-r"] <= opts'["-n"] /\ opts["-w"] <= opts'["-n"]
    <3>1. /\ 3 <= opts'["-n"]
          /\ needed("-r") <= opts'["-n"] /\ needed("-w") <= opts'["-n"]
      BY <2>2, <2>3, <2>4, <2>5
    <3>2. ASSUME NEW f \in {"-r", "-w"} PROVE opts[f] <= opts'["-n"]
      BY <3>1, <2>3, <2>4
    <3> QED
      BY <3>2
  <2>7. \A f \in given : opts'[f] = asked[f]
    BY <1>0, <1>3, <2>3 DEF OptionsInv, ParsedSoFar
  <2> QED
    BY <1>0, <2>1, <2>3, <2>6, <2>7 DEF OptionsInv, ParsedSoFar, OptionsCoherent
<1> QED
  BY <1>1, <1>2, <1>3

LEMMA InitOptions == Init => OptionsInv
BY DEF Init, ArgsInit, Default, Option, OptionsInv, ParsedSoFar, OptionsCoherent

LEMMA NextOptions ==
  ASSUME OptionsInv, [Next]_vars
  PROVE  OptionsInv'
<1>1. ASSUME UNCHANGED argsVars PROVE OptionsInv'
  BY <1>1 DEF argsVars, OptionsInv, ParsedSoFar, OptionsCoherent
<1>2. CASE Options
  <2>1. CASE BadOption
    BY <2>1 DEF BadOption, OptionsInv, ParsedSoFar, OptionsCoherent
  <2> QED
    BY <1>2, <2>1, ReadOptionKeeps, EndReconciles DEF Options, ArgsNext
<1> QED
  BY <1>1, <1>2 DEF Next, vars, Count, Load, StartLookup, WalkOn, WalkEnds

\* Whatever the options of the program, the numbers and servers.txt: parse_opt_args
\* returns quorums that N servers can reach and leaves the user's numbers alone.
THEOREM OptionsAreCoherent == Spec => []OptionsCoherent
<1>1. OptionsInv => OptionsCoherent
  BY DEF OptionsInv
<1> QED
  BY <1>1, InitOptions, NextOptions, PTL DEF Spec

-----------------------------------------------------------------------------
(* Numbers and digests.                                                     *)

\* A set of numbers that is not empty has a smallest one.
LEMMA Smallest ==
  ASSUME NEW T, T \subseteq Nat, T # {}
  PROVE  \E n \in T : \A m \in T : n <= m
<1>1. PICK n \in T : \A m \in T : ~ (<<m, n>> \in OpToRel(<, Nat))
  BY WFMin, NatLessThanWellFounded, Zenon
<1>2. n \in T /\ \A m \in T : ~(m < n)
  BY <1>1, Zenon DEF OpToRel
<1>. QED
  BY <1>2

\* Two nodes of the ring do not compare equal by accident: no SHA1 of a node has a zero
\* byte, and no two nodes have the same SHA1.
NoZeroByte == \A x \in Node, i \in 1..2 : Sha[x][i] # 0
NoCollision == \A x, y \in Node : Sha[x] = Sha[y] => x = y

LEMMA DigestType ==
  /\ \A x \in Node : Sha[x] \in Digest
  /\ \A k \in Key : KeySha[k] \in Digest
BY RingAssumption

LEMMA Compared ==
  ASSUME NEW x \in Digest, NEW y \in Digest
  PROVE  /\ Below(x, y) <=> x[1] < y[1] \/ (x[1] = y[1] /\ x[2] < y[2])
         /\ StrLess(x, y) <=> x[1] < y[1] \/ (x[1] = y[1] /\ x[1] # 0 /\ x[2] < y[2])
         /\ x[1] \in Int /\ x[2] \in Int /\ y[1] \in Int /\ y[2] \in Int
         /\ x = y <=> x[1] = y[1] /\ x[2] = y[2]
<1>1. x[1] \in Int /\ x[2] \in Int /\ y[1] \in Int /\ y[2] \in Int
  BY DEF Digest
<1>2. \A i \in 1..2 : i = 1 \/ i = 2
  OBVIOUS
<1>3. 1 \in 1..2 /\ 2 \in 1..2 /\ 1..0 = {} /\ 1..1 = {1} /\ 1 - 1 = 0 /\ 2 - 1 = 1
  OBVIOUS
<1>4. DiffersAt(x, y, 1) <=> x[1] < y[1]
  BY <1>3 DEF DiffersAt
<1>5. DiffersAt(x, y, 2) <=> x[2] < y[2] /\ x[1] = y[1]
  BY <1>3 DEF DiffersAt
<1>6. Below(x, y) <=> DiffersAt(x, y, 1) \/ DiffersAt(x, y, 2)
  BY <1>2, <1>3 DEF Below
<1>7. StrLess(x, y) <=> DiffersAt(x, y, 1) \/ (DiffersAt(x, y, 2) /\ x[1] # 0)
  BY <1>2, <1>3 DEF StrLess
<1>8. x = y <=> x[1] = y[1] /\ x[2] = y[2]
  BY <1>2 DEF Digest
<1>. QED
  BY <1>1, <1>4, <1>5, <1>6, <1>7, <1>8

\* Digests are totally ordered.
LEMMA BelowOrder ==
  ASSUME NEW x \in Digest, NEW y \in Digest
  PROVE  /\ ~(Below(x, y) /\ Below(y, x))
         /\ Below(x, y) \/ Below(y, x) \/ x = y
         /\ \A z \in Digest : ~Below(y, x) /\ ~Below(z, y) => ~Below(z, x)
<1>1. ~(Below(x, y) /\ Below(y, x)) /\ (Below(x, y) \/ Below(y, x) \/ x = y)
  BY Compared
<1>2. ASSUME NEW z \in Digest, ~Below(y, x), ~Below(z, y)
      PROVE  ~Below(z, x)
  BY <1>2, Compared
<1>. QED
  BY <1>1, <1>2

\* Without zero bytes the string comparison is that order.
LEMMA StrLessIsBelow ==
  ASSUME NoZeroByte, NEW x \in Node
  PROVE  \A d \in Digest : StrLess(Sha[x], d) <=> Below(Sha[x], d)
<1>1. Sha[x] \in Digest /\ Sha[x][1] # 0
  BY DigestType DEF NoZeroByte
<1>. QED
  BY <1>1, Compared

-----------------------------------------------------------------------------
(* The types.                                                               *)

LEMMA LineType ==
  ASSUME RingTypeOK, read < Len(file.lines)
  PROVE  /\ Len(file.lines) \in Nat /\ read + 1 \in 1..Len(file.lines)
         /\ file.lines[read + 1] \in Line
<1>1. file.lines \in Seq(Line)
  BY RingAssumption DEF RingTypeOK, File
<1>. QED
  BY <1>1 DEF RingTypeOK

LEMMA ReadLineType ==
  ASSUME RingTypeOK, ReadLine
  PROVE  RingTypeOK'
<1>1. PICK line \in Line : line = file.lines[read + 1]
  BY LineType DEF ReadLine
<1>. DEFINE new == [i \in 1..line[2] |-> <<line[1], i>>]
<1>2. line[1] \in Address /\ line[2] \in 0..MaxId /\ MaxId \in Nat
  BY <1>1, RingAssumption DEF Line
<1>3. \A i \in 1..line[2] : <<line[1], i>> \in Node
  BY <1>2 DEF Node
<1>4. new \in Seq(Node) /\ Len(new) = line[2]
  BY <1>2, <1>3
<1>5. ring' = ring \o new
  BY <1>1 DEF ReadLine
<1>. HIDE DEF new
<1>6. ring' \in Seq(Node) /\ Len(ring') = Len(ring) + Len(new)
  <2>1. ring \in Seq(Node)
    BY DEF RingTypeOK
  <2>2. \A l \in Seq(Node) : l \o new \in Seq(Node) /\ Len(l \o new) = Len(l) + Len(new)
    BY <1>4
  <2>. QED
    BY <1>5, <2>1, <2>2
<1>7. read' \in 0..Len(file.lines)
  BY LineType DEF ReadLine, RingTypeOK
<1>8. index \in (1..Len(ring')) \cup {1}
  <2>1. Len(ring) \in Nat /\ Len(new) \in Nat /\ index \in (1..Len(ring)) \cup {1}
    BY <1>2, <1>4 DEF RingTypeOK
  <2>. QED
    BY <1>6, <2>1
<1>. QED
  BY <1>6, <1>7, <1>8 DEF ReadLine, RingTypeOK

LEMMA SortType ==
  ASSUME RingTypeOK, Sort
  PROVE  /\ RingTypeOK' /\ IsSorted(ring') /\ UNCHANGED <<found, key>>
         /\ Len(ring') = Len(ring)
<1>1. PICK p \in [DOMAIN ring -> DOMAIN ring] : ring' = [i \in DOMAIN ring |-> ring[p[i]]]
  BY DEF Sort, Orders
<1>2. ring \in Seq(Node) /\ DOMAIN ring = 1..Len(ring) /\ Len(ring) \in Nat
  BY DEF RingTypeOK
<1>3. \A i \in 1..Len(ring) : ring[p[i]] \in Node
  BY <1>2
<1>4. ring' \in Seq(Node) /\ Len(ring') = Len(ring)
  BY <1>1, <1>2, <1>3
<1>. QED
  BY <1>4 DEF Sort, RingTypeOK

\* index_of_first_node finds the first node at the key or behind it, if there is one.
LEMMA FirstNodeIs ==
  ASSUME RingTypeOK
  PROVE  /\ FirstNode \in (1..Len(ring)) \cup {1}
         /\ \A i \in 1..Len(ring) : i < FirstNode => ~AtOrAfter(i)
         /\ (\E i \in 1..Len(ring) : AtOrAfter(i)) =>
              FirstNode \in 1..Len(ring) /\ AtOrAfter(FirstNode)
<1>. DEFINE candidates == {i \in 1..Len(ring) : AtOrAfter(i)}
            first == CHOOSE i \in candidates : \A j \in candidates : i <= j
<1>0. Len(ring) \in Nat
  BY DEF RingTypeOK
<1>1. CASE candidates = {}
  <2>1. FirstNode = 1
    BY <1>1 DEF FirstNode
  <2>. QED
    BY <1>1, <2>1
<1>2. CASE candidates # {}
  <2>1. \E i \in candidates : \A j \in candidates : i <= j
    <3>1. candidates \subseteq Nat
      BY <1>0
    <3>. HIDE DEF candidates
    <3>. QED
      BY <1>2, <3>1, Smallest
  <2>2. first \in candidates /\ \A j \in candidates : first <= j
    <3>. HIDE DEF candidates
    <3>. QED
      BY <2>1
  <2>3. FirstNode = first
    BY <1>2 DEF FirstNode
  <2>4. PICK f \in candidates : f = FirstNode /\ \A j \in candidates : f <= j
    BY <2>2, <2>3
  <2>. QED
    BY <1>0, <2>4
<1>. QED
  BY <1>1, <1>2

LEMMA WalkType ==
  ASSUME RingTypeOK, Walk, ring # <<>>
  PROVE  RingTypeOK'
<1>1. ring \in Seq(Node) /\ Len(ring) \in Nat \ {0} /\ index \in 1..Len(ring)
  BY DEF RingTypeOK
<1>2. ring[index] \in Node
  BY <1>1
<1>3. ring[index][1] \in Address
  BY <1>2 DEF Node
<1>4. found' \in Seq(Address)
  BY <1>3 DEF Walk, RingTypeOK
<1>5. index' \in 1..Len(ring)
  BY <1>1 DEF Walk, Following
<1>. QED
  BY <1>4, <1>5 DEF Walk, RingTypeOK

LEMMA ArgsType ==
  ASSUME ArgsTypeOK, OptionsInv, OptionsInv', ArgsNext
  PROVE  ArgsTypeOK'
<1>1. opts' \in [Option -> Nat \ {0}] /\ asked' \in [Option -> Nat]
  BY DEF OptionsInv, ParsedSoFar
<1>2. parsing' \in {"reading", "done", "error"} /\ given' \subseteq Supported
  BY DEF ArgsTypeOK, ArgsNext, ReadOption, BadOption, EndOfOptions
<1>. QED
  BY <1>1, <1>2 DEF ArgsTypeOK

\* The steps of the client, by what they do to the ring.
LEMMA NextType ==
  ASSUME TypeOK, OptionsInv, OptionsInv', [Next]_vars
  PROVE  TypeOK'
<1>. USE DEF TypeOK
<1>1. CASE UNCHANGED vars
  BY <1>1 DEF vars, argsVars, ringVars, ArgsTypeOK, RingTypeOK
<1>2. CASE Count
  <2>1. counted' \in Nat
    <3>1. file.lines \in Seq(Line) /\ (file.lines = <<>> => file.newline)
      BY RingAssumption DEF RingTypeOK, File
    <3>2. Newlines \in Nat
      BY <3>1 DEF Newlines
    <3>. QED
      BY <1>2, <3>2 DEF Count
  <2>. QED
    BY <1>2, <2>1 DEF Count, argsVars, ringVars, ArgsTypeOK, RingTypeOK, Phases
<1>3. CASE Options
  BY <1>3, ArgsType DEF Options, ringVars, RingTypeOK, Phases
<1>4. CASE Load
  <2>1. RingTypeOK' /\ phase' \in Phases /\ UNCHANGED <<argsVars, counted>>
    BY <1>4, ReadLineType, SortType DEF Load, ringVars, RingTypeOK, Phases
  <2>. QED
    BY <2>1 DEF argsVars, ArgsTypeOK
<1>5. CASE StartLookup
  <2>1. RingTypeOK'
    BY <1>5, FirstNodeIs DEF StartLookup, Lookup, RingTypeOK
  <2>. QED
    BY <1>5, <2>1 DEF StartLookup, argsVars, ArgsTypeOK, Phases
<1>6. CASE WalkOn \/ WalkEnds
  <2>1. RingTypeOK'
    BY <1>6, WalkType DEF WalkOn, WalkEnds, ringVars, RingTypeOK
  <2>. QED
    BY <1>6, <2>1 DEF WalkOn, WalkEnds, argsVars, ArgsTypeOK, Phases
<1>. QED
  BY <1>1, <1>2, <1>3, <1>4, <1>5, <1>6 DEF Next

-----------------------------------------------------------------------------
(* The walk.                                                                *)

\* On the way round from the first node, position p comes before position q.
Before(p, q) ==
  IF (p >= FirstNode) <=> (q >= FirstNode) THEN p < q ELSE p >= FirstNode

\* Each server of found has a position before which there are only servers found earlier.
InOrder ==
  \A i \in 1..Len(found) :
    \E q \in 1..Len(ring) :
      /\ ring[q][1] = found[i]
      /\ \A p \in 1..Len(ring) : Before(p, q) => \E j \in 1..i : found[j] = ring[p][1]

\* The servers at the positions behind the walk are in found.
Walked ==
  /\ IsSorted(ring)
  /\ Len(found) <= opts["-n"]
  /\ \A i, j \in 1..Len(found) : found[i] = found[j] => i = j
  /\ \A q \in 1..Len(ring) : Before(q, index) => IsPresent(ring[q][1])
  /\ InOrder

WalkInv ==
  /\ phase \in {"count", "options", "load"} /\ read = 0 => ring = <<>>
  /\ phase = "lookup" => IsSorted(ring)
  /\ phase \notin {"walk", "send", "failed"} => found = <<>>
  /\ phase \in {"walk", "send"} => Walked
  /\ phase = "send" => Len(found) = opts["-n"]

LEMMA BeforeFollowing ==
  ASSUME RingTypeOK, ring # <<>>, NEW q \in 1..Len(ring), Before(q, Following)
  PROVE  Before(q, index) \/ q = index
<1>1. /\ Len(ring) \in Nat \ {0} /\ index \in 1..Len(ring) /\ FirstNode \in 1..Len(ring)
  BY FirstNodeIs DEF RingTypeOK
<1>2. Following = IF index = Len(ring) THEN 1 ELSE index + 1
  BY <1>1 DEF Following
<1>. QED
  BY <1>1, <1>2 DEF Before

LEMMA WalkWalked ==
  ASSUME RingTypeOK, opts \in [Option -> Nat \ {0}], ring # <<>>, Walked, Walk, UNCHANGED opts,
         Len(found) < opts["-n"]
  PROVE  Walked'
<1>. DEFINE server == ring[index][1]
<1>1. /\ Len(ring) \in Nat \ {0} /\ index \in 1..Len(ring) /\ Len(found) \in Nat
      /\ ring \in Seq(Node) /\ found \in Seq(Address)
  BY DEF RingTypeOK
<1>2. /\ UNCHANGED <<ring, key>> /\ index' = Following
      /\ found' = IF IsPresent(server) THEN found ELSE Append(found, server)
  BY DEF Walk
<1>3. FirstNode' = FirstNode /\ IsSorted(ring)'
  <2>1. FirstNode' = FirstNode
    BY <1>2 DEF FirstNode, AtOrAfter
  <2>2. IsSorted(ring)
    BY DEF Walked
  <2>. QED
    BY <1>2, <2>1, <2>2
<1>4. \A p, q : Before(p, q)' <=> Before(p, q)
  BY <1>3 DEF Before
<1>5. /\ found' \in Seq(Address) /\ Len(found') \in Nat /\ Len(found) <= Len(found')
      /\ \A i \in 1..Len(found) : found'[i] = found[i]
      /\ Len(found') <= opts["-n"]
      /\ \/ Len(found') = Len(found)
         \/ ~IsPresent(server) /\ Len(found') = Len(found) + 1 /\ found'[Len(found) + 1] = server
  <2>1. opts["-n"] \in Nat
    BY DEF Option
  <2>2. ring[index] \in Node
    BY <1>1
  <2>3. server \in Address
    BY <2>2 DEF Node
  <2>. QED
    BY <1>1, <1>2, <2>1, <2>3
<1>6. \A a : IsPresent(a) \/ a = server => \E i \in 1..Len(found') : found'[i] = a
  <2>1. \A a : IsPresent(a) => \E i \in 1..Len(found') : found'[i] = a
    BY <1>1, <1>5 DEF IsPresent
  <2>2. \E i \in 1..Len(found') : found'[i] = server
    <3>1. CASE IsPresent(server)
      BY <2>1, <3>1
    <3>2. CASE ~IsPresent(server)
      <4>1. found' = Append(found, server)
        BY <1>2, <3>2
      <4>2. Len(found) + 1 \in 1..Len(found') /\ found'[Len(found) + 1] = server
        BY <1>1, <4>1
      <4>. QED
        BY <4>2
    <3>. QED
      BY <3>1, <3>2
  <2>. QED
    BY <2>1, <2>2
<1>7. \A i, j \in 1..Len(found') : found'[i] = found'[j] => i = j
  BY <1>1, <1>5 DEF Walked, IsPresent
<1>8. ASSUME NEW q \in 1..Len(ring'), Before(q, index)'
      PROVE  \E i \in 1..Len(found') : found'[i] = ring[q][1]
  <2>1. Before(q, Following)
    BY <1>2, <1>3, <1>8 DEF Before
  <2>2. Before(q, index) \/ q = index
    BY <1>2, <2>1, BeforeFollowing
  <2>. QED
    BY <1>2, <1>6, <2>2 DEF Walked
<1>9. ASSUME NEW i \in 1..Len(found')
      PROVE  \E q \in 1..Len(ring) :
               /\ ring[q][1] = found'[i]
               /\ \A p \in 1..Len(ring) : Before(p, q) => \E j \in 1..i : found'[j] = ring[p][1]
  <2>1. CASE i \in 1..Len(found)
    <3>1. PICK q \in 1..Len(ring) :
            /\ ring[q][1] = found[i]
            /\ \A p \in 1..Len(ring) : Before(p, q) => \E j \in 1..i : found[j] = ring[p][1]
      BY <2>1 DEF Walked, InOrder
    <3>2. \A j \in 1..i : found'[j] = found[j]
      BY <1>1, <1>5, <2>1
    <3>. QED
      BY <1>5, <2>1, <3>1, <3>2
  <2>2. CASE i \notin 1..Len(found)
    <3>1. i = Len(found) + 1 /\ found'[i] = server
      BY <1>1, <1>5, <2>2
    <3>2. ASSUME NEW p \in 1..Len(ring), Before(p, index)
          PROVE  \E j \in 1..i : found'[j] = ring[p][1]
      <4>1. PICK j \in 1..Len(found) : found[j] = ring[p][1]
        BY <3>2 DEF Walked, IsPresent
      <4>2. j \in 1..i /\ found'[j] = found[j]
        BY <1>1, <1>5, <3>1, <4>1
      <4>. QED
        BY <4>1, <4>2
    <3>. QED
      BY <1>1, <3>1, <3>2
  <2>. QED
    BY <2>1, <2>2
<1>10. \A i \in 1..Len(found') :
         \E q \in 1..Len(ring) :
           /\ ring[q][1] = found'[i]
           /\ \A p \in 1..Len(ring) : Before(p, q)' => \E j \in 1..i : found'[j] = ring[p][1]
  BY <1>4, <1>9
<1>11. InOrder'
  <2> SUFFICES ASSUME NEW i \in 1..Len(found')
               PROVE  \E q \in 1..Len(ring') :
                        /\ ring'[q][1] = found'[i]
                        /\ \A p \in 1..Len(ring') : Before(p, q)' => \E j \in 1..i : found'[j] = ring'[p][1]
    BY Zenon DEF InOrder
  <2>1. ring' = ring
    BY <1>2
  <2>2. PICK q \in 1..Len(ring) :
          /\ ring[q][1] = found'[i]
          /\ \A p \in 1..Len(ring) : Before(p, q)' => \E j \in 1..i : found'[j] = ring[p][1]
    BY <1>10
  <2>3. \A p \in 1..Len(ring') : Before(p, q)' => \E j \in 1..i : found'[j] = ring'[p][1]
    BY <2>1, <2>2
  <2>. QED
    BY <2>1, <2>2, <2>3
<1>12. \A q \in 1..Len(ring)' : Before(q, index)' => IsPresent(ring[q][1])'
  BY <1>2, <1>8 DEF IsPresent
<1>. QED
  BY <1>2, <1>3, <1>5, <1>7, <1>11, <1>12 DEF Walked

LEMMA WalkedStays ==
  ASSUME Walked, UNCHANGED <<opts, ring, key, index, found>>
  PROVE  Walked'
<1>1. FirstNode' = FirstNode
  BY DEF FirstNode, AtOrAfter
<1>2. \A p, q : Before(p, q)' <=> Before(p, q)
  BY <1>1 DEF Before
<1>. QED
  BY <1>2 DEF Walked, InOrder, IsSorted, IsPresent

LEMMA NextWalkInv ==
  ASSUME TypeOK, OptionsInv, WalkInv, [Next]_vars
  PROVE  WalkInv'
<1>. USE DEF TypeOK
<1>1. CASE UNCHANGED vars
  BY <1>1, WalkedStays DEF vars, argsVars, ringVars, WalkInv, IsSorted
<1>2. CASE Count \/ Options
  BY <1>2 DEF Count, Options, argsVars, ringVars, WalkInv
<1>3. CASE Load
  <2>1. CASE ReadLine
    <3>1. read \in Nat /\ Len(file.lines) \in Nat
      BY <2>1, LineType DEF ReadLine, RingTypeOK
    <3>2. read' = read + 1 /\ UNCHANGED found
      BY <2>1 DEF ReadLine
    <3>3. phase = "load" /\ (phase' = "load" \/ phase' = "failed")
      BY <1>3, <3>1, <3>2 DEF Load, Sort, ringVars
    <3>. QED
      BY <3>1, <3>2, <3>3 DEF WalkInv
  <2>2. CASE Sort /\ phase' = "lookup"
    BY <1>3, <2>2, SortType DEF WalkInv, Load
  <2>3. CASE read = 0 /\ phase' = "lookup" /\ UNCHANGED ringVars
    <3>1. ring = <<>> /\ found = <<>>
      BY <1>3, <2>3 DEF WalkInv, Load
    <3>2. IsSorted(<<>>)
      BY DEF IsSorted
    <3>. QED
      BY <2>3, <3>1, <3>2 DEF WalkInv, ringVars
  <2>4. CASE phase' = "failed"
    BY <2>4 DEF WalkInv
  <2>. QED
    BY <1>3, <2>1, <2>2, <2>3, <2>4 DEF Load
<1>4. CASE StartLookup
  <2>1. /\ IsSorted(ring) /\ found = <<>> /\ index' = FirstNode /\ phase' = "walk"
        /\ UNCHANGED <<ring, key, found, opts>>
    BY <1>4 DEF StartLookup, Lookup, WalkInv, argsVars
  <2>2. FirstNode' = FirstNode /\ FirstNode \in Nat /\ Len(ring) \in Nat
    BY <2>1, FirstNodeIs DEF FirstNode, AtOrAfter, RingTypeOK
  <2>3. \A q \in 1..Len(ring) : ~Before(q, index)'
    BY <2>1, <2>2 DEF Before
  <2>4. opts["-n"] >= 0 /\ Len(found) = 0
    BY <2>1 DEF OptionsInv, ParsedSoFar, Option
  <2>5. Walked'
    BY <2>1, <2>3, <2>4 DEF Walked, InOrder, IsSorted
  <2>. QED
    BY <2>1, <2>5 DEF WalkInv
<1>5. CASE WalkOn
  <2>1. /\ Walked /\ Walk /\ ring # <<>> /\ Len(found) < opts["-n"] /\ UNCHANGED <<opts, phase>>
        /\ phase = "walk"
    BY <1>5 DEF WalkOn, WalkInv, argsVars
  <2>2. Walked'
    BY <2>1, WalkWalked DEF OptionsInv, ParsedSoFar
  <2>. QED
    BY <2>1, <2>2 DEF WalkInv
<1>6. CASE WalkEnds
  <2>1. /\ Walked /\ Len(found) >= opts["-n"] /\ phase' = "send"
        /\ UNCHANGED <<opts, ring, key, index, found>>
    BY <1>6 DEF WalkEnds, WalkInv, argsVars, ringVars
  <2>2. Walked'
    BY <2>1, WalkedStays
  <2>3. Len(found) = opts["-n"]
    <3>1. opts["-n"] \in Nat /\ Len(found) \in Nat
      BY DEF OptionsInv, ParsedSoFar, Option, RingTypeOK
    <3>. QED
      BY <2>1, <3>1 DEF Walked
  <2>. QED
    BY <2>1, <2>2, <2>3 DEF WalkInv
<1>. QED
  BY <1>1, <1>2, <1>3, <1>4, <1>5, <1>6 DEF Next
-----------------------------------------------------------------------------
(* The servers that are found are those that follow the key.                *)

LEMMA Sorted ==
  ASSUME RingTypeOK, IsSorted(ring), NoZeroByte,
         NEW p \in 1..Len(ring), NEW q \in 1..Len(ring), p < q
  PROVE  ~Below(Sha[ring[q]], Sha[ring[p]])
<1>. DEFINE S(i) == Sha[ring[i]]
            behind == {i \in 1..Len(ring) : p < i /\ Below(S(i), S(p))}
<1>1. Len(ring) \in Nat /\ \A i \in 1..Len(ring) : ring[i] \in Node /\ S(i) \in Digest
  BY DigestType DEF RingTypeOK
<1>2. \A i \in 1..(Len(ring) - 1) : ~Below(S(i + 1), S(i))
  <2>1. ASSUME NEW i \in 1..(Len(ring) - 1) PROVE ~Below(S(i + 1), S(i))
    <3>1. i \in 1..Len(ring) /\ i + 1 \in 1..Len(ring) /\ ~StrLess(S(i + 1), S(i))
      BY <1>1 DEF IsSorted
    <3>2. ring[i + 1] \in Node /\ S(i) \in Digest
      BY <1>1, <3>1
    <3>. QED
      BY <3>1, <3>2, StrLessIsBelow
  <2>. QED
    BY <2>1
<1>3. ASSUME behind # {} PROVE FALSE
  <2>1. \E i \in behind : \A j \in behind : i <= j
    <3>1. behind \subseteq Nat
      BY <1>1
    <3>. HIDE DEF behind
    <3>. QED
      BY <1>3, <3>1, Smallest
  <2>2. PICK i \in 1..Len(ring) : /\ p < i /\ Below(S(i), S(p))
                                  /\ \A j \in 1..Len(ring) : p < j /\ Below(S(j), S(p)) => i <= j
    BY <2>1
  <2>3. PICK k \in 1..Len(ring) : i = k + 1 /\ p <= k /\ k \in 1..(Len(ring) - 1)
    <3>1. i - 1 \in 1..Len(ring) /\ i = (i - 1) + 1 /\ p <= i - 1 /\ i - 1 \in 1..(Len(ring) - 1)
      BY <1>1, <2>2
    <3>. QED
      BY <3>1
  <2>4. ~Below(S(i), S(k))
    BY <1>2, <2>3
  <2>5. ~Below(S(k), S(p))
    <3>1. CASE k = p
      BY <3>1, <2>2, <2>4
    <3>2. CASE k # p
      BY <3>2, <2>2, <2>3
    <3>. QED
      BY <3>1, <3>2
  <2>6. S(p) \in Digest /\ S(k) \in Digest /\ S(i) \in Digest
    BY <1>1
  <2>. HIDE DEF S
  <2>. QED
    BY <2>2, <2>4, <2>5, <2>6, BelowOrder
<1>4. S(q) = Sha[ring[q]] /\ S(p) = Sha[ring[p]]
  OBVIOUS
<1>. QED
  BY <1>3

\* From the first node on, the nodes are at the key or behind it; if there is none,
\* the first node is the first of all.
LEMMA Ahead ==
  ASSUME RingTypeOK, IsSorted(ring), NoZeroByte
  PROVE  /\ FirstNode \in Nat
         /\ \A p \in 1..Len(ring) : p < FirstNode => Below(Sha[ring[p]], KeySha[key])
         /\ \/ \A p \in 1..Len(ring) : p >= FirstNode => ~Below(Sha[ring[p]], KeySha[key])
            \/ FirstNode = 1 /\ \A p \in 1..Len(ring) : Below(Sha[ring[p]], KeySha[key])
<1>1. /\ Len(ring) \in Nat /\ KeySha[key] \in Digest
      /\ \A p \in 1..Len(ring) : ring[p] \in Node /\ Sha[ring[p]] \in Digest
  BY DigestType DEF RingTypeOK
<1>2. \A p \in 1..Len(ring) : AtOrAfter(p) <=> ~Below(Sha[ring[p]], KeySha[key])
  BY <1>1, StrLessIsBelow DEF AtOrAfter
<1>3. FirstNode \in Nat /\ \A p \in 1..Len(ring) : p < FirstNode => ~AtOrAfter(p)
  BY <1>1, FirstNodeIs
<1>4. CASE \E p \in 1..Len(ring) : AtOrAfter(p)
  <2>1. PICK f \in 1..Len(ring) : f = FirstNode /\ AtOrAfter(f)
    BY <1>4, FirstNodeIs
  <2>2. ASSUME NEW p \in 1..Len(ring), p >= f
        PROVE  ~Below(Sha[ring[p]], KeySha[key])
    <3>1. CASE p = f
      BY <1>2, <2>1, <3>1
    <3>2. CASE p # f
      <4>1. ~Below(Sha[ring[p]], Sha[ring[f]])
        BY <1>1, <2>2, <3>2, Sorted
      <4>2. ~Below(Sha[ring[f]], KeySha[key])
        BY <1>2, <2>1
      <4>. QED
        BY <1>1, <4>1, <4>2, BelowOrder
    <3>. QED
      BY <3>1, <3>2
  <2>. QED
    BY <1>2, <1>3, <2>1, <2>2
<1>5. CASE \A p \in 1..Len(ring) : ~AtOrAfter(p)
  <2>1. FirstNode = 1
    BY <1>5 DEF FirstNode
  <2>. QED
    BY <1>2, <1>3, <1>5, <2>1
<1>. QED
  BY <1>4, <1>5

LEMMA BeforeIsNearer ==
  ASSUME RingTypeOK, IsSorted(ring), NoZeroByte,
         NEW p \in 1..Len(ring), NEW q \in 1..Len(ring), Before(p, q),
         Sha[ring[p]] # Sha[ring[q]]
  PROVE  Nearer(ring[p], ring[q])
<1>1. /\ Len(ring) \in Nat /\ FirstNode \in Nat
      /\ Sha[ring[p]] \in Digest /\ Sha[ring[q]] \in Digest
  BY DigestType, Ahead DEF RingTypeOK
<1>2. CASE (p >= FirstNode) <=> (q >= FirstNode)
  <2>1. p < q
    BY <1>2 DEF Before
  <2>2. Below(Sha[ring[p]], Sha[ring[q]])
    BY <1>1, <2>1, Sorted, BelowOrder
  <2>3. Below(Sha[ring[p]], KeySha[key]) <=> Below(Sha[ring[q]], KeySha[key])
    BY <1>1, <1>2, Ahead
  <2>. QED
    BY <2>2, <2>3 DEF Nearer
<1>3. CASE ~((p >= FirstNode) <=> (q >= FirstNode))
  <2>1. p >= FirstNode /\ q < FirstNode
    BY <1>1, <1>3 DEF Before
  <2>2. Below(Sha[ring[q]], KeySha[key]) /\ ~Below(Sha[ring[p]], KeySha[key])
    BY <1>1, <2>1, Ahead
  <2>. QED
    BY <2>2 DEF Nearer
<1>. QED
  BY <1>2, <1>3

\* What the walk has found are the servers that follow the key, in this order.
LEMMA FoundFollow ==
  ASSUME RingTypeOK, Walked, NoZeroByte, NoCollision, NEW i \in 1..Len(found),
         NEW a \in Servers \ Range(SubSeq(found, 1, i))
  PROVE  MetBefore(found[i], a)
<1>1. PICK q \in 1..Len(ring) :
        /\ ring[q][1] = found[i]
        /\ \A p \in 1..Len(ring) : Before(p, q) => \E j \in 1..i : found[j] = ring[p][1]
  BY DEF Walked, InOrder
<1>2. \A j \in 1..i : found[j] # a
  <2>1. SubSeq(found, 1, i) = [j \in 1..i |-> found[j]]
    BY DEF RingTypeOK
  <2>. QED
    BY <2>1 DEF Range
<1>3. Len(ring) \in Nat /\ Len(found) \in Nat /\ FirstNode \in Nat /\ IsSorted(ring)
  BY Ahead DEF RingTypeOK, Walked
<1>4. ASSUME NEW p \in 1..Len(ring), ring[p][1] = a
      PROVE  Nearer(ring[q], ring[p])
  <2>1. ~Before(p, q)
    BY <1>1, <1>2, <1>4
  <2>2. ring[p] # ring[q] /\ p # q
    BY <1>1, <1>2, <1>3, <1>4
  <2>3. Before(q, p)
    BY <1>3, <2>1, <2>2 DEF Before
  <2>4. Sha[ring[q]] # Sha[ring[p]]
    <3>1. ring[p] \in Node /\ ring[q] \in Node
      BY DEF RingTypeOK
    <3>. QED
      BY <2>2, <3>1 DEF NoCollision
  <2>. QED
    BY <1>3, <2>3, <2>4, BeforeIsNearer
<1>5. ring[q] \in Listed /\ \A y \in Listed : y[1] = a => Nearer(ring[q], y)
  BY <1>4 DEF Listed
<1>. QED
  BY <1>1, <1>5 DEF MetBefore

LEMMA FoundAreDifferent ==
  ASSUME RingTypeOK, \A i, j \in 1..Len(found) : found[i] = found[j] => i = j
  PROVE  Cardinality(Range(found)) = Len(found)
<1>1. Len(found) \in Nat /\ DOMAIN found = 1..Len(found)
  BY DEF RingTypeOK
<1>2. found \in Bijection(1..Len(found), Range(found))
  <2>1. found \in [1..Len(found) -> Range(found)]
    BY <1>1 DEF Range, RingTypeOK
  <2>2. \A v \in Range(found) : \E i \in 1..Len(found) : found[i] = v
    BY <1>1 DEF Range
  <2>. QED
    BY <2>1, <2>2 DEF Bijection, Injection, Surjection, IsInjective
<1>3. IsFiniteSet(1..Len(found)) /\ Cardinality(1..Len(found)) = Len(found)
  BY <1>1, FS_Interval
<1>. QED
  BY <1>2, <1>3, FS_Bijection DEF ExistsBijection

LEMMA InitTypeAndWalk == Init => TypeOK /\ WalkInv
BY RingAssumption DEF Init, ArgsInit, RingInit, Default, Option, TypeOK, ArgsTypeOK, RingTypeOK,
                      Phases, WalkInv, File

LEMMA WalkInvSuffices ==
  ASSUME NoZeroByte, NoCollision, TypeOK, WalkInv
  PROVE  SendsToSuccessors
<1>. SUFFICES ASSUME phase = "send"
              PROVE  /\ Len(found) = opts["-n"] /\ Cardinality(Range(found)) = opts["-n"]
                     /\ \A i \in 1..Len(found) :
                          \A a \in Servers \ Range(SubSeq(found, 1, i)) : MetBefore(found[i], a)
  BY DEF SendsToSuccessors
<1>1. RingTypeOK /\ Walked /\ Len(found) = opts["-n"]
  BY DEF TypeOK, WalkInv
<1>2. Cardinality(Range(found)) = Len(found)
  BY <1>1, FoundAreDifferent DEF Walked
<1>. QED
  BY <1>1, <1>2, FoundFollow

\* The states of a client keep their shape: the walk never leaves the array of nodes,
\* whatever servers.txt says and whatever the options are.
THEOREM TypeCorrect == Spec => []TypeOK
<1>1. TypeOK /\ OptionsInv /\ [Next]_vars => TypeOK' /\ OptionsInv'
  BY NextOptions, NextType
<1>. QED
  BY <1>1, InitTypeAndWalk, InitOptions, PTL DEF Spec

\* When no SHA1 of a node has a zero byte and no two nodes have the same, a client that
\* sends its requests has found N different servers, and they are those that follow the
\* key on the ring, in this order, whatever the order of servers.txt.
THEOREM FollowsTheKey == NoZeroByte /\ NoCollision /\ Spec => []SendsToSuccessors
<1>. SUFFICES ASSUME NoZeroByte, NoCollision
              PROVE  Spec => []SendsToSuccessors
  OBVIOUS
<1>. DEFINE Inv == TypeOK /\ OptionsInv /\ WalkInv
<1>1. Init => Inv
  BY InitTypeAndWalk, InitOptions
<1>2. Inv /\ [Next]_vars => Inv'
  BY NextOptions, NextType, NextWalkInv
<1>3. Inv => SendsToSuccessors
  BY WalkInvSuffices
<1>. QED
  BY <1>1, <1>2, <1>3, PTL DEF Spec
=============================================================================
