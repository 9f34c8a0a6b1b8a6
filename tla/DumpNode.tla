------------------------------ MODULE DumpNode ------------------------------
(***************************************************************************)
(* pps-dump-node asks one server for all its entries.  The server, which   *)
(* serves one request at a time, copies its table and sends the copy as a  *)
(* series of datagrams that carry no number: the first one starts with the *)
(* number of pairs, and each is filled with as many pairs as fit.  The     *)
(* reader counts pairs until it has that many, and gives up when nothing   *)
(* comes for a second.  Puts that the server serves before or after do not *)
(* change the copy, so that the table is constant here.                    *)
(***************************************************************************)
EXTENDS Release, Config, Integers, Sequences, SequencesExt

CONSTANTS
  Value,        \* the values in use
  ValueLength,  \* strlen of the values
  Header,       \* sizeof(uint32_t)
  Tables,       \* the contents of the table, in the order of its lists
  Misread,      \* small numbers that bytes which are no number may make
  NULL

PairSize(p) == KeyLength[p[1]] + 1 + ValueLength[p[2]] + 1

\* Text read as a number is more than a table ever holds, if its highest byte is not 0.
Huge == 16777216

\* Bound: what may be below Huge is one of Misread, or not below.
AnyNumber == Misread \cup {Huge}

\* A pair of MAX_MSG_SIZE + 1 bytes would not fit into any packet.
ASSUME DumpAssumption ==
  /\ ValueLength \in [Value -> Nat]
  /\ Header \in Nat /\ Header < MaxMsg
  /\ Tables \subseteq Seq(Key \X Value)
  /\ \A t \in Tables : Len(t) + 1 < Huge /\ \A i \in DOMAIN t : PairSize(t[i]) <= MaxMsg
  /\ Misread \subseteq Nat
  /\ Junk \notin Key \cup Value /\ NULL \notin Key \cup Value

VARIABLES
  table,      \* the copy of the server's entries
  packets,    \* the datagrams on their way, in the order they were sent
  nbr_pairs,  \* the number of pairs announced, or Unread
  pairs,      \* keys and values
  dumping     \* where the reader is

dumpVars == <<table, packets, nbr_pairs, pairs, dumping>>

Unread == -1

Strings == Key \cup Value \cup {Junk, NULL}

\* The shape of the state.
DumpTypeOK ==
  /\ table \in Tables
  /\ \A i \in DOMAIN packets :
       /\ packets[i].count \in Nat \cup {Unread}
       /\ packets[i].pairs \in Seq(Key \X Value)
       /\ packets[i].size \in 0..MaxMsg
  /\ nbr_pairs \in Nat \cup {Unread}
  /\ pairs \in Seq(Strings \X Strings)
  /\ dumping \in {"start", "asked", "waiting", "printed", "FAIL", "failed"}

DumpInit ==
  /\ table \in Tables
  /\ packets = <<>>
  /\ nbr_pairs = Unread /\ pairs = <<>>
  /\ dumping = "start"

\* The socket, the address and the request, which may be lost.
AskDump ==
  /\ dumping = "start"
  /\ dumping' \in {"asked", "FAIL", "failed"} \cup (IF May("lost") THEN {"waiting"} ELSE {})
  /\ UNCHANGED <<table, packets, nbr_pairs, pairs>>

-----------------------------------------------------------------------------
(* The server.                                                              *)

FitsIn(packet, p) == packet.size + PairSize(p) <= MaxMsg

\* A pair goes into the packet in hand, or that one is sent and a new one begun.
Pack(list, p) ==
  IF FitsIn(Last(list), p)
  THEN [list EXCEPT ![Len(list)].pairs = Append(@, p), ![Len(list)].size = @ + PairSize(p)]
  ELSE Append(list, [count |-> Unread, pairs |-> <<p>>, size |-> PairSize(p)])

\* The last byte of a packet is not sent.  It is the end of the last value, or, in
\* a packet which is all header, the low byte of the number of pairs.
WithoutLastByte(packet) ==
  IF packet.size = Header /\ packet.count # Unread
  THEN [packet EXCEPT !.count = (@ \div 256) * 256]
  ELSE packet

\* projet02 sends the packet as it is.
Whole(packet) == packet

Dump(list) ==
  LET first == [count |-> Len(list), pairs |-> <<>>, size |-> Header]
      packed == FoldLeft(Pack, <<first>>, list)
  IN  [i \in DOMAIN packed |->
        IF Final THEN WithoutLastByte(packed[i]) ELSE Whole(packed[i])]

\* Without memory there is no packet, or a NULL in the copy ends the server at
\* some pair, when the packets before it have been sent.
ServeDump ==
  /\ dumping = "asked"
  /\ \/ packets' = Dump(table)
     \/ /\ May("nomem")
        /\ \E n \in 0..(Len(Dump(table)) - 1) : packets' = SubSeq(Dump(table), 1, n)
  /\ dumping' = "waiting"
  /\ UNCHANGED <<table, nbr_pairs, pairs>>

LosePacket ==
  /\ May("lost")
  /\ \E i \in DOMAIN packets : packets' = RemoveAt(packets, i)
  /\ UNCHANGED <<table, nbr_pairs, pairs, dumping>>

\* Bound: a datagram is duplicated before the first one is read.
DuplicatePacket ==
  /\ May("duplicated") /\ nbr_pairs = Unread /\ Len(packets) < Cardinality(Key)
  /\ \E i \in DOMAIN packets : packets' = Append(packets, packets[i])
  /\ UNCHANGED <<table, nbr_pairs, pairs, dumping>>

-----------------------------------------------------------------------------
(* The reader.                                                              *)

\* The loop over a packet stops at an empty key.
UpToEmptyKey(s) ==
  SubSeq(s, 1, Cardinality({i \in DOMAIN s : \A j \in 1..i : KeyLength[s[j][1]] > 0}))

IsWhole(s) == UpToEmptyKey(s) = s

\* Pairs of text that was cut elsewhere than the server joined it.
Odd(n) == [i \in 1..n |-> <<Junk, Junk>>]

\* The byte behind a packet that fills the buffer is not initialised: there may be
\* another pair.
Spare(packet) == IF packet.size = MaxMsg THEN 1 ELSE 0

Behind(packet) == IF IsWhole(packet.pairs) THEN {Odd(n) : n \in 0..Spare(packet)} ELSE {<<>>}

\* The pairs as they were written.
Aligned(packet) == {UpToEmptyKey(packet.pairs) \o tail : tail \in Behind(packet)}

\* The pairs of text that is not read from its beginning.
Shifted(packet) == {Odd(n) : n \in 0..(Len(packet.pairs) + Spare(packet))}

\* strdup may fail, and nobody looks.
Copies(s) ==
  {s} \cup (IF May("nomem") THEN {[s EXCEPT ![i][j] = NULL] : i \in DOMAIN s, j \in {1, 2}}
            ELSE {})

\* Variant: the header is looked for in every packet.
AlwaysFirst == TRUE

IsFirst == nbr_pairs = Unread

\* Text as a number has its first byte on top, or, in projet02, its fourth, which is
\* not told here if the first pair is shorter than that.
MayBeSmall(packet) ==
  LET p == packet.pairs[1]
  IN  IF Final THEN KeyLength[p[1]] = 0 ELSE KeyLength[p[1]] = 3 \/ PairSize(p) <= 4

\* The number of pairs as the reader takes it from the first datagram it gets.
\* projet02 adds its bytes with their signs.
Announced(packet) ==
  IF packet.count # Unread
  THEN IF Final \/ packet.count < 32768 THEN {packet.count} ELSE AnyNumber
  ELSE IF MayBeSmall(packet) THEN AnyNumber ELSE {Huge}

\* A header in a later datagram: its first byte is zero and looks like an empty key.
\* projet02 sends the low byte first: the bytes up to a zero are a key, and a value
\* follows, which may take some of the text.
HeaderAsText(packet) ==
  CASE Final \/ packet.count % 256 = 0 -> {<<>>}
    [] ~Final /\ packet.count \in 1..255 -> {Odd(1)}
    [] OTHER -> {Odd(1) \o s : s \in Aligned(packet) \cup Shifted(packet)}

\* The pairs in a datagram.  A later one in place of the first is read from its fifth
\* byte on.
Parsed(packet) ==
  CASE IsFirst /\ packet.count = Unread -> Shifted(packet)
    [] ~IsFirst /\ packet.count # Unread -> HeaderAsText(packet)
    [] OTHER -> Aligned(packet)

\* Variant: an error of one.
WantingLess == nbr_pairs = Unread \/ Len(pairs) + 1 < nbr_pairs

Wanting == nbr_pairs = Unread \/ Len(pairs) < nbr_pairs

\* recv and the loop over the packet.  When realloc fails the program ends.
ReadPacket ==
  /\ dumping = "waiting" /\ Wanting
  /\ \E i \in DOMAIN packets :
       /\ i = 1 \/ May("late")
       /\ packets' = RemoveAt(packets, i)
       /\ IF IsFirst THEN nbr_pairs' \in Announced(packets[i]) ELSE UNCHANGED nbr_pairs
       /\ \E s \in Parsed(packets[i]) : \E c \in Copies(s) : pairs' = pairs \o c
  /\ UNCHANGED dumping \/ (May("nomem") /\ dumping' = "failed")
  /\ UNCHANGED table

\* Variant: the socket has no timeout.
NeverSilent == FALSE

\* Nothing for a second.
NothingComes == May("late") \/ (packets = <<>> /\ dumping = "waiting")

GiveUpDump ==
  /\ dumping \in {"asked", "waiting"} /\ Wanting
  /\ NothingComes
  /\ dumping' = "FAIL"
  /\ UNCHANGED <<table, packets, nbr_pairs, pairs>>

PrintPairs ==
  /\ dumping = "waiting" /\ ~Wanting
  /\ dumping' = "printed"
  /\ UNCHANGED <<table, packets, nbr_pairs, pairs>>

\* What the two programs do.
DumpWork == AskDump \/ ServeDump \/ ReadPacket \/ GiveUpDump \/ PrintPairs

DumpNext == DumpWork \/ LosePacket \/ DuplicatePacket

-----------------------------------------------------------------------------
(* Properties.                                                              *)

\* What the format of a dump allows for: no key is empty, in the final version the
\* first pair fits into the first packet, and in projet02 the two low bytes of the
\* number are not negative.
Plain(t) ==
  /\ IsWhole(t)
  /\ t # <<>> /\ Final => Header + PairSize(t[1]) <= MaxMsg
  /\ ~Final => Len(t) < 32768

\* No packet is filled to its last byte.
LeavesRoom(t) == \A i \in DOMAIN Dump(t) : Dump(t)[i].size < MaxMsg

\* No packet but the first begins with a small number.
Unmistakable(t) ==
  \A i \in DOMAIN Dump(t) : Dump(t)[i].count = Unread => ~MayBeSmall(Dump(t)[i])

\* What is printed is the table as it was copied, each entry once: lost or reordered
\* packets make the dump fail.  (With duplicated packets this does not hold, nor, in
\* projet02, with a packet that may be read as a small number: when 98 pairs end with
\* a packet of the key "a" and the value "" and that one is read first, the reader
\* looks for 97 pairs and takes the number in the header for one of them.)
DumpIsTable ==
  dumping = "printed" /\ ~May("duplicated") /\ ~May("nomem")
    /\ Plain(table) /\ LeavesRoom(table) /\ Unmistakable(table) =>
       /\ Len(pairs) = Len(table)
       /\ ToSet(pairs) = ToSet(table)

\* Whoever reads a dump expects all of the table in it, whatever its entries are.
DumpIsComplete ==
  dumping = "printed" /\ faults = {} => Len(pairs) >= Len(table)

\* When nothing goes wrong, the entries are printed, all of them and in the order of
\* the table.  (Not those of a table that has the key "", that fills a packet or whose
\* first pair does not fit behind the header: DumpIsComplete is about these.)
DumpSucceeds ==
  (faults = {} /\ dumping = "asked" /\ Plain(table) /\ LeavesRoom(table)) ~>
    (dumping = "printed" /\ pairs = table)

\* The reader ends whatever is lost.
DumpEnds == dumping = "asked" ~> dumping \in {"printed", "FAIL", "failed"}
=============================================================================
