-------------------------------- MODULE Ring --------------------------------
(***************************************************************************)
(* The ring of nodes (ring.c, node.c, node_list.c): servers.txt is read    *)
(* line by line, each server makes one node per virtual node, the nodes    *)
(* are sorted by their SHA1, and a lookup walks the ring from the key on   *)
(* until it has met as many servers as wanted.                             *)
(***************************************************************************)
EXTENDS Integers, Sequences, FiniteSets, Functions

CONSTANTS
  Address,   \* the pairs of an IP address and a port
  MaxId,     \* the largest number of nodes on a line
  Sha,       \* Sha[x] is the SHA1 of node x = <<address, id>>
  Key,
  KeySha,    \* KeySha[k] is the SHA1 of key k
  Files      \* the contents servers.txt may have

\* A line is <<address, number of nodes>>, with 0 for a blank line.  Whether the
\* last line ends with a newline is part of the file.
Line == Address \X (0..MaxId)
File == {f \in [lines : Seq(Line), newline : BOOLEAN] : f.lines = <<>> => f.newline}

Node == Address \X (1..MaxId)

\* A SHA1 as its bytes; two of them are enough to tell nodes apart.
Digest == [1..2 -> 0..255]

ASSUME RingAssumption ==
  /\ MaxId \in Nat
  /\ Sha \in [Node -> Digest] /\ KeySha \in [Key -> Digest]
  /\ Files \subseteq File

VARIABLES
  file,    \* servers.txt
  read,    \* the number of lines read by get_nodes
  ring,    \* the list of nodes, sorted after ring_init
  key,     \* the key that is looked up
  index,   \* the variable `index' of the walk, counted from 1
  found    \* the addresses of the list that is returned

ringVars == <<file, read, ring, key, index, found>>

RingTypeOK ==
  /\ file \in Files
  /\ read \in 0..Len(file.lines)
  /\ ring \in Seq(Node)
  /\ key \in Key
  /\ index \in (1..Len(ring)) \cup {1}
  /\ found \in Seq(Address)

RingInit ==
  /\ file \in Files
  /\ read = 0
  /\ ring = <<>>
  /\ key \in Key
  /\ index = 1
  /\ found = <<>>

-----------------------------------------------------------------------------
(* ring_init.                                                               *)

\* Byte by byte, x differs from y at byte i, and is smaller there.
DiffersAt(x, y, i) == x[i] < y[i] /\ \A j \in 1..(i - 1) : x[j] = y[j]

\* The order of SHA1 digests.
Below(x, y) == \E i \in 1..2 : DiffersAt(x, y, i)

\* strncmp(x, y, SHA_DIGEST_LENGTH) < 0: a zero byte ends the comparison.
StrLess(x, y) ==
  \E i \in 1..2 : DiffersAt(x, y, i) /\ \A j \in 1..(i - 1) : x[j] # 0

\* get_nodes reads a line: a node for each id, in this order.
ReadLine ==
  /\ read < Len(file.lines)
  /\ read' = read + 1
  /\ LET line == file.lines[read + 1]
     IN  ring' = ring \o [i \in 1..line[2] |-> <<line[1], i>>]
  /\ UNCHANGED <<file, key, index, found>>

IsSorted(l) == \A i \in 1..(Len(l) - 1) : ~StrLess(Sha[l[i + 1]], Sha[l[i]])

Orders(l) ==
  {[i \in DOMAIN l |-> l[p[i]]] : p \in {q \in [DOMAIN l -> DOMAIN l] : IsInjective(q)}}

\* qsort with node_cmp_sha.  In which order it leaves nodes that compare equal
\* is not specified.
Sort ==
  /\ read = Len(file.lines)
  /\ ring' \in {l \in Orders(ring) : IsSorted(l)}
  /\ UNCHANGED <<file, read, key, index, found>>

-----------------------------------------------------------------------------
(* ring_get_nodes_for_key.                                                  *)

\* Variant: the first node behind the key, also when there is none before it.
After(i) == StrLess(KeySha[key], Sha[ring[i]])

\* strncmp(sha of the node, sha of the key) >= 0
AtOrAfter(i) == ~StrLess(Sha[ring[i]], KeySha[key])

\* index_of_first_node; 0, the first node, when all are before the key.
FirstNode ==
  LET candidates == {i \in 1..Len(ring) : AtOrAfter(i)}
  IN  IF candidates = {} THEN 1 ELSE CHOOSE i \in candidates : \A j \in candidates : i <= j

Lookup ==
  /\ index' = FirstNode
  /\ UNCHANGED <<file, read, ring, key, found>>

\* Variant: a server is looked for in the last place only.
IsLast(a) == found # <<>> /\ found[Len(found)] = a

\* already_present_in_list
IsPresent(a) == \E i \in 1..Len(found) : found[i] = a

\* Variant: the walk runs on behind the array.
Behind == index + 1

Following == (index % Len(ring)) + 1

\* One iteration of the walk; it is entered while found is too short.
Walk ==
  LET server == ring[index][1]
  IN  /\ found' = IF IsPresent(server) THEN found ELSE Append(found, server)
      /\ index' = Following
      /\ UNCHANGED <<file, read, ring, key>>

-----------------------------------------------------------------------------
(* What the walk should find.                                               *)

Listed == {ring[i] : i \in 1..Len(ring)}
Servers == {x[1] : x \in Listed}

\* On the way round the ring from the key, x comes before y.
Nearer(x, y) ==
  LET ahead(z) == ~Below(Sha[z], KeySha[key])
  IN  IF ahead(x) = ahead(y) THEN Below(Sha[x], Sha[y]) ELSE ahead(x)

\* On the way round the ring, server a is met before server b.
MetBefore(a, b) ==
  \E x \in Listed : x[1] = a /\ \A y \in Listed : y[1] = b => Nearer(x, y)
=============================================================================
