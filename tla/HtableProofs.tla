---------------------------- MODULE HtableProofs ----------------------------
(***************************************************************************)
(* Proofs about Htable, for any number of lists, keys and cells, any hash  *)
(* function, the three releases and any failing allocation.                *)
(*                                                                         *)
(* The invariant speaks of two functions the program does not have: the    *)
(* list a bucket belongs to (its home) and the number of buckets before it *)
(* in that list (its depth).  A chain of tails is then a matter of single  *)
(* steps: the tail of a bucket is one deeper, and no two buckets have the  *)
(* same home and depth.                                                    *)
(***************************************************************************)
EXTENDS Htable, FiniteSetTheorems, TLAPS

\* The buckets that may be reached: those of the array and the allocated ones.
Live == First \cup used

\* The buckets that a delete has not freed yet.
Kept(home, depth) ==
  IF call.op = "delete"
  THEN {s \in Live : \/ home[s] > index
                     \/ bucket # NULL /\ home[s] = index /\ depth[s] >= depth[bucket]}
  ELSE Live

\* The bucket of a list in the array has no bucket before it.
Ghosts(home, depth) ==
  /\ home \in [Slot -> First]
  /\ depth \in [Slot -> Nat]
  /\ \A f \in First : home[f] = f /\ depth[f] = 0

\* The types, but for the number of strings.
Types ==
  /\ release \in {"projet01", "projet02", "done"}
  /\ key \in [Slot -> Key \cup {NULL}]
  /\ val \in [Slot -> Value \cup {NULL}]
  /\ tail \in [Slot -> Cell \cup {NULL}]
  /\ used \subseteq Cell
  /\ call \in [op : Ops, key : Key \cup {NULL}, val : Value \cup {NULL}]
  /\ index \in First
  /\ bucket \in Slot \cup {NULL}
  /\ result \in Value \cup {NULL, "ERR_NONE", "ERR_NOMEM"}
  /\ list = NULL \/ list \in Seq((Key \cup {NULL}) \X (Value \cup {NULL}))

\* What a call has as parameters, and what is left at the end.
Phases ==
  /\ call.op \in {"add", "get"} => call.key \in Key /\ list = NULL
  /\ call.op = "add" => call.val \in Value
  /\ call.op = "get" => call.val = NULL
  /\ call.op = "content" => list \in Seq((Key \cup {NULL}) \X (Value \cup {NULL}))
  /\ call.op = "content" => release # "projet01"
  /\ call.op = "gone" => used = {} /\ \A s \in Slot : key[s] = NULL

\* The buckets of L are lists: each has a last bucket, and none has two tails
\* that point to it.
ChainedIn(L, home, depth) ==
  /\ \A s \in L : tail[s] # NULL =>
       /\ tail[s] \in L /\ tail[s] \in used
       /\ home[tail[s]] = home[s] /\ depth[tail[s]] = depth[s] + 1
  /\ \A s, t \in L : home[s] = home[t] /\ tail[s] = NULL => depth[t] <= depth[s]
  /\ \A s, t \in L : home[s] = home[t] /\ depth[s] = depth[t] => s = t

\* A delete cuts the lists from their beginning.
Chained(home, depth) == ChainedIn(Kept(home, depth), home, depth)

\* The last bucket of a list, and no other, is empty; a pair is in the list of
\* its hash, a key is in the table once, and an allocated bucket is in a list.
Contents(home) ==
  call.op # "delete" =>
    /\ \A s \in Live : key[s] = NULL <=> tail[s] = NULL
    /\ \A s \in Live : key[s] = NULL <=> val[s] = NULL
    /\ \A s \in Live : key[s] # NULL => Hash[key[s]] = home[s]
    /\ \A s, t \in Entries : key[s] = key[t] => s = t
    /\ \A c \in used : \E s \in Live : tail[s] = c

\* A loop is in the list it should be in.
Position(home, depth) ==
  /\ call.op \in {"add", "get"} => bucket \in Live /\ home[bucket] = Hash[call.key]
  /\ call.op = "content" => bucket \in Live /\ home[bucket] = index
  /\ call.op = "delete" /\ bucket # NULL => bucket \in Live /\ home[bucket] = index
  /\ call.op \notin {"add", "get", "content", "delete"} => bucket = NULL

\* The buckets before the one a search is at have another key.
Searched(home, depth) ==
  call.op \in {"add", "get"} =>
    \A s \in Live : home[s] = Hash[call.key] /\ depth[s] < depth[bucket] => key[s] # call.key

\* What a delete leaves behind it: no allocated bucket, and no pair in the
\* array, which projet01 does not look at.
Freed(home, depth) ==
  call.op = "delete" =>
    /\ used \subseteq Kept(home, depth)
    /\ release # "projet01" =>
         \A f \in First : f < index \/ (f = index /\ bucket # f) => key[f] = NULL

\* The entries a copy has passed.
Visited(home, depth) ==
  {s \in Entries : home[s] < index \/ (home[s] = index /\ depth[s] < depth[bucket])}

\* The copy has one pair for each of them.
Copied(home, depth) ==
  call.op = "content" =>
    /\ Len(list) = Cardinality(Visited(home, depth))
    /\ \A s \in Visited(home, depth) : \E j \in 1..Len(list) : list[j] \in Copies(s)

\* The table owns two strings per entry.
Counted ==
  /\ strings \in Nat
  /\ call.op # "gone" => strings = 2 * Cardinality(Entries)
  /\ call.op = "gone" => strings <= 2 * Size /\ (release # "projet01" => strings = 0)

Good(home, depth) ==
  /\ Ghosts(home, depth) /\ Types /\ Phases
  /\ Chained(home, depth) /\ Contents(home) /\ Position(home, depth)
  /\ Searched(home, depth) /\ Freed(home, depth)
  /\ Copied(home, depth) /\ Counted /\ ContentIsTable

-----------------------------------------------------------------------------
(* The types, the phases and the initial state.                             *)

\* The array and the heap are finite sets of buckets.
LEMMA SlotFacts ==
  /\ First \subseteq Slot /\ Cell \subseteq Slot /\ 0 \in First
  /\ IsFiniteSet(First) /\ Cardinality(First) = Size
  /\ IsFiniteSet(Slot) /\ NULL \notin Slot /\ First \subseteq Nat
  /\ \A i \in First : AnIndexLeft /\ i = index => i + 1 \in First
<1>1. First \subseteq Slot /\ Cell \subseteq Slot /\ 0 \in First
  BY TableAssumption DEF First, Slot
<1>2. IsFiniteSet(First) /\ Cardinality(First) = Size
  BY TableAssumption, FS_Interval DEF First
<1>3. IsFiniteSet(Slot)
  BY <1>2, TableAssumption, FS_Union DEF Slot
<1>4. NULL \notin Slot /\ First \subseteq Nat
  BY TableAssumption DEF First
<1>5. \A i \in First : AnIndexLeft /\ i = index => i + 1 \in First
  BY TableAssumption DEF First, AnIndexLeft
<1> QED
  BY <1>1, <1>2, <1>3, <1>4, <1>5

\* Tables with finitely many entries: the entries are buckets.
LEMMA EntriesFinite ==
  ASSUME Types
  PROVE  /\ IsFiniteSet(Entries) /\ Cardinality(Entries) \in Nat
         /\ Cardinality(Entries) <= Cardinality(Slot) /\ Cardinality(Slot) \in Nat
         /\ Entries \subseteq Slot /\ Live \subseteq Slot
<1>1. Entries \subseteq Slot /\ Live \subseteq Slot
  BY SlotFacts DEF Types, Entries, Live
<1> QED
  BY <1>1, SlotFacts, FS_Subset, FS_CardinalityType

\* The pairs of a list that get_Htable_content makes.
Tables == (Key \cup {NULL}) \X (Value \cup {NULL})

\* In an empty table every bucket is at the beginning of its list.
LEMMA InitGood ==
  ASSUME Init
  PROVE  \E home \in [Slot -> First], depth \in [Slot -> Nat] : Good(home, depth)
<1> DEFINE home == [s \in Slot |-> IF s \in First THEN s ELSE 0]
<1> DEFINE depth == [s \in Slot |-> 0]
<1>1. home \in [Slot -> First] /\ depth \in [Slot -> Nat]
  BY SlotFacts
<1>2. Ghosts(home, depth)
  BY <1>1, SlotFacts DEF Ghosts
<1>3. home \in [Slot -> First] /\ \A s \in First : home[s] = s /\ depth[s] = 0
  BY SlotFacts
<1> HIDE DEF home, depth
<1>3a. Types
  BY SlotFacts, ReleaseAssumption DEF Init, ReleaseInit, Types, NoCall, Ops
<1>4. Live = First /\ Kept(home, depth) = First /\ Entries = {}
  BY SlotFacts DEF Live, Kept, Entries, Init, NoCall
<1>5. Phases
  BY DEF Init, Phases, NoCall
<1>6. Chained(home, depth)
  <2>1. \A s \in First : tail[s] = NULL /\ home[s] = s
    BY <1>3, SlotFacts DEF Init
  <2> QED
    <3>1. \A s, t \in First : depth[t] <= depth[s]
      BY <1>3
    <3>2. \A s, t \in First : home[s] = home[t] => s = t
      BY <1>3
    <3>3. ChainedIn(First, home, depth)
      BY <2>1, <3>1, <3>2 DEF ChainedIn
    <3> QED
      BY <1>4, <3>3 DEF Chained
<1>7. Contents(home)
  BY <1>3, <1>4, SlotFacts DEF Contents, Init
<1>8. Position(home, depth) /\ Searched(home, depth) /\ Freed(home, depth) /\ Copied(home, depth)
  BY DEF Position, Searched, Freed, Copied, Init, NoCall
<1>9. Counted
  BY <1>4, FS_EmptySet DEF Counted, Init, NoCall
<1>10. ContentIsTable
  BY DEF ContentIsTable, Init
<1>11. Good(home, depth)
  BY <1>2, <1>3a, <1>5, <1>6, <1>7, <1>8, <1>9, <1>10 DEF Good
<1> QED
  BY <1>1, <1>11

\* What a call in progress needs besides the types.
LEMMA TypesKept ==
  ASSUME NEW home \in [Slot -> First], NEW depth \in [Slot -> Nat],
         Good(home, depth), [Next]_vars
  PROVE  Types' /\ Phases'
<1> USE SlotFacts DEF Types, Phases
<1>1. Types /\ Phases
  BY DEF Good
<1>2. CASE UNCHANGED vars
  BY <1>1, <1>2 DEF vars, memory
<1>3. CASE Same /\ \E k \in Key : Get(k) \/ \E v \in Value : Add(k, v)
  <2>1. Hash \in [Key -> First]
    BY TableAssumption
  <2>2. release' = release /\ UNCHANGED memory
    BY <1>3 DEF Same, Get, Add, Begin
  <2>3. PICK k \in Key : Get(k) \/ \E v \in Value : Add(k, v)
    BY <1>3
  <2>4. CASE Get(k)
    BY <1>1, <2>1, <2>2, <2>4 DEF Get, Begin, memory, Ops
  <2>5. CASE \E v \in Value : Add(k, v)
    BY <1>1, <2>1, <2>2, <2>5 DEF Add, Begin, memory, Ops
  <2> QED
    BY <2>3, <2>4, <2>5
<1>4. CASE Same /\ (Content \/ Delete)
  <2>1. FirstFreed(0) \in Slot \cup {NULL}
    BY <1>1 DEF FirstFreed
  <2>2. release' = release /\ UNCHANGED memory
    BY <1>4 DEF Same, Content, Delete, Begin
  <2>3. CASE Content
    BY <1>1, <2>2, <2>3 DEF Content, Begin, memory, Ops
  <2>4. CASE Delete
    BY <1>1, <2>1, <2>2, <2>4 DEF Delete, Begin, memory, Ops
  <2> QED
    BY <1>4, <2>3, <2>4
<1>5. CASE Same /\ Work
  <2>0. release' = release
    BY <1>5 DEF Same
  <2>1. CASE Collision
    BY <1>1, <2>0, <2>1 DEF Collision, Filled, NextBucket, memory
  <2>2. CASE Overwrite
    BY <1>1, <2>0, <2>2 DEF Overwrite, Found, Filled, Return, End, NoCall, Ops
  <2>3. CASE AddBucket
    <3>1. bucket \in Slot /\ call.key \in Key /\ call.val \in Value
      BY <1>1, <2>3 DEF AddBucket
    <3>2. /\ key' \in [Slot -> Key \cup {NULL}]
          /\ val' \in [Slot -> Value \cup {NULL}]
          /\ tail' \in [Slot -> Cell \cup {NULL}]
          /\ used' \subseteq Cell
      <4>1. CASE UNCHANGED <<key, val, used>> /\ tail' = [tail EXCEPT ![bucket] = NULL]
        <5>1. tail' \in [Slot -> Cell \cup {NULL}]
          BY <1>1, <4>1
        <5> QED
          BY <1>1, <4>1, <5>1
      <4>2. ASSUME NEW c \in Cell,
                   key' = [key EXCEPT ![bucket] = call.key, ![c] = NULL],
                   val' = [val EXCEPT ![bucket] = call.val, ![c] = NULL],
                   tail' = [tail EXCEPT ![bucket] = c, ![c] = NULL],
                   used' = used \cup {c}
            PROVE  /\ key' \in [Slot -> Key \cup {NULL}]
                   /\ val' \in [Slot -> Value \cup {NULL}]
                   /\ tail' \in [Slot -> Cell \cup {NULL}]
                   /\ used' \subseteq Cell
        <5>1. c \in Slot
          OBVIOUS
        <5>2. key' \in [Slot -> Key \cup {NULL}]
          BY <1>1, <3>1, <4>2, <5>1
        <5>3. val' \in [Slot -> Value \cup {NULL}]
          BY <1>1, <3>1, <4>2, <5>1
        <5>4. tail' \in [Slot -> Cell \cup {NULL}]
          <6>1. tail \in [Slot -> Cell \cup {NULL}]
            BY <1>1
          <6>2. [tail EXCEPT ![bucket] = c] \in [Slot -> Cell \cup {NULL}]
            BY <6>1
          <6>3. tail' = [[tail EXCEPT ![bucket] = c] EXCEPT ![c] = NULL]
            BY <4>2
          <6> QED
            BY <6>2, <6>3
        <5>5. used' \subseteq Cell
          <6>1. used \subseteq Cell
            BY <1>1
          <6> QED
            BY <4>2, <6>1
        <5> QED
          BY <5>2, <5>3, <5>4, <5>5
      <4> QED
        BY <2>3, <4>1, <4>2 DEF AddBucket, Linked
    <3>3. call' = NoCall("idle") /\ index' = 0 /\ bucket' = NULL /\ list' = list
      BY <2>3 DEF AddBucket, Return, End
    <3>4. result' \in {"ERR_NONE", "ERR_NOMEM"}
      BY <2>3 DEF AddBucket, Return
    <3> QED
      BY <1>1, <2>0, <3>2, <3>3, <3>4 DEF NoCall, Ops
  <2>4. CASE GetFound \/ GetPointer \/ GetNothing
    BY <1>1, <2>0, <2>4 DEF GetFound, GetPointer, GetNothing, Found, Filled, Return, End, NoCall, Ops, memory
  <2>5. CASE CopyPair
    <3>1. PICK pair \in Copies(bucket) : list' = Append(list, pair)
      BY <2>5 DEF CopyPair
    <3>2. bucket \in Slot
      BY <1>1, <2>5 DEF CopyPair, Filled
    <3>3. pair \in Tables
      BY <1>1, <3>1, <3>2 DEF Copies, Tables
    <3>4. list' \in Seq(Tables)
      <4>1. list \in Seq(Tables)
        BY <1>1, <2>5 DEF CopyPair, Tables
      <4> QED
        BY <3>1, <3>3, <4>1
    <3> QED
      BY <1>1, <2>0, <2>5, <3>2, <3>4 DEF CopyPair, NextBucket, memory, Tables
  <2>6. CASE ContentFails \/ FreeTwice \/ ListCopied
    <3>1. CASE ContentFails \/ FreeTwice
      <4>1. /\ list' = NULL /\ UNCHANGED <<key, val, tail, used, result>>
            /\ index' = 0 /\ bucket' = NULL
            /\ call' = NoCall("idle") \/ call' = NoCall("undefined")
        BY <3>1 DEF ContentFails, FreeTwice, End, memory
      <4> QED
        BY <1>1, <2>0, <4>1 DEF NoCall, Ops
    <3>2. CASE ListCopied /\ AnIndexLeft
      <4>1. index' \in First /\ bucket' \in Slot
        <5>1. index + 1 \in First
          BY <1>1, <3>2
        <5> QED
          BY <3>2, <5>1 DEF ListCopied, NextList
      <4> QED
        BY <1>1, <2>0, <3>2, <4>1 DEF ListCopied, NextList, memory
    <3>3. CASE ListCopied /\ ~AnIndexLeft
      BY <1>1, <2>0, <3>3 DEF ListCopied, End, NoCall, Ops, memory
    <3> QED
      BY <2>6, <3>1, <3>2, <3>3
  <2>7. CASE FreePair
    BY <1>1, <2>0, <2>7 DEF FreePair, RestOfList
  <2>8. CASE ListFreed
    BY <1>1, <2>0, <2>8 DEF ListFreed, NextList, FirstFreed, memory
  <2>9. CASE ArrayFreed
    <3>1. used \subseteq Kept(home, depth)
      BY <2>9 DEF Good, Freed, ArrayFreed
    <3>2. index = Size - 1 /\ bucket = NULL /\ call.op = "delete"
      BY <1>1, <2>9, TableAssumption DEF ArrayFreed, AnIndexLeft, First
    <3>3. \A s \in Slot : ~(home[s] > index)
      BY <3>2, TableAssumption DEF First
    <3>4. used = {}
      BY <1>1, <3>1, <3>2, <3>3 DEF Kept, Live
    <3> QED
      BY <1>1, <2>0, <2>9, <3>4 DEF ArrayFreed, End, NoCall, Ops
  <2> QED
    BY <1>5, <2>1, <2>2, <2>3, <2>4, <2>5, <2>6, <2>7, <2>8, <2>9 DEF Work
<1> QED
  BY <1>2, <1>3, <1>4, <1>5 DEF Next

-----------------------------------------------------------------------------
(* Steps that change no bucket.                                             *)

\* Outside of a delete the lists stay what they are when the memory does.
LEMMA SameTable ==
  ASSUME NEW home \in [Slot -> First], NEW depth \in [Slot -> Nat],
         Good(home, depth), Same, UNCHANGED memory,
         call.op \notin {"delete", "gone"}, call'.op \notin {"delete", "gone"}
  PROVE  /\ Live' = Live /\ Entries' = Entries
         /\ \A s \in Slot : Copies(s)' = Copies(s)
         /\ Ghosts(home, depth)' /\ Chained(home, depth)'
         /\ Contents(home)' /\ Freed(home, depth)' /\ Counted'
<1>1. UNCHANGED <<key, val, tail, used, strings, release, faults>>
  BY DEF memory, Same
<1>2. Live' = Live /\ Entries' = Entries
  BY <1>1 DEF Live, Entries
<1>3. \A s \in Slot : Copies(s)' = Copies(s)
  BY <1>1 DEF Copies, NoMem, May
<1>4. Kept(home, depth)' = Live /\ Kept(home, depth) = Live
  BY <1>2 DEF Kept
<1>5. Chained(home, depth)'
  <2>1. ChainedIn(Live, home, depth)
    BY <1>4 DEF Good, Chained
  <2>2. ChainedIn(Live, home, depth)'
    BY <1>1, <1>2, <2>1 DEF ChainedIn
  <2> QED
    BY <1>2, <1>4, <2>2 DEF Chained
<1>6. Contents(home)'
  BY <1>1, <1>2 DEF Good, Contents
<1>7. Counted'
  BY <1>1, <1>2 DEF Good, Counted
<1>8. Ghosts(home, depth)' /\ Freed(home, depth)'
  BY DEF Good, Ghosts, Freed
<1> QED
  BY <1>2, <1>3, <1>5, <1>6, <1>7, <1>8

\* A search begins with the bucket in the array.
LEMMA SearchBegins ==
  ASSUME NEW home \in [Slot -> First], NEW depth \in [Slot -> Nat],
         Good(home, depth), Same, Types', Phases',
         NEW k \in Key, Get(k) \/ \E v \in Value : Add(k, v)
  PROVE  Good(home, depth)'
<1>1. /\ call.op = "idle" /\ UNCHANGED memory /\ UNCHANGED result
      /\ call'.op \in {"add", "get"} /\ call'.key = k
      /\ bucket' = Hash[k] /\ list' = NULL
  BY DEF Get, Add, Begin
<1>2. Hash[k] \in First
  BY TableAssumption
<1>3. /\ Live' = Live /\ Ghosts(home, depth)' /\ Chained(home, depth)'
      /\ Contents(home)' /\ Freed(home, depth)' /\ Counted'
  BY <1>1, SameTable
<1>4. home[Hash[k]] = Hash[k] /\ depth[Hash[k]] = 0
  BY <1>2 DEF Good, Ghosts
<1>5. Position(home, depth)'
  BY <1>1, <1>2, <1>3, <1>4 DEF Position, Live
<1>6. Searched(home, depth)'
  <2>1. \A s \in Live : depth[s] \in Nat
    BY EntriesFinite DEF Good
  <2> QED
    BY <1>1, <1>3, <1>4, <2>1 DEF Searched
<1>7. Copied(home, depth)' /\ ContentIsTable'
  BY <1>1 DEF Copied, ContentIsTable
<1> QED
  BY <1>3, <1>5, <1>6, <1>7 DEF Good

\* A copy begins with the first list.
LEMMA CopyBegins ==
  ASSUME NEW home \in [Slot -> First], NEW depth \in [Slot -> Nat],
         Good(home, depth), Same, Types', Phases', Content
  PROVE  Good(home, depth)'
<1>1. /\ call.op = "idle" /\ UNCHANGED memory
      /\ call'.op = "content" /\ bucket' = 0 /\ index' = 0 /\ list' = <<>>
  BY DEF Content, Begin
<1>2. /\ Live' = Live /\ Entries' = Entries /\ Ghosts(home, depth)' /\ Chained(home, depth)'
      /\ Contents(home)' /\ Freed(home, depth)' /\ Counted'
  BY <1>1, SameTable
<1>3. 0 \in First /\ home[0] = 0 /\ depth[0] = 0
  BY SlotFacts DEF Good, Ghosts
<1>4. Position(home, depth)'
  BY <1>1, <1>2, <1>3 DEF Position, Live
<1>5. Visited(home, depth)' = {}
  <2>1. Entries \subseteq Slot
    BY EntriesFinite DEF Good
  <2>2. \A s \in Entries : ~(home[s] < 0) /\ ~(depth[s] < 0)
    <3>1. \A s \in Entries : home[s] \in Nat /\ depth[s] \in Nat
      BY <2>1, SlotFacts
    <3> QED
      BY <3>1
  <2> QED
    BY <1>1, <1>2, <1>3, <2>2 DEF Visited
<1>6. Copied(home, depth)'
  BY <1>1, <1>5, FS_EmptySet DEF Copied
<1>7. Searched(home, depth)' /\ ContentIsTable'
  BY <1>1 DEF Searched, ContentIsTable
<1> QED
  BY <1>2, <1>4, <1>6, <1>7 DEF Good

\* The search has compared the bucket it leaves.
LEMMA SearchGoesOn ==
  ASSUME NEW home \in [Slot -> First], NEW depth \in [Slot -> Nat],
         Good(home, depth), Same, Types', Phases', Collision
  PROVE  Good(home, depth)'
<1>1. /\ call.op \in {"add", "get"} /\ bucket # NULL
      /\ key[bucket] # NULL /\ key[bucket] # call.key
      /\ bucket' = tail[bucket] /\ UNCHANGED <<call, index, list>> /\ UNCHANGED memory
  BY DEF Collision, Filled, Found, NextBucket
<1>2. /\ Live' = Live /\ Ghosts(home, depth)' /\ Chained(home, depth)'
      /\ Contents(home)' /\ Freed(home, depth)' /\ Counted'
  BY <1>1, SameTable
<1>3. bucket \in Live /\ home[bucket] = Hash[call.key]
  BY <1>1 DEF Good, Position
<1>4. tail[bucket] # NULL
  BY <1>1, <1>3 DEF Good, Contents
<1>5. ChainedIn(Live, home, depth)
  BY <1>1 DEF Good, Chained, Kept
<1>6. tail[bucket] \in Live /\ home[tail[bucket]] = home[bucket] /\ depth[tail[bucket]] = depth[bucket] + 1
  BY <1>3, <1>4, <1>5 DEF ChainedIn
<1>7. Position(home, depth)'
  BY <1>1, <1>2, <1>3, <1>6 DEF Position
<1>8. Searched(home, depth)'
  <2>1. \A s \in Live : depth[s] \in Nat
    BY EntriesFinite DEF Good
  <2>2. UNCHANGED key
    BY <1>1 DEF memory
  <2>3. ASSUME NEW s \in Live, home[s] = Hash[call.key], depth[s] < depth[bucket] + 1
        PROVE  key[s] # call.key
    <3>1. CASE depth[s] = depth[bucket]
      BY <1>1, <1>3, <1>5, <2>3, <3>1 DEF ChainedIn
    <3>2. CASE depth[s] < depth[bucket]
      BY <1>1, <2>3, <3>2 DEF Good, Searched
    <3> QED
      BY <1>3, <2>1, <2>3, <3>1, <3>2
  <2> QED
    BY <1>1, <1>2, <1>6, <2>2, <2>3 DEF Searched
<1>9. Copied(home, depth)' /\ ContentIsTable'
  BY <1>1 DEF Copied, ContentIsTable
<1> QED
  BY <1>2, <1>7, <1>8, <1>9 DEF Good

\* A get changes nothing but the result.
LEMMA GetReturns ==
  ASSUME NEW home \in [Slot -> First], NEW depth \in [Slot -> Nat],
         Good(home, depth), Same, Types', Phases',
         GetFound \/ GetPointer \/ GetNothing
  PROVE  Good(home, depth)'
<1>1. /\ call.op = "get" /\ UNCHANGED memory /\ UNCHANGED list
      /\ call'.op = "idle" /\ bucket' = NULL
  BY DEF GetFound, GetPointer, GetNothing, Return, End, NoCall
<1>2. /\ Ghosts(home, depth)' /\ Chained(home, depth)'
      /\ Contents(home)' /\ Freed(home, depth)' /\ Counted'
  BY <1>1, SameTable
<1>3. list = NULL
  BY <1>1 DEF Good, Phases
<1>4. Position(home, depth)' /\ Searched(home, depth)' /\ Copied(home, depth)' /\ ContentIsTable'
  BY <1>1, <1>3 DEF Position, Searched, Copied, ContentIsTable
<1> QED
  BY <1>2, <1>4 DEF Good

-----------------------------------------------------------------------------
(* The steps of an add that write.                                          *)

\* An overwritten value stays in its bucket.
LEMMA AddOverwrites ==
  ASSUME NEW home \in [Slot -> First], NEW depth \in [Slot -> Nat],
         Good(home, depth), Same, Types', Phases', Overwrite
  PROVE  Good(home, depth)'
<1>1. /\ call.op = "add" /\ bucket # NULL /\ key[bucket] # NULL /\ key[bucket] = call.key
      /\ UNCHANGED <<key, tail, used, strings, list>>
      /\ call'.op = "idle" /\ bucket' = NULL
      /\ val' = [val EXCEPT ![bucket] = call.val] \/ val' = val
  BY DEF Overwrite, Found, Filled, Return, End, NoCall
<1>2. bucket \in Live /\ call.val # NULL /\ list = NULL /\ val[bucket] # NULL
  BY <1>1, TableAssumption DEF Good, Position, Phases, Contents
<1>3. /\ Live' = Live /\ Entries' = Entries /\ Live \subseteq Slot
      /\ Kept(home, depth) = Live /\ Kept(home, depth)' = Live
  BY <1>1, EntriesFinite DEF Live, Entries, Kept, Good
<1>4. Chained(home, depth)'
  <2>1. ChainedIn(Live, home, depth)
    BY <1>3 DEF Good, Chained
  <2>2. ChainedIn(Live, home, depth)'
    BY <1>1, <1>3, <2>1 DEF ChainedIn
  <2> QED
    BY <1>3, <2>2 DEF Chained
<1>5. Contents(home)'
  <2>1. \A s \in Live : val'[s] = NULL <=> val[s] = NULL
    BY <1>1, <1>2, <1>3 DEF Good, Types
  <2> QED
    BY <1>1, <1>3, <2>1 DEF Good, Contents
<1>6. Counted'
  BY <1>1, <1>3 DEF Good, Counted
<1>7. Ghosts(home, depth)' /\ Freed(home, depth)'
  BY <1>1 DEF Good, Ghosts, Freed
<1>8. Position(home, depth)' /\ Searched(home, depth)' /\ Copied(home, depth)' /\ ContentIsTable'
  BY <1>1, <1>2 DEF Position, Searched, Copied, ContentIsTable
<1> QED
  BY <1>4, <1>5, <1>6, <1>7, <1>8 DEF Good

\* Without memory for a bucket the list ends where it did.
LEMMA AddFails ==
  ASSUME NEW home \in [Slot -> First], NEW depth \in [Slot -> Nat],
         Good(home, depth), Same, Types', Phases',
         call.op = "add", bucket # NULL, key[bucket] = NULL,
         tail' = [tail EXCEPT ![bucket] = NULL],
         UNCHANGED <<key, val, used, strings>>, Return("ERR_NOMEM")
  PROVE  Good(home, depth)'
<1>1. bucket \in Live /\ tail[bucket] = NULL /\ list = NULL
  BY DEF Good, Position, Phases, Contents
<1>2. UNCHANGED memory
  BY <1>1 DEF Good, Types, memory
<1>3. call'.op = "idle" /\ bucket' = NULL /\ list' = NULL
  BY <1>1 DEF Return, End, NoCall
<1>4. /\ Ghosts(home, depth)' /\ Chained(home, depth)'
      /\ Contents(home)' /\ Freed(home, depth)' /\ Counted'
  BY <1>2, <1>3, SameTable
<1>5. Position(home, depth)' /\ Searched(home, depth)' /\ Copied(home, depth)' /\ ContentIsTable'
  BY <1>3 DEF Position, Searched, Copied, ContentIsTable
<1> QED
  BY <1>4, <1>5 DEF Good

\* The pair goes to the last bucket of its list, after all others have been
\* compared, and the cell c is linked behind it.
LEMMA AddExtends ==
  ASSUME NEW home \in [Slot -> First], NEW depth \in [Slot -> Nat],
         Good(home, depth), Same, Types', Phases',
         call.op = "add", bucket # NULL, key[bucket] = NULL,
         NEW c \in Cell \ used,
         key' = [key EXCEPT ![bucket] = call.key, ![c] = NULL],
         val' = [val EXCEPT ![bucket] = call.val, ![c] = NULL],
         tail' = [tail EXCEPT ![bucket] = c, ![c] = NULL],
         used' = used \cup {c}, strings' = strings + 2,
         Return("ERR_NONE")
  PROVE  \E h \in [Slot -> First], d \in [Slot -> Nat] : Good(h, d)'
<1>1. /\ bucket \in Live /\ bucket \in Slot /\ tail[bucket] = NULL /\ list = NULL
      /\ home[bucket] = Hash[call.key]
      /\ call.key # NULL /\ call.val # NULL /\ call.key \in Key
  BY EntriesFinite, TableAssumption DEF Good, Position, Phases, Contents
<1>2. c \in Slot /\ c \notin Live /\ c # bucket /\ c # NULL /\ c \notin First
  BY <1>1, SlotFacts, TableAssumption DEF Live
<1>3. Live' = Live \cup {c} /\ Live \subseteq Slot
  BY EntriesFinite DEF Live, Good
<1>4a. PICK h \in [Slot -> First] : h = [home EXCEPT ![c] = home[bucket]]
  BY <1>1
<1>4b. PICK d \in [Slot -> Nat] : d = [depth EXCEPT ![c] = depth[bucket] + 1]
  <2>1. depth[bucket] + 1 \in Nat
    BY <1>1
  <2> QED
    BY <2>1
<1>4. /\ \A s \in Live : h[s] = home[s] /\ d[s] = depth[s]
      /\ h[c] = home[bucket] /\ d[c] = depth[bucket] + 1
      /\ h \in [Slot -> First] /\ d \in [Slot -> Nat]
  BY <1>2, <1>3, <1>4a, <1>4b
<1>5. /\ \A s \in Live \ {bucket} : key'[s] = key[s] /\ val'[s] = val[s] /\ tail'[s] = tail[s]
      /\ key'[bucket] = call.key /\ val'[bucket] = call.val /\ tail'[bucket] = c
      /\ key'[c] = NULL /\ val'[c] = NULL /\ tail'[c] = NULL
  BY <1>1, <1>2, <1>3 DEF Good, Types
<1>6. Ghosts(h, d)'
  BY <1>4 DEF Good, Ghosts, Live
<1>7. call'.op = "idle" /\ bucket' = NULL /\ list' = NULL
  BY <1>1 DEF Return, End, NoCall
<1>8. ChainedIn(Live, home, depth)
  BY DEF Good, Chained, Kept
<1>9. Kept(h, d)' = Live \cup {c}
  BY <1>3, <1>7 DEF Kept
<1>10. ChainedIn(Live \cup {c}, h, d)'
  <2>1. \A s \in Live : depth[s] \in Nat
    BY <1>3
  <2>2. \A s \in Live : home[s] = home[bucket] => depth[s] <= depth[bucket]
    BY <1>1, <1>8 DEF ChainedIn
  <2>3. ASSUME NEW s \in Live \cup {c}, tail'[s] # NULL
        PROVE  /\ tail'[s] \in Live \cup {c} /\ tail'[s] \in used'
               /\ h[tail'[s]] = h[s] /\ d[tail'[s]] = d[s] + 1
    <3>1. CASE s = bucket
      BY <1>1, <1>4, <1>5, <3>1
    <3>2. CASE s # bucket
      <4>1. s \in Live /\ tail'[s] = tail[s]
        BY <1>5, <2>3, <3>2
      <4>2. tail[s] \in Live /\ tail[s] \in used /\ home[tail[s]] = home[s] /\ depth[tail[s]] = depth[s] + 1
        BY <1>8, <2>3, <4>1 DEF ChainedIn
      <4> QED
        BY <1>4, <4>1, <4>2
    <3> QED
      BY <3>1, <3>2
  <2>4. ASSUME NEW s \in Live \cup {c}, NEW t \in Live \cup {c}, h[s] = h[t], tail'[s] = NULL
        PROVE  d[t] <= d[s]
    <3>1. s # bucket
      BY <1>2, <1>5, <2>4
    <3>2. CASE s = c /\ t = c
      BY <1>1, <1>4, <2>1, <3>2
    <3>3. CASE s = c /\ t \in Live
      BY <1>1, <1>4, <2>1, <2>2, <2>4, <3>3
    <3>4. CASE s \in Live /\ home[s] = home[bucket]
      <4>1. tail[s] = NULL
        BY <1>5, <2>4, <3>1, <3>4
      <4>2. depth[s] = depth[bucket]
        BY <1>1, <1>8, <2>1, <2>2, <3>4, <4>1 DEF ChainedIn
      <4> QED
        BY <1>1, <1>8, <3>1, <3>4, <4>2 DEF ChainedIn
    <3>5. CASE s \in Live /\ home[s] # home[bucket]
      <4>1. tail[s] = NULL /\ t \in Live /\ home[s] = home[t]
        BY <1>4, <1>5, <2>4, <3>1, <3>5
      <4> QED
        BY <1>4, <1>8, <3>5, <4>1 DEF ChainedIn
    <3> QED
      BY <2>4, <3>2, <3>3, <3>4, <3>5
  <2>5. ASSUME NEW s \in Live \cup {c}, NEW t \in Live \cup {c}, h[s] = h[t], d[s] = d[t]
        PROVE  s = t
    <3>1. CASE s \in Live /\ t \in Live
      BY <1>4, <1>8, <2>5, <3>1 DEF ChainedIn
    <3>2. ASSUME NEW u \in Live, h[u] = h[c], d[u] = d[c]
          PROVE  FALSE
      BY <1>1, <1>4, <2>1, <2>2, <3>2
    <3> QED
      BY <2>5, <3>1, <3>2
  <2> QED
    BY <1>3, <2>3, <2>4, <2>5 DEF ChainedIn
<1>11. Chained(h, d)'
  BY <1>3, <1>9, <1>10 DEF Chained
<1>12. Entries' = Entries \cup {bucket} /\ bucket \notin Entries
  <2>1. ASSUME NEW s \in Live \cup {c}
        PROVE  key'[s] # NULL <=> s = bucket \/ (s \in Live /\ key[s] # NULL)
    <3>1. CASE s = bucket
      BY <1>1, <1>5, <3>1
    <3>2. CASE s = c
      BY <1>2, <1>5, <3>2
    <3>3. CASE s \in Live \ {bucket}
      BY <1>5, <3>3
    <3> QED
      BY <2>1, <3>1, <3>2, <3>3
  <2>2. Entries' = {s \in Live \cup {c} : key'[s] # NULL}
    BY <1>3 DEF Entries, Live
  <2>3. Entries = {s \in Live : key[s] # NULL}
    BY DEF Entries, Live
  <2> QED
    BY <1>1, <2>1, <2>2, <2>3
<1>13. \A s \in Entries : key[s] # call.key
  <2>1. ASSUME NEW s \in Entries, key[s] = call.key PROVE FALSE
    <3>1. s \in Live /\ s # bucket /\ home[s] = home[bucket]
      BY <1>1, <1>12, <2>1 DEF Good, Contents, Entries, Live
    <3>2. depth[s] <= depth[bucket] /\ depth[s] # depth[bucket]
      BY <1>1, <1>8, <3>1 DEF ChainedIn
    <3>3. depth[s] \in Nat /\ depth[bucket] \in Nat
      BY <1>1, <1>3, <3>1
    <3>4. depth[s] < depth[bucket]
      BY <3>2, <3>3
    <3> QED
      BY <1>1, <2>1, <3>1, <3>4 DEF Good, Searched
  <2> QED
    BY <2>1
<1>14. Contents(h)'
  <2>0. /\ \A s \in Live : (key[s] = NULL <=> tail[s] = NULL) /\ (key[s] = NULL <=> val[s] = NULL)
        /\ \A s \in Live : key[s] # NULL => Hash[key[s]] = home[s]
        /\ \A s, t \in Entries : key[s] = key[t] => s = t
        /\ \A x \in used : \E s \in Live : tail[s] = x
    BY DEF Good, Contents
  <2>1. \A s \in Live' : (key'[s] = NULL <=> tail'[s] = NULL) /\ (key'[s] = NULL <=> val'[s] = NULL)
    <3>1. ASSUME NEW s \in Live, s # bucket
          PROVE  (key'[s] = NULL <=> tail'[s] = NULL) /\ (key'[s] = NULL <=> val'[s] = NULL)
      <4>1. key'[s] = key[s] /\ val'[s] = val[s] /\ tail'[s] = tail[s]
        BY <1>5, <3>1
      <4>2. (key[s] = NULL <=> tail[s] = NULL) /\ (key[s] = NULL <=> val[s] = NULL)
        BY <2>0, <3>1
      <4> QED
        BY <4>1, <4>2
    <3>2. /\ key'[bucket] # NULL /\ tail'[bucket] # NULL /\ val'[bucket] # NULL
          /\ key'[c] = NULL /\ tail'[c] = NULL /\ val'[c] = NULL
      BY <1>1, <1>2, <1>5
    <3>3. \A s \in Live' : s \in Live \ {bucket} \/ s = bucket \/ s = c
      BY <1>3
    <3> QED
      BY <3>1, <3>2, <3>3
  <2>2. \A s \in Live' : key'[s] # NULL => Hash[key'[s]] = h[s]
    <3>1. ASSUME NEW s \in Live, s # bucket, key'[s] # NULL
          PROVE  Hash[key'[s]] = h[s]
      <4>1. key'[s] = key[s] /\ h[s] = home[s]
        BY <1>4, <1>5, <3>1
      <4> QED
        BY <2>0, <3>1, <4>1
    <3>2. Hash[key'[bucket]] = h[bucket] /\ key'[c] = NULL
      BY <1>1, <1>4, <1>5
    <3>3. \A s \in Live' : s \in Live \ {bucket} \/ s = bucket \/ s = c
      BY <1>3
    <3> QED
      BY <3>1, <3>2, <3>3
  <2>3. \A s, t \in Entries' : key'[s] = key'[t] => s = t
    BY <1>5, <1>12, <1>13, <2>0 DEF Entries, Live
  <2>4. \A x \in used' : \E s \in Live' : tail'[s] = x
    <3>1. ASSUME NEW x \in used PROVE \E s \in Live' : tail'[s] = x
      <4>1. PICK s \in Live : tail[s] = x
        BY <2>0
      <4>2. s # bucket
        BY <1>1, <3>1, <4>1, SlotFacts DEF Good, Types
      <4> QED
        BY <1>3, <1>5, <4>1, <4>2
    <3>2. \E s \in Live' : tail'[s] = c
      BY <1>1, <1>3, <1>5
    <3> QED
      BY <3>1, <3>2
  <2> QED
    BY <2>1, <2>2, <2>3, <2>4 DEF Contents
<1>15. Counted'
  <2>1. Cardinality(Entries') = Cardinality(Entries) + 1
    BY <1>12, EntriesFinite, FS_AddElement DEF Good
  <2>2. Cardinality(Entries) \in Nat
    BY EntriesFinite DEF Good
  <2>3. strings = 2 * Cardinality(Entries)
    BY DEF Good, Counted
  <2> QED
    BY <1>7, <2>1, <2>2, <2>3 DEF Counted
<1>16. /\ Position(h, d)' /\ Searched(h, d)' /\ Freed(h, d)' /\ Copied(h, d)'
       /\ ContentIsTable'
  BY <1>7 DEF Position, Searched, Freed, Copied, ContentIsTable
<1>17. Good(h, d)'
  BY <1>6, <1>11, <1>14, <1>15, <1>16 DEF Good
<1> QED
  BY <1>4, <1>17

-----------------------------------------------------------------------------
(* The steps of get_Htable_content.                                         *)

\* The pair of the bucket is at the end of the copy.
LEMMA CopyGoesOn ==
  ASSUME NEW home \in [Slot -> First], NEW depth \in [Slot -> Nat],
         Good(home, depth), Same, Types', Phases', CopyPair
  PROVE  Good(home, depth)'
<1>1. /\ call.op = "content" /\ bucket # NULL /\ key[bucket] # NULL
      /\ bucket' = tail[bucket] /\ UNCHANGED <<call, index>> /\ UNCHANGED memory
  BY DEF CopyPair, Filled, NextBucket
<1>2. PICK pair \in Copies(bucket) : list' = Append(list, pair)
  BY DEF CopyPair
<1>3. /\ Live' = Live /\ Entries' = Entries /\ \A s \in Slot : Copies(s)' = Copies(s)
      /\ Ghosts(home, depth)' /\ Chained(home, depth)'
      /\ Contents(home)' /\ Freed(home, depth)' /\ Counted'
  BY <1>1, SameTable
<1>4. bucket \in Live /\ bucket \in Slot /\ home[bucket] = index
  BY <1>1, EntriesFinite DEF Good, Position
<1>5. tail[bucket] # NULL
  BY <1>1, <1>4 DEF Good, Contents
<1>6. ChainedIn(Live, home, depth)
  BY <1>1 DEF Good, Chained, Kept
<1>7. tail[bucket] \in Live /\ home[tail[bucket]] = home[bucket] /\ depth[tail[bucket]] = depth[bucket] + 1
  BY <1>4, <1>5, <1>6 DEF ChainedIn
<1>8. Position(home, depth)'
  BY <1>1, <1>3, <1>4, <1>7 DEF Position
<1>9. Visited(home, depth)' = Visited(home, depth) \cup {bucket} /\ bucket \notin Visited(home, depth)
  <2>1. \A s \in Live : depth[s] \in Nat /\ home[s] \in Nat
    BY EntriesFinite, SlotFacts DEF Good
  <2>2. bucket \in Entries /\ Entries \subseteq Live
    BY <1>1, <1>4 DEF Entries, Live
  <2>3. \A s \in Live : home[s] = index =>
          (depth[s] < depth[bucket] + 1 <=> depth[s] < depth[bucket] \/ s = bucket)
    <3>1. ASSUME NEW s \in Live, home[s] = index, depth[s] < depth[bucket] + 1, ~(depth[s] < depth[bucket])
          PROVE  s = bucket
      <4>1. depth[s] = depth[bucket]
        BY <1>4, <2>1, <3>1
      <4> QED
        BY <1>4, <1>6, <3>1, <4>1 DEF ChainedIn
    <3>2. \A s \in Live : depth[s] < depth[bucket] \/ s = bucket => depth[s] < depth[bucket] + 1
      BY <1>4, <2>1
    <3> QED
      BY <3>1, <3>2
  <2>4. Visited(home, depth)' = {s \in Entries : home[s] < index \/ (home[s] = index /\ depth[s] < depth[bucket] + 1)}
    BY <1>1, <1>3, <1>7 DEF Visited
  <2>5. ~(depth[bucket] < depth[bucket]) /\ ~(home[bucket] < index)
    BY <1>4, <2>1
  <2> QED
    BY <1>4, <2>2, <2>3, <2>4, <2>5 DEF Visited
<1>10. Copied(home, depth)'
  <2>1. IsFiniteSet(Visited(home, depth)) /\ Visited(home, depth) \subseteq Slot
    BY EntriesFinite, FS_Subset DEF Visited, Good
  <2>2. Cardinality(Visited(home, depth)') = Cardinality(Visited(home, depth)) + 1
    BY <1>9, <2>1, FS_AddElement
  <2>3. list \in Seq(Tables)
    BY <1>1 DEF Good, Phases, Tables
  <2>4. /\ Len(list) = Cardinality(Visited(home, depth))
        /\ \A s \in Visited(home, depth) : \E j \in 1..Len(list) : list[j] \in Copies(s)
    BY <1>1 DEF Good, Copied
  <2>5. pair \in Tables
    BY <1>4 DEF Copies, Tables, Good, Types
  <2>6. Len(list') = Len(list) + 1 /\ list'[Len(list) + 1] = pair /\ \A j \in 1..Len(list) : list'[j] = list[j]
    BY <1>2, <2>3, <2>5
  <2>7. Len(list) \in Nat
    BY <2>3
  <2>8. ASSUME NEW s \in Visited(home, depth)'
        PROVE  \E j \in 1..Len(list') : list'[j] \in Copies(s)'
    <3>1. s \in Slot /\ Copies(s)' = Copies(s)
      BY <1>3, <1>4, <1>9, <2>1, <2>8
    <3>2. CASE s = bucket
      <4>1. Len(list) + 1 \in 1..Len(list')
        BY <2>6, <2>7
      <4> QED
        BY <1>2, <2>6, <3>1, <3>2, <4>1
    <3>3. CASE s \in Visited(home, depth)
      <4>1. PICK j \in 1..Len(list) : list[j] \in Copies(s)
        BY <2>4, <3>3
      <4>2. j \in 1..Len(list')
        BY <2>6, <2>7
      <4> QED
        BY <2>6, <3>1, <4>1, <4>2
    <3> QED
      BY <1>9, <2>8, <3>2, <3>3
  <2> QED
    BY <2>2, <2>4, <2>6, <2>8 DEF Copied
<1>11. Searched(home, depth)' /\ ContentIsTable'
  BY <1>1 DEF Searched, ContentIsTable
<1> QED
  BY <1>3, <1>8, <1>10, <1>11 DEF Good

\* A copy that fails leaves the table as it was.
LEMMA CopyFails ==
  ASSUME NEW home \in [Slot -> First], NEW depth \in [Slot -> Nat],
         Good(home, depth), Same, Types', Phases', ContentFails \/ FreeTwice
  PROVE  Good(home, depth)'
<1>1. /\ call.op = "content" /\ UNCHANGED memory /\ list' = NULL /\ bucket' = NULL
      /\ call'.op \in {"idle", "undefined"}
  BY DEF ContentFails, FreeTwice, End, NoCall
<1>2. /\ Ghosts(home, depth)' /\ Chained(home, depth)'
      /\ Contents(home)' /\ Freed(home, depth)' /\ Counted'
  BY <1>1, SameTable
<1>3. Position(home, depth)' /\ Searched(home, depth)' /\ Copied(home, depth)' /\ ContentIsTable'
  BY <1>1 DEF Position, Searched, Copied, ContentIsTable
<1> QED
  BY <1>2, <1>3 DEF Good

\* The list ends with the bucket that is empty, so that all its entries have
\* been copied.
LEMMA CopyOfList ==
  ASSUME NEW home \in [Slot -> First], NEW depth \in [Slot -> Nat],
         Good(home, depth), Same, Types', Phases', ListCopied
  PROVE  Good(home, depth)'
<1>1. /\ call.op = "content" /\ bucket # NULL /\ key[bucket] = NULL
      /\ UNCHANGED list /\ UNCHANGED memory
  BY DEF ListCopied, Filled
<1>2. /\ AnIndexLeft => call' = call /\ index' = index + 1 /\ bucket' = index + 1
      /\ ~AnIndexLeft => call'.op = "idle" /\ bucket' = NULL
  BY DEF ListCopied, NextList, End, NoCall
<1>3. /\ Live' = Live /\ Entries' = Entries /\ \A s \in Slot : Copies(s)' = Copies(s)
      /\ Ghosts(home, depth)' /\ Chained(home, depth)'
      /\ Contents(home)' /\ Freed(home, depth)' /\ Counted'
  BY <1>1, <1>2, SameTable
<1>4. bucket \in Live /\ home[bucket] = index
  BY <1>1, EntriesFinite DEF Good, Position
<1>5. ChainedIn(Live, home, depth)
  BY <1>1 DEF Good, Chained, Kept
<1>6. tail[bucket] = NULL
  BY <1>1, <1>4 DEF Good, Contents
<1>7. Entries \subseteq Live /\ Entries \subseteq Slot /\ bucket \notin Entries /\ Live \subseteq Slot
  BY <1>1, EntriesFinite DEF Entries, Live, Good
<1>8. index \in First /\ index \in Nat
  BY SlotFacts DEF Good, Types
<1>9. \A s \in Entries : home[s] \in Nat /\ depth[s] \in Nat /\ home[s] \in First
  BY <1>7, SlotFacts
<1>10. \A s \in Entries : home[s] = index => depth[s] < depth[bucket]
  <2>1. ASSUME NEW s \in Entries, home[s] = index
        PROVE  depth[s] < depth[bucket]
    <3>1. s \in Live /\ s # bucket
      BY <1>7
    <3>2. depth[s] <= depth[bucket] /\ depth[s] # depth[bucket]
      BY <1>4, <1>5, <1>6, <2>1, <3>1 DEF ChainedIn
    <3> QED
      BY <1>4, <1>7, <1>9, <3>2
  <2> QED
    BY <2>1
<1>11. Visited(home, depth) = {s \in Entries : home[s] < index + 1}
  <2>1. \A s \in Entries : home[s] < index + 1 <=> home[s] < index \/ home[s] = index
    BY <1>8, <1>9
  <2> QED
    BY <1>10, <2>1 DEF Visited
<1>12. /\ Len(list) = Cardinality(Visited(home, depth))
       /\ \A s \in Visited(home, depth) : \E j \in 1..Len(list) : list[j] \in Copies(s)
  BY <1>1 DEF Good, Copied
<1>13. CASE AnIndexLeft
  <2>1. index + 1 \in First /\ home[index + 1] = index + 1 /\ depth[index + 1] = 0
    BY <1>8, <1>13, SlotFacts DEF Good, Ghosts
  <2>2. Position(home, depth)'
    BY <1>1, <1>2, <1>3, <1>13, <2>1 DEF Position, Live
  <2>3. Visited(home, depth)' = Visited(home, depth)
    <3>1. \A s \in Entries : ~(depth[s] < 0)
      BY <1>9
    <3>2. Visited(home, depth)' = {s \in Entries : home[s] < index + 1 \/ (home[s] = index + 1 /\ depth[s] < 0)}
      BY <1>2, <1>3, <1>13, <2>1 DEF Visited
    <3> QED
      BY <1>11, <3>1, <3>2
  <2>4. Copied(home, depth)'
    <3>1. \A s \in Visited(home, depth) : s \in Slot
      BY <1>7, <1>11
    <3> QED
      BY <1>1, <1>3, <1>12, <2>3, <3>1 DEF Copied
  <2>5. Searched(home, depth)' /\ ContentIsTable'
    BY <1>1, <1>2, <1>13 DEF Searched, ContentIsTable
  <2> QED
    BY <1>3, <2>2, <2>4, <2>5 DEF Good
<1>14. CASE ~AnIndexLeft
  <2>1. index + 1 = Size
    BY <1>8, <1>14, TableAssumption DEF AnIndexLeft, First
  <2>2. Visited(home, depth) = Entries
    <3>1. \A s \in Entries : home[s] < Size
      BY <1>9, TableAssumption DEF First
    <3> QED
      BY <1>11, <2>1, <3>1
  <2>3. ContentIsTable'
    BY <1>1, <1>3, <1>7, <1>12, <2>2 DEF ContentIsTable
  <2>4. Position(home, depth)' /\ Searched(home, depth)' /\ Copied(home, depth)'
    BY <1>2, <1>14 DEF Position, Searched, Copied
  <2> QED
    BY <1>3, <2>3, <2>4 DEF Good
<1> QED
  BY <1>13, <1>14

-----------------------------------------------------------------------------
(* The steps of a delete.                                                   *)

\* A chain without its first bucket is a chain.
LEMMA ChainRest ==
  ASSUME NEW home \in [Slot -> First], NEW depth \in [Slot -> Nat],
         NEW L, ChainedIn(L, home, depth), NEW x \in L,
         \A s \in L : tail[s] # x,
         tail' = tail \/ tail' = [tail EXCEPT ![x] = NULL],
         used' = used \/ used' = used \ {x},
         tail \in [Slot -> Cell \cup {NULL}], L \subseteq Slot
  PROVE  \A M : M = L \ {x} => ChainedIn(M, home, depth) /\ ChainedIn(M, home, depth)'
<1> DEFINE R == L \ {x}
<1>1. \A s \in R : tail'[s] = tail[s] /\ s \in L /\ tail[s] # x
  OBVIOUS
<1>2. \A s \in R : tail[s] # NULL =>
        /\ tail[s] \in R /\ tail[s] \in used /\ tail[s] \in used'
        /\ home[tail[s]] = home[s] /\ depth[tail[s]] = depth[s] + 1
  <2>1. ASSUME NEW s \in R, tail[s] # NULL
        PROVE  /\ tail[s] \in R /\ tail[s] \in used /\ tail[s] \in used'
               /\ home[tail[s]] = home[s] /\ depth[tail[s]] = depth[s] + 1
    <3>1. /\ tail[s] \in L /\ tail[s] \in used
          /\ home[tail[s]] = home[s] /\ depth[tail[s]] = depth[s] + 1
      BY <2>1 DEF ChainedIn
    <3> QED
      BY <1>1, <3>1
  <2> QED
    BY <2>1
<1>3. /\ \A s, t \in R : home[s] = home[t] /\ tail[s] = NULL => depth[t] <= depth[s]
      /\ \A s, t \in R : home[s] = home[t] /\ depth[s] = depth[t] => s = t
  BY DEF ChainedIn
<1> HIDE DEF R
<1>4. ChainedIn(R, home, depth)
  BY <1>2, <1>3 DEF ChainedIn
<1>5. ASSUME NEW M, M = R PROVE ChainedIn(M, home, depth)'
  <2>1. /\ \A s \in M : tail'[s] # NULL =>
             /\ tail'[s] \in M /\ tail'[s] \in used'
             /\ home[tail'[s]] = home[s] /\ depth[tail'[s]] = depth[s] + 1
        /\ \A s, t \in M : home[s] = home[t] /\ tail'[s] = NULL => depth[t] <= depth[s]
        /\ \A s, t \in M : home[s] = home[t] /\ depth[s] = depth[t] => s = t
    BY <1>1, <1>2, <1>3, <1>5
  <2> QED
    BY <2>1 DEF ChainedIn
<1> QED
  BY <1>4, <1>5 DEF R

\* The delete arrives at the list i: what it frees then is all that is left,
\* or in projet01 all but the bucket in the array.
LEMMA ListBegins ==
  ASSUME NEW home \in [Slot -> First], NEW depth \in [Slot -> Nat],
         Good(home, depth), Same, UNCHANGED memory,
         NEW i \in First, call'.op = "delete", index' = i, bucket' = FirstFreed(i),
         NEW L, L = {s \in Live : home[s] >= i}, ChainedIn(L, home, depth), used \subseteq L,
         release # "projet01" => \A f \in First : f < i => key[f] = NULL
  PROVE  Chained(home, depth)' /\ Freed(home, depth)' /\ Position(home, depth)'
<1>1. /\ UNCHANGED <<key, val, tail, used, strings, release>> /\ Live' = Live
  BY DEF memory, Same, Live
<1>2. /\ i \in L /\ home[i] = i /\ depth[i] = 0 /\ i \notin Cell /\ i \in Nat /\ i # NULL
      /\ i \in Live /\ Live \subseteq Slot /\ L \subseteq Slot
  <2>1. home[i] = i /\ depth[i] = 0 /\ i \in Nat /\ i \in Live
    BY SlotFacts DEF Good, Ghosts, Live
  <2>2. i \notin Cell /\ i # NULL
    BY SlotFacts, TableAssumption
  <2>3. Live \subseteq Slot /\ L \subseteq Slot
    BY EntriesFinite DEF Good
  <2> QED
    BY <2>1, <2>2, <2>3
<1>3. \A s \in L : home[s] \in Nat /\ depth[s] \in Nat /\ s \in Live /\ home[s] >= i
  BY <1>2, SlotFacts
<1>4. Kept(home, depth)' = {s \in L : home[s] > i \/ (bucket' # NULL /\ home[s] = i /\ depth[s] >= depth[bucket'])}
  <2>1. \A s \in Live : home[s] > i \/ home[s] = i => home[s] >= i
    <3>1. \A s \in Live : home[s] \in Nat
      BY <1>2, SlotFacts
    <3> QED
      BY <1>2, <3>1
  <2>2. Kept(home, depth)' = {s \in Live : home[s] > i \/ (bucket' # NULL /\ home[s] = i /\ depth[s] >= depth[bucket'])}
    BY <1>1 DEF Kept
  <2> QED
    BY <2>1, <2>2
<1>5. \A s \in L : tail[s] # i
  BY <1>2 DEF Good, Types
<1>6. tail \in [Slot -> Cell \cup {NULL}]
  BY DEF Good, Types
<1>7. CASE release # "projet01"
  <2>1. bucket' = i
    BY <1>7 DEF FirstFreed
  <2>2. Kept(home, depth)' = L
    <3>1. \A s \in L : home[s] > i \/ (home[s] = i /\ depth[s] >= depth[i])
      BY <1>2, <1>3
    <3> QED
      BY <1>2, <1>4, <2>1, <3>1
  <2>3. Chained(home, depth)'
    BY <1>1, <2>2 DEF Chained, ChainedIn
  <2>4. Freed(home, depth)'
    BY <1>1, <2>1, <2>2 DEF Freed
  <2>5. Position(home, depth)'
    BY <1>1, <1>2, <2>1 DEF Position
  <2> QED
    BY <2>3, <2>4, <2>5
<1>8. CASE release = "projet01"
  <2>1. bucket' = tail[i]
    BY <1>8 DEF FirstFreed
  <2>2. \A s \in L : s # i /\ home[s] = i => tail[i] # NULL /\ depth[s] >= 1
    <3>1. ASSUME NEW s \in L, s # i, home[s] = i PROVE tail[i] # NULL /\ depth[s] >= 1
      <4>1. depth[s] # 0
        BY <1>2, <3>1 DEF ChainedIn
      <4>2. depth[s] >= 1 /\ ~(depth[s] <= 0)
        BY <1>3, <4>1
      <4> QED
        BY <1>2, <3>1, <4>2 DEF ChainedIn
    <3> QED
      BY <3>1
  <2>3. tail[i] # NULL => tail[i] \in L /\ home[tail[i]] = i /\ depth[tail[i]] = 1
    BY <1>2 DEF ChainedIn
  <2>4. Kept(home, depth)' = L \ {i}
    <3>1. ASSUME NEW s \in L, s # i
          PROVE  home[s] > i \/ (tail[i] # NULL /\ home[s] = i /\ depth[s] >= depth[tail[i]])
      BY <1>2, <1>3, <2>2, <2>3, <3>1
    <3>2. ~(home[i] > i) /\ ~(tail[i] # NULL /\ depth[i] >= depth[tail[i]])
      BY <1>2, <2>3
    <3> QED
      BY <1>4, <2>1, <3>1, <3>2
  <2>5. Chained(home, depth)'
    BY <1>1, <1>2, <1>5, <1>6, <2>4, ChainRest DEF Chained
  <2>6. Freed(home, depth)'
    BY <1>1, <1>2, <1>8, <2>4 DEF Freed, Good, Types
  <2>7. Position(home, depth)'
    BY <1>1, <1>3, <2>1, <2>3 DEF Position
  <2> QED
    BY <2>5, <2>6, <2>7
<1> QED
  BY <1>7, <1>8

\* The first list is the first to be freed.
LEMMA DeleteBegins ==
  ASSUME NEW home \in [Slot -> First], NEW depth \in [Slot -> Nat],
         Good(home, depth), Same, Types', Phases', Delete
  PROVE  Good(home, depth)'
<1>1. /\ call.op = "idle" /\ UNCHANGED memory /\ call'.op = "delete"
      /\ index' = 0 /\ bucket' = FirstFreed(0) /\ list' = NULL
  BY DEF Delete, Begin
<1>2. Kept(home, depth) = Live /\ Live = {s \in Live : home[s] >= 0}
  <2>1. \A s \in Live : home[s] \in Nat
    BY EntriesFinite, SlotFacts DEF Good
  <2> QED
    BY <1>1, <2>1 DEF Kept
<1>3. ChainedIn(Live, home, depth) /\ used \subseteq Live
  BY <1>2 DEF Good, Chained, Live
<1>4. \A f \in First : ~(f < 0)
  BY SlotFacts
<1>5. Chained(home, depth)' /\ Freed(home, depth)' /\ Position(home, depth)'
  BY <1>1, <1>2, <1>3, <1>4, SlotFacts, ListBegins
<1>6. /\ Ghosts(home, depth)' /\ Contents(home)' /\ Searched(home, depth)'
      /\ Copied(home, depth)' /\ ContentIsTable'
  BY <1>1 DEF Good, Ghosts, Contents, Searched, Copied, ContentIsTable
<1>7. Counted'
  BY <1>1 DEF Good, Counted, Entries, memory
<1> QED
  BY <1>5, <1>6, <1>7 DEF Good

\* A list that is freed is followed by the next one.
LEMMA DeleteGoesOn ==
  ASSUME NEW home \in [Slot -> First], NEW depth \in [Slot -> Nat],
         Good(home, depth), Same, Types', Phases', ListFreed
  PROVE  Good(home, depth)'
<1>1. /\ call.op = "delete" /\ bucket = NULL /\ UNCHANGED memory /\ call' = call
      /\ index' = index + 1 /\ bucket' = FirstFreed(index + 1) /\ AnIndexLeft
  BY DEF ListFreed, NextList
<1>2. index \in Nat /\ index + 1 \in First
  BY <1>1, SlotFacts DEF Good, Types
<1>3. Kept(home, depth) = {s \in Live : home[s] >= index + 1}
  <2>1. \A s \in Live : home[s] \in Nat
    BY EntriesFinite, SlotFacts DEF Good
  <2>2. \A s \in Live : home[s] > index <=> home[s] >= index + 1
    BY <1>2, <2>1
  <2> QED
    BY <1>1, <2>2 DEF Kept
<1>4. ChainedIn(Kept(home, depth), home, depth) /\ used \subseteq Kept(home, depth)
  BY <1>1 DEF Good, Chained, Freed
<1>5. release # "projet01" => \A f \in First : f < index + 1 => key[f] = NULL
  <2>1. \A f \in First : f < index + 1 => f < index \/ (f = index /\ bucket # f)
    BY <1>1, <1>2, SlotFacts
  <2> QED
    BY <1>1, <2>1 DEF Good, Freed
<1>6. Chained(home, depth)' /\ Freed(home, depth)' /\ Position(home, depth)'
  BY <1>1, <1>2, <1>3, <1>4, <1>5, ListBegins
<1>7. /\ Ghosts(home, depth)' /\ Contents(home)' /\ Searched(home, depth)'
      /\ Copied(home, depth)' /\ ContentIsTable'
  BY <1>1 DEF Good, Ghosts, Contents, Searched, Copied, ContentIsTable
<1>8. Counted'
  BY <1>1 DEF Good, Counted, Entries, memory
<1> QED
  BY <1>6, <1>7, <1>8 DEF Good

\* The bucket that is freed is the first one that is left of its list.
LEMMA BucketFreed ==
  ASSUME NEW home \in [Slot -> First], NEW depth \in [Slot -> Nat],
         Good(home, depth), Same, Types', Phases', FreePair
  PROVE  Good(home, depth)'
<1>1. /\ call.op = "delete" /\ bucket # NULL /\ UNCHANGED <<call, index, list, release>>
      /\ key' = [key EXCEPT ![bucket] = NULL]
      /\ val' = [val EXCEPT ![bucket] = NULL]
      /\ tail' = [tail EXCEPT ![bucket] = NULL]
      /\ used' = used \ {bucket} /\ bucket' = tail[bucket]
      /\ strings' = IF key[bucket] # NULL THEN strings - 2 ELSE strings
  BY DEF FreePair, Filled, RestOfList, Same
<1> DEFINE K == Kept(home, depth)
<1>2. /\ ChainedIn(K, home, depth) /\ used \subseteq K
      /\ tail \in [Slot -> Cell \cup {NULL}] /\ key \in [Slot -> Key \cup {NULL}] /\ index \in Nat
  BY <1>1, SlotFacts DEF Good, Chained, Freed, Types
<1>3. /\ bucket \in Live /\ home[bucket] = index /\ Live \subseteq Slot /\ K \subseteq Live
  BY <1>1, EntriesFinite DEF Good, Position, Kept
<1>4. \A s \in Live : home[s] \in Nat /\ depth[s] \in Nat
  BY <1>3, SlotFacts
<1>5. bucket \in K
  BY <1>1, <1>3, <1>4 DEF Kept
<1>6. \A s \in K : home[s] = index => depth[s] >= depth[bucket]
  BY <1>1, <1>2, <1>3, <1>4 DEF Kept
<1>7. \A s \in K : tail[s] # bucket
  <2>1. ASSUME NEW s \in K, tail[s] = bucket PROVE FALSE
    <3>1. home[bucket] = home[s] /\ depth[bucket] = depth[s] + 1
      BY <1>1, <1>2, <2>1 DEF ChainedIn
    <3> QED
      BY <1>3, <1>4, <1>6, <3>1
  <2> QED
    BY <2>1
<1>8. Live \ {bucket} \subseteq Live' /\ Live' \subseteq Live
  BY <1>1 DEF Live
<1>9. tail[bucket] # NULL =>
        tail[bucket] \in K /\ home[tail[bucket]] = index /\ depth[tail[bucket]] = depth[bucket] + 1
  BY <1>2, <1>3, <1>5 DEF ChainedIn
<1>10. Kept(home, depth)' = K \ {bucket}
  <2>1. Kept(home, depth)' = {s \in Live' : \/ home[s] > index
                                            \/ tail[bucket] # NULL /\ home[s] = index /\ depth[s] >= depth[tail[bucket]]}
    BY <1>1 DEF Kept
  <2>2. ASSUME NEW s \in K, s # bucket
        PROVE  s \in Live' /\ (home[s] > index \/ (tail[bucket] # NULL /\ home[s] = index /\ depth[s] >= depth[tail[bucket]]))
    <3>1. s \in Live'
      BY <1>3, <1>8, <2>2
    <3>2. CASE home[s] = index
      <4>1. depth[s] # depth[bucket] /\ depth[s] >= depth[bucket]
        BY <1>2, <1>3, <1>5, <1>6, <2>2, <3>2 DEF ChainedIn
      <4>2. depth[s] >= depth[bucket] + 1 /\ ~(depth[s] <= depth[bucket])
        BY <1>3, <1>4, <4>1
      <4>3. tail[bucket] # NULL
        BY <1>2, <1>3, <1>5, <3>2, <4>2 DEF ChainedIn
      <4> QED
        BY <1>9, <3>1, <3>2, <4>2, <4>3
    <3>3. CASE home[s] # index
      BY <1>1, <3>1, <3>3 DEF Kept
    <3> QED
      BY <3>2, <3>3
  <2>3. ASSUME NEW s \in Live', home[s] > index \/ (tail[bucket] # NULL /\ home[s] = index /\ depth[s] >= depth[tail[bucket]])
        PROVE  s \in K /\ s # bucket
    <3>1. s \in Live
      BY <1>8
    <3>2. s # bucket
      BY <1>2, <1>3, <1>4, <1>9, <2>3
    <3>3. home[s] > index \/ (home[s] = index /\ depth[s] >= depth[bucket])
      BY <1>3, <1>4, <1>9, <2>3, <3>1
    <3> QED
      BY <1>1, <3>1, <3>2, <3>3 DEF Kept
  <2> QED
    BY <2>1, <2>2, <2>3
<1>11. Chained(home, depth)'
  <2>1. K \subseteq Slot
    BY <1>3
  <2> HIDE DEF K
  <2> QED
    BY <1>1, <1>2, <1>5, <1>7, <1>10, <2>1, ChainRest DEF Chained
<1>12. Freed(home, depth)'
  <2>1. used' \subseteq Kept(home, depth)'
    BY <1>1, <1>2, <1>10
  <2>2. ASSUME release # "projet01", NEW f \in First, f < index \/ (f = index /\ bucket' # f)
        PROVE  key'[f] = NULL
    <3>1. f \in Slot
      BY SlotFacts
    <3>2. CASE f = bucket
      BY <1>1, <1>2, <3>1, <3>2
    <3>3. CASE f # bucket
      <4>1. key[f] = NULL
        BY <1>1, <2>2, <3>3 DEF Good, Freed
      <4> QED
        BY <1>1, <1>2, <3>1, <3>3, <4>1
    <3> QED
      BY <3>2, <3>3
  <2> QED
    BY <1>1, <2>1, <2>2 DEF Freed
<1>13. Position(home, depth)'
  <2>1. tail[bucket] # NULL => tail[bucket] \in Live'
    BY <1>3, <1>5, <1>7, <1>8, <1>9
  <2> QED
    BY <1>1, <1>9, <2>1 DEF Position
<1>14. Counted'
  <2>1. Entries' = Entries \ {bucket}
    BY <1>1, <1>2, <1>3 DEF Entries, Live
  <2>2. strings \in Nat /\ strings = 2 * Cardinality(Entries) /\ Cardinality(Entries) \in Nat
    BY <1>1, EntriesFinite DEF Good, Counted
  <2>3. CASE key[bucket] # NULL
    <3>1. bucket \in Entries
      BY <1>3, <2>3 DEF Entries, Live
    <3>2. Cardinality(Entries') = Cardinality(Entries) - 1
      BY <2>1, <3>1, EntriesFinite, FS_RemoveElement DEF Good
    <3>3. Cardinality(Entries') \in Nat
      BY <2>1, EntriesFinite, FS_RemoveElement, FS_CardinalityType DEF Good
    <3> QED
      BY <1>1, <2>2, <2>3, <3>2, <3>3 DEF Counted
  <2>4. CASE key[bucket] = NULL
    <3>1. Entries' = Entries
      BY <2>1, <2>4 DEF Entries
    <3> QED
      BY <1>1, <2>2, <2>4, <3>1 DEF Counted
  <2> QED
    BY <2>3, <2>4
<1>15. /\ Ghosts(home, depth)' /\ Contents(home)' /\ Searched(home, depth)'
       /\ Copied(home, depth)' /\ ContentIsTable'
  BY <1>1 DEF Good, Ghosts, Contents, Searched, Copied, ContentIsTable
<1> QED
  BY <1>11, <1>12, <1>13, <1>14, <1>15 DEF Good

\* With the last list freed no bucket is allocated, and the strings that are
\* left are those of the array.
LEMMA DeleteEnds ==
  ASSUME NEW home \in [Slot -> First], NEW depth \in [Slot -> Nat],
         Good(home, depth), Same, Types', Phases', ArrayFreed
  PROVE  Good(home, depth)'
<1>1. /\ call.op = "delete" /\ bucket = NULL /\ ~AnIndexLeft
      /\ key' = [s \in Slot |-> NULL] /\ val' = [s \in Slot |-> NULL]
      /\ tail' = [s \in Slot |-> NULL]
      /\ call'.op = "gone" /\ bucket' = NULL /\ UNCHANGED <<used, strings, release>>
  BY DEF ArrayFreed, End, NoCall, Same
<1>2. used = {}
  BY <1>1 DEF Phases
<1>3. index \in First /\ index + 1 = Size /\ index \in Nat
  BY <1>1, SlotFacts, TableAssumption DEF Good, Types, AnIndexLeft, First
<1>4. Live = First /\ Live' = First /\ Kept(home, depth)' = First
  BY <1>1, <1>2 DEF Live, Kept
<1>5. \A f \in First : f \in Slot /\ home[f] = f /\ depth[f] = 0
  BY SlotFacts DEF Good, Ghosts
<1>6. Chained(home, depth)'
  <2>1. \A f \in First : tail'[f] = NULL
    BY <1>1, <1>5
  <2>2. \A s, t \in First : depth[t] <= depth[s]
    BY <1>5
  <2>3. \A s, t \in First : home[s] = home[t] => s = t
    BY <1>5
  <2>4. ChainedIn(First, home, depth)'
    BY <2>1, <2>2, <2>3 DEF ChainedIn
  <2> QED
    BY <1>4, <2>4 DEF Chained
<1>7. Entries' = {}
  BY <1>1, <1>4, SlotFacts DEF Entries, Live
<1>8. Contents(home)'
  BY <1>1, <1>2, <1>4, <1>5, <1>7 DEF Contents
<1>9. Counted'
  <2>1. strings \in Nat /\ strings = 2 * Cardinality(Entries) /\ Cardinality(Entries) \in Nat
    BY <1>1, EntriesFinite DEF Good, Counted
  <2>2. Entries \subseteq First
    BY <1>4 DEF Entries, Live
  <2>3. Cardinality(Entries) <= Size
    BY <2>2, SlotFacts, FS_Subset
  <2>4. ASSUME release # "projet01" PROVE strings = 0
    <3>1. \A f \in First : f < index \/ (f = index /\ bucket # f)
      BY <1>1, <1>3, TableAssumption, SlotFacts DEF First
    <3>2. \A f \in First : key[f] = NULL
      BY <1>1, <2>4, <3>1 DEF Good, Freed
    <3>3. Entries = {}
      BY <2>2, <3>2 DEF Entries
    <3> QED
      BY <2>1, <3>3, FS_EmptySet
  <2> QED
    BY <1>1, <2>1, <2>3, <2>4, TableAssumption DEF Counted
<1>10. /\ Ghosts(home, depth)' /\ Position(home, depth)' /\ Searched(home, depth)'
       /\ Freed(home, depth)' /\ Copied(home, depth)' /\ ContentIsTable'
  BY <1>1 DEF Good, Ghosts, Position, Searched, Freed, Copied, ContentIsTable
<1> QED
  BY <1>6, <1>8, <1>9, <1>10 DEF Good

-----------------------------------------------------------------------------
(* The theorems.                                                            *)

\* The inductive invariant: there are homes and depths that make the state good.
IInv == \E home \in [Slot -> First], depth \in [Slot -> Nat] : Good(home, depth)

\* One lemma per action; an add that extends a list gives the new bucket its
\* home and its depth.
LEMMA StepGood ==
  ASSUME IInv, [Next]_vars
  PROVE  IInv'
<1>1. PICK home \in [Slot -> First], depth \in [Slot -> Nat] : Good(home, depth)
  BY DEF IInv
<1>2. Types' /\ Phases'
  BY <1>1, TypesKept
<1>3. SUFFICES \E h \in [Slot -> First], d \in [Slot -> Nat] : Good(h, d)'
  BY DEF IInv
<1>4. CASE UNCHANGED vars
  <2>1. UNCHANGED <<release, faults, key, val, tail, used, strings, call, index, bucket, result, list>>
    BY <1>4 DEF vars, memory
  <2>2. Kept(home, depth)' = Kept(home, depth) /\ Live' = Live /\ Entries' = Entries
    BY <2>1 DEF Kept, Live, Entries
  <2>2a. Ghosts(home, depth)' /\ Contents(home)' /\ Position(home, depth)'
    BY <1>1, <2>1, <2>2 DEF Good, Ghosts, Contents, Position
  <2>2b. Chained(home, depth)'
    <3>1. ChainedIn(Kept(home, depth), home, depth)'
      BY <1>1, <2>1, <2>2 DEF Good, Chained, ChainedIn
    <3> QED
      BY <3>1 DEF Chained
  <2>3. /\ Searched(home, depth)' /\ Freed(home, depth)' /\ Copied(home, depth)'
    BY <1>1, <2>1 DEF Good, Searched, Freed, Kept, Live, Copied, Visited, Entries, Copies, NoMem, May
  <2>4. Counted' /\ ContentIsTable'
    BY <1>1, <2>1 DEF Good, Counted, ContentIsTable, Entries, Copies, NoMem, May
  <2> QED
    BY <1>1, <1>2, <2>2a, <2>2b, <2>3, <2>4 DEF Good
<1>5. CASE Same /\ \E k \in Key : Get(k) \/ \E v \in Value : Add(k, v)
  BY <1>1, <1>2, <1>5, SearchBegins
<1>6. CASE Same /\ Content
  BY <1>1, <1>2, <1>6, CopyBegins
<1>7. CASE Same /\ Delete
  BY <1>1, <1>2, <1>7, DeleteBegins
<1>8. CASE Same /\ AddBucket
  <2>1. call.op = "add" /\ bucket # NULL /\ key[bucket] = NULL
    BY <1>8 DEF AddBucket
  <2>2. CASE tail' = [tail EXCEPT ![bucket] = NULL] /\ UNCHANGED <<key, val, used, strings>> /\ Return("ERR_NOMEM")
    BY <1>1, <1>2, <1>8, <2>1, <2>2, AddFails
  <2>3. CASE \E c \in Cell \ used :
               /\ key' = [key EXCEPT ![bucket] = call.key, ![c] = NULL]
               /\ val' = [val EXCEPT ![bucket] = call.val, ![c] = NULL]
               /\ tail' = [tail EXCEPT ![bucket] = c, ![c] = NULL]
               /\ used' = used \cup {c} /\ strings' = strings + 2 /\ Return("ERR_NONE")
    BY <1>1, <1>2, <1>8, <2>1, <2>3, AddExtends
  <2> QED
    BY <1>8, <2>2, <2>3 DEF AddBucket, Linked
<1>9. CASE Same /\ Work /\ ~AddBucket
  BY <1>1, <1>2, <1>9, SearchGoesOn, AddOverwrites, GetReturns, CopyGoesOn, CopyFails,
     CopyOfList, DeleteGoesOn, BucketFreed, DeleteEnds DEF Work
<1> QED
  BY <1>4, <1>5, <1>6, <1>7, <1>8, <1>9 DEF Next

\* What the runs check follows from the invariant.
LEMMA GoodImplies ==
  ASSUME IInv
  PROVE  TypeOK /\ SafeLoops /\ NoLeak /\ ContentIsTable
<1>1. PICK home \in [Slot -> First], depth \in [Slot -> Nat] : Good(home, depth)
  BY DEF IInv
<1>2. Types /\ Phases /\ Counted /\ ContentIsTable
  BY <1>1 DEF Good
<1>3. /\ Cardinality(Entries) \in Nat /\ Cardinality(Entries) <= Cardinality(Slot)
      /\ Cardinality(Slot) \in Nat /\ Live \subseteq Slot
  BY <1>2, EntriesFinite
<1>4. TypeOK
  <2>1. Size <= Cardinality(Slot) /\ Size \in Nat
    BY SlotFacts, FS_Subset, TableAssumption
  <2>2. strings \in 0..(2 * Cardinality(Slot))
    <3>1. strings \in Nat /\ strings <= 2 * Cardinality(Slot)
      BY <1>2, <1>3, <2>1 DEF Counted
    <3> QED
      BY <1>3, <3>1
  <2> QED
    BY <1>2, <2>2 DEF Types, TypeOK
<1>5. SafeLoops
  <2>1. Position(home, depth)
    BY <1>1 DEF Good
  <2>2. bucket \in Live \cup {NULL}
    BY <1>2, <2>1 DEF Position, Types, Ops
  <2>3. call.op \in {"add", "content"} => bucket # NULL
    BY <1>3, <2>1, SlotFacts DEF Position
  <2> QED
    BY <2>2, <2>3 DEF SafeLoops, Live
<1>6. NoLeak
  <2>1. SUFFICES ASSUME call.op # "delete"
                 PROVE  /\ \A c \in used : Cardinality({s \in Live : tail[s] = c}) = 1
                        /\ IF release = "projet01" /\ call.op = "gone"
                           THEN strings <= 2 * Size
                           ELSE strings = 2 * Cardinality(Entries)
                        /\ call.op = "gone" => used = {} /\ Entries = {}
    BY DEF NoLeak, Live
  <2>2. ASSUME NEW c \in used PROVE Cardinality({s \in Live : tail[s] = c}) = 1
    <3>1. PICK p \in Live : tail[p] = c
      BY <1>1, <2>1 DEF Good, Contents
    <3>2. c # NULL
      BY <1>2, TableAssumption DEF Types, Slot
    <3>3. ChainedIn(Live, home, depth)
      BY <1>1, <2>1 DEF Good, Chained, Kept
    <3>4. ASSUME NEW s \in Live, tail[s] = c PROVE s = p
      <4>1. /\ home[s] = home[c] /\ home[p] = home[c]
            /\ depth[c] = depth[s] + 1 /\ depth[c] = depth[p] + 1
        BY <3>1, <3>2, <3>3, <3>4 DEF ChainedIn
      <4>2. depth[s] = depth[p]
        BY <1>3, <4>1
      <4> QED
        BY <3>3, <4>1, <4>2 DEF ChainedIn
    <3>5. {s \in Live : tail[s] = c} = {p}
      BY <3>1, <3>4
    <3> QED
      BY <3>5, FS_Singleton
  <2>3. call.op = "gone" => used = {} /\ Entries = {}
    BY <1>2, <1>3 DEF Phases, Entries, Live
  <2>4. call.op = "gone" => Cardinality(Entries) = 0
    BY <2>3, FS_EmptySet
  <2>5. IF release = "projet01" /\ call.op = "gone"
        THEN strings <= 2 * Size
        ELSE strings = 2 * Cardinality(Entries)
    BY <1>2, <2>4 DEF Counted
  <2> QED
    BY <2>2, <2>3, <2>5
<1> QED
  BY <1>2, <1>4, <1>5, <1>6

\* The invariant holds in every state of every behaviour.
LEMMA AlwaysGood == Spec => []IInv
<1>1. Init => IInv
  BY InitGood DEF IInv
<1>2. IInv /\ [Next]_vars => IInv'
  BY StepGood
<1> QED
  BY <1>1, <1>2, PTL DEF Spec

\* The loops over the array stay inside it and what they read has its type,
\* whatever the hash function and whichever allocations fail.
THEOREM TypeCorrect == Spec => []TypeOK
<1>1. IInv => TypeOK
  BY GoodImplies
<1> QED
  BY <1>1, AlwaysGood, PTL

\* The loops over the lists never read through NULL nor a bucket that is freed
\* (add_Htable_value, get_Htable_value, get_Htable_content, free_bucket).
THEOREM LoopsAreSafe == Spec => []SafeLoops
<1>1. IInv => SafeLoops
  BY GoodImplies
<1> QED
  BY <1>1, AlwaysGood, PTL

\* Every bucket add_bucket has allocated is in one list, every string belongs
\* to one entry, and a delete leaves nothing but the strings of projet01's array.
THEOREM NothingLeaks == Spec => []NoLeak
<1>1. IInv => NoLeak
  BY GoodImplies
<1> QED
  BY <1>1, AlwaysGood, PTL

\* The list that get_Htable_content returns has one copy of every entry.
THEOREM CopiesAreComplete == Spec => []ContentIsTable
<1>1. IInv => ContentIsTable
  BY GoodImplies
<1> QED
  BY <1>1, AlwaysGood, PTL

-----------------------------------------------------------------------------
(* The callers see a map.                                                   *)

\* A key has one entry, so that the map has its value.
LEMMA MappedValue ==
  ASSUME NEW home \in [Slot -> First], NEW depth \in [Slot -> Nat],
         Good(home, depth), call.op # "delete"
  PROVE  /\ \A s \in Entries : key[s] \in Key /\ Mapped[key[s]] = val[s]
         /\ \A k \in Key : (\A s \in Entries : key[s] # k) => Mapped[k] = NULL
<1>1. \A s, t \in Entries : key[s] = key[t] => s = t
  BY DEF Good, Contents
<1>2. \A s \in Entries : key[s] \in Key
  BY EntriesFinite DEF Good, Types, Entries
<1>3. ASSUME NEW s \in Entries PROVE Mapped[key[s]] = val[s]
  <2>1. (CHOOSE t \in Entries : key[t] = key[s]) = s
    BY <1>1
  <2> QED
    BY <1>2, <2>1 DEF Mapped
<1>4. ASSUME NEW k \in Key, \A s \in Entries : key[s] # k PROVE Mapped[k] = NULL
  BY <1>4 DEF Mapped
<1> QED
  BY <1>2, <1>3, <1>4

\* What a filled bucket has is what the map has; an empty one means that the
\* key is in no bucket.
LEMMA FoundIsMapped ==
  ASSUME NEW home \in [Slot -> First], NEW depth \in [Slot -> Nat],
         Good(home, depth), call.op \in {"add", "get"}
  PROVE  /\ bucket \in Live /\ call.key \in Key
         /\ Found => bucket \in Entries /\ key[bucket] = call.key /\ Mapped[call.key] = val[bucket]
         /\ ~Filled => \A s \in Entries : key[s] # call.key
<1>1. bucket \in Live /\ bucket # NULL /\ home[bucket] = Hash[call.key] /\ call.key \in Key
  BY EntriesFinite, SlotFacts DEF Good, Position, Phases
<1>2. Found => bucket \in Entries /\ key[bucket] = call.key
  BY <1>1 DEF Found, Filled, Entries, Live
<1>3. Found => Mapped[call.key] = val[bucket]
  BY <1>2, MappedValue
<1>4. ASSUME ~Filled, NEW s \in Entries, key[s] = call.key PROVE FALSE
  <2>1. key[bucket] = NULL /\ tail[bucket] = NULL
    BY <1>1, <1>4 DEF Filled, Good, Contents
  <2>2. s \in Live /\ s # bucket /\ home[s] = home[bucket]
    BY <1>1, <1>4, <2>1 DEF Good, Contents, Entries, Live
  <2>3. ChainedIn(Live, home, depth)
    BY DEF Good, Chained, Kept
  <2>4. depth[s] <= depth[bucket] /\ depth[s] # depth[bucket]
    BY <1>1, <2>1, <2>2, <2>3 DEF ChainedIn
  <2>5. depth[s] < depth[bucket]
    BY <1>1, <2>2, <2>4, EntriesFinite DEF Good
  <2> QED
    BY <1>1, <1>4, <2>2, <2>5 DEF Good, Searched
<1> QED
  BY <1>1, <1>2, <1>3, <1>4

\* When no bucket changes, neither does the map.
LEMMA SameMap ==
  ASSUME UNCHANGED <<key, val, used>>, call.op # "delete", call'.op # "delete"
  PROVE  Mapped' = Mapped
BY DEF Mapped, Entries

\* The beginning of a call: add and get are asked, a delete clears the map.
LEMMA CallRefines ==
  ASSUME IInv, Next, ~Work
  PROVE  [Abstract!MNext]_Abstract!mvars
<1>1. CASE \E k \in Key : Get(k) \/ \E v \in Value : Add(k, v)
  <2>1. PICK k \in Key : Get(k) \/ \E v \in Value : Add(k, v)
    BY <1>1
  <2>2. /\ call.op = "idle" /\ UNCHANGED <<key, val, used>> /\ result' = result
        /\ Asked = NULL
    BY <2>1 DEF Get, Add, Begin, memory, Asked
  <2>3. CASE Get(k)
    <3>1. call' = [op |-> "get", key |-> k, val |-> NULL]
      BY <2>3 DEF Get, Begin
    <3>2. Mapped' = Mapped /\ Asked' = <<"get", k, NULL>>
      BY <2>2, <3>1, SameMap DEF Asked
    <3>3. Abstract!Ask(<<"get", k, NULL>>)
      BY <2>2, <3>2 DEF Abstract!Ask
    <3>4. <<"get", k, NULL>> \in Abstract!Calls
      BY DEF Abstract!Calls
    <3> QED
      BY <3>3, <3>4 DEF Abstract!MNext
  <2>4. ASSUME NEW v \in Value, Add(k, v) PROVE Abstract!MNext
    <3>1. call' = [op |-> "add", key |-> k, val |-> v]
      BY <2>4 DEF Add, Begin
    <3>2. Mapped' = Mapped /\ Asked' = <<"add", k, v>>
      BY <2>2, <3>1, SameMap DEF Asked
    <3>3. Abstract!Ask(<<"add", k, v>>)
      BY <2>2, <3>2 DEF Abstract!Ask
    <3>4. <<"add", k, v>> \in Abstract!Calls
      BY DEF Abstract!Calls
    <3> QED
      BY <3>3, <3>4 DEF Abstract!MNext
  <2> QED
    BY <2>1, <2>3, <2>4
<1>2. CASE Content
  <2>1. /\ call.op = "idle" /\ call'.op = "content"
        /\ UNCHANGED <<key, val, used>> /\ result' = result
    BY <1>2 DEF Content, Begin, memory
  <2>2. Mapped' = Mapped /\ Asked' = Asked
    BY <2>1, SameMap DEF Asked
  <2> QED
    BY <2>1, <2>2 DEF Abstract!mvars
<1>3. CASE Delete
  <2>1. call.op = "idle" /\ call'.op = "delete" /\ result' = result
    BY <1>3 DEF Delete, Begin, memory
  <2>2. Asked = NULL /\ Asked' = NULL /\ Mapped' = Abstract!Empty
    BY <2>1 DEF Asked, Mapped, Abstract!Empty
  <2>3. Abstract!Clear
    BY <2>1, <2>2 DEF Abstract!Clear
  <2> QED
    BY <2>3 DEF Abstract!MNext
<1> QED
  BY <1>1, <1>2, <1>3 DEF Next

\* A get answers what the map has.
LEMMA GetRefines ==
  ASSUME NEW home \in [Slot -> First], NEW depth \in [Slot -> Nat],
         Good(home, depth), GetFound \/ GetPointer \/ GetNothing
  PROVE  Abstract!MNext
<1>1. /\ call.op = "get" /\ UNCHANGED <<key, val, used>> /\ call'.op = "idle"
  BY DEF GetFound, GetPointer, GetNothing, Return, End, NoCall, memory
<1>2. call.key \in Key /\ call.val = NULL
  BY <1>1 DEF Good, Phases
<1>3. Mapped' = Mapped /\ Asked = <<"get", call.key, NULL>> /\ Asked' = NULL
  BY <1>1, <1>2, SameMap DEF Asked
<1>4. result' = Mapped[call.key] \/ (NoMem /\ result' = NULL)
  <2>1. CASE GetFound \/ GetPointer
    <3>1. Found /\ (result' = val[bucket] \/ (NoMem /\ result' = NULL))
      BY <2>1 DEF GetFound, GetPointer, Return
    <3> QED
      BY <1>1, <3>1, FoundIsMapped
  <2>2. CASE GetNothing
    <3>1. ~Filled /\ result' = NULL
      BY <2>2 DEF GetNothing, Return
    <3> QED
      BY <1>1, <1>2, <3>1, FoundIsMapped, MappedValue
  <2> QED
    BY <2>1, <2>2
<1>5. Abstract!Got(call.key)
  BY <1>3, <1>4 DEF Abstract!Got
<1> QED
  BY <1>2, <1>5 DEF Abstract!MNext

\* The pair of the call is in the bucket now, and all others are where they were.
LEMMA PairStored ==
  ASSUME NEW home \in [Slot -> First], NEW depth \in [Slot -> Nat],
         NEW h \in [Slot -> First], NEW d \in [Slot -> Nat],
         Good(home, depth), Good(h, d)',
         call.op = "add", call'.op = "idle",
         Entries' = Entries \cup {bucket},
         key'[bucket] = call.key, val'[bucket] = call.val,
         \A s \in Entries \ {bucket} :
           key[s] # call.key /\ key'[s] = key[s] /\ val'[s] = val[s],
         bucket \in Entries => key[bucket] = call.key
  PROVE  Mapped' = [Mapped EXCEPT ![call.key] = call.val]
<1>1. /\ \A s \in Entries : key[s] \in Key /\ Mapped[key[s]] = val[s]
      /\ \A k \in Key : (\A s \in Entries : key[s] # k) => Mapped[k] = NULL
  BY MappedValue
<1>2. \A s, t \in Entries' : key'[s] = key'[t] => s = t
  BY DEF Good, Contents
<1>3. ASSUME NEW s \in Entries', key'[s] \in Key PROVE Mapped'[key'[s]] = val'[s]
  <2>1. (CHOOSE t \in Entries' : key'[t] = key'[s]) = s
    BY <1>2
  <2> QED
    BY <1>3, <2>1 DEF Mapped
<1>4. ASSUME NEW k \in Key
      PROVE  Mapped'[k] = IF k = call.key THEN call.val ELSE Mapped[k]
  <2>1. CASE k = call.key
    BY <1>3, <2>1
  <2>2. CASE k # call.key /\ \E s \in Entries : key[s] = k
    <3>1. PICK s \in Entries : key[s] = k
      BY <2>2
    <3>2. s # bucket
      BY <2>2, <3>1
    <3>3. s \in Entries' /\ key'[s] = k /\ val'[s] = val[s]
      BY <3>1, <3>2
    <3>4. Mapped'[k] = val[s] /\ Mapped[k] = val[s]
      BY <1>1, <1>3, <3>1, <3>3
    <3> QED
      BY <2>2, <3>4
  <2>3. CASE k # call.key /\ \A s \in Entries : key[s] # k
    <3>1. \A s \in Entries' : key'[s] # k
      BY <2>3
    <3>2. Mapped'[k] = NULL
      BY <3>1 DEF Mapped
    <3> QED
      BY <1>1, <2>3, <3>2
  <2> QED
    BY <2>1, <2>2, <2>3
<1>5. /\ Mapped = [k \in Key |-> Mapped[k]]
      /\ Mapped' = [k \in Key |-> Mapped'[k]]
  BY DEF Mapped
<1> QED
  BY <1>4, <1>5

\* An add sets its key or runs out of memory.
LEMMA AddRefines ==
  ASSUME IInv, IInv', Same, Overwrite \/ AddBucket
  PROVE  Abstract!MNext
<1>1. PICK home \in [Slot -> First], depth \in [Slot -> Nat] : Good(home, depth)
  BY DEF IInv
<1>2. PICK h \in [Slot -> First], d \in [Slot -> Nat] : Good(h, d)'
  BY DEF IInv
<1>3. /\ call.op = "add" /\ call'.op = "idle"
  BY DEF Overwrite, AddBucket, Return, End, NoCall
<1>4. /\ call.key \in Key /\ call.val \in Value /\ call.key # NULL
      /\ key \in [Slot -> Key \cup {NULL}] /\ val \in [Slot -> Value \cup {NULL}]
  BY <1>1, <1>3, TableAssumption DEF Good, Phases, Types
<1>5. Asked = <<"add", call.key, call.val>> /\ Asked' = NULL
  BY <1>3 DEF Asked
<1>6. /\ bucket \in Live /\ Live \subseteq Slot /\ Entries \subseteq Slot
      /\ Found => bucket \in Entries /\ key[bucket] = call.key
      /\ ~Filled => \A s \in Entries : key[s] # call.key
  BY <1>1, <1>3, FoundIsMapped, EntriesFinite DEF Good
<1>7. CASE UNCHANGED <<key, val, used>> /\ result' = "ERR_NOMEM" /\ (NoMem \/ used = Cell)
  <2>1. Mapped' = Mapped
    BY <1>3, <1>7, SameMap
  <2>2. Abstract!NotAdded(call.key, call.val)
    BY <1>5, <1>7, <2>1 DEF Abstract!NotAdded
  <2> QED
    BY <1>4, <2>2 DEF Abstract!MNext
<1>8. CASE result' = "ERR_NONE" /\ Mapped' = [Mapped EXCEPT ![call.key] = call.val]
  <2>1. Abstract!Added(call.key, call.val)
    BY <1>5, <1>8 DEF Abstract!Added
  <2> QED
    BY <1>4, <2>1 DEF Abstract!MNext
<1>9. CASE Overwrite /\ val' = [val EXCEPT ![bucket] = call.val] /\ result' = "ERR_NONE"
  <2>1. Found /\ UNCHANGED <<key, used>>
    BY <1>9 DEF Overwrite
  <2>2. bucket \in Entries /\ key[bucket] = call.key /\ Entries' = Entries
    BY <1>6, <2>1 DEF Entries
  <2>3. val'[bucket] = call.val /\ \A s \in Entries \ {bucket} : val'[s] = val[s]
    BY <1>4, <1>6, <1>9
  <2>4. \A s \in Entries \ {bucket} : key[s] # call.key
    BY <1>1, <1>3, <2>2 DEF Good, Contents
  <2>5. Mapped' = [Mapped EXCEPT ![call.key] = call.val]
    BY <1>1, <1>2, <1>3, <2>1, <2>2, <2>3, <2>4, PairStored
  <2> QED
    BY <1>8, <1>9, <2>5
<1>10. ASSUME NEW c \in Cell \ used, key[bucket] = NULL,
              key' = [key EXCEPT ![bucket] = call.key, ![c] = NULL],
              val' = [val EXCEPT ![bucket] = call.val, ![c] = NULL],
              used' = used \cup {c}, result' = "ERR_NONE"
       PROVE  Abstract!MNext
  <2>1. c \in Slot /\ c \notin Live /\ c # bucket /\ Live' = Live \cup {c}
    BY <1>6, <1>10, SlotFacts, TableAssumption DEF Live
  <2>2. /\ \A s \in Live \ {bucket} : key'[s] = key[s] /\ val'[s] = val[s]
        /\ key'[bucket] = call.key /\ val'[bucket] = call.val /\ key'[c] = NULL
    BY <1>4, <1>6, <1>10, <2>1
  <2>3. Entries' = Entries \cup {bucket} /\ bucket \notin Entries /\ Entries \subseteq Live
    BY <1>4, <1>6, <1>10, <2>1, <2>2 DEF Entries, Live
  <2>4. \A s \in Entries : key[s] # call.key
    BY <1>6, <1>10 DEF Filled
  <2>5. Mapped' = [Mapped EXCEPT ![call.key] = call.val]
    BY <1>1, <1>2, <1>3, <2>2, <2>3, <2>4, PairStored
  <2> QED
    BY <1>8, <1>10, <2>5
<1>11. CASE Overwrite
  BY <1>7, <1>9, <1>11 DEF Overwrite, Return
<1>12. CASE AddBucket
  BY <1>7, <1>10, <1>12 DEF AddBucket, Return
<1> QED
  BY <1>11, <1>12

\* The other steps are invisible to the callers.
LEMMA OtherRefines ==
  ASSUME IInv, Work, ~(Overwrite \/ AddBucket), ~(GetFound \/ GetPointer \/ GetNothing)
  PROVE  UNCHANGED Abstract!mvars
<1>1. CASE Collision
  <2>1. call' = call /\ UNCHANGED <<key, val, used, result>> /\ call.op # "delete"
    BY <1>1 DEF Collision, memory
  <2> QED
    BY <2>1, SameMap DEF Abstract!mvars, Asked
<1>2. CASE CopyPair \/ ContentFails \/ FreeTwice \/ ListCopied
  <2>1. /\ call.op = "content" /\ call'.op \in {"content", "idle", "undefined"}
        /\ UNCHANGED <<key, val, used, result>>
    BY <1>2 DEF CopyPair, ContentFails, FreeTwice, ListCopied, NextList, End, NoCall, memory
  <2>2. Asked = NULL /\ Asked' = NULL
    BY <2>1 DEF Asked
  <2> QED
    BY <2>1, <2>2, SameMap DEF Abstract!mvars
<1>3. CASE FreePair \/ ListFreed
  <2>1. call.op = "delete" /\ call' = call /\ result' = result
    BY <1>3 DEF FreePair, ListFreed, NextList
  <2> QED
    BY <2>1 DEF Abstract!mvars, Asked, Mapped
<1>4. CASE ArrayFreed
  <2>1. call.op = "delete" /\ call'.op = "gone" /\ result' = result /\ key' = [s \in Slot |-> NULL]
    BY <1>4 DEF ArrayFreed, End, NoCall
  <2>2. used' = used /\ used \subseteq Slot
    BY <1>4, SlotFacts DEF ArrayFreed, IInv, Good, Types
  <2>3. Entries' = {}
    BY <2>1, <2>2, SlotFacts DEF Entries
  <2> QED
    BY <2>1, <2>3 DEF Abstract!mvars, Asked, Mapped
<1> QED
  BY <1>1, <1>2, <1>3, <1>4 DEF Work

\* Every step is a step of HashMap or is invisible.
LEMMA StepRefines ==
  ASSUME IInv, IInv', [Next]_vars
  PROVE  [Abstract!MNext]_Abstract!mvars
<1>1. CASE UNCHANGED vars
  BY <1>1 DEF vars, memory, Abstract!mvars, Mapped, Asked, Entries
<1>2. CASE Next /\ ~Work
  BY <1>2, CallRefines
<1>3. CASE Same /\ (Overwrite \/ AddBucket)
  BY <1>3, AddRefines
<1>4. CASE Work /\ (GetFound \/ GetPointer \/ GetNothing)
  BY <1>4, GetRefines DEF IInv
<1>5. CASE Work /\ ~(Overwrite \/ AddBucket) /\ ~(GetFound \/ GetPointer \/ GetNothing)
  BY <1>5, OtherRefines
<1> QED
  BY <1>1, <1>2, <1>3, <1>4, <1>5 DEF Next

\* The callers of hashtable.h see a map: an add that answers ERR_NONE has set
\* the value of its key and of no other, one that answers ERR_NOMEM has changed
\* nothing, and a get answers what the map has, in whichever bucket the search
\* of add_Htable_value and get_Htable_value finds it.
THEOREM TableIsMap == Spec => ImplementsMap
<1>1. Init => Abstract!MInit
  <2> SUFFICES ASSUME Init PROVE Abstract!MInit
    OBVIOUS
  <2>3. Entries = {} /\ result = NULL /\ call.op = "idle"
    BY SlotFacts DEF Init, Entries, NoCall
  <2> QED
    BY <2>3 DEF Abstract!MInit, Abstract!Empty, Mapped, Asked
<1>2. IInv /\ IInv' /\ [Next]_vars => [Abstract!MNext]_Abstract!mvars
  BY StepRefines
<1> QED
  BY <1>1, <1>2, AlwaysGood, PTL DEF Spec, ImplementsMap, Abstract!MSpec
=============================================================================
