------------------------------- MODULE Htable -------------------------------
(***************************************************************************)
(* The hash table of hashtable.c: an array of buckets, each the first of a *)
(* linked list whose last bucket is empty.  The loops over a list advance  *)
(* one bucket per step; every malloc, calloc, realloc and strdup may fail. *)
(*                                                                         *)
(* The server keeps its entries in such a table, and network_get counts    *)
(* its votes in one.  The submissions have the same lists, but projet01    *)
(* does not copy the values it returns, has no get_Htable_content and      *)
(* forgets the pairs in the array when it frees the lists, and projet02    *)
(* frees a copy twice.                                                     *)
(***************************************************************************)
EXTENDS Release, Integers, Sequences, FiniteSets

CONSTANTS
  Key, Value,  \* the strings in use
  Size,        \* the number of lists
  Hash,        \* Hash[k] is hash_function(k, Size)
  Cell,        \* the heap: the buckets malloc can return
  NULL

First == 0..(Size - 1)
Slot == First \cup Cell

ASSUME TableAssumption ==
  /\ Size \in Nat \ {0}
  /\ Hash \in [Key -> First]
  /\ NULL \notin Key \cup Value \cup Slot
  /\ Cell \cap First = {} /\ IsFiniteSet(Cell)

VARIABLES
  key, val,  \* the pair of a bucket; NULL in the empty bucket of a list
  tail,      \* the next bucket
  used,      \* the cells that are allocated
  strings,   \* the number of strings the pairs of the table own
  call,      \* the call in progress and its parameters
  index,     \* the variable `i' of a loop over the array
  bucket,    \* the variable `bucket' of a loop over a list
  result,    \* what the last add or get has returned
  list       \* the copy get_Htable_content makes; NULL if there is none

memory == <<key, val, tail, used, strings>>
vars == <<release, faults, memory, call, index, bucket, result, list>>

NoMem == May("nomem")

Ops == {"idle", "add", "get", "content", "delete", "gone", "undefined"}

\* An entry is copied to a list; without memory a part of the copy is NULL.
Copies(s) ==
  LET orNull(x) == IF NoMem THEN {x, NULL} ELSE {x}
  IN  orNull(key[s]) \X orNull(val[s])

\* The shape of the state: the loops over the array stay inside it, and every
\* string of an entry is owned once.
TypeOK ==
  /\ key \in [Slot -> Key \cup {NULL}]
  /\ val \in [Slot -> Value \cup {NULL}]
  /\ tail \in [Slot -> Cell \cup {NULL}]
  /\ used \subseteq Cell
  /\ strings \in 0..(2 * Cardinality(Slot))
  /\ call \in [op : Ops, key : Key \cup {NULL}, val : Value \cup {NULL}]
  /\ index \in First
  /\ bucket \in Slot \cup {NULL}
  /\ result \in Value \cup {NULL, "ERR_NONE", "ERR_NOMEM"}
  /\ list = NULL \/ list \in Seq((Key \cup {NULL}) \X (Value \cup {NULL}))

NoCall(op) == [op |-> op, key |-> NULL, val |-> NULL]

\* construct_Htable: calloc makes every list its empty bucket.
Init ==
  /\ ReleaseInit
  /\ key = [s \in Slot |-> NULL]
  /\ val = [s \in Slot |-> NULL]
  /\ tail = [s \in Slot |-> NULL]
  /\ used = {} /\ strings = 0
  /\ call = NoCall("idle")
  /\ index = 0 /\ bucket = NULL
  /\ result = NULL /\ list = NULL

Begin(op, k, v, first, copy) ==
  /\ call.op = "idle"
  /\ call' = [op |-> op, key |-> k, val |-> v]
  /\ index' = 0 /\ bucket' = first /\ list' = copy
  /\ UNCHANGED <<memory, result>>

\* The call is over, or the table is gone, or the program is undefined from here.
End(op) == call' = NoCall(op) /\ index' = 0 /\ bucket' = NULL

Return(r) == End("idle") /\ result' = r /\ UNCHANGED list

-----------------------------------------------------------------------------
(* add_Htable_value and get_Htable_value.                                   *)

Add(k, v) == Begin("add", k, v, Hash[k], NULL)
Get(k) == Begin("get", k, NULL, Hash[k], NULL)

Filled == bucket # NULL /\ key[bucket] # NULL

\* Variant: the indices are compared, not the keys.
FoundByHash == Filled /\ call.key # NULL /\ Hash[key[bucket]] = Hash[call.key]

Found == Filled /\ key[bucket] = call.key

\* Variant: the loop does not advance.
SameBucket == bucket

NextBucket == tail[bucket]

\* A collision: the loop goes on with the next bucket of the list.
Collision ==
  /\ call.op \in {"add", "get"} /\ Filled /\ ~Found
  /\ bucket' = NextBucket
  /\ UNCHANGED <<memory, call, index, result, list>>

\* The key is there: the new value is copied before the old one is freed.
Overwrite ==
  /\ call.op = "add" /\ Found
  /\ \/ val' = [val EXCEPT ![bucket] = call.val] /\ Return("ERR_NONE")
     \/ NoMem /\ UNCHANGED val /\ Return("ERR_NOMEM")
  /\ UNCHANGED <<key, tail, used, strings>>

\* Variant: the empty bucket c is not linked to the list.
Unlinked(s, c) == [tail EXCEPT ![c] = NULL]

Linked(s, c) == [tail EXCEPT ![s] = c, ![c] = NULL]

\* add_bucket: the empty bucket gets the pair, and a new one is put behind it.
\* When malloc or strdup fails, the cell and the copies are freed and the tail
\* is NULL again.
AddBucket ==
  /\ call.op = "add" /\ bucket # NULL /\ key[bucket] = NULL
  /\ \/ \E c \in Cell \ used :
          /\ key' = [key EXCEPT ![bucket] = call.key, ![c] = NULL]
          /\ val' = [val EXCEPT ![bucket] = call.val, ![c] = NULL]
          /\ tail' = Linked(bucket, c)
          /\ used' = used \cup {c}
          /\ strings' = strings + 2
          /\ Return("ERR_NONE")
     \/ /\ NoMem \/ used = Cell
        /\ tail' = [tail EXCEPT ![bucket] = NULL]
        /\ UNCHANGED <<key, val, used, strings>>
        /\ Return("ERR_NOMEM")

\* A copy of the value, or NULL if there is no memory for it.
GetFound ==
  /\ release # "projet01" /\ call.op = "get" /\ Found
  /\ Return(val[bucket]) \/ (NoMem /\ Return(NULL))
  /\ UNCHANGED memory

\* projet01 returns the value itself.
GetPointer ==
  /\ release = "projet01" /\ call.op = "get" /\ Found
  /\ Return(val[bucket])
  /\ UNCHANGED memory

GetNothing ==
  /\ call.op = "get" /\ ~Filled
  /\ Return(NULL)
  /\ UNCHANGED memory

-----------------------------------------------------------------------------
(* get_Htable_content.                                                      *)

Content == release # "projet01" /\ Begin("content", NULL, NULL, 0, <<>>)

\* realloc, then copy_pair, which does not notice that a strdup has failed.
CopyPair ==
  /\ call.op = "content" /\ Filled
  /\ \E pair \in Copies(bucket) : list' = Append(list, pair)
  /\ bucket' = NextBucket
  /\ UNCHANGED <<memory, call, index, result>>

\* malloc has failed, before the first bucket, or realloc has, and the copies
\* are freed: NULL is returned.
ContentFails ==
  /\ NoMem /\ call.op = "content" /\ (bucket = 0 \/ (Final /\ Filled))
  /\ list' = NULL
  /\ End("idle")
  /\ UNCHANGED <<memory, result>>

\* projet02 frees the list a second time when realloc has failed.
FreeTwice ==
  /\ NoMem /\ release = "projet02" /\ call.op = "content" /\ Filled
  /\ list' = NULL
  /\ End("idle") \/ End("undefined")
  /\ UNCHANGED <<memory, result>>

\* Variant with an error of one in the loop over the array.
AnIndexLess == index + 2 < Size

AnIndexLeft == index + 1 < Size

\* Variant: the body of the loop advances the index as well.
NextListTwice(b) == index' = index + 2 /\ bucket' = b /\ UNCHANGED call

\* The loop goes on with the bucket b of the next list.
NextList(b) == index' = index + 1 /\ bucket' = b /\ UNCHANGED call

ListCopied ==
  /\ call.op = "content" /\ bucket # NULL /\ ~Filled
  /\ IF AnIndexLeft THEN NextList(index + 1) ELSE End("idle")
  /\ UNCHANGED <<memory, result, list>>

-----------------------------------------------------------------------------
(* delete_Htable_and_content, with free_bucket for each list.               *)

\* projet01 begins behind the bucket that is in the array.
FirstFreed(i) == IF release = "projet01" THEN tail[i] ELSE i

Delete == Begin("delete", NULL, NULL, FirstFreed(0), NULL)

\* Variant: only the first bucket of a list is looked at.
FirstOnly(s) == NULL

\* The list is left at the NULL behind its last bucket.
RestOfList(s) == tail[s]

\* The pair is freed, and the bucket too unless it is in the array.
FreePair ==
  /\ call.op = "delete" /\ bucket # NULL
  /\ key' = [key EXCEPT ![bucket] = NULL]
  /\ val' = [val EXCEPT ![bucket] = NULL]
  /\ tail' = [tail EXCEPT ![bucket] = NULL]
  /\ used' = used \ {bucket}
  /\ strings' = IF Filled THEN strings - 2 ELSE strings
  /\ bucket' = RestOfList(bucket)
  /\ UNCHANGED <<call, index, result, list>>

ListFreed ==
  /\ call.op = "delete" /\ bucket = NULL /\ AnIndexLeft
  /\ NextList(FirstFreed(index + 1))
  /\ UNCHANGED <<memory, result, list>>

\* The array is freed, with the pairs it still has in projet01: their strings
\* are lost.
ArrayFreed ==
  /\ call.op = "delete" /\ bucket = NULL /\ ~AnIndexLeft
  /\ key' = [s \in Slot |-> NULL]
  /\ val' = [s \in Slot |-> NULL]
  /\ tail' = [s \in Slot |-> NULL]
  /\ End("gone")
  /\ UNCHANGED <<used, strings, result, list>>

-----------------------------------------------------------------------------

Work ==
  \/ Collision \/ Overwrite \/ AddBucket
  \/ GetFound \/ GetPointer \/ GetNothing
  \/ CopyPair \/ ContentFails \/ FreeTwice \/ ListCopied
  \/ FreePair \/ ListFreed \/ ArrayFreed

Next ==
  /\ \/ \E k \in Key : Get(k) \/ \E v \in Value : Add(k, v)
     \/ Content \/ Delete
     \/ Work
  /\ Same

Spec == Init /\ [][Next]_vars

\* A call that has begun is executed to its end.
FairSpec == Spec /\ WF_vars(Work /\ Same)

-----------------------------------------------------------------------------
(* Properties.                                                              *)

Entries == {s \in First \cup used : key[s] # NULL}

\* Every pointer a loop holds is NULL or points to a bucket that is allocated,
\* and the loops that do not test for NULL never meet it: a list always ends
\* with an empty bucket, after whatever allocations have failed.
SafeLoops ==
  /\ bucket \in First \cup used \cup {NULL}
  /\ call.op \in {"add", "content"} => bucket # NULL

\* Every allocated bucket is in exactly one list, and the strings that are
\* allocated are those of the entries: nothing leaks in add, whichever of its
\* allocations fails, and nothing is left when the table is deleted, but what
\* projet01 forgets: the pairs of the array.
NoLeak ==
  call.op # "delete" =>
    /\ \A c \in used : Cardinality({s \in First \cup used : tail[s] = c}) = 1
    /\ IF release = "projet01" /\ call.op = "gone"
       THEN strings <= 2 * Size
       ELSE strings = 2 * Cardinality(Entries)
    /\ call.op = "gone" => used = {} /\ Entries = {}

\* A list that get_Htable_content has returned has one copy of every entry.
ContentIsTable ==
  call.op = "idle" /\ list # NULL =>
    /\ Len(list) = Cardinality(Entries)
    /\ \A s \in Entries : \E j \in 1..Len(list) : list[j] \in Copies(s)

\* The callers see a map: an entry is found in whichever bucket it is.
Mapped ==
  [k \in Key |->
     IF call.op # "delete" /\ \E s \in Entries : key[s] = k
     THEN val[CHOOSE s \in Entries : key[s] = k]
     ELSE NULL]

Asked == IF call.op \in {"add", "get"} THEN <<call.op, call.key, call.val>> ELSE NULL

Abstract == INSTANCE HashMap WITH
  scarce <- NoMem \/ used = Cell, map <- Mapped, asked <- Asked, answer <- result

ImplementsMap == Abstract!MSpec

\* Every call returns: the lists have no cycle.  Only the second free of
\* projet02 leaves what follows undefined.
CallsEnd ==
  call.op \notin {"idle", "gone"} ~>
    \/ call.op \in {"idle", "gone"}
    \/ release = "projet02" /\ call.op = "undefined"
=============================================================================
