------------------------------ MODULE Clients -------------------------------
(***************************************************************************)
(* The command line clients pps-client-put, -get, -cat, -find and -substr: *)
(* sequences of network_get and network_put over a store that holds one    *)
(* value per key, while other clients put.  A call may fail; a put that    *)
(* fails may have reached the servers.  Values are strings of letters,     *)
(* and lengths are computed in words that wrap around.                     *)
(***************************************************************************)
EXTENDS Release, Config, Integers, Sequences, SequencesExt

CONSTANTS
  Letter,      \* the characters in use
  Word,        \* SIZE_MAX + 1
  MaxInt,      \* INT_MAX
  Stored,      \* the values that are put
  Stores,      \* what the store holds at first
  Absent,      \* no value
  Numbers,     \* the positions and lengths given to substr
  CommandLines \* the commands and their arguments

\* client_init leaves a program as many arguments as it has asked for; pps-client-cat
\* takes any number.
ASSUME ClientAssumption ==
  /\ Junk \notin Letter
  /\ MaxInt \in Nat /\ Word \in Nat /\ 2 * MaxInt < Word /\ MaxMsg <= MaxInt
  /\ Stored \subseteq Seq(Letter) /\ Stores \subseteq [Key -> Stored \cup {Absent}]
  /\ \A s \in Stores, k \in Key : s[k] = Absent \/ KeyLength[k] + 1 + Len(s[k]) <= MaxMsg
  /\ CommandLines \subseteq {"put", "get"} \X [1..1 -> Key] \cup
                          {"find", "substr"} \X [1..2 -> Key] \cup {"cat"} \X Seq(Key)
  /\ Numbers \subseteq -(Word \div 2)..MaxInt

VARIABLES
  store,    \* what the servers hold
  command,  \* the client that runs
  argv,     \* its arguments that are left
  numbers,  \* position and length of substr; the index that find prints
  got,      \* the values read, or what cat has put together
  output,   \* what is printed; "running" while the client runs
  held,     \* (history) held[k]: what the store has held before the client puts
  asked     \* (history) the arguments

clientVars == <<store, command, argv, numbers, got, output, held, asked>>

Text == Seq(Letter \cup {Junk})

\* The shape of the state: no value is longer than a message.
ClientTypeOK ==
  /\ \A k \in Key : store[k] = Absent \/ (store[k] \in Text /\ Len(store[k]) <= MaxMsg)
  /\ command \in {"put", "get", "cat", "find", "substr"}
  /\ argv \in Seq(Key)
  /\ \A i \in DOMAIN got : got[i] \in Text /\ Len(got[i]) <= MaxMsg
  /\ numbers \in (Numbers \X Numbers) \cup ((-1..MaxMsg) \X {0})
  /\ output \in {"running", "OK", "FAIL", "crash"}

ClientInit ==
  /\ store \in Stores
  /\ held = [k \in Key |-> {store[k]}]
  /\ \E line \in CommandLines : command = line[1] /\ argv = line[2]
  /\ numbers \in IF command = "substr" THEN Numbers \X Numbers ELSE {<<0, 0>>}
  /\ got = <<>> /\ output = "running"
  /\ asked = argv

-----------------------------------------------------------------------------
(* The calls.                                                               *)

\* Variant: the name of the key is forgotten.
FitsAlone(k, v) == Len(v) <= MaxMsg

\* A datagram has room for the key, its end and the value.
FitsMessage(k, v) == KeyLength[k] + 1 + Len(v) <= MaxMsg

\* What network_get of k may return.  Servers answer a get of "" as a ping, with
\* an empty datagram.
Answers(k) == IF KeyLength[k] = 0 THEN {<<>>} ELSE {store[k]} \ {Absent}

\* network_put and what is printed; a put that fails may have been executed.  (The
\* quorum W is 1 at least: with the zero that projet02 lets pass, a put succeeds
\* even if no server has stored it.  Submissions has such puts.)
PutAndPrint(k, v) ==
  /\ \/ /\ FitsMessage(k, v)
        /\ store' = [store EXCEPT ![k] = v]
        /\ output' \in {"OK", "FAIL"}
     \/ output' = "FAIL" /\ UNCHANGED store
  /\ UNCHANGED held

Quit(text) == output' = text /\ UNCHANGED <<store, held>>

Fail == Quit("FAIL") /\ UNCHANGED <<command, argv, numbers, got, asked>>

Running(name) == command = name /\ output = "running"

\* The value of the next argument is read.
ReadNext ==
  /\ argv # <<>>
  /\ \E v \in Answers(Head(argv)) : got' = Append(got, v)
  /\ argv' = Tail(argv)
  /\ UNCHANGED <<store, command, numbers, output, held, asked>>

\* Another client puts a value.  Bound: one such put, on a key that is used.
OtherPut(k, v) ==
  /\ output = "running" /\ k \in ToSet(asked) /\ FitsMessage(k, v)
  /\ \A j \in Key : held[j] = {store[j]}
  /\ store' = [store EXCEPT ![k] = v]
  /\ held' = [held EXCEPT ![k] = @ \cup {v}]
  /\ UNCHANGED <<command, argv, numbers, got, output, asked>>

-----------------------------------------------------------------------------
(* pps-client-put and pps-client-get.                                       *)

PutClient ==
  /\ Running("put")
  /\ \E v \in Stored : PutAndPrint(argv[1], v)
  /\ UNCHANGED <<command, argv, numbers, got, asked>>

GetClient ==
  /\ Running("get")
  /\ \/ got = <<>> /\ (ReadNext \/ Fail)
     \/ got # <<>> /\ Quit("OK") /\ UNCHANGED <<command, argv, numbers, got, asked>>

-----------------------------------------------------------------------------
(* pps-client-cat.                                                          *)

\* Variant: as long as it comes.
NotCut(s, t) == s \o t

\* strncat up to MAX_MSG_SIZE characters.
Joined(s, t) == LET u == s \o t IN SubSeq(u, 1, IF Len(u) < MaxMsg THEN Len(u) ELSE MaxMsg)

Joint == IF got = <<>> THEN <<>> ELSE got[1]

OneLeft == Len(argv) <= 1

CatGet ==
  /\ Running("cat") /\ ~OneLeft
  /\ \E v \in Answers(Head(argv)) : got' = <<Joined(Joint, v)>>
  /\ argv' = Tail(argv)
  /\ UNCHANGED <<store, command, numbers, output, held, asked>>

\* A get that fails empties the text and ends the loop.
CatFails == Running("cat") /\ ~OneLeft /\ Fail

CatPut ==
  /\ Running("cat") /\ OneLeft
  /\ IF Joint # <<>> /\ KeyLength[argv[1]] # 0 THEN PutAndPrint(argv[1], Joint) ELSE Quit("FAIL")
  /\ UNCHANGED <<command, argv, numbers, got, asked>>

-----------------------------------------------------------------------------
(* pps-client-find.                                                         *)

OccursAt(v, sub, i) == i + Len(sub) <= Len(v) /\ SubSeq(v, i + 1, i + Len(sub)) = sub

Occurrences(v, sub) == {i \in 0..Len(v) : OccursAt(v, sub, i)}

\* Variant: the last occurrence.
StrRStr(v, sub) ==
  IF Occurrences(v, sub) = {} THEN -1
  ELSE CHOOSE i \in Occurrences(v, sub) : \A j \in Occurrences(v, sub) : i >= j

\* strstr, as an index; -1 when there is none.
StrStr(v, sub) ==
  IF Occurrences(v, sub) = {} THEN -1
  ELSE CHOOSE i \in Occurrences(v, sub) : \A j \in Occurrences(v, sub) : i <= j

FindClient ==
  /\ Running("find")
  /\ \/ argv # <<>> /\ (ReadNext \/ Fail)
     \/ /\ Len(got) = 2
        /\ numbers' = <<StrStr(got[1], got[2]), 0>>
        /\ Quit("OK")
        /\ UNCHANGED <<command, argv, got, asked>>

-----------------------------------------------------------------------------
(* pps-client-substr.                                                       *)

\* The position is read as ssize_t; the length as an int that is refused when it is
\* negative, or, in projet02, as size_t.
Position(v) == (IF numbers[1] < 0 THEN Len(v) + numbers[1] ELSE numbers[1]) % Word
Count == numbers[2] % Word

\* Variant: an error of one.
BeyondByOne(v) == (Position(v) + Count) % Word > Len(v) + 1

\* position + length > val_len
Beyond(v) == (Position(v) + Count) % Word > Len(v)

\* strncpy(new_value, &val[position], length): characters outside the value are
\* whatever is there, and so is what follows them, up to a zero byte.
Slice(v) ==
  LET start == IF Position(v) <= Len(v) THEN Position(v) ELSE Position(v) - Word
      inside(i) == start + i \in DOMAIN v
  IN  [i \in 1..Count |-> IF inside(i) THEN v[start + i] ELSE Junk]

Texts(v) ==
  LET slice == Slice(v)
  IN  {slice, Append(slice, Junk)} \cup (IF Junk \in ToSet(slice) THEN {<<>>} ELSE {})

BadLength == Final /\ numbers[2] < 0

SubstrClient ==
  /\ Running("substr")
  /\ \/ ~BadLength /\ got = <<>> /\ ReadNext
     \/ got = <<>> /\ Fail
     \/ /\ got # <<>>
        /\ IF Beyond(got[1]) THEN Quit("FAIL")
           ELSE IF Count > MaxMsg THEN Quit("crash")
           ELSE \E text \in Texts(got[1]) : PutAndPrint(argv[1], text)
        /\ UNCHANGED <<command, argv, numbers, got, asked>>

ClientWork ==
  \/ PutClient \/ GetClient
  \/ CatGet \/ CatFails \/ CatPut
  \/ FindClient \/ SubstrClient

ClientNext == ClientWork \/ \E k \in Key, v \in Stored : OtherPut(k, v)

-----------------------------------------------------------------------------
(* Properties.                                                              *)

Held(k) == IF KeyLength[k] = 0 THEN {<<>>} ELSE held[k] \ {Absent}

Put == store[Last(asked)]

\* When cat has printed OK, the destination holds the concatenation of values that
\* the sources held while cat ran, and all of it: a text that cat has cut at
\* MAX_MSG_SIZE never fits into the message of the put.  (The values need not have
\* been there at the same moment, unless nobody else put.)
CatIsConcatenation ==
  command = "cat" /\ output = "OK" =>
    \E f \in [1..(Len(asked) - 1) -> UNION {Held(k) : k \in Key}] :
      /\ \A i \in DOMAIN f : f[i] \in Held(asked[i])
      /\ Put = FlattenSeq(f)

\* What find prints is where the second value begins in the first, and no smaller
\* index would do; both values were held while find ran.
FindIsFirst ==
  LET begins(s, v, i) == IsPrefix(s, SubSeq(v, i + 1, Len(v)))
  IN  command = "find" /\ output = "OK" =>
        \E v \in Held(asked[1]), s \in Held(asked[2]) :
          LET before == IF numbers[1] = -1 THEN Len(v) + 1 ELSE numbers[1]
          IN  /\ \A i \in 0..(before - 1) : ~begins(s, v, i)
              /\ numbers[1] # -1 => begins(s, v, numbers[1])

\* When the position is not before the start of the value, substr does not leave the
\* value: it fails, or the destination begins with the characters asked for.  (They
\* are followed by what was in memory, and a position before the start may pass the
\* test when the sum wraps around.)
SubstrIsSlice ==
  LET start(v) == IF numbers[1] < 0 THEN Len(v) + numbers[1] ELSE numbers[1]
  IN  (command = "substr" /\ Final /\ \A v \in Held(asked[1]) : start(v) >= 0) =>
        /\ output # "crash"
        /\ output = "OK" =>
             \E v \in Held(asked[1]) :
               /\ start(v) + numbers[2] <= Len(v)
               /\ IsPrefix(SubSeq(v, start(v) + 1, start(v) + numbers[2]), Put)
=============================================================================
