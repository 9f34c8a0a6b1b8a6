------------------------------ MODULE HashMap ------------------------------
(***************************************************************************)
(* What hashtable.h promises its callers: a map from keys to values, one   *)
(* call at a time.  While memory is scarce, a call may run out of it: then *)
(* add changes nothing and says so, and get answers as if the key were     *)
(* absent.  With enough memory every add takes effect and every get        *)
(* answers what is there.                                                  *)
(***************************************************************************)
CONSTANTS Key, Value, NULL

VARIABLES
  scarce,  \* (input) whether memory may run out
  map,     \* map[k]: the value of k, or NULL
  asked,   \* the call in progress, or NULL
  answer   \* what the last call has returned

mvars == <<map, asked, answer>>

Empty == [k \in Key |-> NULL]

Calls == ({"add"} \X Key \X Value) \cup ({"get"} \X Key \X {NULL})

MInit == map = Empty /\ asked = NULL /\ answer = NULL

Ask(c) ==
  /\ asked = NULL
  /\ asked' = c
  /\ UNCHANGED <<map, answer>>

Added(k, v) ==
  /\ asked = <<"add", k, v>>
  /\ map' = [map EXCEPT ![k] = v]
  /\ answer' = "ERR_NONE"
  /\ asked' = NULL

NotAdded(k, v) ==
  /\ scarce
  /\ asked = <<"add", k, v>>
  /\ answer' = "ERR_NOMEM"
  /\ asked' = NULL
  /\ UNCHANGED map

Got(k) ==
  /\ asked = <<"get", k, NULL>>
  /\ answer' = map[k] \/ (scarce /\ answer' = NULL)
  /\ asked' = NULL
  /\ UNCHANGED map

Clear ==
  /\ asked = NULL
  /\ map' = Empty
  /\ UNCHANGED <<asked, answer>>

MNext ==
  \/ \E c \in Calls : Ask(c)
  \/ \E k \in Key, v \in Value : Added(k, v) \/ NotAdded(k, v)
  \/ \E k \in Key : Got(k)
  \/ Clear

MSpec == MInit /\ [][MNext]_mvars
=============================================================================
