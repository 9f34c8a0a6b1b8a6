----------------------------- MODULE Register -----------------------------
(***************************************************************************)
(* What the store promises its clients, without servers or datagrams: one  *)
(* register per key.  A put that begins makes the register of its key      *)
(* unsettled; a put that succeeds may settle it.  A get that begins while  *)
(* the register is settled returns what it holds, or fails, unless another *)
(* put begins first; without such a promise a get may return anything.     *)
(***************************************************************************)
CONSTANTS Key, Value, Call, Nothing

VARIABLES
  key,       \* key[c]: the key call c is about
  register,  \* register[k]: the settled value of k, or Nothing
  promise,   \* promise[g]: what the get g returns if it succeeds, or Nothing
  result     \* result[g]: what the get g has returned, or Nothing

rvars == <<key, register, promise, result>>

RInit ==
  /\ key \in [Call -> Key]
  /\ register = [k \in Key |-> Nothing]
  /\ promise = [c \in Call |-> Nothing]
  /\ result = [c \in Call |-> Nothing]

BeginPut(k) ==
  /\ register' = [register EXCEPT ![k] = Nothing]
  /\ promise' = [c \in Call |-> IF key[c] = k THEN Nothing ELSE promise[c]]
  /\ UNCHANGED <<key, result>>

Settle(k, v) ==
  /\ register[k] = Nothing
  /\ register' = [register EXCEPT ![k] = v]
  /\ UNCHANGED <<key, promise, result>>

BeginGet(c) ==
  /\ promise' = [promise EXCEPT ![c] = register[key[c]]]
  /\ UNCHANGED <<key, register, result>>

EndGet(c, v) ==
  /\ result[c] = Nothing
  /\ promise[c] \in {v, Nothing}
  /\ result' = [result EXCEPT ![c] = v]
  /\ UNCHANGED <<key, register, promise>>

RNext ==
  \/ \E k \in Key : BeginPut(k)
  \/ \E k \in Key, v \in Value : Settle(k, v)
  \/ \E c \in Call : BeginGet(c)
  \/ \E c \in Call, v \in Value : EndGet(c, v)

RSpec == RInit /\ [][RNext]_rvars
=============================================================================
