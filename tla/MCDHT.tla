------------------------------- MODULE MCDHT -------------------------------
(* Small instances of DHT for TLC.                                          *)
EXTENDS DHT, TLC

CONSTANTS s1, s2, s3, c1, c2, c3, c4, k1, k2, e, v, w

PutOf(k, x) == [type |-> "put", key |-> k, val |-> x]
GetOf(k) == [type |-> "get", key |-> k, val |-> NoValue]

\* As many servers as a key has nodes: every key is everywhere.
Everywhere == [k \in Key |-> Server]

\* A put that may fail half-way, and two gets.
PutGetGet == {c1 :> PutOf(k1, v) @@ c2 :> GetOf(k1) @@ c3 :> GetOf(k1)}

\* Two puts that race, and two gets.
PutPutGetGet ==
  {c1 :> PutOf(k1, v) @@ c2 :> PutOf(k1, w) @@ c3 :> GetOf(k1) @@ c4 :> GetOf(k1)}

AnyPlan == [Call -> Operation]

\* Servers are interchangeable; so are two puts together with their values.
SwapPuts == c1 :> c2 @@ c2 :> c1 @@ v :> w @@ w :> v
SwapGets == c3 :> c4 @@ c4 :> c3
Servers == Permutations(Server)
ServersAndCalls == Servers \cup {SwapPuts, SwapGets}
=============================================================================
