------------------------------ MODULE MCHtable ------------------------------
(* A table of two lists for TLC: k1 and k2 collide, k3 is in a list alone.  *)
EXTENDS Htable, TLC

CONSTANTS k1, k2, k3, v, w

Memory == {{}, {"nomem"}}

TwoLists == k1 :> 0 @@ k2 :> 0 @@ k3 :> 1
=============================================================================
