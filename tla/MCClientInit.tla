---------------------------- MODULE MCClientInit ----------------------------
(* Small instances of ClientInit for TLC.                                   *)
EXTENDS ClientInit, TLC

CONSTANTS ha, hb, hc,          \* addresses
          low, same, middle, high  \* keys

\* The nodes of ha, hb and hc alternate on the ring: ha 1, hb 1, ha 2, hc 1, hb 2, hc 2.
Alternate ==
  <<ha, 1>> :> <<10, 7>> @@ <<hb, 1>> :> <<10, 9>> @@ <<ha, 2>> :> <<20, 1>> @@
  <<hc, 1>> :> <<30, 5>> @@ <<hb, 2>> :> <<200, 3>> @@ <<hc, 2>> :> <<200, 4>>

\* Before every node, at a node, between two nodes, after every node.
KeysAround ==
  low :> <<1, 255>> @@ same :> <<20, 1>> @@ middle :> <<30, 6>> @@ high :> <<200, 200>>

\* SHA1 digests that have a zero byte.
WithZeros ==
  [Alternate EXCEPT ![<<hb, 1>>] = <<0, 9>>, ![<<hc, 1>>] = <<0, 4>>]

OneEach(x, y, z) == [lines |-> <<<<x, 1>>, <<y, 1>>, <<z, 1>>>>, newline |-> TRUE]
Holding(l, n) == [lines |-> l, newline |-> n]

\* Each line another server: in several orders, with one node or two.
GoodFiles ==
  {OneEach(ha, hb, hc), OneEach(hc, ha, hb),
   Holding(<<<<ha, 2>>, <<hb, 2>>, <<hc, 2>>>>, TRUE),
   Holding(<<<<hc, 2>>, <<hb, 1>>, <<ha, 2>>>>, TRUE),
   Holding(<<<<hb, 2>>, <<ha, 1>>>>, TRUE),
   Holding(<<<<ha, 1>>>>, TRUE)}

\* No newline at the end, a server twice, no nodes, nothing.
OddFiles ==
  {Holding(<<<<ha, 1>>, <<hb, 1>>, <<hc, 1>>>>, FALSE),
   Holding(<<<<ha, 1>>, <<ha, 1>>, <<hb, 1>>>>, TRUE),
   Holding(<<<<ha, 1>>, <<hb, 0>>, <<hc, 2>>>>, TRUE),
   Holding(<<<<hb, 0>>>>, TRUE),
   Holding(<<>>, TRUE)}

AllFiles == GoodFiles \cup OddFiles
=============================================================================
