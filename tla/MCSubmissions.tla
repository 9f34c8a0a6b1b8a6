--------------------------- MODULE MCSubmissions ----------------------------
(* Small instances of Submissions for TLC.                                  *)
EXTENDS Submissions, TLC

CONSTANTS p, q, g, k1, k2, e, v, w

PutOf(k, x) == [type |-> "put", key |-> k, val |-> x]
GetOf(k) == [type |-> "get", key |-> k, val |-> Absent]

\* Two servers on one machine.
Ports == <<7, 8>>

Asked(options, do) == [given |-> options, calls |-> do]
Nothing == Asked(<<>>, <<>>)

\* Two writers and a reader; a process that writes twice, one that reads again;
\* more servers than there are, quorums that do not meet, and none at all.
AllLines ==
  { p :> Asked([w |-> 2], <<PutOf(k1, v)>>) @@ q :> Asked(<<>>, <<PutOf(k1, w)>>) @@
      g :> Asked([r |-> 2], <<GetOf(k1)>>),
    p :> Asked([n |-> 9, w |-> 9], <<PutOf(k1, v), PutOf(k1, w)>>) @@
      g :> Asked([r |-> 1], <<GetOf(k1)>>) @@ q :> Nothing,
    p :> Asked([w |-> 1], <<PutOf(k1, v), PutOf(k1, e)>>) @@
      g :> Asked(<<>>, <<GetOf(k1)>>) @@ q :> Nothing,
    p :> Asked(<<>>, <<PutOf(k1, v)>>) @@
      g :> Asked([n |-> 1, r |-> 0, w |-> 1], <<GetOf(k1), PutOf(k2, w), GetOf(k2)>>) @@
      q :> Nothing,
    p :> Asked(<<>>, <<PutOf(k1, v)>>) @@ g :> Asked(<<>>, <<GetOf(k2), GetOf(k1)>>) @@
      q :> Nothing,
    p :> Asked([n |-> 0], <<PutOf(k1, v), GetOf(k1)>>) @@ q :> Nothing @@ g :> Nothing }

AllFaults == {{}, {"lost", "crash"}, {"late"}, {"nomem"}}
=============================================================================
