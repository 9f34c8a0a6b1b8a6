----------------------------- MODULE MCPrograms -----------------------------
(* Small instances of Programs for TLC.                                     *)
EXTENDS Programs, TLC

CONSTANTS s1, s2, s3, k1, k2, k3, e, v, w, x, a, b

\* Two nodes of one server, and one node each.
Lists == {<<s1, s1, s2>>, <<s1, s2, s3>>}

\* A packet has twelve bytes: it holds the header and two pairs with the value v,
\* or one with w; a pair with x does not fit behind the header.
KeyLengths == k1 :> 1 @@ k2 :> 1 @@ k3 :> 1 @@ e :> 0
ValueLengths == v :> 1 @@ w :> 4 @@ x :> 7

Orders == {<<>>, <<k1>>, <<k1, k2>>, <<k1, k2, k3>>, <<e, k1>>, <<k1, e>>, <<k1, e, k2>>}

AllTables ==
  UNION {{[i \in DOMAIN o |-> <<o[i], f[i]>>] : f \in [DOMAIN o -> {v, w, x}]} : o \in Orders}

NoFaults == {{}}

AllFaults == {{}, {"lost"}, {"lost", "late", "crash"}, {"duplicated"}, {"nomem"}}

\* Two of the longest values fit into a message together with their key, the
\* concatenation of three does not.
AllStrings == {<<>>, <<a>>, <<b, a>>, <<a, b, a, a, b>>}

AllStores ==
  {[k \in Key |-> CASE k = k1 -> y [] k = k2 -> z [] OTHER -> Absent] :
     y, z \in AllStrings \cup {Absent}}

Lines ==
  {"put", "get"} \X {<<k1>>} \cup {"find"} \X {<<k1, k2>>} \cup
  {"substr"} \X {<<k1, k3>>, <<k1, k1>>} \cup
  {"cat"} \X {<<>>, <<k1>>, <<k1, k2, k3>>, <<k1, k2, k1, k2>>, <<k1, e>>, <<e, k1, k3>>}

\* Around the bounds of a value, of a message and of a word of 64.
SomeNumbers == {-30, -6, -2, 0, 1, 4, 20}

\* Up to three lines: every kind of address, and ports around the bounds of 16
\* bits, with and without a sign.
Line(ip, port) == [ip |-> ip, port |-> port]

SomeFiles ==
  LET good == Line("short", 8000)
      odd == {Line("full", 8000), Line("none", 8000)} \cup
             {Line("short", p) : p \in {-1, 0, 32767, 32768, 65535, 70000}}
      texts == {<<>>, <<good>>} \cup {<<good, l>> : l \in odd \cup {good}} \cup
               {<<l, good>> : l \in odd} \cup {<<good, l, good>> : l \in odd}
  IN  {[lines |-> t, ended |-> newline] : t \in texts, newline \in BOOLEAN}

\* One W more than the three without a success that end an experiment.
SomeSizes == {<<0, 1>>, <<2, 2>>, <<4, 1>>, <<5, 1>>}
=============================================================================
