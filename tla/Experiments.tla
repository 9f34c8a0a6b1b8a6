---------------------------- MODULE Experiments -----------------------------
(***************************************************************************)
(* The measurements: test-servers makes a number of puts for W = 1..N and  *)
(* writes their outcomes to results.txt, giving up after three W without a *)
(* success; test-parser reads that file afterwards, guesses where it ends  *)
(* by counting the same way, and prints the successes and failures of each *)
(* W.  A line of the file is a word; the times and their means are left    *)
(* out.  test-servers may be killed, which leaves a part of the file.      *)
(***************************************************************************)
EXTENDS Release, Integers, Sequences

CONSTANT Sizes  \* pairs of N and the number of tests

ASSUME SizesAssumption == Sizes \subseteq Nat \X (Nat \ {0})

VARIABLES
  size,      \* N and tests_to_perform
  results,   \* results.txt
  servers,   \* test-servers: its loops, and zeros_in_a_row
  parser,    \* test-parser: the same, and the lines it has read
  rows,      \* the rows of parsed.txt: the successes and failures of each W
  outcomes   \* (history) what the puts for each W have returned

testVars == <<size, results, servers, parser, rows, outcomes>>

\* The shape of the state.
TestTypeOK ==
  /\ size \in Sizes
  /\ servers \in [at : {"start", "loop", "done", "killed"}, W : 1..(size[1] + 1),
                  i : 0..size[2], suc : 0..size[2], zeros : 0..3]
  /\ parser \in [at : {"start", "loop", "row", "done", "spinning"}, line : 0..Len(results),
                 i : 0..size[2], s : 0..size[2], zeros : 0..3]
  /\ Len(rows) <= size[1] /\ Len(outcomes) <= size[1]

TestInit ==
  /\ size \in Sizes
  /\ results = <<>> /\ rows = <<>> /\ outcomes = <<>>
  /\ servers = [at |-> "start", W |-> 1, i |-> 0, suc |-> 0, zeros |-> 0]
  /\ parser = [at |-> "start", line |-> 0, i |-> 0, s |-> 0, zeros |-> 0]

N == size[1]
tests == size[2]

-----------------------------------------------------------------------------
(* test-servers.                                                            *)

\* The heading of the file; with no server there is nothing to test.
WriteHeader ==
  /\ servers.at = "start"
  /\ results' = <<"N tests", "blank">> \o (IF N = 0 THEN <<>> ELSE <<"W">>)
  /\ servers' = [servers EXCEPT !.at = IF N = 0 THEN "done" ELSE "loop"]
  /\ UNCHANGED <<size, parser, rows, outcomes>>

\* A put, which succeeds or fails.
RunTest ==
  /\ servers.at = "loop" /\ servers.i < tests
  /\ \E outcome \in {"SUCCESS", "FAILURE"} :
       /\ results' = Append(results, outcome)
       /\ servers' = [servers EXCEPT !.i = @ + 1,
                                     !.suc = IF outcome = "SUCCESS" THEN @ + 1 ELSE @]
  /\ UNCHANGED <<size, parser, rows, outcomes>>

\* zeros_in_a_row behind a row of s successes.
Zeros(zeros, s) == IF s = 0 THEN zeros + 1 ELSE 0

\* The end of a W: the ratio, and the next W unless this was the last one or
\* the third without a success.
EndOfTests ==
  /\ servers.at = "loop" /\ servers.i = tests
  /\ outcomes' = Append(outcomes, <<servers.suc, tests - servers.suc>>)
  /\ LET zeros == Zeros(servers.zeros, servers.suc)
         next == IF zeros = 3 THEN "aborting" ELSE IF servers.W < N THEN "W" ELSE "end"
     IN  /\ results' = results \o <<"ratio", "blank">> \o
                         (IF next = "end" THEN <<>> ELSE <<next>>)
         /\ servers' = [at |-> IF next = "W" THEN "loop" ELSE "done",
                        W |-> servers.W + 1, i |-> 0, suc |-> 0, zeros |-> zeros]
  /\ UNCHANGED <<size, parser, rows>>

\* What was not flushed to the file is lost.
KillServers ==
  /\ May("crash") /\ servers.at = "loop"
  /\ \E n \in 0..Len(results) : results' = SubSeq(results, 1, n)
  /\ servers' = [servers EXCEPT !.at = "killed"]
  /\ UNCHANGED <<size, parser, rows, outcomes>>

-----------------------------------------------------------------------------
(* test-parser.                                                             *)

\* Behind the last newline getc returns EOF, and the loop to the newline has no end.
Has(n) == parser.line + n <= Len(results)

Spin == parser' = [parser EXCEPT !.at = "spinning"] /\ UNCHANGED rows

\* The heading, which has two lines.
ReadHeader ==
  /\ servers.at \in {"done", "killed"} /\ parser.at = "start"
  /\ IF Has(2)
     THEN parser' = [parser EXCEPT !.at = "loop", !.line = 2] /\ UNCHANGED rows
     ELSE Spin
  /\ UNCHANGED <<size, results, servers, outcomes>>

\* Variant: every row without a success counts, in a row or not.
ZerosOfAll(zeros, s) == IF s = 0 THEN zeros + 1 ELSE zeros

ZerosRead(zeros, s) == IF s = 0 THEN zeros + 1 ELSE 0

MoreRows == Len(rows) < N /\ parser.zeros < 3

\* The line of a W.
ReadW ==
  /\ parser.at = "loop" /\ MoreRows
  /\ IF Has(1)
     THEN /\ parser' = [parser EXCEPT !.at = "row", !.line = @ + 1, !.i = 0, !.s = 0]
          /\ UNCHANGED rows
     ELSE Spin
  /\ UNCHANGED <<size, results, servers, outcomes>>

\* The outcome of a test.  Without a line the last word is taken again, and the
\* search for the newline behind the row has no end.
ReadStatus ==
  /\ parser.at = "row" /\ parser.i < tests
  /\ IF Has(1)
     THEN /\ parser' = [parser EXCEPT !.line = @ + 1, !.i = @ + 1,
                          !.s = IF results[parser.line + 1] = "SUCCESS" THEN @ + 1 ELSE @]
          /\ UNCHANGED rows
     ELSE Spin
  /\ UNCHANGED <<size, results, servers, outcomes>>

\* The ratio and the empty line behind it.
ReadRatio ==
  /\ parser.at = "row" /\ parser.i = tests
  /\ IF Has(2)
     THEN /\ rows' = Append(rows, <<parser.s, tests - parser.s>>)
          /\ parser' = [parser EXCEPT !.at = "loop", !.line = @ + 2,
                                      !.zeros = ZerosRead(@, parser.s)]
     ELSE Spin
  /\ UNCHANGED <<size, results, servers, outcomes>>

PrintRows ==
  /\ parser.at = "loop" /\ ~MoreRows
  /\ parser' = [parser EXCEPT !.at = "done"]
  /\ UNCHANGED <<size, results, servers, rows, outcomes>>

TestWork ==
  \/ WriteHeader \/ RunTest \/ EndOfTests
  \/ ReadHeader \/ ReadW \/ ReadStatus \/ ReadRatio \/ PrintRows

TestNext == TestWork \/ KillServers

-----------------------------------------------------------------------------
(* Properties.                                                              *)

\* The parser finds the end of the file of an experiment that has ended, by
\* the same count of W without a success, and prints the numbers of the tests;
\* of one that was killed it prints the same or nothing.
ParserReports ==
  /\ [](parser.at = "done" => rows = outcomes)
  /\ (servers.at = "done" ~> parser.at = "done")
=============================================================================
