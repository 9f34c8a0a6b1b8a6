-------------------------- MODULE GetTallyProofs --------------------------
(***************************************************************************)
(* Proof that the loop of network_get counts right: with any number of     *)
(* answers, one signed character is enough for quorums of up to 128.       *)
(***************************************************************************)
EXTENDS GetTally, TLAPS

\* The quorums that one signed character can count.
Countable == R <= 128

\* While the loop runs no counter is at the quorum, and none is ahead of the
\* answers; as long as memory suffices none is behind them either.
Counting ==
  status = "reading" =>
    /\ \A v \in Value : tally[v] <= heard[v] /\ tally[v] < R
    /\ short = 0 => tally = heard

\* A loop that has failed has heard of no quorum, if memory has sufficed.
NoQuorum == status = "fail" /\ short = 0 => \A v \in Value : heard[v] < R

TallyInv ==
  /\ heard \in [Value -> Nat] /\ tally \in [Value -> Byte] /\ short \in Nat
  /\ status \in {"reading", "ok", "fail"}
  /\ Counting /\ NoQuorum /\ OkMeansQuorum

\* Below 128 the counter goes up by one, and the test is the comparison it looks
\* like.  What a failing allocation leaves is no larger.
LEMMA VoteCounts ==
  ASSUME Countable, NEW b \in Byte, b < R
  PROVE  /\ Increment(b, FALSE) = {<<b + 1, b + 1>>}
         /\ Increment(b, TRUE) = {<<b + 1, b + 1>>, <<b + 1, b>>, <<1, 1>>, <<1, b>>}
         /\ b + 1 \in Byte
         /\ Reaches(b + 1, R) <=> b + 1 >= R
         /\ Reaches(1, R) <=> 1 >= R
<1>1. b \in 0..127 /\ R \in 1..128
  BY TallyAssumption DEF Countable, Byte
<1>2. (IF b = 0 THEN 1 ELSE Bump(b)) = b + 1
  BY <1>1 DEF Bump
<1>3. Increment(b, FALSE) = {<<b + 1, b + 1>>}
  BY <1>2, Zenon DEF Increment
<1>4. Increment(b, TRUE) = {<<b + 1, b + 1>>, <<b + 1, b>>, <<1, 1>>, <<1, b>>}
  <2>1. Increment(b, TRUE) = {<<b + 1, b + 1>>} \cup {<<b + 1, b>>, <<1, 1>>, <<1, b>>}
    BY <1>2, Zenon DEF Increment
  <2>. QED
    BY <2>1
<1>5. b + 1 \in Byte
  BY <1>1 DEF Byte
<1>6. Reaches(b + 1, R) <=> b + 1 >= R
  BY <1>1 DEF Reaches
<1>7. Reaches(1, R) <=> 1 >= R
  BY <1>1 DEF Reaches
<1>. QED
  BY <1>3, <1>4, <1>5, <1>6, <1>7

\* A vote that is counted: c is the count returned, t the count stored.
Counted(v, mayFail, results, c, t) ==
  /\ tally' = [tally EXCEPT ![v] = t]
  /\ c <= tally[v] + 1 /\ t <= tally[v] + 1
  /\ ~mayFail => c = tally[v] + 1 /\ t = tally[v] + 1
  /\ IF c >= R THEN status' \in results ELSE status' = "reading" /\ t < R

LEMMA CountStep ==
  ASSUME Countable, TallyInv, NEW v \in Value, status = "reading",
         NEW mayFail \in BOOLEAN, NEW results \in SUBSET {"ok", "fail"},
         Count(v, mayFail, results)
  PROVE  \E c \in Byte, t \in Byte : Counted(v, mayFail, results, c, t)
<1>. DEFINE b == tally[v]
<1>1. b \in Byte /\ b < R /\ R \in Nat
  BY TallyAssumption DEF TallyInv, Counting
<1>2. PICK vote \in Increment(b, mayFail) :
        /\ tally' = [tally EXCEPT ![v] = vote[2]]
        /\ status' \in IF Reaches(vote[1], R) THEN results ELSE {status}
  BY DEF Count
<1>3. /\ Increment(b, FALSE) = {<<b + 1, b + 1>>}
      /\ Increment(b, TRUE) = {<<b + 1, b + 1>>, <<b + 1, b>>, <<1, 1>>, <<1, b>>}
      /\ b + 1 \in Byte
      /\ Reaches(b + 1, R) <=> b + 1 >= R
      /\ Reaches(1, R) <=> 1 >= R
  <2>. HIDE DEF b
  <2>. QED
    BY <1>1, VoteCounts
<1>. HIDE DEF b
<1>4. \/ vote = <<b + 1, b + 1>>
      \/ mayFail /\ (vote = <<b + 1, b>> \/ vote = <<1, 1>> \/ vote = <<1, b>>)
  BY <1>2, <1>3
<1>5. ASSUME NEW c \in Byte, NEW t \in Byte, vote = <<c, t>>,
             c <= b + 1, t <= b + 1, ~mayFail => c = b + 1 /\ t = b + 1,
             Reaches(c, R) <=> c >= R, t \in {b, c}
      PROVE  \E x \in Byte, y \in Byte : Counted(v, mayFail, results, x, y)
  <2>1. tally' = [tally EXCEPT ![v] = t] /\ status' \in IF c >= R THEN results ELSE {status}
    BY <1>2, <1>5
  <2>2. ~(c >= R) => t < R
    BY <1>1, <1>5 DEF Byte
  <2>3. Counted(v, mayFail, results, c, t)
    BY <1>5, <2>1, <2>2 DEF Counted, b
  <2>. QED
    BY <2>3
<1>6. 1 \in Byte /\ 1 <= b + 1 /\ b <= b + 1 /\ b + 1 <= b + 1
  BY <1>1 DEF Byte
<1>7. CASE vote = <<b + 1, b + 1>>
  BY <1>3, <1>5, <1>6, <1>7
<1>8. CASE mayFail /\ vote = <<b + 1, b>>
  BY <1>1, <1>3, <1>5, <1>6, <1>8
<1>9. CASE mayFail /\ vote = <<1, 1>>
  BY <1>1, <1>3, <1>5, <1>6, <1>9
<1>10. CASE mayFail /\ vote = <<1, b>>
  BY <1>1, <1>3, <1>5, <1>6, <1>10
<1>. QED
  BY <1>4, <1>7, <1>8, <1>9, <1>10

LEMMA TallyInit == Init => TallyInv
BY TallyAssumption DEF Init, TallyInv, Counting, NoQuorum, OkMeansQuorum, Byte

LEMMA HearCounts ==
  ASSUME Countable, TallyInv, NEW v \in Value, Hear(v)
  PROVE  TallyInv'
<1>. USE DEF TallyInv
<1>1. /\ status = "reading" /\ short \in Nat /\ R \in Nat
      /\ tally[v] \in Byte /\ heard[v] \in Nat /\ tally[v] <= heard[v]
      /\ short = 0 => tally[v] = heard[v]
  <2>1. status = "reading" /\ R \in Nat
    BY TallyAssumption DEF Hear
  <2>2. tally[v] <= heard[v] /\ (short = 0 => tally[v] = heard[v])
    BY <2>1 DEF Counting
  <2>. QED
    BY <2>1, <2>2
<1>2. heard' = [heard EXCEPT ![v] = heard[v] + 1]
  BY DEF Hear
<1>3. \E mayFail \in BOOLEAN, results \in SUBSET {"ok", "fail"} :
        /\ Count(v, mayFail, results)
        /\ \/ ~mayFail /\ results = {"ok"} /\ short' = short
           \/ short' = short + 1
  BY DEF Hear
<1>4. PICK mayFail \in BOOLEAN, results \in SUBSET {"ok", "fail"} :
        /\ Count(v, mayFail, results)
        /\ \/ ~mayFail /\ results = {"ok"} /\ short' = short
           \/ short' = short + 1
  BY <1>3
<1>5. PICK c \in Byte, t \in Byte : Counted(v, mayFail, results, c, t)
  BY <1>1, <1>4, CountStep, Zenon
<1>6. /\ heard' \in [Value -> Nat] /\ tally' \in [Value -> Byte] /\ short' \in Nat
      /\ status' \in {"reading", "ok", "fail"}
  <2>1. /\ heard' \in [Value -> Nat] /\ short' \in Nat
    BY <1>1, <1>2, <1>4
  <2>2. tally' \in [Value -> Byte] /\ status' \in {"reading", "ok", "fail"}
    BY <1>4, <1>5 DEF Counted
  <2>. QED
    BY <2>1, <2>2
<1>7. /\ heard'[v] = heard[v] + 1 /\ tally'[v] = t
      /\ \A w \in Value \ {v} : heard'[w] = heard[w] /\ tally'[w] = tally[w]
  BY <1>2, <1>5 DEF Counted
<1>8. short' = 0 => short = 0 /\ ~mayFail /\ results = {"ok"}
  BY <1>1, <1>4
<1>9. Counting'
  <2>. SUFFICES ASSUME status' = "reading"
                PROVE  /\ \A w \in Value : tally'[w] <= heard'[w] /\ tally'[w] < R
                       /\ short' = 0 => tally' = heard'
    BY DEF Counting
  <2>1. t <= heard[v] + 1 /\ t < R /\ (short' = 0 => t = heard[v] + 1)
    <3>1. t < R
      BY <1>4, <1>5 DEF Counted
    <3>2. t <= tally[v] + 1 /\ (short' = 0 => t = tally[v] + 1 /\ tally[v] = heard[v])
      BY <1>1, <1>5, <1>8 DEF Counted
    <3>. QED
      BY <1>1, <3>1, <3>2 DEF Byte
  <2>2. \A w \in Value \ {v} : tally'[w] <= heard'[w] /\ tally'[w] < R
    BY <1>1, <1>7 DEF Counting
  <2>3. \A w \in Value : tally'[w] <= heard'[w] /\ tally'[w] < R
    BY <1>7, <2>1, <2>2
  <2>4. short' = 0 => tally' = heard'
    <3>. SUFFICES ASSUME short' = 0 PROVE tally' = heard'
      OBVIOUS
    <3>1. tally = heard /\ t = heard[v] + 1
      BY <1>1, <1>8, <2>1 DEF Counting
    <3>. QED
      BY <1>2, <1>5, <3>1 DEF Counted
  <2>. QED
    BY <2>3, <2>4
<1>10. NoQuorum'
  <2>. SUFFICES ASSUME status' = "fail", short' = 0 PROVE FALSE
    <3>. SUFFICES ASSUME status' = "fail", short' = 0, NEW w \in Value PROVE heard'[w] < R
      BY DEF NoQuorum
    <3>. QED
      OBVIOUS
  <2>. QED
    BY <1>5, <1>8 DEF Counted
<1>11. OkMeansQuorum'
  <2>. SUFFICES ASSUME status' = "ok" PROVE heard'[v] >= R
    BY DEF OkMeansQuorum
  <2>1. c >= R /\ c <= tally[v] + 1
    BY <1>5 DEF Counted
  <2>. QED
    BY <1>1, <1>7, <2>1 DEF Byte
<1>. QED
  BY <1>6, <1>9, <1>10, <1>11

LEMMA TallyNext == ASSUME Countable, TallyInv, [Next]_vars PROVE TallyInv'
<1>1. ASSUME NEW v \in Value, Hear(v) PROVE TallyInv'
  BY <1>1, HearCounts
<1>2. CASE GiveUp
  <2>1. short = 0 => \A v \in Value : heard[v] < R
    BY <1>2 DEF GiveUp, TallyInv, Counting
  <2>. QED
    BY <1>2, <2>1 DEF GiveUp, TallyInv, Counting, NoQuorum, OkMeansQuorum
<1>3. CASE UNCHANGED vars
  BY <1>3 DEF vars, TallyInv, Counting, NoQuorum, OkMeansQuorum
<1>. QED
  BY <1>1, <1>2, <1>3 DEF Next

\* TallyInv is an invariant of the loop.
LEMMA TallyCorrect == ASSUME Countable PROVE Spec => []TallyInv
<1>1. TallyInv /\ [Next]_vars => TallyInv'
  BY TallyNext
<1>. QED
  BY <1>1, TallyInit, PTL DEF Spec

\* A get that succeeds has read R equal answers, for every R up to 128, any number
\* of servers, and wherever increment_and_get runs out of memory.
THEOREM SuccessHasQuorum == Countable /\ Spec => []OkMeansQuorum
<1>. SUFFICES ASSUME Countable PROVE Spec => []OkMeansQuorum
  BY DEF Countable
<1>1. TallyInv => OkMeansQuorum
  BY DEF TallyInv
<1>. QED
  BY <1>1, TallyCorrect, PTL

\* And a get that has read R equal answers succeeds, if no allocation has failed.
THEOREM QuorumSucceeds == Countable /\ Spec => []QuorumMeansOk
<1>. SUFFICES ASSUME Countable PROVE Spec => []QuorumMeansOk
  BY DEF Countable
<1>1. TallyInv => QuorumMeansOk
  <2>. SUFFICES ASSUME TallyInv, short = 0, NEW v \in Value, heard[v] >= R PROVE status = "ok"
    BY DEF QuorumMeansOk
  <2>1. heard[v] \in Nat /\ R \in Nat
    BY TallyAssumption DEF TallyInv
  <2>. QED
    BY <2>1 DEF TallyInv, Counting, NoQuorum
<1>. QED
  BY <1>1, TallyCorrect, PTL
=============================================================================
