----------------------------- MODULE GetTally -----------------------------
(***************************************************************************)
(* The loop of network_get at the full width of its vote counter: one get  *)
(* that reads at most N answers, as many as its key has servers.  DHT      *)
(* shows the calls, servers and datagrams around this loop on instances    *)
(* too small for a counter of one byte to overflow.                        *)
(***************************************************************************)
EXTENDS Tally

CONSTANTS
  Value,   \* what a server may answer
  N, R,    \* options -n and -r
  MaxShort \* a bound on the answers for which memory is short

ASSUME TallyAssumption == N \in Nat /\ R \in 1..N /\ MaxShort \in Nat

VARIABLES
  tally,   \* tally[v]: the entry of v in the local table, one byte
  read,    \* the loop counter
  status,  \* the state of the call
  short,   \* how often an allocation may have failed: for how many answers
  heard    \* history: heard[v] is the number of answers v that were read

vars == <<tally, read, status, short, heard>>

\* The shape of the state.
TypeOK ==
  /\ tally \in [Value -> Byte]
  /\ read \in 0..N
  /\ status \in {"reading", "ok", "fail"}
  /\ short \in 0..MaxShort
  /\ heard \in [Value -> 0..N]

Init ==
  /\ tally = [v \in Value |-> 0]
  /\ read = 0
  /\ status = "reading"
  /\ short = 0
  /\ heard = [v \in Value |-> 0]

\* The vote for v is counted; at the quorum v is copied for the caller, and the
\* state of the call becomes one of results.
Count(v, mayFail, results) ==
  \E vote \in Increment(tally[v], mayFail) :
    /\ tally' = [tally EXCEPT ![v] = vote[2]]
    /\ status' \in IF Reaches(vote[1], R) THEN results ELSE {status}

\* An answer v is read and counted; each allocation that this takes, the copy
\* included, may fail.
Hear(v) ==
  /\ status = "reading" /\ read < N
  /\ read' = read + 1
  /\ heard' = [heard EXCEPT ![v] = @ + 1]
  /\ \/ Count(v, FALSE, {"ok"}) /\ UNCHANGED short
     \/ /\ short < MaxShort /\ short' = short + 1
        /\ Count(v, TRUE, {"ok", "fail"})

\* A timeout, a "not found", or N answers without a quorum.
GiveUp ==
  /\ status = "reading"
  /\ status' = "fail"
  /\ UNCHANGED <<tally, read, short, heard>>

Next == GiveUp \/ \E v \in Value : Hear(v)

Spec == Init /\ [][Next]_vars

-----------------------------------------------------------------------------
\* A get succeeds only when it has read R equal answers (network.c:114), whatever
\* increment_and_get loses for lack of memory.
OkMeansQuorum == status = "ok" => \E v \in Value : heard[v] >= R

\* A get never goes on reading, nor fails, once it has read R equal answers and
\* every allocation has succeeded.
QuorumMeansOk == short = 0 /\ (\E v \in Value : heard[v] >= R) => status = "ok"
=============================================================================
