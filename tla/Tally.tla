------------------------------- MODULE Tally -------------------------------
(***************************************************************************)
(* The vote counter of network_get (done/network.c).  The client counts    *)
(* the equal answers it receives in a local hash table whose values are    *)
(* one-character strings: the character is the count.  The operators give  *)
(* increment_and_get at the width of that character.                       *)
(***************************************************************************)
EXTENDS Integers

\* The values of one character, read as an unsigned byte; 0 is "no entry".
Byte == 0..255

\* ++value[0]
Bump(b) == (b + 1) % 256

\* Variants of the test below: with an error of one; with a signed count.
ReachesEarly(b, r) == b >= 128 \/ b + 1 >= r
ReachesSigned(b, r) == b < 128 /\ b >= r

\* `count >= R' with count = (unsigned int) value[0].  A char is signed on the
\* targets of the Makefile: from 128 on it is negative, and the conversion to
\* unsigned makes it larger than any R the option parser accepts (a positive
\* int).
Reaches(b, r) == b >= 128 \/ b >= r

\* The pairs <<count returned, count stored>> of increment_and_get on a key
\* whose entry holds b.  When an allocation may fail, get_Htable_value may miss
\* an entry that exists (the count restarts at 1) and add_Htable_value may
\* leave the entry as it was: neither failure is noticed.
Increment(b, mayFail) ==
  LET next == IF b = 0 THEN 1 ELSE Bump(b)
      kept == {<<next, next>>}
      lost == {<<next, b>>, <<1, 1>>, <<1, b>>}
  IN  IF mayFail THEN kept \cup lost ELSE kept
=============================================================================
