-------------------------------- MODULE Args --------------------------------
(***************************************************************************)
(* The options of a client (args.c): parse_opt_args reads -n, -r and -w as *)
(* long as it meets them, then reconciles what the user has given with the *)
(* defaults of what he has not.                                            *)
(***************************************************************************)
EXTENDS Integers

CONSTANTS
  Supported,  \* the options of the program: flags of supported_args
  Number      \* the integers sscanf may read

ASSUME ArgsAssumption ==
  /\ Supported \subseteq {"-n", "-r", "-w"}
  /\ Number \subseteq Int

VARIABLES
  opts,    \* the fields N, R and W of args_t, by the option that sets them
  given,   \* the options met so far: N_mod, R_mod and W_mod
  parsing, \* where parse_opt_args is: reading, returned a result or NULL
  asked    \* history: the numbers the user has written

argsVars == <<opts, given, parsing, asked>>

Option == {"-n", "-r", "-w"}

ArgsTypeOK ==
  /\ opts \in [Option -> Nat \ {0}]
  /\ given \subseteq Supported
  /\ parsing \in {"reading", "done", "error"}
  /\ asked \in [Option -> Nat]

Default == [f \in Option |-> IF f = "-n" THEN 3 ELSE 2]

ArgsInit ==
  /\ opts = Default
  /\ given = {}
  /\ parsing = "reading"
  /\ asked = [f \in Option |-> 0]

\* go_fwd_and_parse_number accepts a positive number.
ReadOption(f, n) ==
  /\ parsing = "reading"
  /\ f \in Supported \ given /\ n > 0
  /\ opts' = [opts EXCEPT ![f] = n]
  /\ asked' = [asked EXCEPT ![f] = n]
  /\ given' = given \cup {f}
  /\ UNCHANGED parsing

\* No number behind the option, one that is not positive, an option given
\* twice, or no memory for the result.
BadOption ==
  /\ parsing = "reading"
  /\ parsing' = "error"
  /\ UNCHANGED <<opts, given, asked>>

Smaller(a, b) == IF a < b THEN a ELSE b
Larger(a, b) == IF a < b THEN b ELSE a

\* -n is given: what is not given is cut down to it.
CutDown ==
  [opts EXCEPT !["-r"] = Smaller(opts["-n"], @), !["-w"] = Smaller(opts["-n"], @)]

\* Variant: only -r can raise N.
RaisedByR ==
  [opts EXCEPT !["-n"] = IF "-r" \in given THEN Larger(@, opts["-r"]) ELSE @]

\* -n is not given: N is raised to the largest of what is.
Raised ==
  LET needed(f) == IF f \in given THEN opts[f] ELSE 1
  IN  [opts EXCEPT !["-n"] = Larger(@, Larger(needed("-r"), needed("-w")))]

Incoherent ==
  /\ "-n" \in given
  /\ \E f \in {"-r", "-w"} \cap given : opts[f] > opts["-n"]

\* The first word that is not an option ends the loop.
EndOfOptions ==
  /\ parsing = "reading"
  /\ IF Incoherent
     THEN parsing' = "error" /\ UNCHANGED opts
     ELSE /\ parsing' = "done"
          /\ opts' = IF "-n" \in given THEN CutDown ELSE Raised
  /\ UNCHANGED <<given, asked>>

ArgsNext ==
  \/ \E f \in Option, n \in Number : ReadOption(f, n)
  \/ BadOption
  \/ EndOfOptions

-----------------------------------------------------------------------------
\* What the client works with: quorums that its N servers can reach, and the
\* numbers the user has written, none of them silently changed.
OptionsCoherent ==
  parsing = "done" =>
    /\ opts["-r"] \in 1..opts["-n"] /\ opts["-w"] \in 1..opts["-n"]
    /\ \A f \in given : opts[f] = asked[f]
=============================================================================
