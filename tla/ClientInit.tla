----------------------------- MODULE ClientInit -----------------------------
(***************************************************************************)
(* A client from its command line to the servers of a key: client_init     *)
(* counts the lines of servers.txt, parses the options, refuses an N that  *)
(* is larger than the count and builds the ring; then every network_put    *)
(* and network_get looks its key up.                                       *)
(***************************************************************************)
EXTENDS Args, Ring

VARIABLES
  counted,  \* nb_servers
  phase     \* where the client is

vars == <<argsVars, ringVars, counted, phase>>

Phases == {"count", "options", "load", "lookup", "walk", "send", "failed"}

\* The shape of the state: the options stay positive, and the walk of
\* ring_get_nodes_for_key never leaves the array of nodes.
TypeOK == ArgsTypeOK /\ RingTypeOK /\ counted \in Nat /\ phase \in Phases

Init == ArgsInit /\ RingInit /\ counted = 0 /\ phase = "count"

\* The newlines of servers.txt.
Newlines == Len(file.lines) - (IF file.newline THEN 0 ELSE 1)

\* Variant: the lines.
Lines == Len(file.lines)

\* There may be too few arguments, or no servers.txt.
Count ==
  /\ phase = "count"
  /\ \/ counted' = Newlines /\ phase' = "options"
     \/ phase' = "failed" /\ UNCHANGED counted
  /\ UNCHANGED <<argsVars, ringVars>>

\* Variant: one line more is taken for granted.
EnoughWithOne == counted + 1 >= opts'["-n"]

EnoughLines == counted >= opts'["-n"]

\* parse_opt_args, the test of N, and the number of the arguments behind.
Options ==
  /\ phase = "options"
  /\ ArgsNext
  /\ \/ parsing' = "reading" /\ UNCHANGED phase
     \/ parsing' = "done" /\ EnoughLines /\ phase' = "load"
     \/ parsing' # "reading" /\ phase' = "failed"
  /\ UNCHANGED <<ringVars, counted>>

\* ring_init; it fails when an allocation or get_server_addr fails.  A servers.txt
\* that cannot be opened any more makes an empty ring.
Load ==
  /\ phase = "load"
  /\ \/ ReadLine /\ UNCHANGED phase
     \/ Sort /\ phase' = "lookup"
     \/ read = 0 /\ phase' = "lookup" /\ UNCHANGED ringVars
     \/ phase' = "failed" /\ UNCHANGED ringVars
  /\ UNCHANGED <<argsVars, counted>>

StartLookup ==
  /\ phase = "lookup"
  /\ Lookup
  /\ phase' = "walk"
  /\ UNCHANGED <<argsVars, counted>>

\* The loop of ring_get_nodes_for_key.  Without a node in the ring it would read
\* behind a NULL pointer: the program ends there.
WalkOn ==
  /\ phase = "walk" /\ Len(found) < opts["-n"] /\ ring # <<>>
  /\ Walk
  /\ UNCHANGED <<argsVars, counted, phase>>

WalkEnds ==
  /\ phase = "walk" /\ Len(found) >= opts["-n"]
  /\ phase' = "send"
  /\ UNCHANGED <<argsVars, ringVars, counted>>

Next == Count \/ Options \/ Load \/ StartLookup \/ WalkOn \/ WalkEnds

Spec == Init /\ [][Next]_vars

\* The client runs.
FairSpec == Spec /\ WF_vars(Next)

-----------------------------------------------------------------------------
\* servers.txt as its comment in client.c takes it to be: each line is another
\* server, which has a node, and ends with a newline.
OneLinePerServer ==
  LET l == file.lines
  IN  /\ file.newline
      /\ \A i \in 1..Len(l) : l[i][2] > 0
      /\ \A i, j \in 1..Len(l) : l[i][1] = l[j][1] => i = j

\* A request goes to N different servers, those that follow the key on the ring,
\* in the order in which they follow it, wherever they are in servers.txt: all
\* clients of a key ask the same servers.
SendsToSuccessors ==
  phase = "send" =>
    /\ Len(found) = opts["-n"] /\ Cardinality(Range(found)) = opts["-n"]
    /\ \A i \in 1..Len(found) :
         \A a \in Servers \ Range(SubSeq(found, 1, i)) : MetBefore(found[i], a)

\* `Count number of servers' (client.c:27): whoever walks the ring is able to
\* find N servers on it.
EnoughServers ==
  (phase = "walk" /\ ring # <<>>) => Cardinality(Servers) >= opts["-n"]

\* With one line per server, a client whose ring has a node fails or gets to send
\* its requests: the walk meets N servers.
WalkFindsServers ==
  (OneLinePerServer /\ ring # <<>>) ~> phase \in {"failed", "send"}
=============================================================================
