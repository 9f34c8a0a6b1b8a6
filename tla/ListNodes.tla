----------------------------- MODULE ListNodes ------------------------------
(***************************************************************************)
(* pps-list-nodes: which servers of servers.txt are alive?  The final      *)
(* version pings every node and then collects the senders of all answers   *)
(* until one second passes without any; a node is OK if its server is      *)
(* among the senders.  projet02 pings one server at a time and takes the   *)
(* next datagram, whoever has sent it, for its answer.                     *)
(***************************************************************************)
EXTENDS Release, Integers, Sequences, FiniteSets

CONSTANTS
  Server,
  Listings   \* the lists of nodes; a node is known by its server

ASSUME ListAssumption == Listings \subseteq Seq(Server)

VARIABLES
  nodes,     \* base_nodes; nodes of projet02
  up,        \* the servers that run
  pings,     \* the nodes whose ping is on its way, by their place in nodes
  replies,   \* the nodes whose server has answered, the answer being on its way
  heard,     \* the servers in `list'
  verdict,   \* what is printed for the nodes, in their order
  listing,   \* where the program is
  answered   \* (history) the servers that have answered a ping

listVars == <<nodes, up, pings, replies, heard, verdict, listing, answered>>

\* The shape of the state.
ListTypeOK ==
  /\ nodes \in Listings /\ up \subseteq Server
  /\ pings \subseteq DOMAIN nodes /\ replies \subseteq DOMAIN nodes
  /\ heard \subseteq Server /\ answered \subseteq Server
  /\ verdict \in Seq({"OK", "FAIL"}) /\ Len(verdict) <= Len(nodes)
  /\ listing \in {"start", "ping", "listen", "done", "failed"}

ListInit ==
  /\ nodes \in Listings /\ up \in SUBSET Server
  /\ pings = {} /\ replies = {} /\ heard = {} /\ answered = {}
  /\ verdict = <<>>
  /\ listing = "start"

\* The socket and the nodes, or a failure of one of them.
ListStart ==
  /\ listing = "start"
  /\ listing' \in {"ping", "failed"}
  /\ UNCHANGED <<nodes, up, pings, replies, heard, verdict, answered>>

\* A ping to each of the nodes; some are lost.
PingAll ==
  /\ Final /\ listing = "ping"
  /\ IF May("lost") THEN pings' \in SUBSET DOMAIN nodes ELSE pings' = DOMAIN nodes
  /\ listing' = "listen"
  /\ UNCHANGED <<nodes, up, replies, heard, verdict, answered>>

\* projet02: a line of servers.txt, and a ping to the node with its number.
PingOne ==
  /\ release = "projet02" /\ listing = "ping"
  /\ LET i == Len(verdict) + 1
     IN  IF i > Len(nodes)
         THEN listing' = "done" /\ UNCHANGED pings
         ELSE /\ listing' = "listen"
              /\ pings' = pings \cup {i} \/ (May("lost") /\ UNCHANGED pings)
  /\ UNCHANGED <<nodes, up, replies, heard, verdict, answered>>

\* The server answers a ping with an empty datagram.
AnswerPing(i) ==
  /\ i \in pings /\ nodes[i] \in up
  /\ pings' = pings \ {i}
  /\ replies' = replies \cup {i} \/ (May("lost") /\ UNCHANGED replies)
  /\ answered' = answered \cup {nodes[i]}
  /\ UNCHANGED <<nodes, up, heard, verdict, listing>>

ServerDies(a) ==
  /\ May("crash")
  /\ up' = up \ {a}
  /\ UNCHANGED <<nodes, pings, replies, heard, verdict, listing, answered>>

\* Variant: every reply is taken for an answer of the last node.
LastSender(i) == nodes[Len(nodes)]

Sender(i) == nodes[i]

\* recvfrom and node_list_add, which may fail.
Collect ==
  /\ Final /\ listing = "listen"
  /\ \E i \in replies : replies' = replies \ {i} /\ heard' = heard \cup {Sender(i)}
  /\ \/ UNCHANGED listing
     \/ May("nomem") /\ listing' = "failed"
  /\ UNCHANGED <<nodes, up, pings, verdict, answered>>

\* projet02: recv, which does not tell the sender.
TakeAny ==
  /\ release = "projet02" /\ listing = "listen"
  /\ \E i \in replies : replies' = replies \ {i}
  /\ verdict' = Append(verdict, "OK")
  /\ listing' = "ping"
  /\ UNCHANGED <<nodes, up, pings, heard, answered>>

\* Variant: nobody is waited for.
SilentAtOnce == listing = "listen"

\* An answer comes within the second unless it is late, lost or never sent.
Silent ==
  /\ listing = "listen"
  /\ May("late") \/ (replies = {} /\ \A i \in pings : nodes[i] \notin up)

\* Nothing for a second: the results are printed.
PrintAll ==
  /\ Final /\ Silent
  /\ verdict' = [i \in DOMAIN nodes |-> IF nodes[i] \in heard THEN "OK" ELSE "FAIL"]
  /\ listing' = "done"
  /\ UNCHANGED <<nodes, up, pings, replies, heard, answered>>

PrintFail ==
  /\ release = "projet02" /\ Silent
  /\ verdict' = Append(verdict, "FAIL")
  /\ listing' = "ping"
  /\ UNCHANGED <<nodes, up, pings, replies, heard, answered>>

\* What the program and the servers do.
ListWork ==
  \/ ListStart \/ PingAll \/ PingOne \/ Collect \/ TakeAny \/ PrintAll \/ PrintFail
  \/ \E i \in pings : AnswerPing(i)

ListNext == ListWork \/ \E a \in up : ServerDies(a)

-----------------------------------------------------------------------------
(* Properties.                                                              *)

\* A node is reported as OK only if its server has answered a ping of this run.
\* With late answers this does not hold in projet02, where an answer that comes
\* after its second is taken for the answer of the next server.
OkMeansAnswered ==
  Final \/ ~May("late") =>
    \A i \in DOMAIN verdict : verdict[i] = "OK" => nodes[i] \in answered

\* When nothing goes wrong, every server that runs is reported as OK and every
\* other as FAIL.
ReportsTheLiving ==
  (faults = {} /\ listing = "ping") ~>
    /\ listing = "done"
    /\ verdict = [i \in DOMAIN nodes |-> IF nodes[i] \in up THEN "OK" ELSE "FAIL"]
=============================================================================
