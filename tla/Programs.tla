------------------------------ MODULE Programs ------------------------------
(***************************************************************************)
(* The command line programs around the store, one of which runs: the      *)
(* clients pps-client-*, one of the utilities that look into the store,    *)
(* the start of a client of the submissions, or the measurements of        *)
(* test-servers and test-parser.                                           *)
(***************************************************************************)
EXTENDS ListNodes, DumpNode, Clients, ServerFile, Experiments

VARIABLE program  \* the one that runs

vars == <<release, faults, program, listVars, dumpVars, clientVars, fileVars, testVars>>

\* The shape of the state.
TypeOK ==
  /\ ListTypeOK /\ DumpTypeOK /\ ClientTypeOK /\ FileTypeOK /\ TestTypeOK
  /\ program \in {"pps-list-nodes", "pps-dump-node", "pps-client", "get_nodes", "test-servers"}

\* The state of a program that does not run is any.
NoList == up = {} /\ nodes = CHOOSE l \in Listings : TRUE
NoDump == table = CHOOSE t \in Tables : TRUE
NoClient ==
  LET words == CHOOSE l \in CommandLines : l[1] # "substr"
  IN  command = words[1] /\ argv = words[2] /\ store = CHOOSE s \in Stores : TRUE
NoStart == file = NoFile
NoTest == size = CHOOSE z \in Sizes : TRUE

\* projet01 has put and get only, whose calls Submissions models.
Init ==
  /\ ReleaseInit
  /\ \/ program = "pps-list-nodes" /\ NoDump /\ NoClient /\ NoStart /\ NoTest
     \/ program = "pps-dump-node" /\ NoList /\ NoClient /\ NoStart /\ NoTest
     \/ program = "pps-client" /\ NoList /\ NoDump /\ NoStart /\ NoTest /\ faults = {}
     \/ program = "get_nodes" /\ NoList /\ NoDump /\ NoClient /\ NoTest
     \/ program = "test-servers" /\ NoList /\ NoDump /\ NoClient /\ NoStart
  /\ CASE program = "get_nodes" -> ~Final
       [] program = "test-servers" -> Final
       [] OTHER -> release # "projet01"
  /\ ListInit /\ DumpInit /\ ClientInit /\ FileInit /\ TestInit

Listing(step) ==
  /\ program = "pps-list-nodes" /\ step
  /\ UNCHANGED <<dumpVars, clientVars, fileVars, testVars>>
Dumping(step) ==
  /\ program = "pps-dump-node" /\ step
  /\ UNCHANGED <<listVars, clientVars, fileVars, testVars>>
Calling(step) ==
  /\ program = "pps-client" /\ step
  /\ UNCHANGED <<listVars, dumpVars, fileVars, testVars>>
Starting(step) ==
  /\ program = "get_nodes" /\ step
  /\ UNCHANGED <<listVars, dumpVars, clientVars, testVars>>
Testing(step) ==
  /\ program = "test-servers" /\ step
  /\ UNCHANGED <<listVars, dumpVars, clientVars, fileVars>>

Next ==
  /\ \/ Listing(ListNext) \/ Dumping(DumpNext) \/ Calling(ClientNext)
     \/ Starting(FileWork) \/ Testing(TestNext)
  /\ Same /\ UNCHANGED program

Spec == Init /\ [][Next]_vars

\* The program and the servers run: a datagram that is not lost is served and read.
FairSpec ==
  Spec /\ WF_vars(Next /\ ( Listing(ListWork) \/ Dumping(DumpWork)
                           \/ Starting(FileWork) \/ Testing(TestWork) ))
=============================================================================
