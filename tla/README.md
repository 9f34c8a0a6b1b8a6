# The distributed hash table in TLA+

This directory models the C program in `src/done`: a key-value store whose
servers keep their tables in memory, whose clients send one UDP datagram to each
of the N servers of a key, and whose consistency rests on quorums of W
acknowledgements and R equal answers. It also models the two earlier versions of
the store that the repository keeps with the remarks of their graders, the
submissions `projet01` and `projet02` in `src/provided/grading`, which differ
from the final code in their protocol, their memory handling and the way they
read their configuration.

`PROJECT.json` maps every definition to the lines it models and lists the runs,
the theorems, the hazards and the findings.

## The system

| component | source | state | operations | met by |
|---|---|---|---|---|
| network client | `network.c` | a socket, the local vote table, the number of acknowledgements | `network_get`, `network_put` | all clients |
| server | `pps-launch-server.c` | its `Htable_t` | one loop iteration per datagram: ping, dump, get, put | network client, dump-node, list-nodes |
| UDP sockets | `system.c` | datagrams on their way | `sendto`, `recv` with a timeout of one second | both |
| hash table | `hashtable.c` | array of buckets, linked lists | add, get, content, delete | server; the vote table of `network_get` |
| options | `args.c` | N, R, W and which of them were given | `parse_opt_args` | `client_init` |
| ring | `ring.c`, `node.c`, `node_list.c` | sorted list of nodes | `ring_init`, `ring_get_nodes_for_key` | `client_init`, network client |
| client initialisation | `client.c` | `client_t` | `client_init`, `client_end` | every `pps-client-*` |
| command line clients | `pps-client-put.c`, `-get.c`, `-cat.c`, `-find.c`, `-substr.c` | the values read so far | gets, then a put or an answer | network client |
| dump, list | `pps-dump-node.c`, `pps-list-nodes.c` | pairs received, servers that answered | dump, ping | server |
| experiments | `test-servers.c`, `test-parser.c` | `results.txt` | puts for W = 1..N; reading the outcomes back | network client |
| submissions | `grading/projet01`, `grading/projet02` | one socket per process, votes, acknowledgements; the list of nodes | the same calls, one node after the other | their own servers |

`client_init` parses the options, counts the lines of `servers.txt`, and builds
the ring. Each `network_put` or `network_get` looks the N servers of its key up
on the ring, sends them a datagram through a socket of its own, and reads at most
N datagrams. A server tells the four requests apart by the length of the datagram
and its first zero byte. Nothing in a datagram identifies the call or a version.
The submissions have no ring: every key is at the first N lines of `servers.txt`,
a call asks them one by one and waits for each, and a process keeps its socket.

What is hard:

* calls of several clients interleave at several servers, and two puts may reach
  the servers in different orders;
* datagrams are lost, late, reordered, duplicated; servers restart empty;
* answers are counted without a look at who sent them, in a counter of one `char`;
* in the submissions an answer that comes late is read by the next call of the
  process, and servers are told apart by their port only;
* allocations fail in the middle of an update of a linked list or of a copy;
* a table is dumped in packets without numbers, cut where a pair does not fit;
* the walk around the ring ends only if the ring has N servers, which is tested
  on a count of newlines;
* the clients compute with positions and lengths in `size_t`, and join values in
  a buffer of one message.

What makes each component correct: a put that succeeded is stored by W servers; a
get that succeeded was answered by R servers and returns what the last settled put
wrote; gets between two puts agree; every call returns. The hash table is a map
whatever allocations fail, and leaks nothing. The options are coherent. A request
goes to the N servers that follow its key. A dump is the table or an error. A
server is listed as OK only if it has answered. cat, find and substr compute what
their names say from values the store held. A client starts with all servers of
its file or not at all.

## Modules

| module | models | remarks |
|---|---|---|
| `Config` | the keys in use and the size of a message | constants of the command line programs |
| `Release` | which version of the program runs, and under which faults | extended by all modules that have branches for the submissions |
| `Tally` | `increment_and_get` and the test of the quorum | operators on the byte that is the counter |
| `GetTally` | the loop of `network_get` with 130 answers | the vote counter at its full width |
| `DHT` | calls, servers and datagrams | extends `Tally`; the core |
| `Register` | what the store promises: one register per key | abstract; implemented by `DHT` |
| `Htable` | `hashtable.c` of the three versions, one bucket per step | heap cells, failing allocations |
| `HashMap` | what `hashtable.h` promises: a map | abstract; implemented by `Htable` |
| `Args` | `parse_opt_args` | |
| `Ring` | `get_nodes`, `ring_init`, `ring_get_nodes_for_key` | |
| `ClientInit` | `client_init` and the lookup of a key | composes `Args` and `Ring` |
| `ListNodes` | `pps-list-nodes` and the pings of the server | final version and projet02 |
| `DumpNode` | `pps-dump-node` and the dump branch of the server | final version and projet02 |
| `Clients` | `pps-client-put`, `-get`, `-cat`, `-find`, `-substr` | over a store of one value per key that another client writes |
| `ServerFile` | `get_nodes` and `client_init` of the submissions | projet01 and projet02 |
| `Experiments` | `test-servers`, `test-parser` and the file between them | |
| `Programs` | one of the five modules above runs | composes them |
| `Submissions` | calls, clients and servers of projet01 and projet02 | extends `Tally` |
| `MCDHT`, `MCHtable`, `MCClientInit`, `MCPrograms`, `MCSubmissions` | instances for TLC | |
| `DHTProofs`, `DHTQuorum`, `DHTFresh` | proofs about `DHT` | each extends the one before |
| `GetTallyProofs`, `HtableProofs`, `ClientInitProofs`, `ProgramsProofs`, `SubmissionsProofs` | proofs about the module of the same name | |

### DHT

A *call* is one execution of `network_put` or `network_get`. `op` is chosen from `Plans`
initially, so an instance is a set of calls, each of which may begin at any time
or never. `StartGet`, `StartPut` are the code up to the end of the loop of
`sendto`, which has no effect in between that another process could see: the
datagrams it sends are then taken one by one in any order. `GetReceive` and
`PutReceive` are one iteration of the receive loop, with the return it may lead
to; `Return` closes the socket, so later answers are dropped (`Answer` does not
keep an answer to a call that has returned). `Timeout` is `recv` returning -1.
`Serve` is one iteration of the server's loop, in its four branches. `table[s]` is
the map that `Htable` is shown to implement. A put of "" under "" is the datagram of
a dump request (`ServeDump`): the server sends its table in one or more packets, each
of which the client takes for an acknowledgement. `Packets` says of them only that
there are at most as many as entries and one more. Without memory for the packet
nothing is sent; without memory for the copy of the table the server reads NULL and
dies. Where that can happen (`DumpMayKill`) every server may lose its table and the
datagrams it has missed. The requests of pps-dump-node itself change nothing in a
server, or end it, which is what the fault `crash` is for.

Faults are a constant, so that a property can be checked and proved under
exactly the faults it survives: `lost request`, `lost answer`, `late` (a timeout
before an answer that still comes), `duplicate`, `crash` (a restart with an empty
table), `nomem` (any allocation fails) and `socket` (socket() fails).

The variables `sent`, `stored`, `owner`, `expect` and `quiet` are history; no
other variable depends on them. `owner[k]` is the last put begun on `k`, provided
that no request of an earlier put on `k` was on its way when it began. Without
that condition the code promises nothing: entries carry no version, and the late
datagram of an old put overwrites a newer value.

The refinement maps `Register.register[k]` to the value of the owner of `k` once
it has returned ERR_NONE, `promise` to `expect` and `result` to the values returned.
`RSpec` says that a get which begins while the register is settled returns what it
holds, or fails, unless another put begins first.

### GetTally and Tally

The counter is the first character of a string in a hash table. `Reaches` is the
comparison with R after the conversion to `unsigned int`: `char` is signed on the
targets of the Makefile, so 128 and more compare above every R. An entry of 0 is
no entry. `GetTally` exists because `DHT` with 130 servers is out of TLC's reach. Any
allocation of increment_and_get, and the copy of the value for the caller, may fail
for `MaxShort` of the answers; `short` counts them. A vote may then be lost, so that a
quorum may be missed, but none is invented.

### Htable

`Slot` are the buckets of the array (`First`) and the heap cells that `malloc` may
return. `Collision`, `CopyPair` and `FreePair` advance a loop by one bucket; other
actions are the code of a call between two iterations. Every allocation has a
failing alternative when `NoMem` holds. `hash_function` is a constant function.
`HashMap` is what callers see: `map` reads the entries wherever they are. While memory is
`scarce` a call of the map may run out of it, and otherwise every add takes effect
and every get finds what is there.

The three versions differ in what they do with memory: projet01 returns the value
itself (`GetPointer`), cannot copy its content, and frees the lists without the
pairs in the array (`FirstFreed`, `ArrayFreed`: their strings are lost); projet02
frees a copy a second time when realloc fails (`FreeTwice`, after which the
program is undefined).

### Args, Ring, ClientInit

An option and its number are one step; the first other word ends the loop. A line
of `servers.txt` is an address and a number of nodes, 0 also standing for a blank
line. SHA1 digests are two bytes long and given as constants. `StrLess` is
`strncmp`, `Below` the order of digests, which only the property uses. qsort may
leave equal nodes in any order. `ClientInit` counts the newlines, parses, tests N,
reads the file again (it may be unreadable then, which makes an empty ring), and
walks.

### Programs: ListNodes, DumpNode, Clients, ServerFile, Experiments

These are processes that run alone beside servers, so `Programs` lets one of them
run and keeps the state of the others still.

* `ListNodes`: the final version sends all pings and collects senders until a second
  is silent; projet02 asks one server at a time and takes any datagram for its
  answer. `answered` is history.
* `DumpNode`: a packet is its number of pairs (only the first has one), its pairs and
  its size. The lengths of keys and values are constants, and `Pack`, `Dump` follow
  the server's arithmetic; a packet is sent without its last byte. The reader stops
  a packet at an empty key, looks one byte behind a packet that fills its buffer,
  and counts the pairs down. A packet read in place of the first is text where a number
  should be (`Announced`): in the final version its first character is the highest byte
  and the number is `Huge`; projet02 takes the low byte first and its fourth character
  on top, which may be 0 (`MayBeSmall`), and from 32768 pairs on even a good number is
  changed by the sign of a byte. Such a number is any of `AnyNumber`. The number read late
  is text as well (`HeaderAsText`): it begins with a zero byte and ends the packet in
  the final version, and is the key of one more pair in projet02, where it may take a part
  of the pairs behind it. Text that is not read from its beginning gives pairs that
  nobody wrote (`Odd`).
* `Clients`: the commands call by call; strings are sequences of letters, so that
  cutting, joining and searching are what the code does to them. `Beyond`, `StrStr`
  and their arguments are in words of `Word` values that wrap around. Memory that was
  never written is an unknown letter. `ClientAssumption` says what the store and the command
  line can be: values fit in a message with their key, put and get have one
  key, find and substr two, and positions are numbers of an int. W is 1 at least.
* `ServerFile`: a line is an address (short, of exactly 15 characters, or none) and a
  port, converted to 16 bits with a sign (projet01) or without (projet02).
  Where projet01 dereferences NULL the stage is `crashed`, where it overflows its
  array or frees it twice it may be `undefined`, and without a last newline its
  loop over `getc` has no step that changes anything.
* `Experiments`: a line of `results.txt` is a word. The parser spins where it looks for a
  newline behind the end of the file. `Reported` in
  `ProgramsProofs`, the safety part of `ParserReports`, says that a parser which has ended
  has printed the rows that were measured.

### Submissions

A process executes its `script`, the calls of one command line. `Begin`, `Send`,
`Receive`, `Timeout`, `GetEnds` and `PutEnds` are the iterations of the loops over the
nodes in `network_get` and `network_put`; `node[p]` is the index of the loop. `Cut` is
the tail of `client_init`, which reduces the options to the number of servers.
`answers` outlives the call it answers, as the socket does. `Alone(c)` singles out
the calls that cannot meet the answer to an earlier call: nothing is late, or the
call is the first of its process. `writer`, `promise` and `stored` are history.

## Runs

Times are for two workers.

| run | states, time | shows |
|---|---|---|
| `dht_restarts` | 2.0 M, 150 s | two puts, two gets, N = 2, R = 2, W = 1, with lost requests, late answers and restarts: `GetHasQuorum`, `Fresh`, `AgreeingReads`, `PutOkMeansStored`, `Durable`, `ImplementsRegister` |
| `dht_chaos` | 1.5 M, 120 s | every fault at once, two keys one of which is "": `TypeOK`, `NoInvention` |
| `dht_live` | 61 k, 30 s | one of three servers loses datagrams and restarts, R = 3, W = 2: `Termination`, `PutsSucceed`, `PutOkMeansStored` |
| `tally_quorum` | 1.5 M, 10 s | R = 128, N = 130, an allocation may fail: `OkMeansQuorum`, `QuorumMeansOk` |
| `htable` | 271 k, 20 s | the three versions, allocations fail: `TypeOK`, `SafeLoops`, `NoLeak`, `ContentIsTable`, `ImplementsMap`, `CallsEnd` |
| `client_init` | 32 k, 40 s | `TypeOK`, `OptionsCoherent`, `SendsToSuccessors`, `WalkFindsServers` |
| `programs` | 240 k, 90 s | `OkMeansAnswered`, `ReportsTheLiving` (ListNodes); `DumpIsTable`, `DumpSucceeds`, `DumpEnds` (DumpNode); `CatIsConcatenation`, `FindIsFirst`, `SubstrIsSlice` (Clients); `ServersAreNodes`, `StartsFromFile` (ServerFile); `ParserReports` (Experiments); `TypeOK` |
| `submissions` | 1.0 M, 75 s | three processes of projet01 and projet02: `TypeOK`, `PutOkMeansStored`, `NoInvention`, `Fresh`, `CallsReturn` |
| `dht_break` | violation | a not-found answer that comes first ends a get that has a quorum |
| `servers_count` | violation | a server with two lines counts twice, and the walk never ends |
| `ring_nul` | violation | zero bytes in digests: a request goes to a server that does not follow the key |
| `dump_header` | violation | a packet with nothing but the number of pairs loses the low byte of that number, and fewer pairs are printed |

The violations are findings: each checks one property that a comment of the
repository states, quoted in `PROJECT.json`.

Facts that the models show but no run is kept for:

* `network.c:162`: the macro that reports a failed `create_socket` evaluates its
  argument twice. When the second socket can be opened, put returns ERR_NONE without
  having sent anything. `DHT` has the step (`PutWithoutSocket`, fault `socket`); with it
  `PutOkMeansStored` fails.
* `network.c:51`: at the 128th equal answer the counter is negative and compares
  above every R; at the 256th it is the end of a string. With R = 129 in `GetTally`
  `OkMeansQuorum` fails: hence the assumption `Countable` of the theorems.
* `pps-launch-server.c:133`: a put whose entry could not be allocated is
  acknowledged (fault `nomem` in `DHT` and `Submissions`).
* The submissions, with late answers and without the condition `Alone`: `NoInvention`,
  `PutOkMeansStored` and `Fresh` all fail. An answer to the call before, which comes
  from a server with the same port, is taken for one of the present call.
* projet02 without a `servers.txt` has an empty list of nodes, so that N = R = W = 0
  and every put succeeds (`ServerFile!OpenFile`, `Submissions!Cut`).
* `test-servers.c:25` (not modelled, times are left out): when the nanoseconds
  of the end are below those of the start a second is added to them and not taken
  from the seconds, so that the time printed is a second too long.

### Bounds, and why they are enough

* *Two or three servers.* R + W > N and 2 R > N hold with the smallest overlap, one
  server, in these instances, so one missing vote shows. More servers are the
  business of the proofs.
* *Three or four calls on one key.* A violation of freshness needs two puts and a
  get, one of disagreement a put and two gets; keys do not interact but for `""`,
  which `dht_chaos` has as a second key.
* *Datagrams in sets*: a call sends one datagram to each server, so no two equal
  ones exist but by duplication, which leaves the datagram in the set: it may
  be taken any number of times.
* *Symmetry* permutes servers, two puts together with their values, and two gets.
  It is used only in runs without liveness properties; no CHOOSE over a symmetric
  set occurs in the definitions the runs evaluate.
* *130 answers* are two more than a signed character can count. Memory is short for one
  of them (`MaxShort`), the first, any in between or the last: one lost vote moves the
  counter below the quorum, and more would only do so again. The theorems have any bound.
* *A table of two lists, three keys, three cells*: a list with a collision and one
  without; a fourth cell would only make lists longer by what is never read.
  When all cells are used, add fails as malloc does.
* *Eleven files, four keys* (`client_init`): the keys are before all nodes, at a node,
  between two and behind all; the nodes alternate so that a walk meets a server
  twice before it has met the third.
* *Packets of twelve bytes* (`programs`): header and two short pairs, one long pair, or
  nothing behind the header, so that dumps of up to three pairs take one to three
  packets and the limits are met exactly; an empty key first, last and in between. Bytes
  that are no number make 0, 1 or 2 (`Misread`), or a number above all tables: below,
  at and above the number of pairs in most tables.
* *Strings of up to five of two letters*, a word of 64 values: two long values fit a
  message and three do not; the positions lie before, at and behind the ends and
  where sums wrap around.
* *Files of up to three lines* (`ServerFile`): every kind of line alone, first, last and in
  the middle, ports on both sides of 2^15 and 2^16, with and without last newline.
* *Experiments of up to five W*: one success between streaks of failures, and an end
  at the third W without a success before and at the last W.
* *Two servers on two ports, three processes* (`submissions`): two writers and a reader,
  processes with two and three calls, more servers asked for than there are,
  quorums that meet, that do not, and of zero; faults one group at a time, as
  restarts and late answers need not coincide to break what they break.
* `CHECK_DEADLOCK FALSE` is said where the system may stop: calls are finite in
  number, a table may be deleted, a client fails or sends, a program ends.

### Fairness

`DHT!FairSpec` has weak fairness of `Read(c)`: a client that waits in `recv` is
woken by a datagram or by the timeout of one second that get_socket sets; and of
`Serve(c, s)`: a server whose socket holds a datagram goes round its loop. No
call has to begin, no datagram has to be lost and no server has to crash. Without
`late` in the faults, the timeout comes only when no answer is left to come: this is
what "a server answers in time" means in `PutsSucceed`. `Htable!FairSpec` and
`ClientInit!FairSpec` say that a sequential program goes on. `Programs!FairSpec` says so of
the one that runs and of the servers that answer it, not of faults nor of the
other client in `Clients`; `Submissions!FairSpec` of the processes and servers.

## Proofs

All theorems hold for every value of the constants that the named assumptions of
the modules admit: sets of servers, calls, keys and values, N, R and W that the
options accept, hash functions, tables, command lines, files of servers.
`PlacementAssumption` of `DHT` says that a key has N distinct servers, which
`FollowsTheKey` proves of `client_init` and `ring_get_nodes_for_key`.

| theorem | assumptions besides `Spec` |
|---|---|
| `DHTProofs!TypeCorrect`: []TypeOK | none, every fault |
| `DHTProofs!NothingInvented`: []NoInvention | none, every fault |
| `GetsHaveQuorum`: []GetHasQuorum | Dependable, Countable |
| `PutsAreStored`: []PutOkMeansStored | Dependable, Countable, no empty key |
| `PutsInTimeSucceed`: [][PutsDoNotFail] (DHTQuorum), the safety part of PutsSucceed | no late answers and not DumpMayKill, every other fault; the property speaks of keys of which W servers neither restart nor lose datagrams |
| `GetsAreFresh`: []Fresh | Dependable, Countable, Overlapping |
| `PutsAreDurable`: []Durable | Dependable, Countable, no empty key |
| `StoreImplementsRegister`: ImplementsRegister | Dependable, Countable, Overlapping, no empty key |
| `GetsAgree`: []AgreeingReads | Dependable, Countable, Majority |
| `SuccessHasQuorum`: []OkMeansQuorum (GetTally) | Countable; failing allocations included |
| `QuorumSucceeds`: []QuorumMeansOk (GetTally) | Countable; the property speaks of runs in which no allocation has failed |
| `HtableProofs!TypeCorrect`: []TypeOK | none, failing allocations included |
| `LoopsAreSafe`: []SafeLoops (Htable) | the same |
| `NothingLeaks`: []NoLeak (Htable) | the same |
| `CopiesAreComplete`: []ContentIsTable (Htable) | the same |
| `TableIsMap`: ImplementsMap (Htable) | the same |
| `OptionsAreCoherent`: []OptionsCoherent (ClientInit) | none |
| `ClientInitProofs!TypeCorrect`: []TypeOK | none |
| `FollowsTheKey`: []SendsToSuccessors (ClientInit) | NoZeroByte, NoCollision |
| `ProgramsProofs!TypeCorrect`: []TypeOK | none |
| `ListedNodesAnswered`: []OkMeansAnswered (ListNodes) | none; the property excepts late answers in projet02 |
| `DumpsAreTables`: []DumpIsTable (DumpNode) | none; the property excepts duplicates, failing allocations, tables whose packets are full or hold an empty key or whose first pair does not fit behind the number, and in projet02 those with a later packet that may be read as a small number or with 32768 pairs and more |
| `CatConcatenates`, `FindFindsTheFirst`, `SubstrSlices`: []CatIsConcatenation, []FindIsFirst, []SubstrIsSlice (Clients) | none; the last excepts positions before the start |
| `StartedWithItsServers`: []ServersAreNodes (ServerFile) | none |
| `ParserPrintsWhatWasMeasured`: []Reported (ProgramsProofs), the safety part of ParserReports | none |
| `LivingAreReported`: []LivingReported (ProgramsProofs), the safety part of ReportsTheLiving | none; the property speaks of runs without faults |
| `ReadableFilesStart`: []ReadableStarts (ProgramsProofs), the safety part of StartsFromFile | none; the same, and of files that can be read |
| `DumpsEndWell`: [][DumpsDoNotFail] (ProgramsProofs), the safety part of DumpSucceeds | none; the same, and of tables whose packets have room and no empty key (in projet02 of fewer than 32768 pairs); also says that all pairs of a plain table are printed in order |
| `SubmissionsProofs!TypeCorrect`: []TypeOK | none, every fault |
| `AcknowledgedStored`: []PutOkMeansStored (Submissions) | none; the property speaks of calls that are `Alone`, and of runs where no allocation fails |
| `SubmissionsProofs!NothingInvented`: []NoInvention | none; the same |
| `PutsAreRead`: []Fresh (Submissions) | Servers <= 128; the property speaks of calls whose servers meet, and of runs where no allocation fails |

`Dependable`: no duplicates, no failing allocation, no failing socket().
`Countable`: R <= 128 (in `SubmissionsProofs`, Servers <= 128). `NoZeroByte`, `NoCollision`: no digest of a node
has a zero byte, which would end the comparison of `strncmp`, and no two are equal; what
happens otherwise is the finding of `ring_nul`. `Overlapping`: R + W > N. `Majority`: 2 R > N. Requests and
answers may be lost or late, and servers restart, in all of them.

The argument, module by module:

* `DHTProofs`: TypeOK is inductive. For NoInvention the strengthening says that
  every entry of a table, every answer and every vote comes from a put that has
  begun on the key.
* `DHTQuorum`: `QuorumInv`. NoInvention and TypeOK say nothing of how many servers
  are behind a number. The invariant says that a server that has a request of a
  call left has neither answered it nor stored it (`OneDatagram`), so that the
  votes of a value are at most the servers that have answered it and whose answer
  was taken (`VotesAreAnswers`), and the acknowledgements of a put at most the
  servers that have stored it and whose acknowledgement was taken
  (`AcksAreStores`). Each step that counts takes one answer from the network and
  so adds one server. `PaceInv`, for puts that are answered in time: as long as a put
  waits, the steady servers from which nothing is left to come (`Spent`) are at most the
  datagrams that its loop has read. The loop ends with success at W of them, so that
  of W steady servers one still has something on its way, and the put does not give up.
* `DHTFresh`: `FreshInv` adds that no request of another put is on its way to a
  key with an owner, that the servers which have stored the owner's put have its
  value or have restarted, and that the W servers of a settled put are bound to
  answer its value or "not found" to every get that expects it. W + R > N makes
  such a server one of the R behind the get.
  The steps of DHT are steps of Register or stutter, by `FreshInv`. For agreement:
  with no put request on its way no table gains a value, so that a server never
  answers two values, and two sets of R share a server.
* `GetTallyProofs`: `TallyInv` says that the byte of a value is at most the number of its
  answers, and equal to it as long as no allocation has failed, and that it is below R
  while the loop runs; below 128 the byte does not wrap.
* `HtableProofs`: the properties speak of lists, which the program has only as
  chains of pointers; to follow them would be a recursion over data. The
  invariant speaks instead of two functions, `home` (the list of a bucket) and
  `depth` (how many buckets are before it): `IInv` is that some `home` and `depth` are
  `Good`. The tail of a bucket is one deeper in the same list, two buckets of a list
  have different depths, and the bucket without tail is the deepest (`ChainedIn`).
  Allocating a cell sets its home and depth, nothing else changes them. A search
  has passed the buckets above it (`Searched`), a copy has a pair for each bucket it
  has passed (`Copied`), and a delete has freed those (`Freed`). `Counted` says that the
  strings are two for each entry. `TableIsMap` maps a step of `Htable` to a step of
  `HashMap` at the point where a call ends: no bucket before the place where a
  search stops has the key, and there is one bucket with it at most.
* `ClientInitProofs`: while options are read, each is what the user gave or the
  default; from there the last step is a case analysis. For the ring, `Sort` leaves
  nodes in an order of which each pair of neighbours is known; that all pairs are
  in order follows by the smallest counterexample, and needs `StrLess` to be the
  order of digests, hence `NoZeroByte`. Of the walk, `WalkInv` says that the servers of
  all positions between the first node and the present one are found (`Walked`), and
  that those before the node where a server was found first were found earlier
  (`InOrder`).
* `ProgramsProofs`: one program runs, so the invariant is the conjunction of five.
  - `ListInv`: whoever was heard has answered; in projet02 the ping of the node in
    hand is the only one that may still be answered (`OnePing`).
  - `FileInv`: in each stage the servers are those of the first lines.
  - `ClientInv`: the values read are ones that their keys held, argument by
    argument; cat has joined the values of the sources it has read, cut at the size
    of a message, and cutting twice is cutting once (`CutTwice`). `FlattenSeq` is a recursive
    function chosen by CHOOSE; that it exists, and what one more member adds, is
    shown by the smallest length without such a function.
  - `DumpInv`: the packets of a dump hold consecutive parts of the table (`Parts`, shown
    of `FoldLeft(Pack, ...)` by the smallest number of pairs for which it is false). What
    was read and what is on its way are at different places of the table (`Carried`): the
    places of the pairs read are an injection into those of the table. The program
    prints when it has as many as announced, and an injection between sets of
    equal size is onto: so it has all. A packet without a number that is read first makes
    the number so large that the dump cannot end: of its text and of the packets behind
    it at most as many pairs are read as were sent, and one more from the number that
    projet02 reads late. Or it may be read as a small number, which `Unmistakable`
    excludes; `DumpAssumption` says that no table is
    as large as `Huge`, and `HeaderGone` that the number of pairs is not still on its way
    when it has been read.
  - `TestInv`: where the rows are in the file (`Row`, `Written`, `LastRow`), that the
    parser has read those and no other (`SameRows`, `AtLine`), and that both programs
    count rows without success alike (`NoneSince`): the parser, which knows the number
    of rows only by that count, can neither stop early nor read a row that
    is not there (`RowWasWritten`), also when the file was cut.
  - Without faults, three more invariants beside these. `LivingInv`: of a server that runs
    the ping, its answer or the sender is still somewhere. `ReadableStarts` is
    inductive with `FileInv`. `FedInv`: the packets on their way are the last ones of the
    dump, and as many pairs are read as the earlier ones hold (`Adjoin`: each packet
    begins where the one before it ends), in their order, so that nothing is wanted when
    none is left and the pairs are the table when nothing is wanted.
* `SubmissionsProofs`: a process has sent a datagram to the nodes behind its loop
  index and to no other (`Causes`), so counters are below the index (`Places`). For
  the acknowledgements, `InTurns` and `Once` say that of a call at most one node is
  unanswered, the present one, and that no server is in two places: with its
  request, with its answer, or counted. A call that is alone reads its own
  answers only, so each acknowledgement is a store (`Counted`). Late answers are
  what breaks this, and the reason for `Alone`. `FromPuts` traces values back to puts.
  For freshness, `Promises` says that a put which has succeeded with no other after
  it is the only one on its key that is under way (`OwnerIsLast`), that its servers
  hold its value or nothing (`ReplicasAgree`), and that a get to which it is promised
  has a set of W servers that answer nothing else, so that any other value has its
  votes from the remaining ones, less than R of them (`Bounded`). The byte of a vote
  counts to 127 and compares above all R at 128: with at most 128 servers another
  value has at most 127 votes beside the one server that the two calls share.

The inductive invariants were checked by TLC on small instances before they were
proved.

What a recursive function computes is proved where the recursion is over numbers
or finite sets: the library's `WFMin` gives the smallest counterexample, which
replaces an induction. The proofs about `Ring` made one change to it: `Orders` is
written with functions, `Permutations` being defined for TLC. `ReadableFilesStart`
corrected `OpenFile`: two arms of its CASE overlapped, of which TLC takes the first and
TLA+ either.

Only model-checked: the liveness properties, which need fairness and ENABLED and
are out of the prover's reach (`Termination`, `PutsSucceed`, `CallsEnd`,
`WalkFindsServers`, `ReportsTheLiving`, `DumpSucceeds`, `DumpEnds`, `StartsFromFile`,
`CallsReturn`, and of `ParserReports` that the parser ends). Of `PutsSucceed`,
`ReportsTheLiving`, `DumpSucceeds` and `StartsFromFile` the safety part is proved, that
nothing but the good end can come; that an end comes is checked.

## Not modelled

* `hash_function` and SHA1: constants.
* Calls with different N, R and W are in `Submissions`; in `DHT` they are constants.
* A file `servers.txt` whose content changes between its two readings, or, for the
  final code, with a line that `fscanf` rejects in the middle.
* Memory ownership of nodes (`node_list.c:32` frees a node twice); failing
  allocations in the lookup of `Ring`.
* A pair of one byte more than a message in a dump (`DumpAssumption`). What projet02 makes
  of numbers of pairs from 32768 on, and of text read as a number, is any of a few
  numbers, not computed from the bytes.
* What the three clean-ups of add_bucket (`hashtable.c:29-47`) free: in `Htable` they are
  one outcome, a table that is as it was.
* In `Clients` a quorum W of zero, which projet02 lets pass: a put then succeeds even if
  no server has stored it, as in `Submissions`, and its clients print OK.
* `network_del` of `network.h`, which has no definition. `test-hashtable.c`, `tests.h`,
  `week04.c`, `log-packets.c`: unit tests, a superseded interactive program and a
  logger, which keep no state of the store. Times and means in the experiments.
* `src/provided/grading/projetFinal` is `src/done` once more, with remarks of its
  graders; `src/provided/week04` and `week05` are the headers, macros and helpers that
  the authors were given. The versions of the repository share their headers,
  `error.h`, `util.c` and `system.c` word for word, so that about two thirds of the
  lines of C in the repository repeat a file of the same name in another version. A
  definition is mapped to one of the copies, the one in `src/done` where it exists.

## Plan

Done, in this order: Tally and DHT with Register (the reason the system exists),
their proofs, GetTally, Htable with HashMap, Args, Ring and ClientInit; then
ListNodes, DumpNode, Clients, Submissions with its proofs, the proofs of
GetTally, the versions of Htable, ServerFile and Experiments; then the proofs of
Htable and of its refinement, of the ring, of Submissions' freshness and of the
programs.

What could follow: failing allocations in the lookup of `Ring`; options per call in
`DHT`; the refinement of `Register` by `Submissions`.
