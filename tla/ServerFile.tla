----------------------------- MODULE ServerFile -----------------------------
(***************************************************************************)
(* How a client of the submissions gets its nodes from servers.txt.        *)
(* projet02 reads and adds one node after the other.  projet01 reads the   *)
(* whole file first (parse_server_file), with ports of 16 bits and a sign, *)
(* and skips the rest of each line up to a newline that may be missing;    *)
(* its failures are the number -1, which get_nodes takes for a length.     *)
(***************************************************************************)
EXTENDS Release, Integers, Sequences

CONSTANTS
  Files,    \* the contents of servers.txt in use
  NoFile    \* there is no servers.txt

\* An address is short, fills its 15 characters, or is none; a port is a number
\* or a word that is none.  The last line may lack its newline.
ASSUME FileAssumption ==
  /\ NoFile \notin Files
  /\ \A f \in Files :
       /\ DOMAIN f = {"lines", "ended"} /\ f.ended \in BOOLEAN
       /\ f.lines \in Seq([ip : {"short", "full", "none"}, port : Nat \cup {-1}])

VARIABLES
  file,     \* servers.txt
  line,     \* the number of lines that are read
  parsed,   \* ips and ports of projet01
  members,  \* the list of nodes
  starting  \* where client_init is

fileVars == <<file, line, parsed, members, starting>>

\* A port that is no number.
NotANumber == -1

\* What fscanf stores of a number: 16 bits, in projet01 with a sign.
Unsigned(n) == n % 65536
Signed(n) == IF Unsigned(n) < 32768 THEN Unsigned(n) ELSE Unsigned(n) - 65536

Port(n) == IF release = "projet01" THEN Signed(n) ELSE Unsigned(n)

\* The address in the i-th line.
Address(i) == <<file.lines[i].ip, Port(file.lines[i].port)>>

Stages == {"open", "read", "skip", "add", "socket",
           "ready", "failed", "crashed", "undefined"}

\* The shape of the state.
FileTypeOK ==
  /\ file \in Files \cup {NoFile}
  /\ file # NoFile => line \in 0..Len(file.lines)
  /\ Len(members) <= (IF release = "projet01" THEN Len(parsed) ELSE line)
  /\ starting \in Stages

FileInit ==
  /\ file \in Files \cup {NoFile}
  /\ line = 0 /\ parsed = <<>> /\ members = <<>>
  /\ starting = "open"

\* Without a file projet01 gets -1 servers, and crashes at the first; projet02
\* has an empty list.
OpenFile ==
  /\ starting = "open"
  /\ \/ starting' = CASE file # NoFile -> "read"
                      [] file = NoFile /\ release = "projet01" -> "crashed"
                      [] OTHER -> "socket"
     \/ May("nomem") /\ starting' = "failed"
  /\ UNCHANGED <<file, line, parsed, members>>

\* fscanf finds an address and a number.
MoreLines == line < Len(file.lines) /\ file.lines[line + 1].port # NotANumber

\* parse_server_file takes a line.  An address of 15 characters is one too long
\* for its array; realloc and calloc are not tested.
ParseLine ==
  /\ release = "projet01" /\ starting = "read" /\ MoreLines
  /\ Address(line + 1)[2] > 0
  /\ parsed' = Append(parsed, Address(line + 1))
  /\ \/ starting' = "skip"
     \/ May("nomem") /\ starting' = "crashed"
     \/ Address(line + 1)[1] = "full" /\ starting' = "undefined"
  /\ UNCHANGED <<file, line, members>>

\* A port that is not positive: -1 servers for get_nodes, and the arrays, if
\* there are any, are freed twice.
BadPort ==
  /\ release = "projet01" /\ starting = "read" /\ MoreLines
  /\ Address(line + 1)[2] <= 0
  /\ starting' = IF parsed = <<>> THEN "crashed" ELSE "undefined"
  /\ UNCHANGED <<file, line, parsed, members>>

\* Variant: the loop looks for the newline in front of the line.
NewlineBefore == line > 0

\* The rest of the line ends with a newline: without one getc returns EOF for ever.
NewlineAhead == line + 1 < Len(file.lines) \/ file.ended

SkipLine ==
  /\ starting = "skip" /\ NewlineAhead
  /\ line' = line + 1 /\ starting' = "read"
  /\ UNCHANGED <<file, parsed, members>>

\* node_init and node_list_add.
Add(node) ==
  \/ node[1] # "none" /\ members' = Append(members, node) /\ UNCHANGED starting
  \/ (node[1] = "none" \/ May("nomem")) /\ starting' = "failed" /\ UNCHANGED members

\* projet02 takes a line.
ReadNode ==
  /\ release = "projet02" /\ starting = "read" /\ MoreLines
  /\ Add(Address(line + 1))
  /\ line' = line + 1
  /\ UNCHANGED <<file, parsed>>

\* The end of the file, or a line that is none.
EndOfFile ==
  /\ starting = "read" /\ ~MoreLines
  /\ starting' = IF release = "projet01" THEN "add" ELSE "socket"
  /\ UNCHANGED <<file, line, parsed, members>>

\* Variant with an error of one in the loop over the servers.
ServersLess == Len(members) + 1 < Len(parsed)

ServersLeft == Len(members) < Len(parsed)

\* get_nodes of projet01, over the arrays.
AddNode ==
  /\ starting = "add" /\ ServersLeft
  /\ Add(parsed[Len(members) + 1])
  /\ UNCHANGED <<file, line, parsed>>

NodesAdded ==
  /\ starting = "add" /\ ~ServersLeft
  /\ starting' = "socket"
  /\ UNCHANGED <<file, line, parsed, members>>

GetSocket ==
  /\ starting = "socket"
  /\ starting' = "ready" \/ (May("nomem") /\ starting' = "failed")
  /\ UNCHANGED <<file, line, parsed, members>>

FileWork ==
  \/ OpenFile \/ ParseLine \/ BadPort \/ SkipLine \/ ReadNode \/ EndOfFile
  \/ AddNode \/ NodesAdded \/ GetSocket

-----------------------------------------------------------------------------
(* Properties.                                                              *)

\* A client that starts asks every server of the file once and in its order,
\* up to the first line that is no server, even if memory was short: it never
\* goes on with a part of them.  Without a file it has none.
ServersAreNodes ==
  starting = "ready" =>
    IF file = NoFile THEN members = <<>>
    ELSE \E n \in 0..Len(file.lines) :
           /\ members = [i \in 1..n |-> Address(i)]
           /\ n < Len(file.lines) => file.lines[n + 1].port = NotANumber

\* A file that the program can read: addresses that fit their array, ports
\* that fit their type, and for projet01 a newline after every line.
Readable ==
  /\ file # NoFile
  /\ \A i \in DOMAIN file.lines :
       /\ file.lines[i].ip = "short"
       /\ file.lines[i].port # NotANumber /\ Address(i)[2] > 0
  /\ release = "projet01" => file.ended

\* A client whose file is readable starts when nothing fails.
StartsFromFile ==
  (starting = "open" /\ Readable /\ faults = {}) ~>
    starting = "ready" /\ file # NoFile /\ Len(members) = Len(file.lines)
=============================================================================
