--------------------------- MODULE MultiplexServer ---------------------------
(***************************************************************************)
(* multiplex/server.c: one thread serves the console, the listening socket *)
(* and every client through select(), and keeps a running sum per client.  *)
(*                                                                         *)
(* Steps are cut at the system calls, where the clients and the kernel run *)
(* in between: select, accept, and for one client the read, the write of   *)
(* the result and the close.  The scan of the slots is one step per slot   *)
(* that is ready; slots that are not are skipped within it.                *)
(***************************************************************************)
EXTENDS MonitorSet, SumClient, FiniteSets

CONSTANTS
  FD_LIMIT,        \* descriptors the process may have open (RLIMIT_NOFILE)
  ConsoleInput     \* what may happen to standard input: "line", "eof"

CONSOLE == 0
LISTEN  == 3       \* the first descriptor after standard error
Fds == 0 .. (FD_LIMIT - 1)

ASSUME MultiplexServerAssumption ==
  /\ FD_LIMIT \in Nat /\ FD_LIMIT > LISTEN
  /\ ConsoleInput \subseteq {"line", "eof"}

VARIABLES
  monitor_fd_set,  \* as in the code
  client_result,   \* as in the code
  readfds,         \* what select() left in the set
  pc,              \* where main() is
  i,               \* the slot main() is at
  opened,          \* the descriptors that are open
  owner,           \* the client at the other end of a descriptor
  console          \* the state of standard input

fdVars     == <<opened, owner>>
serverVars == <<monitor_fd_set, client_result, readfds, pc, i, opened, owner,
                credited>>
vars == <<serverVars, console, clientVars, netVars>>

TypeOK ==
  /\ SumClientTypeOK
  /\ monitor_fd_set \in [Slots -> Fds \cup {Free}]
  /\ client_result \in [Slots -> Int]
  /\ readfds \subseteq Fds
  /\ pc \in {"select", "dispatch", "scan", "result", "close", "dead"}
  /\ i \in Slots \cup {MAX_CLIENT_SUPPORTED}
  /\ pc \in {"result", "close"} => i \in Slots
  /\ opened \subseteq Fds
  /\ owner \in [Fds -> Clients \cup {NoClient}]
  /\ console \in {"quiet", "line", "eof"}
  /\ credited \in [Clients -> Int]

Init ==
  /\ SumClientInit
  /\ monitor_fd_set =
       add_monitor_fd_set(add_monitor_fd_set(init_monitor_fd_set, CONSOLE), LISTEN)
  /\ client_result = [slot \in Slots |-> 0]
  /\ readfds = {}
  /\ pc = "select"
  /\ i = 0
  /\ opened = 0 .. LISTEN
  /\ owner = [fd \in Fds |-> NoClient]
  /\ console = "quiet"
  /\ credited = [c \in Clients |-> 0]

-----------------------------------------------------------------------------
FdReadable(fd) ==
  \/ fd = CONSOLE /\ console # "quiet"
  \/ fd = LISTEN /\ backlog # <<>>
  \/ owner[fd] # NoClient /\ Readable(owner[fd])

\* select() fails at once, and leaves its set alone, when a descriptor of the
\* set is closed; the code looks at the set either way.
Select ==
  /\ pc = "select"
  /\ LET watched == Watched(monitor_fd_set)
         ready   == {fd \in watched : FdReadable(fd)}
     IN  IF watched \subseteq opened
           THEN ready # {} /\ readfds' = ready
           ELSE readfds' = refresh_fd_set(monitor_fd_set)
  /\ pc' = "dispatch"
  /\ UNCHANGED <<monitor_fd_set, client_result, i, fdVars, console, credited,
                 clientVars, netVars>>

\* The process ends: an exit() of the code, or a signal.
Die ==
  /\ pc' = "dead"
  /\ opened' = {}
  /\ ServerGone

Accept(fd) ==
  /\ \A lower \in Fds \ opened : fd <= lower
  /\ opened' = opened \cup {fd}
  /\ owner' = [owner EXCEPT ![fd] = Head(backlog)]
  /\ backlog' = Tail(backlog)
  /\ monitor_fd_set' = add_monitor_fd_set(monitor_fd_set, fd)
  /\ pc' = "select"
  /\ UNCHANGED <<listening, srvEnd>>

\* accept() fails, and the program exits, when no descriptor is left.
AcceptConnection ==
  /\ pc = "dispatch"
  /\ LISTEN \in readfds
  /\ backlog # <<>>
  /\ \/ \E fd \in Fds \ opened : Accept(fd)
     \/ /\ Fds = opened
        /\ Die
        /\ UNCHANGED <<monitor_fd_set, owner>>
  /\ UNCHANGED <<client_result, readfds, i, console, credited, clientVars,
                 up, down>>

ReadConsole ==
  /\ pc = "dispatch"
  /\ LISTEN \notin readfds
  /\ CONSOLE \in readfds
  /\ console # "quiet"
  /\ console' = IF console = "line" THEN "quiet" ELSE console
  /\ pc' = "select"
  /\ UNCHANGED <<monitor_fd_set, client_result, readfds, i, fdVars, credited,
                 clientVars, netVars>>

BeginScan ==
  /\ pc = "dispatch"
  /\ readfds \cap {LISTEN, CONSOLE} = {}
  /\ pc' = "scan"
  /\ i' = 0
  /\ UNCHANGED <<monitor_fd_set, client_result, readfds, fdVars, console,
                 credited, clientVars, netVars>>

\* Without the FD_ISSET of the condition.
IsOccupied(slot) == monitor_fd_set[slot] # Free

\* The slots from i on that the loop stops at.
IsReady(slot) ==
  /\ monitor_fd_set[slot] # Free
  /\ monitor_fd_set[slot] \in readfds
ReadySlots == {slot \in Slots : slot >= i /\ IsReady(slot)}

\* The read of one client.  A first int of 0, which is also what the end of
\* the stream looks like, asks for the result.
ReadClient ==
  /\ pc = "scan"
  /\ \E slot \in ReadySlots :
       LET c == owner[monitor_fd_set[slot]] IN
       /\ \A other \in ReadySlots : slot <= other
       /\ c # NoClient /\ Readable(c)
       /\ Consume(c)
       /\ IF DataRead(c) = 0
            THEN /\ pc' = "result"
                 /\ i' = slot
                 /\ UNCHANGED <<client_result, credited>>
            ELSE /\ client_result' =
                      [client_result EXCEPT ![slot] = IntAdd(@, DataRead(c))]
                 /\ credited' = [credited EXCEPT ![c] = IntAdd(@, DataRead(c))]
                 /\ i' = slot + 1
                 /\ UNCHANGED pc
  /\ UNCHANGED <<monitor_fd_set, readfds, fdVars, console, clientVars,
                 listening, backlog, srvEnd, down>>

comm_socket_fd == monitor_fd_set[i]

\* The write of the result: SIGPIPE when the client has closed its end.
SendResult ==
  /\ pc = "result"
  /\ LET c == owner[comm_socket_fd] IN
     \/ /\ Hungup(c)
        /\ Die
        /\ UNCHANGED down
     \/ /\ ~Hungup(c)
        /\ down' = [down EXCEPT ![c] = Append(@, client_result[i])]
        /\ pc' = "close"
        /\ UNCHANGED <<opened, listening, backlog, srvEnd>>
  /\ UNCHANGED <<monitor_fd_set, client_result, readfds, i, owner, console,
                 credited, clientVars, up>>

\* client_result[i] = 0, and a version that forgets it.
ForgetToClear == UNCHANGED client_result
ClearSum == client_result' = [client_result EXCEPT ![i] = 0]

\* close(), and the bookkeeping after it; the loop goes on with the next slot.
CloseClient ==
  /\ pc = "close"
  /\ opened' = opened \ {comm_socket_fd}
  /\ owner' = [owner EXCEPT ![comm_socket_fd] = NoClient]
  /\ srvEnd' = [srvEnd EXCEPT ![owner[comm_socket_fd]] = "closed"]
  /\ ClearSum
  /\ monitor_fd_set' = remove_monitor_fd_set(monitor_fd_set, comm_socket_fd)
  /\ pc' = "scan"
  /\ i' = i + 1
  /\ UNCHANGED <<readfds, console, credited, clientVars, listening, backlog,
                 up, down>>

EndScan ==
  /\ pc = "scan"
  /\ ReadySlots = {}
  /\ pc' = "select"
  /\ UNCHANGED <<monitor_fd_set, client_result, readfds, i, fdVars, console,
                 credited, clientVars, netVars>>

ServerStep ==
  Select \/ AcceptConnection \/ ReadConsole \/ BeginScan \/ ReadClient
    \/ SendResult \/ CloseClient \/ EndScan

-----------------------------------------------------------------------------
\* Somebody types at the server's console, or closes its standard input.
TypeAtConsole ==
  /\ console = "quiet"
  /\ console' \in ConsoleInput
  /\ UNCHANGED <<serverVars, clientVars, netVars>>

ClientNext(c) == ClientStep(c) /\ UNCHANGED <<serverVars, console>>

Next == ServerStep \/ TypeAtConsole \/ \E c \in Clients : ClientNext(c)

Spec == Init /\ [][Next]_vars

-----------------------------------------------------------------------------
(* Properties.                                                             *)

\* A slot that holds no client carries no sum over to the next client that
\* gets it: client_result is zeroed with the slot, at the end of the file too.
FreeSlotsAreClean ==
  \A slot \in Slots :
    monitor_fd_set[slot] \in {Free, CONSOLE, LISTEN} => client_result[slot] = 0

\* While the server runs, every descriptor in the array is open, those above
\* LISTEN are connections, and no descriptor is in two slots, although the
\* kernel hands out the numbers of closed connections again.
MonitoredAreOpen ==
  pc # "dead" =>
    /\ \A slot \in Slots : monitor_fd_set[slot] # Free =>
         /\ monitor_fd_set[slot] \in opened
         /\ monitor_fd_set[slot] > LISTEN =>
              owner[monitor_fd_set[slot]] # NoClient
    /\ \A s, t \in Slots :
         monitor_fd_set[s] = monitor_fd_set[t] /\ s # t =>
           monitor_fd_set[s] = Free

\* Each slot's sum, and each result on its way to a client or read by one, is
\* made of the ints taken from that client's own connection.
OwnSumOnly ==
  /\ \A slot \in Slots : monitor_fd_set[slot] > LISTEN =>
       client_result[slot] = credited[owner[monitor_fd_set[slot]]]
  /\ \A c \in Clients :
       /\ down[c]   \in {<<>>, <<credited[c]>>}
       /\ answer[c] \in {<<>>, <<credited[c]>>}

\* The one thread never blocks in the read() of a client: whatever slot the
\* scan stops at still has data, or the end of the stream, to return.
ScanNeverBlocks ==
  pc = "scan" => \A slot \in ReadySlots :
    /\ owner[monitor_fd_set[slot]] # NoClient
    /\ Readable(owner[monitor_fd_set[slot]])

\* A running server closes a connection only after its client asked for the
\* result or went away, never under a client that is still sending numbers.
NotCutOff ==
  pc # "dead" =>
    \A c \in Clients : srvEnd[c] = "closed" => client[c] # "sending"

-----------------------------------------------------------------------------
(* The inductive invariant behind the safety properties.                   *)

\* A connection waits in the backlog or has one descriptor, never both, and
\* its server end is open; clients that never connected have neither.
ConnectionsInv ==
  pc # "dead" =>
    /\ 0 .. LISTEN \subseteq opened
    /\ \A fd \in Fds : owner[fd] # NoClient =>
         /\ fd \in opened /\ fd > LISTEN
         /\ srvEnd[owner[fd]] = "open"
         /\ \A other \in Fds : owner[other] = owner[fd] => other = fd
    /\ \A k \in 1 .. Len(backlog) :
         /\ srvEnd[backlog[k]] = "open"
         /\ credited[backlog[k]] = 0
         /\ \A fd \in Fds : owner[fd] # backlog[k]
         /\ \A m \in 1 .. Len(backlog) : backlog[m] = backlog[k] => m = k

\* The array holds the console, the listening socket and connections.
MonitorInv ==
  \A slot \in Slots :
    \/ monitor_fd_set[slot] \in {Free, CONSOLE, LISTEN}
    \/ monitor_fd_set[slot] > LISTEN

\* What has not happened yet: nothing is credited or answered before a
\* connection, and nothing is answered before the write of the result.
NotYet ==
  /\ \A c \in Clients : client[c] = "start" => srvEnd[c] = "none"
  /\ \A c \in Clients : srvEnd[c] = "none" =>
       /\ client[c] \in {"start", "refused"}
       /\ credited[c] = 0
       /\ down[c] = <<>> /\ answer[c] = <<>> /\ up[c] = <<>>
  /\ \A c \in Clients : srvEnd[c] = "open" =>
       \/ down[c] = <<>> /\ answer[c] = <<>>
       \/ pc = "close" /\ owner[comm_socket_fd] = c

\* The zero is the last number of a client.
ZeroEndsSending ==
  \A c \in Clients : client[c] \in {"start", "sending"} =>
    \A k \in 1 .. Len(up[c]) : up[c][k] # 0

\* The clients' slots that select() reported and that are still to be read.
ToCome ==
  {slot \in Slots :
     /\ IsReady(slot) /\ monitor_fd_set[slot] > LISTEN
     /\ \/ pc = "dispatch"
        \/ slot > i
        \/ pc = "scan" /\ slot = i}

ScanInv ==
  /\ pc \in {"scan", "result", "close"} => readfds \cap {LISTEN, CONSOLE} = {}
  /\ pc \in {"dispatch", "scan", "result", "close"} =>
       \A slot \in ToCome : Readable(owner[monitor_fd_set[slot]])
  /\ pc \in {"result", "close"} =>
       /\ comm_socket_fd > LISTEN
       /\ client[owner[comm_socket_fd]] \notin {"start", "sending"}

IInv ==
  /\ ConnectionsInv
  /\ MonitorInv
  /\ MonitoredAreOpen
  /\ FreeSlotsAreClean
  /\ OwnSumOnly
  /\ NotYet
  /\ ZeroEndsSending
  /\ ScanInv
  /\ NotCutOff

\* With paced users, a 0 that was read is being answered.
ZeroIsAnswered ==
  Paced => \A c \in Clients :
    ZeroWasRead(c) => pc \in {"result", "close"} /\ owner[comm_socket_fd] = c

-----------------------------------------------------------------------------
(* What the documentation says, and the code does not do.                  *)

\* "Add received summand": once all that a client sent has been read, every
\* number in it has been added.
ReceivedIsAdded ==
  \A c \in Clients :
    pc = "select" /\ client[c] = "sending" /\ up[c] = <<>> =>
      credited[c] = SumOf(typed[c])

=============================================================================
