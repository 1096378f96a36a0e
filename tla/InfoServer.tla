----------------------------- MODULE InfoServer -----------------------------
(***************************************************************************)
(* system-info: an epoll server that gathers information about its machine *)
(* in every pass of its loop and sends it to its clients every             *)
(* MESSAGE_INTERVAL seconds (info-server.c), with its clients, which only  *)
(* read (info-client.c).                                                   *)
(*                                                                         *)
(* A pass is cut where the clients and the clock run in between:           *)
(* log_system_info, epoll_wait, each accept, the test of the time and each *)
(* send.  Time is the whole seconds time(NULL) counts; it is only read     *)
(* after epoll_wait, so all the time a pass takes passes there.            *)
(***************************************************************************)
EXTENDS Integers, Sequences, SequencesExt, FiniteSets, FiniteSetsExt

CONSTANTS
  Clients, NoClient,
  MAX_CLIENTS,             \* 10 in the code, for slots and for events
  MESSAGE_INTERVAL,        \* 5 in the code
  MAX_STEP,                \* bound: the most seconds one pass takes
  ROOM,                    \* bound: unread messages that fit a connection
  FD_LIMIT,                \* descriptors the process may have open
  Leaving                  \* the clients that may leave

LISTEN == 3                \* server_fd; epoll_fd is the next
Fds    == 0 .. (FD_LIMIT - 1)
Slots  == 0 .. (MAX_CLIENTS - 1)

ASSUME InfoServerAssumption ==
  /\ NoClient \notin Clients
  /\ MAX_CLIENTS \in Nat \ {0}
  /\ MESSAGE_INTERVAL \in Nat \ {0} /\ MAX_STEP \in Nat \ {0}
  /\ ROOM \in Nat \ {0}
  /\ FD_LIMIT \in Nat /\ FD_LIMIT > LISTEN + 1
  /\ Leaving \subseteq Clients

VARIABLES
  socket_fd, outgoing_data, data_ready,    \* the fields of clients[]
  pc,              \* where main() is
  j,               \* the slot the send loop is at
  elapsed,         \* current_time - last_message_time
  opened, owner,   \* the descriptors, and the client at the end of each
  backlog,         \* connections not yet accepted, oldest first
  edge,            \* clients with an event epoll has not reported yet
  link,            \* each connection, as the server's kernel sees it
  down,            \* how many messages each client has not read yet
  client,          \* where each client is in its program
  since            \* history: seconds since a client was registered or sent to

slotVars   == <<socket_fd, outgoing_data, data_ready>>
serverVars == <<slotVars, pc, j, elapsed, opened, owner>>
netVars    == <<backlog, edge, link, down>>
vars == <<serverVars, netVars, client, since>>

Cap == MESSAGE_INTERVAL + MAX_STEP         \* where since stops counting

TypeOK ==
  /\ socket_fd \in [Slots -> Fds \cup {-1}]
  /\ outgoing_data \in [Slots -> {"nothing", "stale", "current"}]
  /\ data_ready \in [Slots -> {0, 1}]
  /\ pc \in {"log", "wait", "accept", "tick", "send", "dead"}
  /\ j \in 0 .. MAX_CLIENTS
  /\ elapsed \in 0 .. (Cap - 1)
  /\ opened \subseteq Fds
  /\ owner \in [Fds -> Clients \cup {NoClient}]
  /\ backlog \in Seq(Clients)
  /\ edge \subseteq Clients
  /\ link \in [Clients -> {"none", "up", "fin", "reset", "broken"}]
  /\ down \in [Clients -> 0 .. ROOM]
  /\ client \in [Clients -> {"start", "reading", "gone"}]
  /\ since \in [Clients -> 0 .. Cap]

\* A global array: outgoing_data is all zeros until something is logged.
init_clients ==
  /\ socket_fd = [slot \in Slots |-> -1]
  /\ outgoing_data = [slot \in Slots |-> "nothing"]
  /\ data_ready = [slot \in Slots |-> 0]

Init ==
  /\ init_clients
  /\ pc = "log" /\ j = 0 /\ elapsed = 0
  /\ opened = 0 .. (LISTEN + 1)
  /\ owner = [fd \in Fds |-> NoClient]
  /\ backlog = <<>> /\ edge = {}
  /\ link = [c \in Clients |-> "none"]
  /\ down = [c \in Clients |-> 0]
  /\ client = [c \in Clients |-> "start"]
  /\ since = [c \in Clients |-> 0]

-----------------------------------------------------------------------------
(* One pass of the loop.                                                   *)

\* What was gathered before is not the present state any more.
log_system_info ==
  /\ pc = "log"
  /\ outgoing_data' = [slot \in Slots |->
                         IF socket_fd[slot] # -1 THEN "current"
                         ELSE IF outgoing_data[slot] = "current" THEN "stale"
                         ELSE outgoing_data[slot]]
  /\ data_ready' = [slot \in Slots |->
                      IF socket_fd[slot] # -1 THEN 1 ELSE data_ready[slot]]
  /\ pc' = "wait"
  /\ UNCHANGED <<socket_fd, j, elapsed, opened, owner, netVars, client, since>>

\* The listening socket is level-triggered, a client is reported once.
Events == {fd \in Fds : \/ fd = LISTEN /\ backlog # <<>>
                        \/ owner[fd] \in edge}

\* With no event the call returns after a second; with more than MAX_CLIENTS
\* some are left for the next call.
EpollWait ==
  /\ pc = "wait"
  /\ \E events \in SUBSET Events, seconds \in 0 .. MAX_STEP :
       /\ \/ events = Events /\ Cardinality(events) <= MAX_CLIENTS
          \/ Cardinality(events) = MAX_CLIENTS
       /\ Events = {} => seconds > 0
       /\ edge' = edge \ {owner[fd] : fd \in events}
       /\ elapsed' = elapsed + seconds
       /\ since' = [c \in Clients |-> Min({since[c] + seconds, Cap})]
       /\ pc' = IF LISTEN \in events THEN "accept" ELSE "tick"
  /\ UNCHANGED <<slotVars, j, opened, owner, backlog, link, down, client>>

\* Mutant: a loop bound of MAX_CLIENTS - 1.
FreeButLast(slot) == socket_fd[slot] = -1 /\ slot + 1 \in Slots
IsFree(slot) == socket_fd[slot] = -1

\* Mutant: a slot that starts out as if its data had been logged.
AlreadyReady == 1
NotYetReady  == 0

\* Without a free slot it returns -1, which its caller does not look at.
add_client(new_socket_fd) ==
  \/ /\ \E i \in Slots :
          /\ IsFree(i)
          /\ \A before \in Slots : before < i => ~IsFree(before)
          /\ socket_fd' = [socket_fd EXCEPT ![i] = new_socket_fd]
          /\ data_ready' = [data_ready EXCEPT ![i] = NotYetReady]
     /\ UNCHANGED outgoing_data
  \/ /\ ~ \E i \in Slots : IsFree(i)
     /\ UNCHANGED slotVars

Die == pc' = "dead" /\ opened' = {}

\* The accept loop ends when nobody waits, or the process at its limit.
handle_new_connection ==
  /\ pc = "accept"
  /\ \/ \E client_fd \in Fds \ opened :
          /\ backlog # <<>>
          /\ \A lower \in Fds \ opened : client_fd <= lower
          /\ opened' = opened \cup {client_fd}
          /\ owner' = [owner EXCEPT ![client_fd] = Head(backlog)]
          /\ backlog' = Tail(backlog)
          /\ add_client(client_fd)
          /\ since' = [since EXCEPT ![Head(backlog)] = 0]
          /\ UNCHANGED pc
     \/ /\ backlog = <<>>
        /\ pc' = "tick"
        /\ UNCHANGED <<slotVars, opened, owner, backlog, since>>
     \/ /\ backlog # <<>> /\ Fds = opened
        /\ Die
        /\ UNCHANGED <<slotVars, owner, backlog, since>>
  /\ UNCHANGED <<j, elapsed, edge, link, down, client>>

\* Mutant: > instead of >= .
IsOverdue == elapsed > MESSAGE_INTERVAL
IsDue     == elapsed >= MESSAGE_INTERVAL

\* Mutant: last_message_time is set in every pass.
RestartClock == elapsed' = 0
KeepClock    == UNCHANGED elapsed

Tick ==
  /\ pc = "tick"
  /\ \/ IsDue /\ pc' = "send" /\ j' = 0 /\ UNCHANGED elapsed
     \/ ~IsDue /\ pc' = "log" /\ KeepClock /\ UNCHANGED j
  /\ UNCHANGED <<slotVars, opened, owner, netVars, client, since>>

\* send() to client c from a slot: what the kernel does with the message.
Sent(c, slot) ==                           \* it takes it
  /\ link[c] = "up" /\ down[c] < ROOM
  /\ down' = [down EXCEPT ![c] = @ + 1]
  /\ data_ready' = [data_ready EXCEPT ![slot] = 0]
  /\ UNCHANGED <<pc, opened, link, edge>>
NoRoom(c) ==                               \* EAGAIN
  /\ link[c] = "up" /\ down[c] = ROOM
  /\ UNCHANGED <<data_ready, down, pc, opened, link, edge>>
SentToClosed(c, slot) ==                   \* it takes it; a reset comes back
  /\ link[c] = "fin"
  /\ data_ready' = [data_ready EXCEPT ![slot] = 0]
  /\ \/ link' = [link EXCEPT ![c] = "broken"] /\ edge' = edge \cup {c}
     \/ UNCHANGED <<link, edge>>
  /\ UNCHANGED <<down, pc, opened>>
SentToReset(c) ==                          \* ECONNRESET
  /\ link[c] = "reset"
  /\ link' = [link EXCEPT ![c] = "broken"]
  /\ UNCHANGED <<data_ready, down, pc, opened, edge>>
SentToBroken(c) ==                         \* SIGPIPE
  /\ link[c] = "broken"
  /\ Die
  /\ UNCHANGED <<data_ready, down, link, edge>>

send_data_to_client ==
  /\ pc = "send"
  /\ j \in Slots
  /\ j' = j + 1
  /\ LET c == owner[socket_fd[j]] IN
     \/ /\ socket_fd[j] # -1 /\ data_ready[j] = 1
        /\ \/ Sent(c, j) \/ NoRoom(c) \/ SentToClosed(c, j) \/ SentToReset(c)
           \/ SentToBroken(c)
        /\ since' = [since EXCEPT ![c] = 0]
     \/ /\ socket_fd[j] = -1 \/ data_ready[j] = 0
        /\ UNCHANGED <<data_ready, down, pc, opened, link, edge, since>>
  /\ UNCHANGED <<socket_fd, outgoing_data, elapsed, owner, backlog, client>>

EndOfSends ==
  /\ pc = "send"
  /\ j = MAX_CLIENTS
  /\ elapsed' = 0
  /\ pc' = "log"
  /\ UNCHANGED <<slotVars, j, opened, owner, netVars, client, since>>

ServerStep ==
  \/ log_system_info \/ EpollWait \/ handle_new_connection \/ Tick
  \/ send_data_to_client \/ EndOfSends

-----------------------------------------------------------------------------
(* The clients.                                                            *)

Connect(c) ==
  /\ client[c] = "start"
  /\ pc # "dead"
  /\ client' = [client EXCEPT ![c] = "reading"]
  /\ link' = [link EXCEPT ![c] = "up"]
  /\ backlog' = Append(backlog, c)
  /\ UNCHANGED <<serverVars, edge, down, since>>

Read(c) ==
  /\ client[c] = "reading"
  /\ down[c] > 0
  /\ down' = [down EXCEPT ![c] = 0]
  /\ UNCHANGED <<serverVars, backlog, edge, link, client, since>>

\* connect() fails, or read() returns the end of the stream.
ServerGone(c) ==
  /\ client[c] \in {"start", "reading"}
  /\ pc = "dead" /\ down[c] = 0
  /\ client' = [client EXCEPT ![c] = "gone"]
  /\ UNCHANGED <<serverVars, netVars, since>>

\* The user interrupts the program.  Closing with messages unread is a reset.
Leave(c) ==
  /\ c \in Leaving
  /\ client[c] = "reading"
  /\ client' = [client EXCEPT ![c] = "gone"]
  /\ link' = [link EXCEPT ![c] = IF down[c] = 0 THEN "fin" ELSE "reset"]
  /\ edge' = edge \cup {c}
  /\ UNCHANGED <<serverVars, backlog, down, since>>

ClientStep(c) == Connect(c) \/ Read(c) \/ ServerGone(c) \/ Leave(c)

Next == ServerStep \/ \E c \in Clients : ClientStep(c)

Spec == Init /\ [][Next]_vars

\* The kernel runs the server, and the clients read.
FairSpec == Spec /\ WF_vars(ServerStep) /\ \A c \in Clients : WF_vars(Read(c))

-----------------------------------------------------------------------------
(* Properties.                                                             *)

Registered(c) == \E slot \in Slots :
                   socket_fd[slot] # -1 /\ owner[socket_fd[slot]] = c

\* A slot marked ready holds what this very pass gathered: a client accepted
\* between the gathering and the sends is not sent an empty or an old buffer.
ReadyIsCurrent ==
  pc \in {"wait", "accept", "tick", "send"} => \A slot \in Slots :
    data_ready[slot] = 1 =>
      socket_fd[slot] # -1 /\ outgoing_data[slot] = "current"

\* No slot is wasted: each holds a connection of its own, and a connection
\* that was accepted without getting one found all of them taken.
SlotsAreUsed ==
  /\ \A s, t \in Slots : socket_fd[s] = socket_fd[t] /\ s # t => socket_fd[s] = -1
  /\ \A slot \in Slots : socket_fd[slot] # -1 => owner[socket_fd[slot]] # NoClient
  /\ (\E slot \in Slots : socket_fd[slot] = -1) =>
       \A fd \in Fds : owner[fd] # NoClient => Registered(owner[fd])

\* Whenever a client registers, and whatever events wake the loop, it is sent
\* to within the interval and the rest of one pass.
SentInTime ==
  pc # "dead" => \A c \in Clients :
    Registered(c) => since[c] <= MESSAGE_INTERVAL + MAX_STEP - 1

\* A registered client that reads what it gets is always sent more.
InfoKeepsComing ==
  \A c \in Clients :
    Registered(c) /\ link[c] = "up" ~>
      down[c] > 0 \/ link[c] # "up" \/ pc = "dead"

=============================================================================
