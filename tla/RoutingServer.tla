---------------------------- MODULE RoutingServer ----------------------------
(***************************************************************************)
(* multiplex-routinginfo/routing_server.c: a select() server that keeps    *)
(* the routing table of RoutingTable, adds the routes its clients send and *)
(* sends every monitored client the whole table after each addition; with  *)
(* its two clients, routing_client.c (viewers) and                         *)
(* routing_update_client.c (updaters), and the TCP connections between.    *)
(*                                                                         *)
(* A message of a client is one route; a message of the server is one      *)
(* listing, the table in use when it was sent.  Steps are cut at the       *)
(* system calls that wait or race; the sends of one broadcast are one step *)
(* because each of them concerns a different client.                       *)
(***************************************************************************)
EXTENDS MonitorSet, RoutingTable, Sequences, SequencesExt

CONSTANTS
  Viewers, Updaters,       \* client processes, one connection each
  NoClient,
  FirstRoute,              \* entry1 of main()
  Garbled,                 \* an entry parsed from anything but one message
  Offered,                 \* the routes users type
  TextLength,              \* the length of a route's text
  MAX_TEXT,                \* bound: lengths are at most this
  ConsoleLengths,          \* the lengths of lines typed at the console
  FD_LIMIT,                \* descriptors the process may have open
  BACKLOG,                 \* the argument of listen(): 20 in the code
  MAX_SENDS,               \* bound: the routes one user types
  Leaving                  \* the clients that may leave

Clients == Viewers \cup Updaters
CONSOLE == 0
LISTEN  == 3
Fds == 0 .. (FD_LIMIT - 1)

ASSUME RoutingServerAssumption ==
  /\ IsFiniteSet(Clients) /\ NoClient \notin Clients
  /\ Viewers \cap Updaters = {}
  /\ {FirstRoute, Garbled} \subseteq Routes
  /\ Offered \subseteq Routes \ {Garbled}
  /\ \A r \in Offered : TextLength[r] \in 1 .. MAX_TEXT
  /\ MAX_TEXT \in Nat
  /\ ConsoleLengths \subseteq 0 .. MAX_TEXT
  /\ FD_LIMIT \in Nat /\ FD_LIMIT > LISTEN
  /\ BACKLOG \in Nat /\ MAX_SENDS \in Nat
  /\ Leaving \subseteq Clients

VARIABLES
  monitor_fd_set, readfds, pc, i, opened, owner,   \* as in MultiplexServer
  filled,          \* how far buffer holds text left by earlier reads
  console,         \* whether a line waits on standard input
  backlog,         \* connections not yet accepted, oldest first
  link,            \* each connection, as the server's kernel sees it
  up, down,        \* messages on their way to, and from, the server
  client,          \* where each client is in its program
  typed,           \* the routes each updater sent
  seen             \* the listing each client read last

fdVars     == <<opened, owner>>
clientVars == <<client, typed, seen>>
netVars    == <<backlog, link, up, down>>
routeVars  == <<tableVars, ret>>
serverVars == <<monitor_fd_set, readfds, pc, i, fdVars, filled, routeVars>>
vars == <<serverVars, console, netVars, clientVars>>

Nothing  == [n \in {} |-> NoRoute]         \* the listing of an empty table
Listings == UNION {[S -> Routes] : S \in SUBSET Entries}

TypeOK ==
  /\ TableTypeOK
  /\ monitor_fd_set \in [Slots -> Fds \cup {Free}]
  /\ readfds \subseteq Fds
  /\ pc \in {"select", "dispatch", "scan", "dead"}
  /\ i \in Slots \cup {MAX_CLIENT_SUPPORTED}
  /\ opened \subseteq Fds
  /\ owner \in [Fds -> Clients \cup {NoClient}]
  /\ filled \in 0 .. MAX_TEXT
  /\ console \in BOOLEAN
  /\ backlog \in Seq(Clients)
  /\ link \in [Clients -> {"none", "up", "fin", "reset", "broken", "closed"}]
  /\ up \in [Clients -> Seq(Offered)]
  /\ down \in [Clients -> Seq(Listings)]
  /\ client \in [Clients -> {"start", "typing", "reading", "gone"}]
  /\ typed \in [Clients -> Seq(Offered)]
  /\ seen \in [Clients -> Listings]

Init ==
  /\ monitor_fd_set =
       add_monitor_fd_set(add_monitor_fd_set(init_monitor_fd_set, CONSOLE), LISTEN)
  /\ routing_table = [n \in Entries |-> IF n = 0 THEN FirstRoute ELSE NoRoute]
  /\ table_size = 1 /\ table_change_flag = 0 /\ ret = 1
  /\ readfds = {} /\ pc = "select" /\ i = 0
  /\ opened = 0 .. LISTEN
  /\ owner = [fd \in Fds |-> NoClient]
  /\ filled \in 0 .. MAX_TEXT            \* buffer is not initialised
  /\ console = FALSE
  /\ backlog = <<>>
  /\ link = [c \in Clients |-> "none"]
  /\ up   = [c \in Clients |-> <<>>]
  /\ down = [c \in Clients |-> <<>>]
  /\ client = [c \in Clients |-> "start"]
  /\ typed  = [c \in Clients |-> <<>>]
  /\ seen   = [c \in Clients |-> Nothing]

-----------------------------------------------------------------------------
(* Waiting.                                                                *)

FdReadable(fd) ==
  \/ fd = CONSOLE /\ console
  \/ fd = LISTEN /\ backlog # <<>>
  \/ /\ owner[fd] # NoClient
     /\ up[owner[fd]] # <<>> \/ link[owner[fd]] # "up"

Die == pc' = "dead" /\ opened' = {}

\* The program exits when select() fails, on a descriptor that is closed.
Select ==
  /\ pc = "select"
  /\ LET watched == Watched(monitor_fd_set)
         ready   == {fd \in watched : FdReadable(fd)}
     IN  IF watched \subseteq opened
           THEN /\ ready # {}
                /\ readfds' = ready
                /\ pc' = "dispatch"
                /\ UNCHANGED opened
           ELSE Die /\ UNCHANGED readfds
  /\ UNCHANGED <<monitor_fd_set, i, owner, filled, routeVars, console, netVars,
                 clientVars>>

-----------------------------------------------------------------------------
(* Sending listings.                                                       *)

\* Mutant: a loop over one slot too few.
AllButLast(monitor) ==
  {slot \in Slots : /\ monitor[slot] > 0 /\ monitor[slot] # LISTEN
                    /\ slot + 1 \in Slots}

\* The slots a broadcast goes to, and those it reaches before it is killed.
Targets(monitor) ==
  {slot \in Slots : monitor[slot] > 0 /\ monitor[slot] # LISTEN}
Fatal(targets) ==
  {slot \in targets : link[owner[monitor_fd_set[slot]]] = "broken"}
Reached(targets) ==
  {slot \in targets : \A bad \in Fatal(targets) : slot < bad}

\* Listing' goes to the clients of a set.  Writing to a client whose end is
\* closed gets a reset back, sooner or later; the first write after a reset
\* may fail, the next one raises SIGPIPE.
SendTo(reached) ==
  /\ down' = [c \in Clients |->
                IF c \in reached /\ link[c] = "up" THEN Append(down[c], Listing')
                ELSE down[c]]
  /\ \E answered \in SUBSET {c \in reached : link[c] = "fin"} :
       link' = [c \in Clients |->
                  IF c \in answered \/ (c \in reached /\ link[c] = "reset")
                    THEN "broken" ELSE link[c]]

send_routing_table_to_clients ==
  LET targets == Targets(monitor_fd_set) IN
  /\ SendTo({owner[monitor_fd_set[slot]] : slot \in Reached(targets)})
  /\ IF Fatal(targets) = {} THEN UNCHANGED <<pc, opened>> ELSE Die

-----------------------------------------------------------------------------
(* The three branches of the loop.                                         *)

\* Mutant: the new client is sent nothing.
SendNothing(c) == UNCHANGED <<down, link>>
send_routing_table_to_client(c) == SendTo({c})

Accept(fd) ==
  /\ \A lower \in Fds \ opened : fd <= lower
  /\ opened' = opened \cup {fd}
  /\ owner' = [owner EXCEPT ![fd] = Head(backlog)]
  /\ backlog' = Tail(backlog)
  /\ monitor_fd_set' = add_monitor_fd_set(monitor_fd_set, fd)
  /\ pc' = "select"

AcceptConnection ==
  /\ pc = "dispatch"
  /\ LISTEN \in readfds
  /\ UNCHANGED routeVars
  /\ \/ /\ \E fd \in Fds \ opened : Accept(fd)
        /\ send_routing_table_to_client(Head(backlog))
     \/ /\ Fds = opened
        /\ Die
        /\ UNCHANGED <<monitor_fd_set, owner, backlog, link, down>>
  /\ UNCHANGED <<readfds, i, filled, console, up, clientVars>>

\* The one place where buffer is cleared.
ReadConsole ==
  /\ pc = "dispatch"
  /\ LISTEN \notin readfds
  /\ CONSOLE \in readfds
  /\ console' = FALSE
  /\ filled' \in ConsoleLengths
  /\ pc' = "select"
  /\ UNCHANGED <<monitor_fd_set, readfds, i, fdVars, routeVars, netVars, clientVars>>

BeginScan ==
  /\ pc = "dispatch"
  /\ readfds \cap {LISTEN, CONSOLE} = {}
  /\ pc' = "scan"
  /\ i' = 0
  /\ UNCHANGED <<monitor_fd_set, readfds, fdVars, filled, routeVars, console,
                 netVars, clientVars>>

\* Mutant: the condition without its FD_ISSET.
IsOccupied(slot) == monitor_fd_set[slot] > LISTEN

IsReady(slot) ==
  /\ monitor_fd_set[slot] # Free
  /\ monitor_fd_set[slot] \in readfds
ReadySlots == {slot \in Slots : slot >= i /\ IsReady(slot)}

\* The text of several messages that arrived together runs on; text shorter
\* than what buffer held before may run on into that.
Total(messages) == FoldLeft(LAMBDA n, r : n + TextLength[r], 0, messages)
LengthOf(messages) ==
  IF Total(messages) \in 0 .. MAX_TEXT THEN Total(messages) ELSE MAX_TEXT
Parsed(messages) ==
  CASE Len(messages) > 1                  -> {Garbled}
    [] filled > LengthOf(messages)        -> {Garbled, messages[1]}
    [] OTHER                              -> {messages[1]}

\* Mutant: a read that leaves the data in the socket.
Peek(c) == UNCHANGED up
Consume(c) == up' = [up EXCEPT ![c] = <<>>]

\* A message: the route is added and announced, or dropped without a reply.
ReceiveRoute(c) ==
  /\ up[c] # <<>>
  /\ Consume(c)
  /\ filled' = IF LengthOf(up[c]) > filled THEN LengthOf(up[c]) ELSE filled
  /\ \E new_entry \in Parsed(up[c]) : add_route(new_entry)
  /\ IF HasRoom THEN send_routing_table_to_clients
     ELSE UNCHANGED <<pc, opened, down, link>>
  /\ UNCHANGED <<monitor_fd_set, owner>>

\* read() returned 0, or -1: also when there was nothing to read.
DropClient(c, slot) ==
  /\ up[c] = <<>>
  /\ opened' = opened \ {monitor_fd_set[slot]}
  /\ owner' = [owner EXCEPT ![monitor_fd_set[slot]] = NoClient]
  /\ link' = [link EXCEPT ![c] = "closed"]
  /\ monitor_fd_set' = remove_monitor_fd_set(monitor_fd_set, monitor_fd_set[slot])
  /\ UNCHANGED <<pc, filled, routeVars, up, down>>

ReadClient ==
  /\ pc = "scan"
  /\ \E slot \in ReadySlots :
       LET c == owner[monitor_fd_set[slot]] IN
       /\ \A other \in ReadySlots : slot <= other
       /\ ReceiveRoute(c) \/ DropClient(c, slot)
       /\ i' = slot + 1
  /\ UNCHANGED <<readfds, console, backlog, clientVars>>

EndScan ==
  /\ pc = "scan"
  /\ ReadySlots = {}
  /\ pc' = "select"
  /\ UNCHANGED <<monitor_fd_set, readfds, i, fdVars, filled, routeVars, console,
                 netVars, clientVars>>

ServerStep ==
  Select \/ AcceptConnection \/ ReadConsole \/ BeginScan \/ ReadClient \/ EndScan

-----------------------------------------------------------------------------
(* The clients.                                                            *)

Connect(c) ==
  /\ client[c] = "start"
  /\ pc # "dead"
  /\ Len(backlog) <= BACKLOG
  /\ client' = [client EXCEPT ![c] = IF c \in Updaters THEN "typing" ELSE "reading"]
  /\ link' = [link EXCEPT ![c] = "up"]
  /\ backlog' = Append(backlog, c)
  /\ UNCHANGED <<serverVars, console, up, down, typed, seen>>

ConnectRefused(c) ==
  /\ client[c] = "start"
  /\ pc = "dead"
  /\ client' = [client EXCEPT ![c] = "gone"]
  /\ UNCHANGED <<serverVars, console, netVars, typed, seen>>

SendRoute(c) ==
  /\ client[c] = "typing"
  /\ Len(typed[c]) < MAX_SENDS
  /\ \E r \in Offered :
       /\ up' = [up EXCEPT ![c] = Append(@, r)]
       /\ typed' = [typed EXCEPT ![c] = Append(@, r)]
  /\ client' = [client EXCEPT ![c] = "reading"]
  /\ UNCHANGED <<serverVars, console, backlog, link, down, seen>>

\* One read may return several listings; it shows the last of them last.
ReadListing(c) ==
  /\ client[c] = "reading"
  /\ \E n \in 1 .. Len(down[c]) :
       /\ seen' = [seen EXCEPT ![c] = down[c][n]]
       /\ down' = [down EXCEPT ![c] = SubSeq(@, n + 1, Len(@))]
  /\ client' = [client EXCEPT ![c] = IF c \in Updaters THEN "typing" ELSE "reading"]
  /\ UNCHANGED <<serverVars, console, backlog, link, up, typed>>

ServerClosed(c) ==
  /\ client[c] = "reading"
  /\ down[c] = <<>>
  /\ pc = "dead"
  /\ client' = [client EXCEPT ![c] = "gone"]
  /\ UNCHANGED <<serverVars, console, netVars, typed, seen>>

\* The user types exit, or interrupts the program.  Closing a connection with
\* listings unread resets it.
Leave(c) ==
  /\ c \in Leaving
  /\ client[c] \in {"typing", "reading"}
  /\ client' = [client EXCEPT ![c] = "gone"]
  /\ link' = [link EXCEPT ![c] = IF @ # "up" THEN @
                                 ELSE IF down[c] = <<>> THEN "fin" ELSE "reset"]
  /\ UNCHANGED <<serverVars, console, backlog, up, down, typed, seen>>

TypeAtConsole ==
  /\ ~console /\ ConsoleLengths # {}
  /\ console' = TRUE
  /\ UNCHANGED <<serverVars, netVars, clientVars>>

ClientStep(c) ==
  Connect(c) \/ ConnectRefused(c) \/ SendRoute(c) \/ ReadListing(c)
    \/ ServerClosed(c) \/ Leave(c)

Next == ServerStep \/ TypeAtConsole \/ \E c \in Clients : ClientStep(c)

Spec == Init /\ [][Next]_vars
FairSpec ==
  /\ Spec
  /\ WF_vars(ServerStep)
  /\ \A c \in Clients : WF_vars(ReadListing(c)) /\ WF_vars(ServerClosed(c))

-----------------------------------------------------------------------------
(* Properties.                                                             *)

IsLive(c)    == client[c] \in {"typing", "reading"}
LastSent(c)  == IF down[c] = <<>> THEN seen[c] ELSE Last(down[c])
Monitored(c) == \E slot \in Slots : monitor_fd_set[slot] > LISTEN
                                    /\ owner[monitor_fd_set[slot]] = c

\* The last listing sent to a monitored client is the table as it is now: no
\* client is left behind by an addition, and none joins without the table.
MonitoredAreUpToDate ==
  pc # "dead" =>
    \A c \in Clients : Monitored(c) /\ link[c] = "up" => LastSent(c) = Listing

\* While the server runs, every descriptor in the array is open and in one
\* slot only, whatever numbers the kernel gives to new connections.
MonitoredAreOpen ==
  pc # "dead" =>
    /\ \A slot \in Slots : monitor_fd_set[slot] # Free =>
         /\ monitor_fd_set[slot] \in opened
         /\ monitor_fd_set[slot] > LISTEN =>
              owner[monitor_fd_set[slot]] # NoClient
    /\ \A s, t \in Slots :
         monitor_fd_set[s] = monitor_fd_set[t] /\ s # t =>
           monitor_fd_set[s] = Free

\* Types, and the array with them.
RoutingInv == TypeOK /\ MonitoredAreOpen

\* The server closes no connection whose client is still there, although it
\* closes on any read() that returns -1, "nothing to read yet" included.
NobodyDropped ==
  pc # "dead" => \A c \in Clients : IsLive(c) => link[c] = "up"

\* A route is in the table at most as often as it was sent, whatever was read
\* together, dropped or read before the sender left.
TimesTyped(r) ==
  Cardinality({place \in Clients \X (1 .. MAX_SENDS) :
                 /\ place[2] <= Len(typed[place[1]])
                 /\ typed[place[1]][place[2]] = r})
AppliedAtMostOnce ==
  \A r \in Offered : Times(r) <= TimesTyped(r) + (IF r = FirstRoute THEN 1 ELSE 0)

\* There is one list of routes, which only grows, and no screen ever goes back
\* to an older version, although listings are sent by broadcasts and on
\* accept(), wait in the connections, and are read several at once.
Feed == INSTANCE RouteFeed WITH list <- Listing, screen <- seen
ImplementsFeed == Feed!FeedSpec

\* Once no more routes are typed, every monitored viewer has the final table
\* on its screen.
ViewersCatchUp ==
  \A c \in Viewers :
    <>[](client[c] = "reading" /\ Monitored(c) => seen[c] = Listing)

=============================================================================
