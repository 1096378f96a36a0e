----------------------------- MODULE HttpServer -----------------------------
(***************************************************************************)
(* http-setup: an edge-triggered epoll server that answers each read with  *)
(* one HTTP response (http-server.c), its one-shot client (http-client.c), *)
(* and clients that keep a connection for several requests.                *)
(*                                                                         *)
(* A request is its method, a response the method it answers.  Whatever    *)
(* has arrived when the server reads comes out of one read().  Steps are   *)
(* cut at epoll_wait, at each accept and at each event of a batch.         *)
(***************************************************************************)
EXTENDS Integers, Sequences, SequencesExt, FiniteSets

CONSTANTS
  Clients, NoClient,
  Keeping,                 \* the clients that send several requests
  Methods,                 \* the methods clients use
  Supported,               \* those with a handler: GET and POST
  NotAllowed,              \* the answer to the others: status 405
  MAX_CLIENTS,             \* the length of events[]: 10 in the code
  MAX_REQUESTS,            \* bound: the requests of one connection
  FD_LIMIT                 \* descriptors the process may have open

LISTEN == 3                \* server_fd; epoll_fd is the next
Fds == 0 .. (FD_LIMIT - 1)

ASSUME HttpServerAssumption ==
  /\ NoClient \notin Clients
  /\ Keeping \subseteq Clients
  /\ Supported \subseteq Methods /\ NotAllowed \notin Methods
  /\ MAX_CLIENTS \in Nat \ {0} /\ MAX_REQUESTS \in Nat \ {0}
  /\ FD_LIMIT \in Nat /\ FD_LIMIT > LISTEN + 1

VARIABLES
  pc,              \* where main() is
  events,          \* the events of the batch still to be looked at
  opened, owner,   \* the descriptors, and the client at the end of each
  watched,         \* the client descriptors registered with epoll
  backlog,         \* connections not yet accepted, oldest first
  edge,            \* clients with an event epoll has not reported yet
  link,            \* each connection, as the server's kernel sees it
  up, down,        \* requests on their way to, responses from the server
  client,          \* where each client is in its program
  sent, got        \* history: what each client sent, and read

serverVars == <<pc, events, opened, owner, watched>>
netVars    == <<backlog, edge, link, up, down>>
clientVars == <<client, sent, got>>
vars == <<serverVars, netVars, clientVars>>

Responses == Supported \cup {NotAllowed}

TypeOK ==
  /\ pc \in {"wait", "batch", "accept", "dead"}
  /\ events \subseteq Fds
  /\ opened \subseteq Fds
  /\ owner \in [Fds -> Clients \cup {NoClient}]
  /\ watched \subseteq {fd \in Fds : owner[fd] # NoClient}
  /\ backlog \in Seq(Clients)
  /\ edge \subseteq Clients
  /\ link \in [Clients -> {"none", "up", "fin", "reset"}]
  /\ up \in [Clients -> Seq(Methods)]
  /\ down \in [Clients -> Seq(Responses)]
  /\ client \in [Clients -> {"start", "open", "waiting", "answered", "gone"}]
  /\ sent \in [Clients -> Seq(Methods)]
  /\ got \in [Clients -> Seq(Responses)]

Init ==
  /\ pc = "wait" /\ events = {}
  /\ opened = 0 .. (LISTEN + 1)
  /\ owner = [fd \in Fds |-> NoClient]
  /\ watched = {}
  /\ backlog = <<>> /\ edge = {}
  /\ link = [c \in Clients |-> "none"]
  /\ up   = [c \in Clients |-> <<>>]
  /\ down = [c \in Clients |-> <<>>]
  /\ client = [c \in Clients |-> "start"]
  /\ sent = [c \in Clients |-> <<>>]
  /\ got  = [c \in Clients |-> <<>>]

-----------------------------------------------------------------------------
(* The server.                                                             *)

\* The listening socket is level-triggered; a client is reported once for
\* what arrived since it was reported last.
Ready == {fd \in Fds : \/ fd = LISTEN /\ backlog # <<>>
                       \/ fd \in watched /\ owner[fd] \in edge}

\* A timeout, with nothing ready, changes nothing.
EpollWait ==
  /\ pc = "wait"
  /\ Ready # {}
  /\ \/ events' = Ready /\ Cardinality(events') <= MAX_CLIENTS
     \/ events' \in SUBSET Ready /\ Cardinality(events') = MAX_CLIENTS
  /\ edge' = edge \ {owner[fd] : fd \in events'}
  /\ pc' = "batch"
  /\ UNCHANGED <<opened, owner, watched, backlog, link, up, down, clientVars>>

\* Mutant: a loop left after its first event.
FirstOnly(fd) == {}
Others(fd) == events \ {fd}

BeginAccept ==
  /\ pc = "batch"
  /\ LISTEN \in events
  /\ events' = Others(LISTEN)
  /\ pc' = "accept"
  /\ UNCHANGED <<opened, owner, watched, netVars, clientVars>>

\* The accept loop ends when nobody waits, or the process at its limit.
handle_new_connection ==
  /\ pc = "accept"
  /\ \/ \E client_fd \in Fds \ opened :
          /\ backlog # <<>>
          /\ \A lower \in Fds \ opened : client_fd <= lower
          /\ opened' = opened \cup {client_fd}
          /\ owner' = [owner EXCEPT ![client_fd] = Head(backlog)]
          /\ watched' = watched \cup {client_fd}
          /\ backlog' = Tail(backlog)
          /\ UNCHANGED <<pc, events>>
     \/ /\ backlog = <<>>
        /\ pc' = "batch"
        /\ UNCHANGED <<events, opened, owner, watched, backlog>>
     \/ /\ backlog # <<>> /\ Fds = opened
        /\ pc' = "dead" /\ opened' = {} /\ watched' = {} /\ events' = {}
        /\ UNCHANGED <<owner, backlog>>
  /\ UNCHANGED <<edge, link, up, down, clientVars>>

Response(method) == IF method \in Supported THEN method ELSE NotAllowed

\* Mutant: a read that leaves the data in the socket.
Peek(c) == UNCHANGED up
Consume(c) == up' = [up EXCEPT ![c] = <<>>]

\* A reset is reported to one call, after which the stream is at its end.
ReportReset(c) == link' = IF link[c] = "reset" THEN [link EXCEPT ![c] = "fin"] ELSE link

\* Only the first request of what was read gets an answer, which is lost
\* when the client has closed its end.
Answer(c) ==
  /\ up[c] # <<>>
  /\ Consume(c)
  /\ down' = IF link[c] = "up"
               THEN [down EXCEPT ![c] = Append(@, Response(Head(up[c])))]
               ELSE down
  /\ ReportReset(c)
  /\ UNCHANGED watched

EndOfStream(c) == up[c] = <<>> /\ link[c] = "fin"

\* EPOLL_CTL_DEL, without a close.
RemoveClient(c, client_fd) ==
  /\ EndOfStream(c)
  /\ watched' = watched \ {client_fd}
  /\ UNCHANGED <<link, up, down>>

\* read() returned -1: nothing there, or a reset.
ReadFails(c) ==
  /\ up[c] = <<>> /\ ~EndOfStream(c)
  /\ ReportReset(c)
  /\ UNCHANGED <<watched, up, down>>

handle_read_operation ==
  /\ pc = "batch"
  /\ \E client_fd \in events \ {LISTEN} :
       LET c == owner[client_fd] IN
       /\ Answer(c) \/ RemoveClient(c, client_fd) \/ ReadFails(c)
       /\ events' = Others(client_fd)
  /\ UNCHANGED <<pc, opened, owner, backlog, edge, clientVars>>

EndOfBatch ==
  /\ pc = "batch"
  /\ events = {}
  /\ pc' = "wait"
  /\ UNCHANGED <<events, opened, owner, watched, netVars, clientVars>>

ServerStep ==
  EpollWait \/ BeginAccept \/ handle_new_connection \/ handle_read_operation
    \/ EndOfBatch

-----------------------------------------------------------------------------
(* The clients.                                                            *)

Connect(c) ==
  /\ client[c] = "start"
  /\ pc # "dead"
  /\ client' = [client EXCEPT ![c] = "open"]
  /\ link' = [link EXCEPT ![c] = "up"]
  /\ backlog' = Append(backlog, c)
  /\ UNCHANGED <<serverVars, edge, up, down, sent, got>>

\* A client that keeps its connection does not wait for the response.
send_request(c) ==
  /\ client[c] = "open"
  /\ Len(sent[c]) < (IF c \in Keeping THEN MAX_REQUESTS ELSE 1)
  /\ \E method \in Methods :
       /\ up' = [up EXCEPT ![c] = Append(@, method)]
       /\ sent' = [sent EXCEPT ![c] = Append(@, method)]
  /\ edge' = edge \cup {c}
  /\ client' = [client EXCEPT ![c] = IF c \in Keeping THEN "open" ELSE "waiting"]
  /\ UNCHANGED <<serverVars, backlog, link, down, got>>

\* All the responses that are there come out of one read.
ReadResponse(c) ==
  /\ client[c] \in {"open", "waiting"}
  /\ down[c] # <<>>
  /\ got' = [got EXCEPT ![c] = @ \o down[c]]
  /\ down' = [down EXCEPT ![c] = <<>>]
  /\ client' = [client EXCEPT ![c] = IF @ = "waiting" THEN "answered" ELSE @]
  /\ UNCHANGED <<serverVars, backlog, edge, link, up, sent>>

\* Closing with responses unread is a reset.
Close(c) ==
  /\ client[c] = "answered" \/ (client[c] = "open" /\ c \in Keeping)
  /\ client' = [client EXCEPT ![c] = "gone"]
  /\ link' = [link EXCEPT ![c] = IF down[c] = <<>> THEN "fin" ELSE "reset"]
  /\ edge' = edge \cup {c}
  /\ UNCHANGED <<serverVars, backlog, up, down, sent, got>>

\* connect(), send() or read() finds the server gone.
ServerGone(c) ==
  /\ client[c] \in {"start", "open", "waiting"}
  /\ pc = "dead" /\ down[c] = <<>>
  /\ client' = [client EXCEPT ![c] = "gone"]
  /\ UNCHANGED <<serverVars, netVars, sent, got>>

ClientStep(c) ==
  Connect(c) \/ send_request(c) \/ ReadResponse(c) \/ Close(c) \/ ServerGone(c)

Next == ServerStep \/ \E c \in Clients : ClientStep(c)

Spec == Init /\ [][Next]_vars

\* The kernel runs the server, and clients read what they wait for.
FairSpec ==
  Spec /\ WF_vars(ServerStep)
       /\ \A c \in Clients : WF_vars(ReadResponse(c)) /\ WF_vars(ServerGone(c))

-----------------------------------------------------------------------------
(* Properties.                                                             *)

Watched(c) == \E fd \in watched : owner[fd] = c

\* Edge-triggered events are not lost: a request that is still unread has an
\* event to come, in this batch or in the next call of epoll_wait, although
\* the server reads only once for each event.
NoLostEvent ==
  \A fd \in watched : up[owner[fd]] # <<>> => owner[fd] \in edge \/ fd \in events

\* A live client stays registered for events, also when an event finds
\* nothing left to read.
LiveAreWatched ==
  pc # "dead" => \A fd \in opened :
    owner[fd] # NoClient /\ link[owner[fd]] = "up" => fd \in watched

\* A client gets the answers to requests of its own, in the order it sent
\* them, none of them twice.
AnswersRequests(answers, requests) ==
  \E place \in [DOMAIN answers -> DOMAIN requests] :
    /\ \A m, n \in DOMAIN answers : m < n => place[m] < place[n]
    /\ \A n \in DOMAIN answers : answers[n] = Response(requests[place[n]])
AnswersInOrder ==
  \A c \in Clients : AnswersRequests(got[c] \o down[c], sent[c])

\* The client that sends one request and waits is answered, whatever the
\* other clients do, unless the server is out of descriptors.
OneShotAnswered ==
  \A c \in Clients : client[c] = "waiting" ~> client[c] # "waiting"

\* Its close is noticed.
CloseNoticed ==
  \A c \in Clients \ Keeping : client[c] = "gone" ~> ~Watched(c)

-----------------------------------------------------------------------------
(* What the documentation says, and the code does not do.                  *)

\* "It waits for a new connection and handles the connection upon coming":
\* when it runs out of descriptors, none of them is that of a client it knows
\* to have disconnected.
RoomForConnected ==
  pc = "accept" /\ backlog # <<>> /\ Fds = opened =>
    \A fd \in opened : owner[fd] # NoClient => fd \in watched

=============================================================================
