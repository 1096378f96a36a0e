--------------------------- MODULE HttpServerProofs ---------------------------
(***************************************************************************)
(* Proofs about HttpServer, for all clients, methods, batches and limits   *)
(* of descriptors: types, that no event of the edge-triggered epoll set is *)
(* lost, that live clients stay in that set, and that a client gets the    *)
(* answers to its own requests in the order it sent them.                  *)
(***************************************************************************)
EXTENDS HttpServer, DataLemmas, SequenceTheorems, TLAPS

Waiting(c) == \E n \in DOMAIN backlog : backlog[n] = c
Accepted(c) == \E fd \in Fds : owner[fd] = c

\* A batch is looked at to its end before the next is asked for, and is about
\* the listening socket and accepted connections.
BatchInv ==
  /\ pc = "wait" => events = {}
  /\ owner[LISTEN] = NoClient /\ (pc # "dead" => LISTEN \in opened)
  /\ \A fd \in events : fd = LISTEN \/ owner[fd] # NoClient

\* A connection waits once or has one descriptor, which is open and is never
\* given to another.
ConnectionsInv ==
  /\ \A c \in Clients : client[c] = "start" => ~Waiting(c) /\ ~Accepted(c) /\ up[c] = <<>>
  /\ \A c \in Clients : Waiting(c) => ~Accepted(c)
  /\ \A m, n \in DOMAIN backlog : backlog[m] = backlog[n] => m = n
  /\ \A f, g \in Fds : owner[f] = owner[g] /\ owner[f] # NoClient => f = g
  /\ pc # "dead" => \A fd \in Fds : owner[fd] # NoClient => fd \in opened

\* The first event of a connection comes when it is accepted, for what was
\* sent while it waited.
PendingInv == \A c \in Clients : Waiting(c) /\ up[c] # <<>> => c \in edge

HttpInv ==
  /\ TypeOK
  /\ BatchInv
  /\ ConnectionsInv
  /\ PendingInv
  /\ NoLostEvent
  /\ LiveAreWatched

-----------------------------------------------------------------------------
(* Facts about constants, sequences and what a step leaves alone.          *)

LEMMA Descriptors == LISTEN \in Fds /\ NoClient \notin Clients
BY HttpServerAssumption DEF LISTEN, Fds

LEMMA ResponseType == \A m \in Methods : Response(m) \in Responses
BY DEF Response, Responses

\* What waits behind the first connection, and what waits with one more.
LEMMA TailWaits ==
  ASSUME NEW S, NEW s \in Seq(S), s # <<>>
  PROVE  /\ Head(s) \in S /\ Tail(s) \in Seq(S)
         /\ Head(s) = s[1] /\ 1 \in DOMAIN s
         /\ \A n \in DOMAIN Tail(s) : /\ n \in Nat \ {0}
                                      /\ n + 1 \in DOMAIN s
                                      /\ Tail(s)[n] = s[n + 1]
BY HeadTailProperties

LEMMA AppendWaits ==
  ASSUME NEW S, NEW s \in Seq(S), NEW x \in S
  PROVE  /\ Append(s, x) \in Seq(S) /\ Append(s, x) # <<>>
         /\ DOMAIN Append(s, x) = DOMAIN s \cup {Len(s) + 1}
         /\ Len(s) + 1 \notin DOMAIN s
         /\ Append(s, x)[Len(s) + 1] = x
         /\ \A n \in DOMAIN s : Append(s, x)[n] = s[n]
BY AppendProperties

LEMMA InitHttpInv == Init => HttpInv
BY Descriptors, HttpServerAssumption
   DEF Init, HttpInv, TypeOK, BatchInv, ConnectionsInv, PendingInv, NoLostEvent,
       LiveAreWatched, Waiting, Accepted, Fds, LISTEN

LEMMA StutterKeeps == HttpInv /\ UNCHANGED vars => HttpInv'
BY DEF vars, serverVars, netVars, clientVars, HttpInv, TypeOK, BatchInv, ConnectionsInv,
       PendingInv, NoLostEvent, LiveAreWatched, Waiting, Accepted

-----------------------------------------------------------------------------
(* The steps of the server.                                                *)

\* An event leaves the edges only for a batch, with its one descriptor.
LEMMA EpollWaitKeeps == HttpInv /\ EpollWait => HttpInv'
<1> SUFFICES ASSUME HttpInv, EpollWait PROVE HttpInv'
  OBVIOUS
<1>1. UNCHANGED <<opened, owner, watched, backlog, link, up, down, clientVars>>
  BY DEF EpollWait
<1>2. /\ pc = "wait" /\ pc' = "batch"
      /\ events' \subseteq Ready
      /\ edge' = edge \ {owner[fd] : fd \in events'}
  BY DEF EpollWait
<1>3. \A fd \in Ready : fd \in Fds /\ (fd = LISTEN \/ owner[fd] \in Clients)
  BY Descriptors DEF Ready, HttpInv, TypeOK
<1>4. TypeOK'
  BY <1>1, <1>2, <1>3 DEF HttpInv, TypeOK, clientVars
<1>5. BatchInv'
  BY <1>1, <1>2, <1>3, Descriptors DEF HttpInv, BatchInv
<1>6. ConnectionsInv'
  BY <1>1, <1>2 DEF HttpInv, ConnectionsInv, Waiting, Accepted, clientVars
<1>7. PendingInv'
  <2> SUFFICES ASSUME NEW c \in Clients, Waiting(c), up[c] # <<>> PROVE c \in edge'
    BY <1>1 DEF PendingInv, Waiting
  <2>1. c \in edge /\ ~Accepted(c)
    BY DEF HttpInv, PendingInv, ConnectionsInv
  <2> QED
    BY <2>1, <1>2, <1>3 DEF Accepted
<1>8. NoLostEvent'
  <2> SUFFICES ASSUME NEW fd \in watched, up[owner[fd]] # <<>>
               PROVE  owner[fd] \in edge' \/ fd \in events'
    BY <1>1 DEF NoLostEvent
  <2>1. fd \in Fds /\ owner[fd] # NoClient
    BY DEF HttpInv, TypeOK
  <2>2. owner[fd] \in edge
    BY <1>2 DEF HttpInv, NoLostEvent, BatchInv
  <2>3. ASSUME NEW other \in events', owner[other] = owner[fd] PROVE other = fd
    BY <2>1, <2>3, <1>2, <1>3 DEF HttpInv, ConnectionsInv
  <2> QED
    BY <2>2, <2>3, <1>2
<1>9. LiveAreWatched'
  BY <1>1, <1>2 DEF HttpInv, LiveAreWatched
<1> QED
  BY <1>4, <1>5, <1>6, <1>7, <1>8, <1>9 DEF HttpInv

LEMMA BeginAcceptKeeps == HttpInv /\ BeginAccept => HttpInv'
<1> SUFFICES ASSUME HttpInv, BeginAccept PROVE HttpInv'
  OBVIOUS
<1>1. /\ UNCHANGED <<opened, owner, watched, netVars, clientVars>>
      /\ pc' = "accept" /\ pc = "batch"
      /\ events' = events \ {LISTEN}
  BY DEF BeginAccept, Others
<1>2. TypeOK'
  BY <1>1 DEF HttpInv, TypeOK, netVars, clientVars
<1>3. BatchInv'
  BY <1>1 DEF HttpInv, BatchInv
<1>4. ConnectionsInv' /\ PendingInv'
  BY <1>1 DEF HttpInv, ConnectionsInv, PendingInv, Waiting, Accepted, netVars, clientVars
<1>5. NoLostEvent'
  BY <1>1 DEF HttpInv, NoLostEvent, BatchInv, TypeOK, netVars
<1>6. LiveAreWatched'
  BY <1>1 DEF HttpInv, LiveAreWatched, netVars
<1> QED
  BY <1>2, <1>3, <1>4, <1>5, <1>6 DEF HttpInv

LEMMA EndOfBatchKeeps == HttpInv /\ EndOfBatch => HttpInv'
BY DEF EndOfBatch, HttpInv, TypeOK, BatchInv, ConnectionsInv, PendingInv, NoLostEvent,
       LiveAreWatched, Waiting, Accepted, netVars, clientVars

\* The connection that has waited longest gets the lowest free descriptor,
\* which nobody's events are about.
AcceptOne(client_fd) ==
  /\ pc = "accept"
  /\ backlog # <<>>
  /\ opened' = opened \cup {client_fd}
  /\ owner' = [owner EXCEPT ![client_fd] = Head(backlog)]
  /\ watched' = watched \cup {client_fd}
  /\ backlog' = Tail(backlog)
  /\ UNCHANGED <<pc, events, edge, link, up, down, clientVars>>

LEMMA AcceptOneKeeps ==
  ASSUME HttpInv, NEW client_fd \in Fds \ opened, AcceptOne(client_fd)
  PROVE  HttpInv'
<1> DEFINE new == Head(backlog)
<1>1. /\ pc = "accept" /\ backlog # <<>>
      /\ opened' = opened \cup {client_fd}
      /\ owner' = [owner EXCEPT ![client_fd] = new]
      /\ watched' = watched \cup {client_fd}
      /\ backlog' = Tail(backlog)
      /\ UNCHANGED <<pc, events, edge, link, up, down, client, sent, got>>
  BY DEF AcceptOne, clientVars
<1>2. /\ new \in Clients /\ backlog' \in Seq(Clients)
      /\ new = backlog[1] /\ 1 \in DOMAIN backlog
      /\ \A n \in DOMAIN backlog' : /\ n \in Nat \ {0}
                                    /\ n + 1 \in DOMAIN backlog
                                    /\ backlog'[n] = backlog[n + 1]
  BY <1>1, TailWaits DEF HttpInv, TypeOK
<1>3. /\ owner \in [Fds -> Clients \cup {NoClient}]
      /\ owner[client_fd] = NoClient /\ client_fd \notin watched
      /\ owner'[client_fd] = new
      /\ \A fd \in Fds : fd # client_fd => owner'[fd] = owner[fd]
  BY <1>1 DEF HttpInv, TypeOK, ConnectionsInv
<1>4. Waiting(new) /\ ~Accepted(new) /\ client[new] # "start"
  BY <1>2 DEF HttpInv, ConnectionsInv, Waiting
<1>5. \A c \in Clients : Waiting(c)' => Waiting(c)
  BY <1>2 DEF Waiting
<1>6. \A n \in DOMAIN backlog' : backlog'[n] # new
  <2> SUFFICES ASSUME NEW n \in DOMAIN backlog', backlog[n + 1] = backlog[1] PROVE FALSE
    BY <1>2
  <2>1. n + 1 = 1
    BY <1>2 DEF HttpInv, ConnectionsInv
  <2> QED
    BY <2>1, <1>2
<1>7. \A c \in Clients : Accepted(c)' => c = new \/ Accepted(c)
  BY <1>3 DEF Accepted
<1>8. TypeOK'
  BY <1>1, <1>2, <1>3, Descriptors DEF HttpInv, TypeOK
<1>9. BatchInv'
  <2>1. client_fd # LISTEN
    BY <1>1 DEF HttpInv, BatchInv
  <2> QED
    BY <2>1, <1>1, <1>2, <1>3, Descriptors DEF HttpInv, BatchInv, TypeOK
<1>10. ConnectionsInv'
  <2>1. \A c \in Clients : client[c] = "start" => ~Waiting(c)' /\ ~Accepted(c)' /\ up[c] = <<>>
    BY <1>4, <1>5, <1>7 DEF HttpInv, ConnectionsInv
  <2>2. \A c \in Clients : Waiting(c)' => ~Accepted(c)'
    BY <1>5, <1>6, <1>7 DEF HttpInv, ConnectionsInv, Waiting
  <2>3. \A m, n \in DOMAIN backlog' : backlog'[m] = backlog'[n] => m = n
    <3> SUFFICES ASSUME NEW m \in DOMAIN backlog', NEW n \in DOMAIN backlog',
                        backlog'[m] = backlog'[n]
                 PROVE  m = n
      OBVIOUS
    <3>1. m \in Nat /\ n \in Nat /\ m + 1 = n + 1
      BY <1>2 DEF HttpInv, ConnectionsInv
    <3> QED
      BY <3>1
  <2>4. \A f, g \in Fds : owner'[f] = owner'[g] /\ owner'[f] # NoClient => f = g
    BY <1>3, <1>4 DEF HttpInv, ConnectionsInv, Accepted
  <2>5. pc' # "dead" => \A fd \in Fds : owner'[fd] # NoClient => fd \in opened'
    BY <1>1, <1>3 DEF HttpInv, ConnectionsInv
  <2> QED
    BY <1>1, <2>1, <2>2, <2>3, <2>4, <2>5 DEF ConnectionsInv
<1>11. PendingInv'
  BY <1>1, <1>5 DEF HttpInv, PendingInv
<1>12. NoLostEvent'
  BY <1>1, <1>3, <1>4 DEF HttpInv, NoLostEvent, PendingInv, TypeOK
<1>13. LiveAreWatched'
  BY <1>1, <1>3 DEF HttpInv, LiveAreWatched, TypeOK
<1> QED
  BY <1>8, <1>9, <1>10, <1>11, <1>12, <1>13 DEF HttpInv

LEMMA NewConnectionKeeps == HttpInv /\ handle_new_connection => HttpInv'
<1> SUFFICES ASSUME HttpInv, handle_new_connection PROVE HttpInv'
  OBVIOUS
<1>1. ASSUME NEW client_fd \in Fds \ opened, AcceptOne(client_fd) PROVE HttpInv'
  BY <1>1, AcceptOneKeeps
<1>2. CASE /\ backlog = <<>> /\ pc' = "batch" /\ pc = "accept"
           /\ UNCHANGED <<events, opened, owner, watched, backlog, edge, link, up, down,
                          clientVars>>
  BY <1>2 DEF HttpInv, TypeOK, BatchInv, ConnectionsInv, PendingInv, NoLostEvent,
              LiveAreWatched, Waiting, Accepted, clientVars
<1>3. CASE /\ pc' = "dead" /\ opened' = {} /\ watched' = {} /\ events' = {}
           /\ UNCHANGED <<owner, backlog, edge, link, up, down, clientVars>>
  BY <1>3 DEF HttpInv, TypeOK, BatchInv, ConnectionsInv, PendingInv, NoLostEvent,
              LiveAreWatched, Waiting, Accepted, clientVars
<1> QED
  BY <1>1, <1>2, <1>3 DEF handle_new_connection, AcceptOne

\* What a read takes is all there is, so that no event is needed for it.
LEMMA ReadKeeps == HttpInv /\ handle_read_operation => HttpInv'
<1> SUFFICES ASSUME HttpInv, handle_read_operation PROVE HttpInv'
  OBVIOUS
<1>1. PICK fd \in events \ {LISTEN} :
        /\ \/ Answer(owner[fd]) \/ RemoveClient(owner[fd], fd) \/ ReadFails(owner[fd])
        /\ events' = events \ {fd}
  BY DEF handle_read_operation, Others
<1> DEFINE c == owner[fd]
<1>2. /\ pc = "batch"
      /\ UNCHANGED <<pc, opened, owner, backlog, edge, client, sent, got>>
  BY DEF handle_read_operation, clientVars
<1>3. fd \in Fds /\ c \in Clients
  BY DEF HttpInv, BatchInv, TypeOK
<1>4. /\ up' = [up EXCEPT ![c] = <<>>]
      /\ watched' \subseteq watched
      /\ link[c] # "fin" => watched' = watched
      /\ \A other \in watched : other # fd => other \in watched'
      /\ link' = link \/ link' = [link EXCEPT ![c] = "fin"]
      /\ down' = down \/ (up[c] # <<>>
                          /\ down' = [down EXCEPT ![c] = Append(@, Response(Head(up[c])))])
  <2>1. up \in [Clients -> Seq(Methods)]
    BY DEF HttpInv, TypeOK
  <2>2. up[c] = <<>> => up = [up EXCEPT ![c] = <<>>]
    BY <2>1, <1>3
  <2>3. CASE Answer(c)
    BY <2>3 DEF Answer, Consume, ReportReset
  <2>4. CASE RemoveClient(c, fd)
    BY <2>2, <2>4 DEF RemoveClient, EndOfStream
  <2>5. CASE ReadFails(c)
    BY <2>2, <2>5 DEF ReadFails, ReportReset
  <2> QED
    BY <1>1, <2>3, <2>4, <2>5
<1>5. up'[c] = <<>> /\ \A d \in Clients : up'[d] # <<>> => d # c /\ up'[d] = up[d]
  BY <1>3, <1>4 DEF HttpInv, TypeOK
<1>6. TypeOK'
  <2>1. up' \in [Clients -> Seq(Methods)]
    BY <1>3, <1>4 DEF HttpInv, TypeOK
  <2>2. link' \in [Clients -> {"none", "up", "fin", "reset"}]
    BY <1>4 DEF HttpInv, TypeOK
  <2>3. down' \in [Clients -> Seq(Responses)]
    <3>1. ASSUME up[c] # <<>> PROVE Response(Head(up[c])) \in Responses
      BY <1>3, <3>1, TailWaits, ResponseType DEF HttpInv, TypeOK
    <3>2. ASSUME NEW x \in Responses
          PROVE  [down EXCEPT ![c] = Append(@, x)] \in [Clients -> Seq(Responses)]
      BY <1>3 DEF HttpInv, TypeOK
    <3>3. CASE down' = down
      BY <3>3 DEF HttpInv, TypeOK
    <3>4. CASE up[c] # <<>> /\ down' = [down EXCEPT ![c] = Append(@, Response(Head(up[c])))]
      <4> DEFINE x == Response(Head(up[c]))
      <4>1. x \in Responses
        BY <3>1, <3>4
      <4>2. down' = [down EXCEPT ![c] = Append(@, x)]
        BY <3>4
      <4> HIDE DEF x
      <4> QED
        BY <3>2, <4>1, <4>2
    <3> QED
      BY <1>4, <3>3, <3>4
  <2> QED
    BY <1>1, <1>2, <1>4, <2>1, <2>2, <2>3 DEF HttpInv, TypeOK
<1>7. BatchInv'
  BY <1>1, <1>2 DEF HttpInv, BatchInv
<1>8. ConnectionsInv'
  BY <1>2, <1>5 DEF HttpInv, ConnectionsInv, Waiting, Accepted
<1>9. PendingInv'
  BY <1>2, <1>5 DEF HttpInv, PendingInv, Waiting
<1>10. NoLostEvent'
  <2> SUFFICES ASSUME NEW other \in watched', up'[owner[other]] # <<>>
               PROVE  owner[other] \in edge \/ other \in events'
    BY <1>2 DEF NoLostEvent
  <2>1. other \in watched /\ owner[other] \in Clients
    BY <1>4 DEF HttpInv, TypeOK
  <2>2. owner[other] # c /\ up[owner[other]] # <<>>
    BY <2>1, <1>5
  <2> QED
    BY <2>1, <2>2, <1>1 DEF HttpInv, NoLostEvent
<1>11. LiveAreWatched'
  <2> SUFFICES ASSUME pc # "dead", NEW other \in opened,
                      owner[other] # NoClient, link'[owner[other]] = "up"
               PROVE  other \in watched'
    BY <1>2 DEF LiveAreWatched
  <2>1. other \in Fds /\ owner[other] \in Clients
    BY DEF HttpInv, TypeOK
  <2>2. link[owner[other]] = "up"
    BY <2>1, <1>3, <1>4 DEF HttpInv, TypeOK
  <2>3. other \in watched
    BY <2>2 DEF HttpInv, LiveAreWatched
  <2> QED
    BY <2>2, <2>3, <1>4
<1> QED
  BY <1>6, <1>7, <1>8, <1>9, <1>10, <1>11 DEF HttpInv

-----------------------------------------------------------------------------
(* The steps of the clients.                                               *)

LEMMA ConnectKeeps == ASSUME HttpInv, NEW c \in Clients, Connect(c) PROVE HttpInv'
<1>1. /\ client[c] = "start" /\ pc # "dead"
      /\ client' = [client EXCEPT ![c] = "open"]
      /\ link' = [link EXCEPT ![c] = "up"]
      /\ backlog' = Append(backlog, c)
      /\ UNCHANGED <<pc, events, opened, owner, watched, edge, up, down, sent, got>>
  BY DEF Connect, serverVars
<1>2. ~Waiting(c) /\ ~Accepted(c) /\ up[c] = <<>>
  BY <1>1 DEF HttpInv, ConnectionsInv
<1>3. /\ backlog' \in Seq(Clients)
      /\ DOMAIN backlog' = DOMAIN backlog \cup {Len(backlog) + 1}
      /\ Len(backlog) + 1 \notin DOMAIN backlog
      /\ backlog'[Len(backlog) + 1] = c
      /\ \A n \in DOMAIN backlog : backlog'[n] = backlog[n]
  BY <1>1, AppendWaits DEF HttpInv, TypeOK
<1>4. \A d \in Clients : Waiting(d)' => d = c \/ Waiting(d)
  BY <1>3 DEF Waiting
<1>5. \A d \in Clients : Accepted(d)' <=> Accepted(d)
  BY <1>1 DEF Accepted
<1>6. TypeOK'
  BY <1>1, <1>3 DEF HttpInv, TypeOK
<1>7. BatchInv'
  BY <1>1 DEF HttpInv, BatchInv
<1>8. ConnectionsInv'
  <2>1. \A d \in Clients : client'[d] = "start" => d # c /\ client[d] = "start"
    BY <1>1 DEF HttpInv, TypeOK
  <2>2. \A m, n \in DOMAIN backlog' : backlog'[m] = backlog'[n] => m = n
    BY <1>2, <1>3 DEF HttpInv, ConnectionsInv, Waiting
  <2> QED
    BY <1>1, <1>2, <1>4, <1>5, <2>1, <2>2 DEF HttpInv, ConnectionsInv
<1>9. PendingInv'
  BY <1>1, <1>2, <1>4 DEF HttpInv, PendingInv
<1>10. NoLostEvent'
  BY <1>1 DEF HttpInv, NoLostEvent
<1>11. LiveAreWatched'
  BY <1>1, <1>2 DEF HttpInv, LiveAreWatched, Accepted, TypeOK
<1> QED
  BY <1>6, <1>7, <1>8, <1>9, <1>10, <1>11 DEF HttpInv

\* A request is an event, whether its connection is accepted yet or not.
LEMMA SendRequestKeeps == ASSUME HttpInv, NEW c \in Clients, send_request(c) PROVE HttpInv'
<1>1. /\ client[c] = "open"
      /\ edge' = edge \cup {c}
      /\ client' = [client EXCEPT ![c] = IF c \in Keeping THEN "open" ELSE "waiting"]
      /\ UNCHANGED <<pc, events, opened, owner, watched, backlog, link, down, got>>
  BY DEF send_request, serverVars
<1>2. PICK method \in Methods :
        /\ up' = [up EXCEPT ![c] = Append(@, method)]
        /\ sent' = [sent EXCEPT ![c] = Append(@, method)]
  BY DEF send_request
<1>3. \A d \in Clients : /\ d # c => up'[d] = up[d]
                         /\ client'[d] = "start" => d # c /\ client[d] = "start"
  BY <1>1, <1>2 DEF HttpInv, TypeOK
<1>4. TypeOK'
  BY <1>1, <1>2 DEF HttpInv, TypeOK
<1>5. BatchInv' /\ LiveAreWatched'
  BY <1>1 DEF HttpInv, BatchInv, LiveAreWatched
<1>6. ConnectionsInv'
  BY <1>1, <1>3 DEF HttpInv, ConnectionsInv, Waiting, Accepted
<1>7. PendingInv'
  BY <1>1, <1>3 DEF HttpInv, PendingInv, Waiting
<1>8. NoLostEvent'
  BY <1>1, <1>3 DEF HttpInv, NoLostEvent, TypeOK
<1> QED
  BY <1>4, <1>5, <1>6, <1>7, <1>8 DEF HttpInv

\* Reading, closing and finding the server gone send nothing.
LEMMA OtherClientStepsKeep ==
  ASSUME HttpInv, NEW c \in Clients, ReadResponse(c) \/ Close(c) \/ ServerGone(c)
  PROVE  HttpInv'
<1>1. /\ UNCHANGED <<pc, events, opened, owner, watched, backlog, up, sent>>
      /\ edge \subseteq edge' /\ edge' \subseteq edge \cup {c}
      /\ \A d \in Clients : client'[d] = "start" => client[d] = "start"
      /\ \A d \in Clients : link'[d] = "up" => link[d] = "up"
  BY DEF ReadResponse, Close, ServerGone, serverVars, netVars, HttpInv, TypeOK
<1>2. TypeOK'
  <2>1. CASE ReadResponse(c)
    <3>1. down[c] \in Seq(Responses) /\ got[c] \in Seq(Responses)
      BY DEF HttpInv, TypeOK
    <3>2. got[c] \o down[c] \in Seq(Responses)
      BY <3>1, ConcatProperties
    <3>3. got' = [got EXCEPT ![c] = got[c] \o down[c]] /\ down' = [down EXCEPT ![c] = <<>>]
      BY <2>1 DEF ReadResponse
    <3>4. client' \in [Clients -> {"start", "open", "waiting", "answered", "gone"}]
      BY <2>1 DEF ReadResponse, HttpInv, TypeOK
    <3>5. UNCHANGED <<edge, link>>
      BY <2>1 DEF ReadResponse
    <3>6. got' \in [Clients -> Seq(Responses)]
      BY <3>2, <3>3 DEF HttpInv, TypeOK
    <3>7. down' \in [Clients -> Seq(Responses)]
      BY <3>3 DEF HttpInv, TypeOK
    <3> QED
      BY <1>1, <3>4, <3>5, <3>6, <3>7 DEF HttpInv, TypeOK
  <2>2. CASE Close(c)
    BY <1>1, <2>2 DEF Close, HttpInv, TypeOK
  <2>3. CASE ServerGone(c)
    BY <1>1, <2>3 DEF ServerGone, netVars, HttpInv, TypeOK
  <2> QED
    BY <2>1, <2>2, <2>3
<1>3. BatchInv' /\ ConnectionsInv'
  BY <1>1 DEF HttpInv, BatchInv, ConnectionsInv, Waiting, Accepted
<1>4. PendingInv' /\ NoLostEvent'
  BY <1>1 DEF HttpInv, PendingInv, NoLostEvent, Waiting
<1>5. LiveAreWatched'
  BY <1>1 DEF HttpInv, LiveAreWatched, TypeOK
<1> QED
  BY <1>2, <1>3, <1>4, <1>5 DEF HttpInv

-----------------------------------------------------------------------------
(* The theorems.                                                           *)

LEMMA NextKeeps == HttpInv /\ [Next]_vars => HttpInv'
<1> SUFFICES ASSUME HttpInv, [Next]_vars PROVE HttpInv'
  OBVIOUS
<1>1. CASE UNCHANGED vars
  BY <1>1, StutterKeeps
<1>2. CASE ServerStep
  BY <1>2, EpollWaitKeeps, BeginAcceptKeeps, NewConnectionKeeps, ReadKeeps, EndOfBatchKeeps
     DEF ServerStep
<1>3. ASSUME NEW c \in Clients, ClientStep(c) PROVE HttpInv'
  BY <1>3, ConnectKeeps, SendRequestKeeps, OtherClientStepsKeep DEF ClientStep
<1> QED
  BY <1>1, <1>2, <1>3 DEF Next

\* What the loop of main(), its two handlers and the clients keep true, in any
\* interleaving of their steps.
THEOREM HttpInvariance == Spec => []HttpInv
<1>1. Init => HttpInv
  BY InitHttpInv
<1>2. HttpInv /\ [Next]_vars => HttpInv'
  BY NextKeeps
<1> QED
  BY <1>1, <1>2, PTL DEF Spec

\* http-server.c:362 reads once for each event: a request that is still unread
\* always has an event to come.
THEOREM EventsAreNotLost == Spec => []NoLostEvent
<1>1. HttpInv => NoLostEvent
  BY DEF HttpInv
<1> QED
  BY <1>1, HttpInvariance, PTL

\* http-server.c:367 takes a client out of the epoll set at its end of stream
\* only: one that is there stays in it.
THEOREM LiveStayWatched == Spec => []LiveAreWatched
<1>1. HttpInv => LiveAreWatched
  BY DEF HttpInv
<1> QED
  BY <1>1, HttpInvariance, PTL

-----------------------------------------------------------------------------
(* The order of the answers.                                               *)

\* Each answer is to a request among the first k, and later answers are to
\* later requests.
AnswersFirst(answers, requests, k) ==
  \E place \in [DOMAIN answers -> 1 .. k] :
    /\ \A m, n \in DOMAIN answers : m < n => place[m] < place[n]
    /\ \A n \in DOMAIN answers : answers[n] = Response(requests[place[n]])

\* What is on its way to the server is the end of what was sent, and the
\* answers are to requests before it.
OrderInv ==
  \A c \in Clients :
    /\ EndsWith(sent[c], up[c])
    /\ AnswersFirst(got[c] \o down[c], sent[c], Len(sent[c]) - Len(up[c]))

LEMMA MoreRequests ==
  ASSUME NEW answers, NEW old, NEW new, NEW k \in Nat, NEW l \in Nat, k <= l,
         \A n \in 1 .. k : new[n] = old[n], AnswersFirst(answers, old, k)
  PROVE  AnswersFirst(answers, new, l)
<1>1. PICK place \in [DOMAIN answers -> 1 .. k] :
        /\ \A m, n \in DOMAIN answers : m < n => place[m] < place[n]
        /\ \A n \in DOMAIN answers : answers[n] = Response(old[place[n]])
  BY DEF AnswersFirst
<1>2. place \in [DOMAIN answers -> 1 .. l]
  <2>1. 1 .. k \subseteq 1 .. l
    OBVIOUS
  <2> QED
    BY <2>1
<1>3. \A n \in DOMAIN answers : answers[n] = Response(new[place[n]])
  BY <1>1
<1> QED
  BY <1>1, <1>2, <1>3 DEF AnswersFirst

LEMMA OneMoreAnswer ==
  ASSUME NEW answers \in Seq(Responses), NEW requests, NEW k \in Nat,
         NEW l \in Nat, k < l, NEW x \in Responses,
         x = Response(requests[k + 1]), AnswersFirst(answers, requests, k)
  PROVE  AnswersFirst(Append(answers, x), requests, l)
<1>1. PICK place \in [DOMAIN answers -> 1 .. k] :
        /\ \A m, n \in DOMAIN answers : m < n => place[m] < place[n]
        /\ \A n \in DOMAIN answers : answers[n] = Response(requests[place[n]])
  BY DEF AnswersFirst
<1>2. PICK last \in Nat : last = Len(answers)
  OBVIOUS
<1> DEFINE all == Append(answers, x)
           wider == [n \in 1 .. (last + 1) |-> IF n = last + 1 THEN k + 1 ELSE place[n]]
<1>3. /\ DOMAIN answers = 1 .. last /\ DOMAIN all = 1 .. (last + 1)
      /\ all[last + 1] = x /\ \A n \in 1 .. last : all[n] = answers[n]
  BY <1>2, AppendProperties
<1> HIDE DEF all
<1>4. \A n \in 1 .. last : wider[n] = place[n] /\ place[n] \in 1 .. k
  BY <1>3
<1>5. wider[last + 1] = k + 1
  OBVIOUS
<1>6. wider \in [1 .. (last + 1) -> 1 .. l]
  <2>1. k + 1 \in 1 .. l /\ 1 .. k \subseteq 1 .. l
    OBVIOUS
  <2>2. \A n \in 1 .. (last + 1) : n \in 1 .. last \/ n = last + 1
    OBVIOUS
  <2>3. \A n \in 1 .. (last + 1) : (IF n = last + 1 THEN k + 1 ELSE place[n]) \in 1 .. l
    BY <1>4, <2>1, <2>2
  <2> QED
    BY <2>3
<1> HIDE DEF wider
<1>7. ASSUME NEW m \in 1 .. (last + 1), NEW n \in 1 .. (last + 1), m < n
      PROVE  wider[m] < wider[n]
  <2>1. m \in 1 .. last
    BY <1>7
  <2>2. CASE n = last + 1
    BY <1>4, <1>5, <2>1, <2>2
  <2>3. CASE n # last + 1
    <3>1. n \in 1 .. last
      BY <2>3
    <3> QED
      BY <1>1, <1>3, <1>4, <1>7, <2>1, <3>1
  <2> QED
    BY <2>2, <2>3
<1>8. ASSUME NEW n \in 1 .. (last + 1) PROVE all[n] = Response(requests[wider[n]])
  <2>1. CASE n = last + 1
    BY <1>3, <1>5, <2>1
  <2>2. CASE n # last + 1
    <3>1. n \in 1 .. last
      BY <2>2
    <3> QED
      BY <1>1, <1>3, <1>4, <3>1
  <2> QED
    BY <2>1, <2>2
<1>9. AnswersFirst(all, requests, l)
  BY <1>3, <1>6, <1>7, <1>8 DEF AnswersFirst
<1> QED
  BY <1>9 DEF all

LEMMA ReadAnswers ==
  ASSUME NEW s \in Seq(Responses), NEW t \in Seq(Responses)
  PROVE  /\ s \o t \in Seq(Responses) /\ (s \o t) \o <<>> = s \o t
         /\ \A x \in Responses : s \o Append(t, x) = Append(s \o t, x)
  BY ConcatProperties

LEMMA InitOrder == Init => OrderInv
<1> SUFFICES ASSUME Init, NEW c \in Clients
             PROVE  /\ EndsWith(sent[c], up[c])
                    /\ AnswersFirst(got[c] \o down[c], sent[c], Len(sent[c]) - Len(up[c]))
  BY DEF OrderInv
<1>1. sent[c] = <<>> /\ up[c] = <<>> /\ got[c] = <<>> /\ down[c] = <<>>
  BY DEF Init
<1>2. EndsWith(<<>>, <<>>) /\ Len(<<>>) = 0
  BY DEF EndsWith
<1>3. <<>> \o <<>> = <<>> /\ DOMAIN <<>> = {}
  OBVIOUS
<1>4. AnswersFirst(<<>>, <<>>, Len(<<>>) - Len(<<>>))
  <2>1. <<>> \in [{} -> 1 .. (Len(<<>>) - Len(<<>>))]
    BY <1>3
  <2> QED
    BY <1>3, <2>1 DEF AnswersFirst
<1> QED
  BY <1>1, <1>2, <1>3, <1>4

LEMMA SameOrder ==
  ASSUME OrderInv, UNCHANGED <<up, down, sent, got>> PROVE OrderInv'
  BY DEF OrderInv

\* A read takes every request there is and answers the first of them.
LEMMA AnswerOrder ==
  ASSUME HttpInv, OrderInv, NEW c \in Clients, Answer(c), UNCHANGED <<sent, got>>
  PROVE  OrderInv'
<1>1. /\ up[c] # <<>> /\ up' = [up EXCEPT ![c] = <<>>]
      /\ \/ down' = down
         \/ down' = [down EXCEPT ![c] = Append(@, Response(Head(up[c])))]
  BY DEF Answer, Consume
<1>2. /\ up \in [Clients -> Seq(Methods)] /\ sent[c] \in Seq(Methods)
      /\ up[c] \in Seq(Methods) /\ down \in [Clients -> Seq(Responses)]
      /\ down[c] \in Seq(Responses) /\ got[c] \in Seq(Responses)
  BY DEF HttpInv, TypeOK
<1>3. /\ EndsWith(sent[c], up[c])
      /\ AnswersFirst(got[c] \o down[c], sent[c], Len(sent[c]) - Len(up[c]))
  BY DEF OrderInv
<1>4. PICK requests \in Seq(Methods), unread \in Seq(Methods),
           answers \in Seq(Responses) :
        /\ requests = sent[c] /\ unread = up[c] /\ answers = got[c] \o down[c]
        /\ unread # <<>> /\ EndsWith(requests, unread)
        /\ AnswersFirst(answers, requests, Len(requests) - Len(unread))
  BY <1>1, <1>2, <1>3, ReadAnswers
<1> DEFINE before == Len(requests) - Len(unread)
           all    == Len(requests)
           first  == Head(unread)
<1>5. /\ before \in Nat /\ all \in Nat /\ before < all
      /\ requests[before + 1] = first /\ first \in Methods
      /\ EndsWith(requests, <<>>) /\ Len(requests) - Len(<<>>) = all
      /\ AnswersFirst(answers, requests, before)
  <2>1. /\ all \in Nat /\ before \in 0 .. all /\ before + 1 \in 1 .. all
        /\ requests[before + 1] = unread[1]
        /\ EndsWith(requests, <<>>) /\ Len(requests) - Len(<<>>) = all
    BY <1>4, EndsTaken
  <2>2. first = unread[1] /\ first \in Methods
    BY <1>4, TailWaits
  <2> HIDE DEF before, all, first
  <2>3. before \in Nat /\ before < all
    BY <2>1
  <2> QED
    BY <1>4, <2>1, <2>2, <2>3 DEF before
<1> HIDE DEF before, all, first
<1>6. \A d \in Clients : d # c => up'[d] = up[d] /\ down'[d] = down[d]
  BY <1>1, <1>2
<1>7. up'[c] = <<>>
  BY <1>1, <1>2
<1>8. AnswersFirst(got[c] \o down'[c], sent[c], all)
  <2>1. CASE down' = down
    <3>1. AnswersFirst(answers, requests, all)
      BY <1>5, MoreRequests
    <3> QED
      BY <1>4, <2>1, <3>1
  <2>2. CASE down' = [down EXCEPT ![c] = Append(@, Response(Head(up[c])))]
    <3>1. PICK x \in Responses : x = Response(first)
      BY <1>5, ResponseType
    <3>2. down'[c] = Append(down[c], x)
      BY <1>2, <1>4, <2>2, <3>1 DEF first
    <3>3. AnswersFirst(Append(answers, x), requests, all)
      BY <1>5, <3>1, OneMoreAnswer
    <3>4. got[c] \o Append(down[c], x) = Append(got[c] \o down[c], x)
      BY <1>2, ReadAnswers
    <3> QED
      BY <1>4, <3>2, <3>3, <3>4
  <2> QED
    BY <1>1, <2>1, <2>2
<1>9. EndsWith(sent[c], <<>>) /\ Len(sent[c]) - Len(<<>>) = all
  BY <1>4, <1>5
<1> QED
  BY <1>6, <1>7, <1>8, <1>9 DEF OrderInv

LEMMA SendOrder ==
  ASSUME HttpInv, OrderInv, NEW c \in Clients, send_request(c) PROVE OrderInv'
<1>1. PICK method \in Methods :
        /\ up' = [up EXCEPT ![c] = Append(@, method)]
        /\ sent' = [sent EXCEPT ![c] = Append(@, method)]
  BY DEF send_request
<1>2. UNCHANGED <<down, got>>
  BY DEF send_request
<1>3. /\ up \in [Clients -> Seq(Methods)] /\ sent \in [Clients -> Seq(Methods)]
      /\ up[c] \in Seq(Methods) /\ sent[c] \in Seq(Methods)
  BY DEF HttpInv, TypeOK
<1>4. /\ EndsWith(sent[c], up[c])
      /\ AnswersFirst(got[c] \o down[c], sent[c], Len(sent[c]) - Len(up[c]))
  BY DEF OrderInv
<1>5. /\ up'[c] = Append(up[c], method) /\ sent'[c] = Append(sent[c], method)
      /\ \A d \in Clients : d # c => up'[d] = up[d] /\ sent'[d] = sent[d]
  BY <1>1, <1>3
<1>6. /\ EndsWith(sent'[c], up'[c])
      /\ Len(sent'[c]) - Len(up'[c]) = Len(sent[c]) - Len(up[c])
      /\ \A n \in 1 .. Len(sent[c]) : sent'[c][n] = sent[c][n]
  BY <1>3, <1>4, <1>5, EndsGrow
<1>7. PICK k \in Nat : k = Len(sent[c]) - Len(up[c]) /\ k \in 0 .. Len(sent[c])
                       /\ Len(sent[c]) \in Nat
  BY <1>3, <1>4, EndsTaken
<1>8. \A n \in 1 .. k : sent'[c][n] = sent[c][n]
  BY <1>6, <1>7
<1>9. AnswersFirst(got[c] \o down[c], sent'[c], k)
  <2>1. PICK answers, old, new :
          answers = got[c] \o down[c] /\ old = sent[c] /\ new = sent'[c]
    OBVIOUS
  <2>2. AnswersFirst(answers, old, k) /\ \A n \in 1 .. k : new[n] = old[n]
    BY <1>4, <1>7, <1>8, <2>1
  <2>3. AnswersFirst(answers, new, k)
    BY <2>2, MoreRequests
  <2> QED
    BY <2>1, <2>3
<1> QED
  BY <1>2, <1>5, <1>6, <1>7, <1>9 DEF OrderInv

LEMMA ReadOrder ==
  ASSUME HttpInv, OrderInv, NEW c \in Clients, ReadResponse(c) PROVE OrderInv'
<1>1. /\ got' = [got EXCEPT ![c] = @ \o down[c]] /\ down' = [down EXCEPT ![c] = <<>>]
      /\ UNCHANGED <<up, sent>>
  BY DEF ReadResponse
<1>2. /\ got \in [Clients -> Seq(Responses)] /\ down \in [Clients -> Seq(Responses)]
      /\ got[c] \in Seq(Responses) /\ down[c] \in Seq(Responses)
  BY DEF HttpInv, TypeOK
<1>3. /\ got'[c] = got[c] \o down[c] /\ down'[c] = <<>>
      /\ \A d \in Clients : d # c => got'[d] = got[d] /\ down'[d] = down[d]
  BY <1>1, <1>2
<1>4. got'[c] \o down'[c] = got[c] \o down[c]
  BY <1>2, <1>3, ReadAnswers
<1> QED
  BY <1>1, <1>3, <1>4 DEF OrderInv

LEMMA NextOrder == HttpInv /\ OrderInv /\ [Next]_vars => OrderInv'
<1> SUFFICES ASSUME HttpInv, OrderInv, [Next]_vars PROVE OrderInv'
  OBVIOUS
<1>1. CASE UNCHANGED vars
  BY <1>1, SameOrder DEF vars, netVars, clientVars
<1>2. CASE EpollWait \/ BeginAccept \/ handle_new_connection \/ EndOfBatch
  BY <1>2, SameOrder
     DEF EpollWait, BeginAccept, handle_new_connection, EndOfBatch, netVars, clientVars
<1>3. CASE handle_read_operation
  <2>1. PICK fd \in events \ {LISTEN} :
          \/ Answer(owner[fd]) \/ RemoveClient(owner[fd], fd) \/ ReadFails(owner[fd])
    BY <1>3 DEF handle_read_operation
  <2>2. UNCHANGED <<sent, got>>
    BY <1>3 DEF handle_read_operation, clientVars
  <2>3. owner[fd] \in Clients
    BY DEF HttpInv, BatchInv, TypeOK
  <2>4. CASE Answer(owner[fd])
    BY <2>2, <2>3, <2>4, AnswerOrder
  <2>5. CASE RemoveClient(owner[fd], fd) \/ ReadFails(owner[fd])
    BY <2>2, <2>5, SameOrder DEF RemoveClient, ReadFails
  <2> QED
    BY <2>1, <2>4, <2>5
<1>4. ASSUME NEW c \in Clients, ClientStep(c) PROVE OrderInv'
  <2>1. CASE Connect(c) \/ Close(c) \/ ServerGone(c)
    BY <2>1, SameOrder DEF Connect, Close, ServerGone, netVars
  <2> QED
    BY <1>4, <2>1, SendOrder, ReadOrder DEF ClientStep
<1> QED
  BY <1>1, <1>2, <1>3, <1>4 DEF Next, ServerStep

\* http-server.c:377 answers the first request of what a read took and drops
\* the others: what a client gets are answers to its own requests, in the
\* order it sent them, and never two to one request.
THEOREM AnswersKeepOrder == Spec => []AnswersInOrder
<1>1. HttpInv /\ OrderInv => AnswersInOrder
  <2> SUFFICES ASSUME HttpInv, OrderInv, NEW c \in Clients
               PROVE  AnswersRequests(got[c] \o down[c], sent[c])
    BY DEF AnswersInOrder
  <2>1. /\ sent[c] \in Seq(Methods) /\ up[c] \in Seq(Methods)
        /\ EndsWith(sent[c], up[c])
        /\ AnswersFirst(got[c] \o down[c], sent[c], Len(sent[c]) - Len(up[c]))
    BY DEF HttpInv, TypeOK, OrderInv
  <2>2. PICK requests, unread, answers :
          /\ requests = sent[c] /\ unread = up[c] /\ answers = got[c] \o down[c]
          /\ requests \in Seq(Methods) /\ unread \in Seq(Methods)
    BY <2>1
  <2> DEFINE k   == Len(requests) - Len(unread)
             all == Len(requests)
  <2>3. AnswersFirst(answers, requests, k) /\ EndsWith(requests, unread)
    BY <2>1, <2>2
  <2>4. k \in 0 .. all /\ all \in Nat /\ DOMAIN requests = 1 .. all
    <3>1. /\ requests \in Seq(Methods) /\ unread \in Seq(Methods)
          /\ EndsWith(requests, unread)
      BY <2>2, <2>3
    <3>2. Len(requests) \in Nat /\ DOMAIN requests = 1 .. Len(requests) /\ Len(unread) \in Nat
      BY ONLY <3>1, LenProperties
    <3>3. Len(requests) - Len(unread) \in 0 .. Len(requests)
      BY ONLY <3>1, <3>2 DEF EndsWith
    <3> QED
      BY <3>2, <3>3
  <2> HIDE DEF k, all
  <2>5. AnswersFirst(answers, requests, all)
    BY <2>2, <2>3, <2>4, MoreRequests
  <2>6. AnswersRequests(answers, requests)
    BY <2>4, <2>5 DEF AnswersFirst, AnswersRequests
  <2> QED
    BY <2>2, <2>6
<1> QED
  BY <1>1, InitOrder, NextOrder, HttpInvariance, PTL DEF Spec

===============================================================================
