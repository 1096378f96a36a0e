------------------------------ MODULE FtpServer ------------------------------
(***************************************************************************)
(* FTP: a server with a thread for each control connection                 *)
(* (ftp_simple_server.c), its scripted client (ftp_client.c), and clients  *)
(* worked by hand, which send any line at any moment.                      *)
(*                                                                         *)
(* A session is named by its client.  Whatever lines have arrived when a   *)
(* session reads come out of one read(), and the first is what it acts on. *)
(* All clients run on the server's host and listen on one port, DATA_PORT. *)
(* Threads do not run out.  A session's step ends where it would block, or *)
(* where what another process does meanwhile makes a difference.           *)
(***************************************************************************)
EXTENDS Integers, Sequences, SequencesExt, FiniteSets

CONSTANTS
  Clients, NoClient,
  Manual,          \* the clients worked by hand
  ManualLines,     \* the lines they type
  Crashing,        \* the clients that may leave at any moment
  Paced,           \* lines are sent only once the last was read
  DATA_BACKLOG,    \* the argument of its listen(): 1 in the code
  MAX_LINES,       \* bound: the lines a client worked by hand sends
  FD_LIMIT         \* descriptors the process may have open

LISTEN == 3                \* server_fd
NoFd   == -1
Fds    == 0 .. (FD_LIMIT - 1)

\* What an entry of the descriptor table stands for.
Closed  == <<"closed", NoClient>>
Process == <<"process", NoClient>>   \* stdin, stdout, stderr, server_fd
Control(c) == <<"control", c>>
Data(c)    == <<"data", c>>

\* BADPORT begins with "PORT" and has no six numbers, NOISE is anything else.
Lines == {"USER", "PASS", "PORT", "BADPORT", "LIST", "NOISE"}
Replies == {"331", "230", "530", "226", "502"}

ASSUME FtpServerAssumption ==
  /\ NoClient \notin Clients
  /\ Manual \subseteq Clients /\ Crashing \subseteq Clients
  /\ ManualLines \subseteq Lines
  /\ Paced \in BOOLEAN
  /\ DATA_BACKLOG \in Nat /\ MAX_LINES \in Nat
  /\ FD_LIMIT \in Nat /\ FD_LIMIT > LISTEN

VARIABLES
  dead,                \* whether the process has ended
  file,                \* its descriptor table
  ftp_control_socket,  \* main()'s variable: the descriptor accepted last
  new_sock,            \* the cell main() allocates for each thread
  session,             \* where each thread is
  control, data,       \* the thread's variables: its two descriptors
  backlog,             \* connections not yet accepted, oldest first
  link, up, down,      \* each control connection
  port,                \* the client that listens on DATA_PORT
  dlink,               \* the data connection of each session
  client, sent         \* where each client is, and the lines it sent

mainVars   == <<dead, file, ftp_control_socket, new_sock>>
threadVars == <<session, control, data>>
netVars    == <<backlog, link, up, down, port, dlink>>
clientVars == <<client, sent>>
vars == <<mainVars, threadVars, netVars, clientVars>>

Serving == {"user", "pass", "port", "list", "reply"}
Awaiting == {"await_user", "await_pass", "await_list"}

TypeOK ==
  /\ dead \in BOOLEAN
  /\ file \in [Fds -> {Closed, Process} \cup {Control(c) : c \in Clients}
                                        \cup {Data(c) : c \in Clients}]
  /\ ftp_control_socket \in Fds \cup {NoFd}
  /\ new_sock \in [Clients -> Fds \cup {NoFd}]
  /\ session \in [Clients -> {"none", "created", "ended"} \cup Serving]
  /\ control \in [Clients -> Fds \cup {NoFd}]
  /\ data \in [Clients -> Fds \cup {NoFd}]
  /\ \A c \in Clients : /\ session[c] \in Serving => control[c] \in Fds
                        /\ session[c] = "list" => data[c] \in Fds
  /\ backlog \in Seq(Clients)
  /\ link \in [Clients -> {"none", "up", "fin", "reset", "broken"}]
  /\ up \in [Clients -> Seq(Lines)]
  /\ down \in [Clients -> Seq(Replies)]
  /\ port \in Clients \cup {NoClient}
  /\ dlink \in [Clients -> {"none", "up", "left", "reset"}]
  /\ client \in [Clients -> {"start", "user", "pass", "bind", "port", "list",
                             "manual", "done", "gone"} \cup Awaiting]
  /\ sent \in [Clients -> 0 .. MAX_LINES]

Init ==
  /\ dead = FALSE
  /\ file = [fd \in Fds |-> IF fd <= LISTEN THEN Process ELSE Closed]
  /\ ftp_control_socket = NoFd
  /\ new_sock = [c \in Clients |-> NoFd]
  /\ session = [c \in Clients |-> "none"]
  /\ control = [c \in Clients |-> NoFd]
  /\ data = [c \in Clients |-> NoFd]
  /\ backlog = <<>>
  /\ link = [c \in Clients |-> "none"]
  /\ up   = [c \in Clients |-> <<>>]
  /\ down = [c \in Clients |-> <<>>]
  /\ port = NoClient
  /\ dlink = [c \in Clients |-> "none"]
  /\ client = [c \in Clients |-> "start"]
  /\ sent = [c \in Clients |-> 0]

-----------------------------------------------------------------------------
(* The process: its descriptors, its end, and main().                      *)

Free == {fd \in Fds : file[fd] = Closed}
IsLowest(fd) == fd \in Free /\ \A other \in Free : fd <= other

CloseAll(fds) == file' = [fd \in Fds |-> IF fd \in fds THEN Closed ELSE file[fd]]

\* exit(), or SIGPIPE, ends every thread.
Die ==
  /\ dead' = TRUE
  /\ CloseAll(Fds)
  /\ session' = [c \in Clients |-> IF session[c] = "none" THEN "none" ELSE "ended"]
  /\ control' = [c \in Clients |-> NoFd] /\ data' = [c \in Clients |-> NoFd]
  /\ new_sock' = [c \in Clients |-> NoFd]
  /\ backlog' = <<>> /\ up' = [c \in Clients |-> <<>>]
  /\ dlink' = [c \in Clients |-> IF dlink[c] = "up" THEN "left" ELSE dlink[c]]
  /\ UNCHANGED <<ftp_control_socket, link, down, port, clientVars>>

\* Mutant: main() serves a client itself and then accepts the next.
OneAtATime == backlog # <<>> /\ \A c \in Clients : session[c] \in {"none", "ended"}
CanAccept == backlog # <<>>

Accept ==
  /\ ~dead
  /\ CanAccept
  /\ \E fd \in Fds :
       /\ IsLowest(fd)
       /\ file' = [file EXCEPT ![fd] = Control(Head(backlog))]
       /\ ftp_control_socket' = fd
       /\ new_sock' = [new_sock EXCEPT ![Head(backlog)] = fd]
  /\ session' = [session EXCEPT ![Head(backlog)] = "created"]
  /\ backlog' = Tail(backlog)
  /\ UNCHANGED <<dead, control, data, link, up, down, port, dlink, clientVars>>

AcceptFails == ~dead /\ CanAccept /\ Free = {} /\ Die

-----------------------------------------------------------------------------
(* The thread of a session.                                                *)

\* Mutant: the thread is given the address of main()'s variable.
SharedCell(c) == ftp_control_socket
Arg(c) == new_sock[c]

StartThread(c) ==
  /\ session[c] = "created"
  /\ control' = [control EXCEPT ![c] = Arg(c)]
  /\ new_sock' = [new_sock EXCEPT ![c] = NoFd]
  /\ session' = [session EXCEPT ![c] = "user"]
  /\ UNCHANGED <<dead, file, ftp_control_socket, data, netVars, clientVars>>

\* Mutant: the end of the connection does not wake the reader.
HasData(c) == up[c] # <<>>
Readable(c) == up[c] # <<>> \/ link[c] # "up"

\* The buffer is cleared first: at the end, or after a reset, it has no line.
Line(c) == IF up[c] = <<>> THEN "NOISE" ELSE Head(up[c])

Receives(c, where, lines) ==
  /\ session[c] = where
  /\ Readable(c)
  /\ Line(c) \in lines
  /\ up' = [up EXCEPT ![c] = <<>>]

\* A reset fails one call: a read with no data in front of it, or a write.
\* The write after that, and after a first one to a client that has closed,
\* raises SIGPIPE.
Reported(c) == link[c] = "reset" /\ up[c] = <<>>
IsBroken(c) == link[c] = "broken" \/ (session[c] # "reply" /\ Reported(c))

Reply(c, reply) ==
  /\ ~IsBroken(c)
  /\ down' = IF link[c] = "up" THEN [down EXCEPT ![c] = Append(@, reply)] ELSE down
  /\ link' = [link EXCEPT ![c] = IF @ = "up" THEN "up" ELSE "broken"]

MoveTo(c, where) ==
  /\ session' = [session EXCEPT ![c] = where]
  /\ UNCHANGED <<control, data>>

EndThread(c) ==
  /\ session' = [session EXCEPT ![c] = "ended"]
  /\ control' = [control EXCEPT ![c] = NoFd]
  /\ data' = [data EXCEPT ![c] = NoFd]

\* A line that starts with the name the server expects next, or any other.
ReceiveUsername(c) ==
  /\ \/ Receives(c, "user", {"USER"}) /\ Reply(c, "331")
        /\ MoveTo(c, "pass") /\ UNCHANGED file
     \/ Receives(c, "user", Lines \ {"USER"}) /\ Reply(c, "530")
        /\ EndThread(c) /\ CloseAll({control[c]})
  /\ UNCHANGED <<dead, ftp_control_socket, new_sock, backlog,
                 port, dlink, clientVars>>

ReceivePassword(c) ==
  /\ \/ Receives(c, "pass", {"PASS"}) /\ Reply(c, "230")
        /\ MoveTo(c, "port") /\ UNCHANGED file
     \/ Receives(c, "pass", Lines \ {"PASS"}) /\ Reply(c, "530")
        /\ EndThread(c) /\ CloseAll({control[c]})
  /\ UNCHANGED <<dead, ftp_control_socket, new_sock, backlog,
                 port, dlink, clientVars>>

\* Nobody accepts the data connections, which stay queued at the listener.
Queued == {c \in Clients : dlink[c] \in {"up", "left"}}
PortAnswers == port # NoClient /\ Cardinality(Queued) <= DATA_BACKLOG

\* Mutant: the return after a failed connect() forgets the control socket.
OnlyData(c) == {}
OnFailure(c) == {control[c]}

ConnectData(c) ==
  /\ Receives(c, "port", {"PORT"})
  /\ \/ \E fd \in Fds :
          /\ IsLowest(fd) /\ PortAnswers
          /\ file' = [file EXCEPT ![fd] = Data(c)]
          /\ data' = [data EXCEPT ![c] = fd]
          /\ dlink' = [dlink EXCEPT ![c] = "up"]
          /\ session' = [session EXCEPT ![c] = "list"]
          /\ UNCHANGED control
     \/ /\ Free = {} \/ ~PortAnswers
        /\ CloseAll(OnFailure(c))
        /\ EndThread(c)
        /\ UNCHANGED dlink
  /\ UNCHANGED <<dead, ftp_control_socket, new_sock, backlog, link,
                 down, port, clientVars>>

\* Any other command ends the session without a word.
NoPort(c) ==
  /\ Receives(c, "port", Lines \ {"PORT", "BADPORT"})
  /\ CloseAll({control[c]})
  /\ EndThread(c)
  /\ UNCHANGED <<dead, ftp_control_socket, new_sock, backlog,
                 link, down, port, dlink, clientVars>>

\* parse_port_command() exits.
BadPort(c) ==
  session[c] = "port" /\ Readable(c) /\ Line(c) = "BADPORT" /\ Die

\* The entries are written, or there is no descriptor left to open the
\* directory with: the caller is not told.
ListDirectory(c) ==
  /\ Receives(c, "list", {"LIST"})
  /\ CloseAll({data[c]})
  /\ dlink' = [dlink EXCEPT ![c] = IF @ = "up" THEN "left" ELSE @]
  /\ MoveTo(c, "reply")
  /\ UNCHANGED <<dead, ftp_control_socket, new_sock, backlog,
                 link, down, port, clientVars>>

SendOK(c) ==
  /\ session[c] = "reply"
  /\ Reply(c, "226")
  /\ up' = [up EXCEPT ![c] = <<>>]
  /\ CloseAll({control[c]})
  /\ EndThread(c)
  /\ UNCHANGED <<dead, ftp_control_socket, new_sock, backlog,
                 port, dlink, clientVars>>

\* The data socket stays open.
NotImplemented(c) ==
  /\ Receives(c, "list", Lines \ {"LIST"})
  /\ Reply(c, "502")
  /\ CloseAll({control[c]})
  /\ EndThread(c)
  /\ UNCHANGED <<dead, ftp_control_socket, new_sock, backlog,
                 port, dlink, clientVars>>

\* A reply, or the second entry of a listing, to a connection that is broken.
BrokenPipe(c) ==
  /\ \/ session[c] \in {"user", "pass", "reply"} /\ IsBroken(c)
     \/ session[c] = "list" /\ IsBroken(c) /\ Line(c) # "LIST"
     \/ /\ session[c] = "list" /\ Readable(c) /\ Line(c) = "LIST"
        /\ dlink[c] = "reset" /\ Free # {}
  /\ Die

handle_client(c) ==
  StartThread(c) \/ ReceiveUsername(c) \/ ReceivePassword(c) \/ ConnectData(c)
    \/ NoPort(c) \/ BadPort(c) \/ ListDirectory(c) \/ SendOK(c)
    \/ NotImplemented(c) \/ BrokenPipe(c)

-----------------------------------------------------------------------------
(* The clients.                                                            *)

Connect(c) ==
  /\ client[c] = "start"
  /\ ~dead
  /\ client' = [client EXCEPT ![c] = IF c \in Manual THEN "manual" ELSE "user"]
  /\ link' = [link EXCEPT ![c] = "up"]
  /\ backlog' = Append(backlog, c)
  /\ UNCHANGED <<mainVars, threadVars, up, down, port, dlink, sent>>

\* The server has closed its end of the connection.
Over(c) == dead \/ session[c] = "ended"

Write(c, line) == up' = IF Over(c) THEN up ELSE [up EXCEPT ![c] = Append(@, line)]

Says == [user |-> "USER", pass |-> "PASS", port |-> "PORT", list |-> "LIST"]
\* Mutant: the client waits for a reply to PORT, as the protocol has one.
ThenAwait == [user |-> "await_user", await_user |-> "pass", pass |-> "await_pass",
              await_pass |-> "bind", port |-> "await_list", list |-> "await_list",
              await_list |-> "done"]
Then == [user |-> "await_user", await_user |-> "pass", pass |-> "await_pass",
         await_pass |-> "bind", port |-> "list", list |-> "await_list",
         await_list |-> "done"]

SendLine(c) ==
  /\ client[c] \in DOMAIN Says
  /\ Paced => up[c] = <<>>
  /\ Write(c, Says[client[c]])
  /\ client' = [client EXCEPT ![c] = Then[@]]
  /\ UNCHANGED <<mainVars, threadVars, backlog, link, down, port, dlink, sent>>

SendAnything(c) ==
  /\ client[c] = "manual"
  /\ sent[c] < MAX_LINES
  /\ Paced => up[c] = <<>>
  /\ \E line \in ManualLines : Write(c, line)
  /\ sent' = [sent EXCEPT ![c] = @ + 1]
  /\ UNCHANGED <<mainVars, threadVars, backlog, link, down, port, dlink, client>>

\* The scripted client goes on whatever the reply is.
ReadReply(c) ==
  /\ client[c] \in Awaiting
  /\ down[c] # <<>> \/ Over(c)
  /\ down' = [down EXCEPT ![c] = <<>>]
  /\ client' = [client EXCEPT ![c] = Then[@]]
  /\ UNCHANGED <<mainVars, threadVars, backlog, link, up, port, dlink, sent>>

\* The end of a client: unread replies make it a reset, and so does a
\* listener with connections that were not accepted.  A user reads a reply
\* at any moment, which shows only here.
Leave(c) ==
  /\ client' = [client EXCEPT ![c] = "gone"]
  /\ \/ /\ down[c] # <<>> => c \in Manual
        /\ link' = [link EXCEPT ![c] = "fin"]
     \/ down[c] # <<>> /\ link' = [link EXCEPT ![c] = "reset"]
  /\ down' = [down EXCEPT ![c] = <<>>]
  /\ IF port = c
       THEN /\ port' = NoClient
            /\ dlink' = [d \in Clients |-> IF dlink[d] = "up" THEN "reset"
                                           ELSE IF dlink[d] = "left" THEN "none"
                                           ELSE dlink[d]]
       ELSE UNCHANGED <<port, dlink>>
  /\ UNCHANGED <<mainVars, threadVars, backlog, up, sent>>

create_data_socket(c) ==
  /\ client[c] = "bind"
  /\ \/ /\ port = NoClient
        /\ port' = c
        /\ client' = [client EXCEPT ![c] = "port"]
        /\ UNCHANGED <<mainVars, threadVars, backlog, link, up, down, dlink, sent>>
     \/ port # NoClient /\ Leave(c)

\* Its read of the listening socket fails at once, then it closes both.
CloseSockets(c) == client[c] = "done" /\ Leave(c)

Interrupt(c) ==
  /\ c \in Crashing
  /\ client[c] \notin {"start", "done", "gone"}
  /\ Leave(c)

ClientStep(c) ==
  Connect(c) \/ SendLine(c) \/ SendAnything(c) \/ ReadReply(c)
    \/ create_data_socket(c) \/ CloseSockets(c) \/ Interrupt(c)

Next ==
  \/ Accept \/ AcceptFails
  \/ \E c \in Clients : handle_client(c) \/ ClientStep(c)

Spec == Init /\ [][Next]_vars

\* The kernel runs every thread; the scripted client runs without its user.
FairSpec ==
  /\ Spec
  /\ WF_vars(Accept \/ AcceptFails)
  /\ \A c \in Clients :
       /\ WF_vars(handle_client(c))
       /\ WF_vars(SendLine(c) \/ ReadReply(c) \/ create_data_socket(c)
                    \/ CloseSockets(c))

-----------------------------------------------------------------------------
(* Properties.                                                             *)

\* While other threads close and open descriptors with the same numbers, what
\* a thread reads, writes and closes next is its own connection.
OwnDescriptors ==
  \A c \in Clients :
    /\ session[c] \in Serving => file[control[c]] = Control(c)
    /\ session[c] = "list" => file[data[c]] = Data(c)

\* A session gives back its descriptors on every way out, but for the one
\* that answers 502, which leaves the data connection behind.
DescriptorsReleased ==
  \A c \in Clients : session[c] = "ended" =>
    \A fd \in Fds :
      /\ file[fd] # Control(c)
      /\ file[fd] = Data(c) => dlink[c] \in {"up", "reset"}

\* The scripted client is answered, or finds its connection closed, whatever
\* the clients worked by hand do or leave undone in their sessions.
ClientsAreServed ==
  \A c \in Clients : client[c] \in Awaiting ~> client[c] \notin Awaiting

\* Every session ends once its client is gone, wherever it was.
SessionEnds ==
  \A c \in Clients : client[c] = "gone" ~> session[c] = "ended" \/ dead

\* A client and its session never wait for each other: while a scripted client
\* waits for a reply, it is still to be accepted, or its session has a line to
\* read or something to say, or the reply or the end has come.  That holds only
\* at the pace of Paced.
NobodyWaitsInVain ==
  Paced => \A c \in Clients \ Manual : client[c] \in Awaiting =>
    \/ session[c] = "none" /\ \E k \in DOMAIN backlog : backlog[k] = c
    \/ session[c] \in {"created", "reply"}
    \/ session[c] \in {"user", "pass", "port", "list"} /\ up[c] # <<>>
    \/ down[c] # <<>> \/ Over(c)

-----------------------------------------------------------------------------
(* The inductive invariant behind the safety properties.                   *)

\* A cell handed to a thread that has not read it holds its connection.
CellsInv ==
  \A c \in Clients : session[c] = "created" =>
    new_sock[c] \in Fds /\ file[new_sock[c]] = Control(c)

\* Every open connection belongs to the variable of the thread that will
\* close it, or was left behind by a session that has ended.
EntriesInv ==
  \A fd \in Fds, c \in Clients :
    /\ file[fd] = Control(c) =>
         \/ session[c] = "created" /\ new_sock[c] = fd
         \/ session[c] \in Serving /\ control[c] = fd
    /\ file[fd] = Data(c) =>
         /\ \/ session[c] = "list" /\ data[c] = fd
            \/ session[c] = "ended"
         /\ dlink[c] \in {"up", "reset"}

\* A client is accepted once.
AcceptedOnce ==
  /\ \A c \in Clients : client[c] = "start" =>
       session[c] = "none" /\ \A k \in 1 .. Len(backlog) : backlog[k] # c
  /\ \A k \in 1 .. Len(backlog) :
       /\ session[backlog[k]] = "none"
       /\ \A m \in 1 .. Len(backlog) : backlog[m] = backlog[k] => m = k

\* Where a scripted client that writes at the pace of Paced is in its dialogue
\* with its session, and what is on the way between them.
Turns ==
  {<<"user", s, <<>>, <<>> >> : s \in {"none", "created", "user"}}
    \cup {<<"await_user", s, <<"USER">>, <<>> >> : s \in {"none", "created", "user"}}
    \cup {<<"await_user", "pass", <<>>, <<"331">> >>, <<"pass", "pass", <<>>, <<>> >>,
          <<"await_pass", "pass", <<"PASS">>, <<>> >>,
          <<"await_pass", "port", <<>>, <<"230">> >>,
          <<"bind", "port", <<>>, <<>> >>, <<"port", "port", <<>>, <<>> >>,
          <<"list", "port", <<"PORT">>, <<>> >>, <<"list", "list", <<>>, <<>> >>,
          <<"await_list", "list", <<"LIST">>, <<>> >>,
          <<"await_list", "reply", <<>>, <<>> >>}

\* Until its session is over, a client that is there has its turn; if it is
\* not accepted yet, it is in the backlog.
TurnsInv ==
  /\ \A c \in Clients : client[c] = "start" => up[c] = <<>> /\ down[c] = <<>>
  /\ \A c \in Clients : session[c] = "none" /\ client[c] # "start" /\ ~dead =>
       \E k \in DOMAIN backlog : backlog[k] = c
  /\ Paced => \A c \in Clients \ Manual :
       \/ client[c] \in {"start", "gone"} \/ Over(c)
       \/ /\ link[c] = "up"
          /\ <<client[c], session[c], up[c], down[c]>> \in Turns

DescriptorInv ==
  /\ CellsInv
  /\ OwnDescriptors
  /\ EntriesInv
  /\ AcceptedOnce

-----------------------------------------------------------------------------
(* What the documentation says, and the code does not do.                  *)

\* "Step 4: Receive LIST Command": a scripted client that has sent the
\* command gets its answer, as fast as it may have sent it.
ListIsAnswered ==
  \A c \in Clients : client[c] = "await_list" ~> client[c] # "await_list"

=============================================================================
