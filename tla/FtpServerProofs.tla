--------------------------- MODULE FtpServerProofs ---------------------------
(***************************************************************************)
(* Proofs about FtpServer, for any clients, any lines and any limit of     *)
(* descriptors.  A thread's descriptor is one only because the cell it was *)
(* read from held one, so that types and descriptors are proved together.  *)
(***************************************************************************)
EXTENDS FtpServer, SequenceTheorems, TLAPS

IInv == TypeOK /\ DescriptorInv

\* What an entry of the descriptor table may be.
Entry == {Closed, Process} \cup {Control(c) : c \in Clients}
                           \cup {Data(c) : c \in Clients}

ClientStates == {"start", "user", "pass", "bind", "port", "list",
                 "manual", "done", "gone"} \cup Awaiting

-----------------------------------------------------------------------------
(* Entries of the descriptor table.                                        *)

LEMMA EntriesDiffer ==
  /\ Closed # Process
  /\ \A c \in Clients :
       /\ Control(c) \notin {Closed, Process} /\ Data(c) \notin {Closed, Process}
       /\ \A d \in Clients : /\ Control(c) # Data(d)
                             /\ Control(c) = Control(d) => c = d
                             /\ Data(c) = Data(d) => c = d
  BY DEF Closed, Process, Control, Data

\* Closing keeps the type of the table.
LEMMA CloseType ==
  ASSUME file \in [Fds -> Entry], NEW fds, CloseAll(fds)
  PROVE  file' \in [Fds -> Entry]
  BY DEF CloseAll, Entry

-----------------------------------------------------------------------------
(* Type correctness.                                                       *)

LEMMA InitType == Init => TypeOK
<1> SUFFICES ASSUME Init PROVE TypeOK
  OBVIOUS
<1>1. <<>> \in Seq(Clients) /\ <<>> \in Seq(Lines) /\ <<>> \in Seq(Replies)
  OBVIOUS
<1>2. 0 \in 0 .. MAX_LINES
  BY FtpServerAssumption
<1> QED
  BY <1>1, <1>2 DEF Init, TypeOK, Serving

\* A session that ends drops its descriptors.
LEMMA EndType ==
  ASSUME TypeOK, NEW c \in Clients, EndThread(c)
  PROVE  /\ session' \in [Clients -> {"none", "created", "ended"} \cup Serving]
         /\ control' \in [Clients -> Fds \cup {NoFd}]
         /\ data' \in [Clients -> Fds \cup {NoFd}]
         /\ \A d \in Clients : /\ session'[d] \in Serving => control'[d] \in Fds
                               /\ session'[d] = "list" => data'[d] \in Fds
  BY DEF TypeOK, EndThread, Serving

LEMMA MoveType ==
  ASSUME TypeOK, NEW c \in Clients, NEW where \in Serving \ {"list"}, MoveTo(c, where),
         session[c] \in Serving
  PROVE  /\ session' \in [Clients -> {"none", "created", "ended"} \cup Serving]
         /\ control' \in [Clients -> Fds \cup {NoFd}]
         /\ data' \in [Clients -> Fds \cup {NoFd}]
         /\ \A d \in Clients : /\ session'[d] \in Serving => control'[d] \in Fds
                               /\ session'[d] = "list" => data'[d] \in Fds
<1>1. \A d \in Clients : /\ session'[d] \in Serving => session[d] \in Serving
                         /\ session'[d] = "list" => session[d] = "list"
  BY DEF MoveTo, TypeOK
<1>2. session' \in [Clients -> {"none", "created", "ended"} \cup Serving]
  BY DEF MoveTo, TypeOK
<1> QED
  BY <1>1, <1>2 DEF MoveTo, TypeOK

LEMMA ReceiveType ==
  ASSUME TypeOK, NEW c \in Clients, NEW where, NEW lines, Receives(c, where, lines)
  PROVE  up' \in [Clients -> Seq(Lines)]
  BY DEF TypeOK, Receives

LEMMA ReplyType ==
  ASSUME TypeOK, NEW c \in Clients, NEW reply \in Replies, Reply(c, reply)
  PROVE  /\ down' \in [Clients -> Seq(Replies)]
         /\ link' \in [Clients -> {"none", "up", "fin", "reset", "broken"}]
<1>1. Append(down[c], reply) \in Seq(Replies)
  BY DEF TypeOK
<1> QED
  BY <1>1 DEF TypeOK, Reply

LEMMA DieType == TypeOK /\ Die => TypeOK'
<1> SUFFICES ASSUME TypeOK, Die PROVE TypeOK'
  OBVIOUS
<1>1. file' \in [Fds -> Entry]
  BY CloseType DEF TypeOK, Die, Entry
<1>2. /\ session' \in [Clients -> {"none", "created", "ended"} \cup Serving]
      /\ \A c \in Clients : session'[c] \notin Serving \cup {"list"}
  BY DEF TypeOK, Die, Serving
<1>3. dlink' \in [Clients -> {"none", "up", "left", "reset"}]
  BY DEF TypeOK, Die
<1>4. up' \in [Clients -> Seq(Lines)] /\ backlog' \in Seq(Clients)
  BY DEF Die
<1>5. /\ control' \in [Clients -> Fds \cup {NoFd}]
      /\ data' \in [Clients -> Fds \cup {NoFd}]
      /\ new_sock' \in [Clients -> Fds \cup {NoFd}]
  BY DEF Die
<1> QED
  BY <1>1, <1>2, <1>3, <1>4, <1>5 DEF TypeOK, Die, Entry, clientVars

LEMMA AcceptType == TypeOK /\ Accept => TypeOK'
<1> SUFFICES ASSUME TypeOK, Accept PROVE TypeOK'
  OBVIOUS
<1>1. Head(backlog) \in Clients /\ Tail(backlog) \in Seq(Clients)
  BY DEF Accept, CanAccept, TypeOK
<1>2. PICK fd \in Fds :
        /\ file' = [file EXCEPT ![fd] = Control(Head(backlog))]
        /\ ftp_control_socket' = fd
        /\ new_sock' = [new_sock EXCEPT ![Head(backlog)] = fd]
  BY DEF Accept
<1>3. file' \in [Fds -> Entry]
  BY <1>1, <1>2 DEF TypeOK, Entry
<1>4. /\ session' \in [Clients -> {"none", "created", "ended"} \cup Serving]
      /\ \A c \in Clients : /\ session'[c] \in Serving => session[c] \in Serving
                            /\ session'[c] = "list" => session[c] = "list"
  BY <1>1 DEF Accept, TypeOK, Serving
<1>5. new_sock' \in [Clients -> Fds \cup {NoFd}]
  BY <1>1, <1>2 DEF TypeOK
<1> QED
  BY <1>1, <1>2, <1>3, <1>4, <1>5 DEF Accept, TypeOK, Entry, clientVars

\* The steps of a thread, but for the one that reads its argument.
LEMMA ThreadType ==
  ASSUME TypeOK, NEW c \in Clients, handle_client(c), ~StartThread(c)
  PROVE  TypeOK'
<1>1. CASE ReceiveUsername(c)
  <2>1. CASE Receives(c, "user", {"USER"}) /\ Reply(c, "331")
               /\ MoveTo(c, "pass") /\ UNCHANGED file
    BY <1>1, <2>1, ReceiveType, ReplyType, MoveType
       DEF ReceiveUsername, Receives, TypeOK, Replies, Serving, clientVars
  <2>2. CASE Receives(c, "user", Lines \ {"USER"}) /\ Reply(c, "530")
               /\ EndThread(c) /\ CloseAll({control[c]})
    BY <1>1, <2>2, ReceiveType, ReplyType, EndType, CloseType
       DEF ReceiveUsername, TypeOK, Entry, Replies, clientVars
  <2> QED
    BY <1>1, <2>1, <2>2 DEF ReceiveUsername
<1>2. CASE ReceivePassword(c)
  <2>1. CASE Receives(c, "pass", {"PASS"}) /\ Reply(c, "230")
               /\ MoveTo(c, "port") /\ UNCHANGED file
    BY <1>2, <2>1, ReceiveType, ReplyType, MoveType
       DEF ReceivePassword, Receives, TypeOK, Replies, Serving, clientVars
  <2>2. CASE Receives(c, "pass", Lines \ {"PASS"}) /\ Reply(c, "530")
               /\ EndThread(c) /\ CloseAll({control[c]})
    BY <1>2, <2>2, ReceiveType, ReplyType, EndType, CloseType
       DEF ReceivePassword, TypeOK, Entry, Replies, clientVars
  <2> QED
    BY <1>2, <2>1, <2>2 DEF ReceivePassword
<1>3. CASE ConnectData(c)
  <2>1. up' \in [Clients -> Seq(Lines)]
    BY <1>3, ReceiveType DEF ConnectData
  <2>2. CASE \E fd \in Fds :
               /\ file' = [file EXCEPT ![fd] = Data(c)]
               /\ data' = [data EXCEPT ![c] = fd]
               /\ dlink' = [dlink EXCEPT ![c] = "up"]
               /\ session' = [session EXCEPT ![c] = "list"]
               /\ UNCHANGED control
    <3>1. PICK fd \in Fds :
            /\ file' = [file EXCEPT ![fd] = Data(c)]
            /\ data' = [data EXCEPT ![c] = fd]
      BY <2>2
    <3>2. file' \in [Fds -> Entry]
      <4>1. Data(c) \in Entry /\ file \in [Fds -> Entry]
        BY DEF TypeOK, Entry
      <4> QED
        BY <3>1, <4>1
    <3>3. /\ session' \in [Clients -> {"none", "created", "ended"} \cup Serving]
          /\ \A d \in Clients : /\ session'[d] \in Serving => control'[d] \in Fds
                                /\ session'[d] = "list" => data'[d] \in Fds
      BY <1>3, <2>2, <3>1 DEF ConnectData, Receives, TypeOK, Serving
    <3>4. /\ data' \in [Clients -> Fds \cup {NoFd}]
          /\ dlink' \in [Clients -> {"none", "up", "left", "reset"}]
      BY <2>2, <3>1 DEF TypeOK
    <3> QED
      BY <1>3, <2>1, <2>2, <3>2, <3>3, <3>4
         DEF ConnectData, TypeOK, Entry, clientVars
  <2>3. CASE CloseAll(OnFailure(c)) /\ EndThread(c) /\ UNCHANGED dlink
    BY <1>3, <2>1, <2>3, EndType, CloseType
       DEF ConnectData, TypeOK, Entry, clientVars
  <2> QED
    BY <1>3, <2>2, <2>3 DEF ConnectData
<1>4. CASE NoPort(c)
  BY <1>4, ReceiveType, EndType, CloseType
     DEF NoPort, TypeOK, Entry, clientVars
<1>5. CASE ListDirectory(c)
  <2>1. dlink' \in [Clients -> {"none", "up", "left", "reset"}]
    BY <1>5 DEF ListDirectory, TypeOK
  <2> QED
    BY <1>5, <2>1, ReceiveType, MoveType, CloseType
       DEF ListDirectory, Receives, TypeOK, Entry, Serving, clientVars
<1>6. CASE SendOK(c)
  <2>1. up' \in [Clients -> Seq(Lines)]
    BY <1>6 DEF SendOK, TypeOK
  <2> QED
    BY <1>6, <2>1, ReplyType, EndType, CloseType
       DEF SendOK, TypeOK, Entry, Replies, clientVars
<1>7. CASE NotImplemented(c)
  BY <1>7, ReceiveType, ReplyType, EndType, CloseType
     DEF NotImplemented, TypeOK, Entry, Replies, clientVars
<1>8. CASE BadPort(c) \/ BrokenPipe(c)
  BY <1>8, DieType DEF BadPort, BrokenPipe
<1> QED
  BY <1>1, <1>2, <1>3, <1>4, <1>5, <1>6, <1>7, <1>8 DEF handle_client

\* What a thread reads as its argument is a descriptor.
LEMMA StartType ==
  ASSUME TypeOK, CellsInv, NEW c \in Clients, StartThread(c)
  PROVE  TypeOK'
<1>1. Arg(c) \in Fds
  BY DEF StartThread, CellsInv, Arg
<1>2. /\ session' \in [Clients -> {"none", "created", "ended"} \cup Serving]
      /\ control' \in [Clients -> Fds \cup {NoFd}]
      /\ \A d \in Clients : /\ session'[d] \in Serving => control'[d] \in Fds
                            /\ session'[d] = "list" => session[d] = "list"
  BY <1>1 DEF StartThread, TypeOK, Serving
<1>3. new_sock' \in [Clients -> Fds \cup {NoFd}]
  BY DEF StartThread, TypeOK
<1> QED
  BY <1>2, <1>3 DEF StartThread, TypeOK, netVars, clientVars

LEMMA WriteType ==
  ASSUME TypeOK, NEW c \in Clients, NEW line \in Lines, Write(c, line)
  PROVE  up' \in [Clients -> Seq(Lines)]
<1>1. Append(up[c], line) \in Seq(Lines)
  BY DEF TypeOK
<1> QED
  BY <1>1 DEF TypeOK, Write

\* Every state of the script is followed by one.
LEMMA ScriptType ==
  /\ DOMAIN Says = {"user", "pass", "port", "list"}
  /\ \A s \in DOMAIN Says : Says[s] \in Lines /\ Then[s] \in ClientStates
  /\ \A s \in Awaiting : Then[s] \in ClientStates
  BY DEF Says, Then, Lines, Awaiting, ClientStates

LEMMA LeaveType == ASSUME TypeOK, NEW c \in Clients, Leave(c) PROVE TypeOK'
<1>1. client' \in [Clients -> ClientStates]
  BY DEF Leave, TypeOK, ClientStates
<1>2. link' \in [Clients -> {"none", "up", "fin", "reset", "broken"}]
  BY DEF Leave, TypeOK
<1>3. down' \in [Clients -> Seq(Replies)]
  BY DEF Leave, TypeOK
<1>4. /\ port' \in Clients \cup {NoClient}
      /\ dlink' \in [Clients -> {"none", "up", "left", "reset"}]
  BY DEF Leave, TypeOK
<1> QED
  BY <1>1, <1>2, <1>3, <1>4
     DEF Leave, TypeOK, ClientStates, mainVars, threadVars

LEMMA ClientType == ASSUME TypeOK, NEW c \in Clients, ClientStep(c) PROVE TypeOK'
<1>1. CASE Connect(c)
  <2>1. backlog' \in Seq(Clients)
    BY <1>1 DEF Connect, TypeOK
  <2>2. client' \in [Clients -> ClientStates]
    BY <1>1 DEF Connect, TypeOK, ClientStates
  <2>3. link' \in [Clients -> {"none", "up", "fin", "reset", "broken"}]
    BY <1>1 DEF Connect, TypeOK
  <2> QED
    BY <1>1, <2>1, <2>2, <2>3
       DEF Connect, TypeOK, ClientStates, mainVars, threadVars
<1>2. CASE SendLine(c)
  <2>1. up' \in [Clients -> Seq(Lines)]
    BY <1>2, ScriptType, WriteType DEF SendLine
  <2>2. client' \in [Clients -> ClientStates]
    BY <1>2, ScriptType DEF SendLine, TypeOK, ClientStates
  <2> QED
    BY <1>2, <2>1, <2>2 DEF SendLine, TypeOK, ClientStates, mainVars, threadVars
<1>3. CASE SendAnything(c)
  <2>1. up' \in [Clients -> Seq(Lines)]
    BY <1>3, WriteType, FtpServerAssumption DEF SendAnything
  <2>2. sent' \in [Clients -> 0 .. MAX_LINES]
    <3>1. sent[c] + 1 \in 0 .. MAX_LINES
      BY <1>3, FtpServerAssumption DEF SendAnything, TypeOK
    <3> QED
      BY <1>3, <3>1 DEF SendAnything, TypeOK
  <2> QED
    BY <1>3, <2>1, <2>2 DEF SendAnything, TypeOK, mainVars, threadVars
<1>4. CASE ReadReply(c)
  <2>1. down' \in [Clients -> Seq(Replies)]
    BY <1>4 DEF ReadReply, TypeOK
  <2>2. client' \in [Clients -> ClientStates]
    BY <1>4, ScriptType DEF ReadReply, TypeOK, ClientStates
  <2> QED
    BY <1>4, <2>1, <2>2 DEF ReadReply, TypeOK, ClientStates, mainVars, threadVars
<1>5. CASE create_data_socket(c)
  <2>1. CASE /\ port' = c
             /\ client' = [client EXCEPT ![c] = "port"]
             /\ UNCHANGED <<mainVars, threadVars, backlog, link, up, down,
                            dlink, sent>>
    BY <2>1 DEF TypeOK, mainVars, threadVars
  <2> QED
    BY <1>5, <2>1, LeaveType DEF create_data_socket
<1>6. CASE CloseSockets(c) \/ Interrupt(c)
  BY <1>6, LeaveType DEF CloseSockets, Interrupt
<1> QED
  BY <1>1, <1>2, <1>3, <1>4, <1>5, <1>6 DEF ClientStep

LEMMA NextType == TypeOK /\ CellsInv /\ [Next]_vars => TypeOK'
<1> SUFFICES ASSUME TypeOK, CellsInv, [Next]_vars PROVE TypeOK'
  OBVIOUS
<1>1. CASE UNCHANGED vars
  BY <1>1 DEF vars, mainVars, threadVars, netVars, clientVars, TypeOK
<1>2. CASE Next
  BY <1>2, AcceptType, DieType, StartType, ThreadType, ClientType
     DEF Next, AcceptFails
<1> QED
  BY <1>1, <1>2

-----------------------------------------------------------------------------
(* The descriptors.                                                        *)

LEMMA InitInv == Init => DescriptorInv
<1> SUFFICES ASSUME Init PROVE DescriptorInv
  OBVIOUS
<1>1. \A fd \in Fds : file[fd] \in {Closed, Process}
  BY DEF Init
<1>2. EntriesInv
  BY <1>1, EntriesDiffer DEF EntriesInv
<1>3. AcceptedOnce
  BY DEF Init, AcceptedOnce
<1> QED
  BY <1>2, <1>3 DEF Init, DescriptorInv, CellsInv, OwnDescriptors, Serving

\* AcceptedOnce says nothing of a session once it has begun.
LEMMA AcceptedOnceKept ==
  ASSUME IInv, UNCHANGED <<backlog, client>>,
         \A c \in Clients : session[c] = "none" => session'[c] = "none"
  PROVE  AcceptedOnce'
<1>1. \A k \in 1 .. Len(backlog) : backlog[k] \in Clients
  BY DEF IInv, TypeOK
<1> QED
  BY <1>1 DEF IInv, DescriptorInv, AcceptedOnce

\* A session that closes its control connection and ends.
LEMMA EndKeeps ==
  ASSUME IInv, NEW c \in Clients, session[c] \in Serving,
         CloseAll({control[c]}), EndThread(c),
         UNCHANGED <<new_sock, backlog, dlink, client>>
  PROVE  DescriptorInv'
<1> USE EntriesDiffer DEF IInv, DescriptorInv
<1>1. /\ session' = [session EXCEPT ![c] = "ended"]
      /\ control' = [control EXCEPT ![c] = NoFd]
      /\ data' = [data EXCEPT ![c] = NoFd]
      /\ control[c] \in Fds /\ file[control[c]] = Control(c)
      /\ \A fd \in Fds :
           file'[fd] = IF fd = control[c] THEN Closed ELSE file[fd]
  BY DEF EndThread, CloseAll, OwnDescriptors, TypeOK
<1>2. \A d \in Clients :
        session'[d] = (IF d = c THEN "ended" ELSE session[d])
  BY <1>1 DEF TypeOK
<1>3. \A d \in Clients : d # c => control'[d] = control[d] /\ data'[d] = data[d]
  BY <1>1 DEF TypeOK
<1>4. CellsInv'
  BY <1>1, <1>2 DEF CellsInv
<1>5. OwnDescriptors'
  BY <1>1, <1>2, <1>3 DEF OwnDescriptors, Serving, TypeOK
<1>6. EntriesInv'
  BY <1>1, <1>2, <1>3 DEF EntriesInv, Serving
<1>7. AcceptedOnce'
  BY <1>2, AcceptedOnceKept DEF Serving
<1> QED
  BY <1>4, <1>5, <1>6, <1>7

\* A session that goes on with the connection it has.
LEMMA MoveKeeps ==
  ASSUME IInv, NEW c \in Clients, session[c] \in {"user", "pass"},
         NEW where \in {"pass", "port"}, MoveTo(c, where),
         UNCHANGED <<file, new_sock, backlog, dlink, client>>
  PROVE  DescriptorInv'
<1> USE DEF IInv, DescriptorInv
<1>1. \A d \in Clients : session'[d] = (IF d = c THEN where ELSE session[d])
  BY DEF MoveTo, TypeOK
<1>2. UNCHANGED <<control, data>>
  BY DEF MoveTo
<1>3. CellsInv'
  BY <1>1 DEF CellsInv
<1>4. OwnDescriptors'
  BY <1>1, <1>2 DEF OwnDescriptors, Serving
<1>5. EntriesInv'
  BY <1>1, <1>2 DEF EntriesInv, Serving
<1>6. AcceptedOnce'
  BY <1>1, AcceptedOnceKept
<1> QED
  BY <1>3, <1>4, <1>5, <1>6

LEMMA DieKeeps == IInv /\ Die => DescriptorInv'
<1> SUFFICES ASSUME IInv, Die PROVE DescriptorInv'
  OBVIOUS
<1>1. \A c \in Clients :
        session'[c] = IF session[c] = "none" THEN "none" ELSE "ended"
  BY DEF Die
<1>2. \A fd \in Fds : file'[fd] = Closed
  BY DEF Die, CloseAll
<1>3. CellsInv' /\ OwnDescriptors'
  BY <1>1 DEF CellsInv, OwnDescriptors, Serving
<1>4. EntriesInv'
  BY <1>2, EntriesDiffer DEF EntriesInv
<1>5. AcceptedOnce'
  <2>1. backlog' = <<>> /\ client' = client
    BY DEF Die, clientVars
  <2> QED
    BY <1>1, <2>1 DEF IInv, DescriptorInv, AcceptedOnce
<1> QED
  BY <1>3, <1>4, <1>5 DEF DescriptorInv

\* main() takes the lowest free descriptor, and a client it has not met.
LEMMA AcceptKeeps == IInv /\ Accept => DescriptorInv'
<1> SUFFICES ASSUME IInv, Accept PROVE DescriptorInv'
  OBVIOUS
<1> USE EntriesDiffer DEF IInv, DescriptorInv
<1> DEFINE c == Head(backlog)
<1>1. /\ backlog \in Seq(Clients) /\ backlog # <<>>
      /\ Len(backlog) \in Nat /\ Len(backlog) > 0 /\ c = backlog[1]
  BY DEF Accept, CanAccept, TypeOK
<1>2. /\ 1 \in 1 .. Len(backlog) /\ c \in Clients /\ session[c] = "none"
      /\ \A k \in 1 .. Len(backlog) : backlog[k] \in Clients
  BY <1>1 DEF AcceptedOnce
<1>3. /\ backlog' = Tail(backlog) /\ Len(backlog') = Len(backlog) - 1
      /\ \A k \in 1 .. Len(backlog') :
           backlog'[k] = backlog[k + 1] /\ k + 1 \in 1 .. Len(backlog)
  BY <1>1 DEF Accept
<1> HIDE DEF c
<1>4. PICK fd \in Fds :
        /\ file[fd] = Closed
        /\ file' = [file EXCEPT ![fd] = Control(c)]
        /\ new_sock' = [new_sock EXCEPT ![c] = fd]
  BY DEF Accept, IsLowest, Free, c
<1>5. \A g \in Fds : file'[g] = IF g = fd THEN Control(c) ELSE file[g]
  BY <1>4 DEF TypeOK
<1>6. \A d \in Clients : /\ new_sock'[d] = IF d = c THEN fd ELSE new_sock[d]
                         /\ session'[d] = IF d = c THEN "created" ELSE session[d]
  BY <1>2, <1>4 DEF Accept, TypeOK, c
<1>7. UNCHANGED <<control, data, dlink, client>>
  BY DEF Accept, clientVars
<1>8. CellsInv'
  BY <1>2, <1>4, <1>5, <1>6 DEF CellsInv
<1>9. OwnDescriptors'
  BY <1>2, <1>4, <1>5, <1>6, <1>7 DEF OwnDescriptors, Serving, TypeOK
<1>10. EntriesInv'
  BY <1>2, <1>4, <1>5, <1>6, <1>7 DEF EntriesInv, Serving
<1>11. AcceptedOnce'
  <2>1. \A k \in 1 .. Len(backlog') : backlog'[k] # c
    BY <1>1, <1>2, <1>3 DEF AcceptedOnce
  <2>2. \A d \in Clients : client'[d] = "start" =>
          session'[d] = "none" /\ \A k \in 1 .. Len(backlog') : backlog'[k] # d
    BY <1>1, <1>2, <1>3, <1>6, <1>7 DEF AcceptedOnce
  <2>3. \A k \in 1 .. Len(backlog') : session'[backlog'[k]] = "none"
    BY <1>2, <1>3, <1>6, <2>1 DEF AcceptedOnce
  <2>4. \A k, m \in 1 .. Len(backlog') : backlog'[m] = backlog'[k] => m = k
    <3> SUFFICES ASSUME NEW k \in 1 .. Len(backlog'), NEW m \in 1 .. Len(backlog'),
                        backlog'[m] = backlog'[k]
                 PROVE  m = k
      OBVIOUS
    <3>1. m + 1 = k + 1
      BY <1>3 DEF AcceptedOnce
    <3> QED
      BY <1>1, <1>3, <3>1
  <2> QED
    BY <2>2, <2>3, <2>4 DEF AcceptedOnce
<1> QED
  BY <1>8, <1>9, <1>10, <1>11

\* The thread takes over the descriptor in its cell.
LEMMA StartKeeps ==
  ASSUME IInv, NEW c \in Clients, StartThread(c)
  PROVE  DescriptorInv'
<1> USE EntriesDiffer DEF IInv, DescriptorInv
<1>1. new_sock[c] \in Fds /\ file[new_sock[c]] = Control(c)
  BY DEF StartThread, CellsInv
<1>2. \A d \in Clients :
        /\ session'[d] = IF d = c THEN "user" ELSE session[d]
        /\ control'[d] = IF d = c THEN new_sock[c] ELSE control[d]
        /\ new_sock'[d] = IF d = c THEN NoFd ELSE new_sock[d]
  BY DEF StartThread, Arg, TypeOK
<1>3. session[c] = "created" /\ UNCHANGED <<file, data, backlog, dlink, client>>
  BY DEF StartThread, netVars, clientVars
<1>4. CellsInv'
  BY <1>2, <1>3 DEF CellsInv
<1>5. OwnDescriptors'
  BY <1>1, <1>2, <1>3 DEF OwnDescriptors, Serving
<1>6. EntriesInv'
  BY <1>2, <1>3 DEF EntriesInv, Serving
<1>7. AcceptedOnce'
  BY <1>2, <1>3, AcceptedOnceKept
<1> QED
  BY <1>4, <1>5, <1>6, <1>7

\* connect(): the descriptor it takes was free, and no other session's.
LEMMA ConnectDataKeeps ==
  ASSUME IInv, NEW c \in Clients, ConnectData(c)
  PROVE  DescriptorInv'
<1> USE EntriesDiffer DEF IInv, DescriptorInv
<1>1. /\ session[c] = "port" /\ control[c] \in Fds
      /\ UNCHANGED <<new_sock, backlog, client>>
  BY DEF ConnectData, Receives, clientVars, TypeOK, Serving
<1>2. ASSUME NEW fd \in Fds, IsLowest(fd),
             file' = [file EXCEPT ![fd] = Data(c)],
             data' = [data EXCEPT ![c] = fd],
             dlink' = [dlink EXCEPT ![c] = "up"],
             session' = [session EXCEPT ![c] = "list"],
             UNCHANGED control
      PROVE  DescriptorInv'
  <2>1. /\ file[fd] = Closed
        /\ \A g \in Fds : file'[g] = IF g = fd THEN Data(c) ELSE file[g]
    BY <1>2 DEF IsLowest, Free, TypeOK
  <2>2. \A d \in Clients :
          /\ session'[d] = IF d = c THEN "list" ELSE session[d]
          /\ data'[d] = IF d = c THEN fd ELSE data[d]
          /\ dlink'[d] = IF d = c THEN "up" ELSE dlink[d]
    BY <1>2 DEF TypeOK
  <2>3. CellsInv'
    BY <1>1, <2>1, <2>2 DEF CellsInv
  <2>4. OwnDescriptors'
    BY <1>1, <1>2, <2>1, <2>2 DEF OwnDescriptors, Serving, TypeOK
  <2>5. EntriesInv'
    BY <1>1, <1>2, <2>1, <2>2 DEF EntriesInv, Serving
  <2>6. AcceptedOnce'
    BY <1>1, <2>2, AcceptedOnceKept
  <2> QED
    BY <2>3, <2>4, <2>5, <2>6
<1>3. ASSUME CloseAll(OnFailure(c)), EndThread(c), UNCHANGED dlink
      PROVE  DescriptorInv'
  BY <1>1, <1>3, EndKeeps DEF OnFailure, Serving
<1> QED
  BY <1>2, <1>3 DEF ConnectData

\* The listing ends with the data connection, and with no other.
LEMMA ListDirectoryKeeps ==
  ASSUME IInv, NEW c \in Clients, ListDirectory(c)
  PROVE  DescriptorInv'
<1> USE EntriesDiffer DEF IInv, DescriptorInv
<1>1. /\ session[c] = "list" /\ control[c] \in Fds /\ data[c] \in Fds
      /\ file[data[c]] = Data(c)
      /\ UNCHANGED <<control, data, new_sock, backlog, client>>
  BY DEF ListDirectory, Receives, MoveTo, OwnDescriptors, clientVars, TypeOK, Serving
<1>2. \A fd \in Fds : file'[fd] = IF fd = data[c] THEN Closed ELSE file[fd]
  BY DEF ListDirectory, CloseAll
<1>3. \A d \in Clients :
        /\ session'[d] = IF d = c THEN "reply" ELSE session[d]
        /\ d # c => dlink'[d] = dlink[d]
  BY DEF ListDirectory, MoveTo, TypeOK
<1>4. CellsInv'
  BY <1>1, <1>2, <1>3 DEF CellsInv
<1>5. OwnDescriptors'
  <2>1. ASSUME NEW d \in Clients, session'[d] \in Serving
        PROVE  file'[control'[d]] = Control(d)
    <3>1. /\ session[d] \in Serving /\ control[d] \in Fds
          /\ file[control[d]] = Control(d)
      BY <1>1, <1>3, <2>1 DEF OwnDescriptors, Serving, TypeOK
    <3> QED
      BY <1>1, <1>2, <3>1
  <2>2. ASSUME NEW d \in Clients, session'[d] = "list"
        PROVE  file'[data'[d]] = Data(d)
    <3>1. d # c /\ data[d] \in Fds /\ file[data[d]] = Data(d)
      BY <1>1, <1>3, <2>2 DEF OwnDescriptors, TypeOK
    <3> QED
      BY <1>1, <1>2, <3>1
  <2> QED
    BY <2>1, <2>2 DEF OwnDescriptors
<1>6. EntriesInv'
  BY <1>1, <1>2, <1>3 DEF EntriesInv, Serving
<1>7. AcceptedOnce'
  BY <1>1, <1>3, AcceptedOnceKept
<1> QED
  BY <1>4, <1>5, <1>6, <1>7

LEMMA ThreadKeeps ==
  ASSUME IInv, NEW c \in Clients, handle_client(c)
  PROVE  DescriptorInv'
<1>1. CASE ReceiveUsername(c)
  BY <1>1, MoveKeeps, EndKeeps
     DEF ReceiveUsername, Receives, Serving, clientVars
<1>2. CASE ReceivePassword(c)
  BY <1>2, MoveKeeps, EndKeeps
     DEF ReceivePassword, Receives, Serving, clientVars
<1>3. CASE NoPort(c)
  BY <1>3, EndKeeps DEF NoPort, Receives, Serving, clientVars
<1>4. CASE SendOK(c)
  BY <1>4, EndKeeps DEF SendOK, Serving, clientVars
<1>5. CASE NotImplemented(c)
  BY <1>5, EndKeeps DEF NotImplemented, Receives, Serving, clientVars
<1>6. CASE BadPort(c) \/ BrokenPipe(c)
  BY <1>6, DieKeeps DEF BadPort, BrokenPipe
<1> QED
  BY <1>1, <1>2, <1>3, <1>4, <1>5, <1>6, StartKeeps, ConnectDataKeeps,
     ListDirectoryKeeps DEF handle_client

\* Nothing a client does reaches the server's descriptors; the data
\* connections that its end resets were up.
LEMMA ClientKeeps ==
  ASSUME IInv, NEW c \in Clients, ClientStep(c)
  PROVE  DescriptorInv'
<1> USE DEF IInv, DescriptorInv
<1>1. UNCHANGED <<file, session, control, data, new_sock>>
  BY DEF ClientStep, Connect, SendLine, SendAnything, ReadReply, create_data_socket,
     CloseSockets, Interrupt, Leave, mainVars, threadVars
<1>2. \A d \in Clients : dlink[d] \in {"up", "reset"} => dlink'[d] \in {"up", "reset"}
  BY DEF ClientStep, Connect, SendLine, SendAnything, ReadReply, create_data_socket,
     CloseSockets, Interrupt, Leave
<1>3. CellsInv' /\ OwnDescriptors'
  BY <1>1 DEF CellsInv, OwnDescriptors
<1>4. EntriesInv'
  BY <1>1, <1>2 DEF EntriesInv
<1>5. ASSUME ~Connect(c) PROVE AcceptedOnce'
  <2>1. backlog' = backlog
    BY <1>5 DEF ClientStep, SendLine, SendAnything, ReadReply, create_data_socket,
       CloseSockets, Interrupt, Leave
  <2>2. \A s \in DOMAIN Says \cup Awaiting : Then[s] # "start"
    BY DEF Says, Then, Awaiting
  <2>3. \A d \in Clients : client'[d] = "start" => client[d] = "start"
    BY <1>5, <2>2 DEF ClientStep, SendLine, SendAnything, ReadReply,
       create_data_socket, CloseSockets, Interrupt, Leave, TypeOK
  <2> QED
    BY <1>1, <2>1, <2>3 DEF AcceptedOnce
<1>6. CASE Connect(c)
  <2>1. /\ backlog \in Seq(Clients) /\ Len(backlog) \in Nat
        /\ backlog' = Append(backlog, c) /\ Len(backlog') = Len(backlog) + 1
        /\ \A k \in 1 .. Len(backlog) : backlog'[k] = backlog[k]
        /\ backlog'[Len(backlog) + 1] = c
    BY <1>6 DEF Connect, TypeOK
  <2>2. /\ client[c] = "start" /\ client'[c] # "start"
        /\ \A d \in Clients : d # c => client'[d] = client[d]
    BY <1>6 DEF Connect, TypeOK
  <2>3. session[c] = "none" /\ \A k \in 1 .. Len(backlog) : backlog[k] # c
    BY <2>2 DEF AcceptedOnce
  <2>4. \A k \in 1 .. Len(backlog') :
          \/ k \in 1 .. Len(backlog) /\ backlog'[k] = backlog[k]
          \/ k = Len(backlog) + 1 /\ backlog'[k] = c
    BY <2>1
  <2>5. \A d \in Clients : client'[d] = "start" =>
          session'[d] = "none" /\ \A k \in 1 .. Len(backlog') : backlog'[k] # d
    BY <1>1, <2>2, <2>4 DEF AcceptedOnce
  <2>6. \A k \in 1 .. Len(backlog') : session'[backlog'[k]] = "none"
    BY <1>1, <2>3, <2>4 DEF AcceptedOnce
  <2>7. \A k, m \in 1 .. Len(backlog') : backlog'[m] = backlog'[k] => m = k
    <3> SUFFICES ASSUME NEW k \in 1 .. Len(backlog'), NEW m \in 1 .. Len(backlog'),
                        backlog'[m] = backlog'[k]
                 PROVE  m = k
      OBVIOUS
    <3>1. CASE k \in 1 .. Len(backlog) /\ m \in 1 .. Len(backlog)
      BY <2>1, <3>1 DEF AcceptedOnce
    <3>2. CASE k = Len(backlog) + 1 /\ m = Len(backlog) + 1
      BY <3>2
    <3> QED
      BY <2>3, <2>4, <3>1, <3>2
  <2> QED
    BY <1>3, <1>4, <2>5, <2>6, <2>7 DEF AcceptedOnce
<1> QED
  BY <1>3, <1>4, <1>5, <1>6

LEMMA NextInv == IInv /\ [Next]_vars => DescriptorInv'
<1> SUFFICES ASSUME IInv, [Next]_vars PROVE DescriptorInv'
  OBVIOUS
<1>1. CASE UNCHANGED vars
  BY <1>1 DEF vars, mainVars, threadVars, netVars, clientVars, IInv, DescriptorInv,
     CellsInv, OwnDescriptors, EntriesInv, AcceptedOnce
<1>2. CASE Next
  BY <1>2, AcceptKeeps, DieKeeps, ThreadKeeps, ClientKeeps DEF Next, AcceptFails
<1> QED
  BY <1>1, <1>2

-----------------------------------------------------------------------------
(* Theorems.                                                               *)

LEMMA Inductive == Spec => []IInv
<1>1. Init => IInv
  BY InitType, InitInv DEF IInv
<1>2. IInv /\ [Next]_vars => IInv'
  <2>1. IInv => TypeOK /\ CellsInv
    BY DEF IInv, DescriptorInv
  <2>2. TypeOK' /\ DescriptorInv' => IInv'
    BY DEF IInv
  <2> QED
    BY <2>1, <2>2, NextType, NextInv
<1> QED
  BY <1>1, <1>2, PTL DEF Spec

\* The types of the variables: among them, that what a thread reads from
\* the cell main() allocated for it is a descriptor (ftp_simple_server.c,
\* line 91).
THEOREM TypeCorrect == Spec => []TypeOK
<1>1. IInv => TypeOK
  BY DEF IInv
<1> QED
  BY <1>1, Inductive, PTL

\* The invariant: cells, threads' variables and the descriptor table agree,
\* however the threads and main() interleave.
THEOREM DescriptorsAgree == Spec => []DescriptorInv
<1>1. IInv => DescriptorInv
  BY DEF IInv
<1> QED
  BY <1>1, Inductive, PTL

\* A thread reads, writes and closes its own connection, although numbers
\* of descriptors are reused across threads.
THEOREM ThreadsKeepToTheirOwn == Spec => []OwnDescriptors
<1>1. DescriptorInv => OwnDescriptors
  BY DEF DescriptorInv
<1> QED
  BY <1>1, DescriptorsAgree, PTL

\* A session that ended holds no descriptor, but for the data connection
\* that the answer 502 leaves behind.
THEOREM SessionsGiveBack == Spec => []DescriptorsReleased
<1>1. DescriptorInv => DescriptorsReleased
  BY DEF DescriptorInv, EntriesInv, DescriptorsReleased, Serving
<1> QED
  BY <1>1, DescriptorsAgree, PTL

-----------------------------------------------------------------------------
(* A session and its scripted client take turns.                           *)

Early == {"none", "created", "user"}

LEMMA TurnIs ==
  ASSUME NEW cl, NEW se, NEW u, NEW d
  PROVE  <<cl, se, u, d>> \in Turns <=>
           \/ cl = "user" /\ se \in Early /\ u = <<>> /\ d = <<>>
           \/ cl = "await_user" /\ se \in Early /\ u = <<"USER">> /\ d = <<>>
           \/ cl = "await_user" /\ se = "pass" /\ u = <<>> /\ d = <<"331">>
           \/ cl = "pass" /\ se = "pass" /\ u = <<>> /\ d = <<>>
           \/ cl = "await_pass" /\ se = "pass" /\ u = <<"PASS">> /\ d = <<>>
           \/ cl = "await_pass" /\ se = "port" /\ u = <<>> /\ d = <<"230">>
           \/ cl \in {"bind", "port"} /\ se = "port" /\ u = <<>> /\ d = <<>>
           \/ cl = "list" /\ se = "port" /\ u = <<"PORT">> /\ d = <<>>
           \/ cl = "list" /\ se = "list" /\ u = <<>> /\ d = <<>>
           \/ cl = "await_list" /\ se = "list" /\ u = <<"LIST">> /\ d = <<>>
           \/ cl = "await_list" /\ se = "reply" /\ u = <<>> /\ d = <<>>
  BY DEF Turns, Early

InBacklog(c) == \E k \in DOMAIN backlog : backlog[k] = c

\* What TurnsInv says of one client.
TurnOf(c) ==
  /\ client[c] = "start" => up[c] = <<>> /\ down[c] = <<>>
  /\ session[c] = "none" /\ client[c] # "start" /\ ~dead => InBacklog(c)
  /\ Paced /\ c \notin Manual =>
       \/ client[c] \in {"start", "gone"} \/ Over(c)
       \/ link[c] = "up" /\ <<client[c], session[c], up[c], down[c]>> \in Turns

LEMMA TurnsOfAll == TurnsInv <=> \A c \in Clients : TurnOf(c)
  BY DEF TurnsInv, TurnOf, InBacklog

\* A step in which only c and its session take part.
Alone(c) ==
  /\ dead' = dead
  /\ \A d \in Clients : d # c =>
       /\ client'[d] = client[d] /\ session'[d] = session[d] /\ link'[d] = link[d]
       /\ up'[d] = up[d] /\ down'[d] = down[d]
       /\ InBacklog(d) => InBacklog(d)'

LEMMA AloneKeepsTurns ==
  ASSUME TurnsInv, NEW c \in Clients, Alone(c), TurnOf(c)'
  PROVE  TurnsInv'
<1>1. \A d \in Clients : TurnOf(d)
  BY TurnsOfAll
<1>2. ASSUME NEW d \in Clients, d # c PROVE TurnOf(d)'
  BY <1>1, <1>2 DEF Alone, TurnOf, Over
<1>3. \A d \in Clients : TurnOf(d)'
  BY <1>2
<1> QED
  BY <1>3 DEF TurnsInv, TurnOf, InBacklog, Over

LEMMA DieKeepsTurns == IInv /\ TurnsInv /\ Die => TurnsInv'
  BY DEF IInv, TypeOK, TurnsInv, Die, Over, clientVars

LEMMA AcceptKeepsTurns == IInv /\ TurnsInv /\ Accept => TurnsInv'
<1> SUFFICES ASSUME IInv, TurnsInv, Accept PROVE TurnsInv'
  OBVIOUS
<1>1. /\ backlog \in Seq(Clients) /\ Len(backlog) \in Nat \ {0}
      /\ backlog[1] \in Clients /\ Head(backlog) = backlog[1]
      /\ session \in [Clients -> {"none", "created", "ended"} \cup Serving]
  BY DEF IInv, TypeOK, Accept, CanAccept
<1> PICK c \in Clients : c = backlog[1]
  BY <1>1
<1>2. session[c] = "none" /\ client[c] # "start"
  BY <1>1 DEF IInv, DescriptorInv, AcceptedOnce
<1>3. /\ session' = [session EXCEPT ![c] = "created"] /\ backlog' = Tail(backlog)
      /\ UNCHANGED <<dead, client, link, up, down>>
  BY <1>1 DEF Accept, clientVars
<1>4. ASSUME NEW d \in Clients, d # c, InBacklog(d) PROVE InBacklog(d)'
  <2>1. PICK k \in 1 .. Len(backlog) : backlog[k] = d
    BY <1>1, <1>4 DEF InBacklog
  <2>2. k # 1
    BY <1>4, <2>1
  <2>3. /\ k - 1 \in 1 .. Len(backlog') /\ DOMAIN backlog' = 1 .. Len(backlog')
        /\ backlog'[k - 1] = backlog[k]
    BY <1>1, <1>3, <2>1, <2>2
  <2> QED
    BY <2>1, <2>3 DEF InBacklog
<1>5. Alone(c)
  BY <1>1, <1>3, <1>4 DEF Alone
<1>6. TurnOf(c)
  BY TurnsOfAll
<1>7. TurnOf(c)'
  <2>1. session'[c] = "created"
    BY <1>1, <1>3
  <2>2. \A cl, u, d : <<cl, "none", u, d>> \in Turns => <<cl, "created", u, d>> \in Turns
    BY DEF Turns
  <2> QED
    BY <1>2, <1>3, <1>6, <2>1, <2>2 DEF TurnOf, Over
<1> QED
  BY <1>5, <1>7, AloneKeepsTurns

\* A thread's step that does not end the process.
LEMMA ThreadKeepsTurns ==
  ASSUME IInv, TurnsInv, NEW c \in Clients, handle_client(c)
  PROVE  TurnsInv'
<1>1. CASE Die
  BY <1>1, DieKeepsTurns
<1>2. ASSUME ~Die
      PROVE  StartThread(c) \/ ReceiveUsername(c) \/ ReceivePassword(c) \/ ConnectData(c)
               \/ NoPort(c) \/ ListDirectory(c) \/ SendOK(c) \/ NotImplemented(c)
  BY <1>2 DEF handle_client, BadPort, BrokenPipe
<1>3. /\ session \in [Clients -> {"none", "created", "ended"} \cup Serving]
      /\ up \in [Clients -> Seq(Lines)] /\ down \in [Clients -> Seq(Replies)]
      /\ link \in [Clients -> {"none", "up", "fin", "reset", "broken"}]
  BY DEF IInv, TypeOK
<1> SUFFICES ASSUME ~Die PROVE TurnsInv'
  BY <1>1
<1>4. session[c] \in {"created"} \cup Serving /\ session[c] # "none" /\ client[c] # "start"
  BY <1>2 DEF StartThread, ReceiveUsername, ReceivePassword, ConnectData, NoPort,
     ListDirectory, SendOK, NotImplemented, Receives, Serving, IInv, DescriptorInv,
     AcceptedOnce
<1>5. /\ UNCHANGED <<dead, client, backlog>>
      /\ \A d \in Clients : d # c =>
           /\ session'[d] = session[d] /\ link'[d] = link[d]
           /\ up'[d] = up[d] /\ down'[d] = down[d]
  BY <1>2, <1>3 DEF StartThread, ReceiveUsername, ReceivePassword, ConnectData, NoPort,
     ListDirectory, SendOK, NotImplemented, Receives, Reply, MoveTo, EndThread, netVars,
     clientVars
<1>6. Alone(c)
  BY <1>5 DEF Alone, InBacklog
<1>7. session'[c] # "none"
  BY <1>2, <1>3 DEF StartThread, ReceiveUsername, ReceivePassword, ConnectData, NoPort,
     ListDirectory, SendOK, NotImplemented, MoveTo, EndThread
<1>8. ASSUME Paced, c \notin Manual, client[c] # "gone", ~Over(c), ~Over(c)'
      PROVE  link'[c] = "up" /\ <<client'[c], session'[c], up'[c], down'[c]>> \in Turns
  <2>1. link[c] = "up" /\ <<client[c], session[c], up[c], down[c]>> \in Turns
    BY <1>4, <1>8, TurnsOfAll DEF TurnOf
  <2>2. Head(<<"USER">>) = "USER" /\ Head(<<"PASS">>) = "PASS" /\ Head(<<"PORT">>) = "PORT"
        /\ Head(<<"LIST">>) = "LIST" /\ Append(<<>>, "331") = <<"331">>
        /\ Append(<<>>, "230") = <<"230">>
    OBVIOUS
  <2>3. session'[c] # "ended"
    BY <1>8 DEF Over
  <2>4. CASE StartThread(c)
    <3>1. /\ session[c] = "created" /\ session'[c] = "user"
          /\ UNCHANGED <<client, link, up, down>>
      BY <1>3, <2>4 DEF StartThread, netVars, clientVars
    <3> QED
      BY <2>1, <3>1, TurnIs DEF Early
  <2>5. CASE ReceiveUsername(c)
    <3>1. session[c] = "user" /\ Readable(c) /\ up'[c] = <<>>
      BY <1>3, <2>5 DEF ReceiveUsername, Receives
    <3>2. client[c] = "await_user" /\ up[c] = <<"USER">> /\ down[c] = <<>>
      BY <2>1, <3>1, TurnIs DEF Early, Readable
    <3>3. session'[c] = "pass" /\ Reply(c, "331")
      BY <1>3, <2>3, <2>5 DEF ReceiveUsername, MoveTo, EndThread
    <3>4. down'[c] = <<"331">> /\ link'[c] = "up"
      BY <1>3, <2>1, <2>2, <3>2, <3>3 DEF Reply
    <3> QED
      BY <1>5, <3>1, <3>2, <3>3, <3>4, TurnIs
  <2>6. CASE ReceivePassword(c)
    <3>1. session[c] = "pass" /\ Readable(c) /\ up'[c] = <<>>
      BY <1>3, <2>6 DEF ReceivePassword, Receives
    <3>2. client[c] = "await_pass" /\ up[c] = <<"PASS">> /\ down[c] = <<>>
      BY <2>1, <3>1, TurnIs DEF Early, Readable
    <3>3. session'[c] = "port" /\ Reply(c, "230")
      BY <1>3, <2>3, <2>6 DEF ReceivePassword, MoveTo, EndThread
    <3>4. down'[c] = <<"230">> /\ link'[c] = "up"
      BY <1>3, <2>1, <2>2, <3>2, <3>3 DEF Reply
    <3> QED
      BY <1>5, <3>1, <3>2, <3>3, <3>4, TurnIs
  <2>7. CASE ConnectData(c)
    <3>1. session[c] = "port" /\ Readable(c) /\ up'[c] = <<>> /\ UNCHANGED <<link, down>>
      BY <1>3, <2>7 DEF ConnectData, Receives
    <3>2. client[c] = "list" /\ down[c] = <<>>
      <4>1. up[c] # <<>>
        BY <2>1, <3>1 DEF Readable
      <4> QED
        BY <2>1, <3>1, <4>1, TurnIs DEF Early
    <3>3. session'[c] = "list"
      BY <1>3, <2>3, <2>7 DEF ConnectData, EndThread
    <3> QED
      BY <1>5, <2>1, <3>1, <3>2, <3>3, TurnIs
  <2>8. CASE ListDirectory(c)
    <3>1. session[c] = "list" /\ Readable(c) /\ up'[c] = <<>> /\ UNCHANGED <<link, down>>
          /\ session'[c] = "reply"
      BY <1>3, <2>8 DEF ListDirectory, Receives, MoveTo
    <3>2. client[c] = "await_list" /\ down[c] = <<>>
      <4>1. up[c] # <<>>
        BY <2>1, <3>1 DEF Readable
      <4> QED
        BY <2>1, <3>1, <4>1, TurnIs DEF Early
    <3> QED
      BY <1>5, <2>1, <3>1, <3>2, TurnIs
  <2>9. CASE NoPort(c) \/ SendOK(c) \/ NotImplemented(c)
    BY <1>3, <2>3, <2>9 DEF NoPort, SendOK, NotImplemented, EndThread
  <2> QED
    BY <1>2, <2>4, <2>5, <2>6, <2>7, <2>8, <2>9
<1>9. Over(c) => Over(c)'
  <2>1. session[c] # "ended"
    BY <1>4 DEF Serving
  <2> QED
    BY <1>5, <2>1 DEF Over
<1>10. TurnOf(c)'
  BY <1>4, <1>5, <1>7, <1>8, <1>9 DEF TurnOf
<1> QED
  BY <1>6, <1>10, AloneKeepsTurns

LEMMA ClientKeepsTurns ==
  ASSUME IInv, TurnsInv, NEW c \in Clients, ClientStep(c)
  PROVE  TurnsInv'
<1>1. /\ client \in [Clients -> ClientStates]
      /\ up \in [Clients -> Seq(Lines)] /\ down \in [Clients -> Seq(Replies)]
      /\ link \in [Clients -> {"none", "up", "fin", "reset", "broken"}]
      /\ backlog \in Seq(Clients)
  BY DEF IInv, TypeOK, ClientStates
<1>2. TurnOf(c)
  BY TurnsOfAll
<1>3. UNCHANGED <<dead, session>> /\ (Over(c) <=> Over(c)')
  BY DEF ClientStep, Connect, SendLine, SendAnything, ReadReply, create_data_socket,
     CloseSockets, Interrupt, Leave, mainVars, threadVars, Over
<1>4. \A d \in Clients : InBacklog(d) => InBacklog(d)'
  <2>1. CASE Connect(c)
    <3>1. backlog' = Append(backlog, c)
      BY <2>1 DEF Connect
    <3>2. /\ DOMAIN backlog \subseteq DOMAIN backlog'
          /\ \A k \in DOMAIN backlog : backlog'[k] = backlog[k]
      BY <1>1, <3>1
    <3> QED
      BY <3>2 DEF InBacklog
  <2>2. CASE ~Connect(c)
    BY <2>2 DEF ClientStep, SendLine, SendAnything, ReadReply, create_data_socket,
       CloseSockets, Interrupt, Leave, InBacklog
  <2> QED
    BY <2>1, <2>2
<1>5. \A d \in Clients : d # c =>
        /\ client'[d] = client[d] /\ link'[d] = link[d]
        /\ up'[d] = up[d] /\ down'[d] = down[d]
  BY <1>1 DEF ClientStep, Connect, SendLine, SendAnything, ReadReply, create_data_socket,
     CloseSockets, Interrupt, Leave, Write
<1>6. Alone(c)
  BY <1>3, <1>4, <1>5 DEF Alone
<1>7. client'[c] # "start"
  <2>1. \A s \in DOMAIN Says \cup Awaiting : Then[s] # "start"
    BY DEF Says, Then, Awaiting
  <2> QED
    BY <1>1, <2>1 DEF ClientStep, Connect, SendLine, SendAnything, ReadReply,
       create_data_socket, CloseSockets, Interrupt, Leave
<1>8. client[c] = "start" => InBacklog(c)'
  <2>1. client[c] = "start" => Connect(c)
    BY DEF ClientStep, SendLine, SendAnything, ReadReply, create_data_socket,
       CloseSockets, Interrupt, Says, Awaiting
  <2>2. CASE Connect(c)
    <3>1. backlog' = Append(backlog, c)
      BY <2>2 DEF Connect
    <3>2. Len(backlog') \in DOMAIN backlog' /\ backlog'[Len(backlog')] = c
      BY <1>1, <3>1
    <3> QED
      BY <3>2 DEF InBacklog
  <2> QED
    BY <2>1, <2>2
<1>9. ASSUME Paced, c \notin Manual, client'[c] # "gone", ~Over(c)
      PROVE  link'[c] = "up" /\ <<client'[c], session'[c], up'[c], down'[c]>> \in Turns
  <2>1. CASE Connect(c)
    <3>1. client'[c] = "user" /\ link'[c] = "up" /\ UNCHANGED <<up, down>> /\ client[c] = "start"
      BY <1>1, <1>9, <2>1 DEF Connect
    <3>2. session[c] = "none" /\ up[c] = <<>> /\ down[c] = <<>>
      BY <1>2, <3>1 DEF TurnOf, IInv, DescriptorInv, AcceptedOnce
    <3> QED
      BY <1>3, <3>1, <3>2, TurnIs DEF Early
  <2>2. ASSUME ~Connect(c)
        PROVE  link[c] = "up" /\ <<client[c], session[c], up[c], down[c]>> \in Turns
    <3>1. client[c] \notin {"start", "gone"}
      BY <2>2 DEF ClientStep, SendLine, SendAnything, ReadReply, create_data_socket,
         CloseSockets, Interrupt, Says, Awaiting
    <3> QED
      BY <1>2, <1>9, <3>1 DEF TurnOf
  <2>3. CASE SendLine(c)
    <3>1. /\ client[c] \in {"user", "pass", "port", "list"} /\ up[c] = <<>>
          /\ client'[c] = Then[client[c]]
          /\ up'[c] = Append(<<>>, Says[client[c]]) /\ UNCHANGED <<link, down>>
      BY <1>1, <1>9, <2>3 DEF SendLine, Write, Says
    <3>2. /\ Append(<<>>, "USER") = <<"USER">> /\ Append(<<>>, "PASS") = <<"PASS">>
          /\ Append(<<>>, "PORT") = <<"PORT">> /\ Append(<<>>, "LIST") = <<"LIST">>
      OBVIOUS
    <3>3. ~Connect(c)
      BY <3>1 DEF Connect
    <3>4. link[c] = "up" /\ <<client[c], session[c], up[c], down[c]>> \in Turns
      BY <2>2, <3>3
    <3>5. CASE client[c] = "user"
      <4>1. client'[c] = "await_user" /\ up'[c] = <<"USER">>
        BY <3>1, <3>2, <3>5 DEF Then, Says
      <4>2. session[c] \in Early /\ down[c] = <<>>
        BY <3>4, <3>5, TurnIs
      <4> QED
        BY <1>3, <3>1, <3>4, <4>1, <4>2, TurnIs
    <3>6. CASE client[c] = "pass"
      <4>1. client'[c] = "await_pass" /\ up'[c] = <<"PASS">>
        BY <3>1, <3>2, <3>6 DEF Then, Says
      <4>2. session[c] = "pass" /\ down[c] = <<>>
        BY <3>4, <3>6, TurnIs
      <4> QED
        BY <1>3, <3>1, <3>4, <4>1, <4>2, TurnIs
    <3>7. CASE client[c] = "port"
      <4>1. client'[c] = "list" /\ up'[c] = <<"PORT">>
        BY <3>1, <3>2, <3>7 DEF Then, Says
      <4>2. session[c] = "port" /\ down[c] = <<>>
        BY <3>4, <3>7, TurnIs
      <4> QED
        BY <1>3, <3>1, <3>4, <4>1, <4>2, TurnIs
    <3>8. CASE client[c] = "list"
      <4>1. client'[c] = "await_list" /\ up'[c] = <<"LIST">>
        BY <3>1, <3>2, <3>8 DEF Then, Says
      <4>2. <<"PORT">> # <<>>
        OBVIOUS
      <4>3. session[c] = "list" /\ down[c] = <<>>
        BY <3>1, <3>4, <3>8, <4>2, TurnIs
      <4> QED
        BY <1>3, <3>1, <3>4, <4>1, <4>3, TurnIs
    <3> QED
      BY <3>1, <3>5, <3>6, <3>7, <3>8
  <2>4. CASE ReadReply(c)
    <3>1. /\ client[c] \in Awaiting /\ down[c] # <<>> /\ down'[c] = <<>>
          /\ client'[c] = Then[client[c]] /\ UNCHANGED <<link, up>>
      BY <1>1, <1>9, <2>4 DEF ReadReply
    <3>2. ~Connect(c)
      BY <3>1 DEF Connect, Awaiting
    <3>3. link[c] = "up" /\ <<client[c], session[c], up[c], down[c]>> \in Turns
      BY <2>2, <3>2
    <3>4. CASE client[c] = "await_user"
      <4>1. client'[c] = "pass"
        BY <3>1, <3>4 DEF Then
      <4>2. session[c] = "pass" /\ up[c] = <<>>
        BY <3>1, <3>3, <3>4, TurnIs
      <4> QED
        BY <1>3, <3>1, <3>3, <4>1, <4>2, TurnIs
    <3>5. CASE client[c] = "await_pass"
      <4>1. client'[c] = "bind"
        BY <3>1, <3>5 DEF Then
      <4>2. session[c] = "port" /\ up[c] = <<>>
        BY <3>1, <3>3, <3>5, TurnIs
      <4> QED
        BY <1>3, <3>1, <3>3, <4>1, <4>2, TurnIs
    <3>6. client[c] # "await_list"
      BY <3>1, <3>3, TurnIs
    <3> QED
      BY <3>1, <3>4, <3>5, <3>6 DEF Awaiting
  <2>5. CASE create_data_socket(c)
    <3>1. client[c] = "bind" /\ client'[c] = "port" /\ UNCHANGED <<link, up, down>>
      BY <1>1, <1>9, <2>5 DEF create_data_socket, Leave
    <3>2. ~Connect(c)
      BY <3>1 DEF Connect
    <3>3. link[c] = "up" /\ <<client[c], session[c], up[c], down[c]>> \in Turns
      BY <2>2, <3>2
    <3>4. session[c] = "port" /\ up[c] = <<>> /\ down[c] = <<>>
      BY <3>1, <3>3, TurnIs
    <3> QED
      BY <1>3, <3>1, <3>3, <3>4, TurnIs
  <2>6. ~SendAnything(c)
    <3>1. SendAnything(c) => ~Connect(c) /\ client[c] = "manual"
      BY DEF SendAnything, Connect
    <3> QED
      BY <2>2, <3>1, TurnIs
  <2>7. ~Leave(c)
    BY <1>1, <1>9 DEF Leave
  <2> QED
    BY <2>1, <2>3, <2>4, <2>5, <2>6, <2>7 DEF ClientStep, CloseSockets, Interrupt
<1>10. session'[c] = "none" /\ ~dead' => InBacklog(c)'
  BY <1>2, <1>3, <1>4, <1>8 DEF TurnOf
<1>11. TurnOf(c)'
  BY <1>3, <1>7, <1>9, <1>10 DEF TurnOf
<1> QED
  BY <1>6, <1>11, AloneKeepsTurns

LEMMA NextTurns == IInv /\ TurnsInv /\ [Next]_vars => TurnsInv'
<1> SUFFICES ASSUME IInv, TurnsInv, [Next]_vars PROVE TurnsInv'
  OBVIOUS
<1>1. CASE UNCHANGED vars
  BY <1>1 DEF vars, mainVars, threadVars, netVars, clientVars, TurnsInv, Over
<1>2. CASE Next
  BY <1>2, AcceptKeepsTurns, DieKeepsTurns, ThreadKeepsTurns, ClientKeepsTurns
     DEF Next, AcceptFails
<1> QED
  BY <1>1, <1>2

LEMMA SessionsTakeTurns == Spec => []TurnsInv
<1>1. Init => TurnsInv
  BY DEF Init, TurnsInv
<1> QED
  BY <1>1, NextTurns, Inductive, PTL DEF Spec

\* At the pace of Paced, a session and its scripted client never wait for each
\* other, whatever else runs on the server.
THEOREM NobodyIsKeptWaiting == Spec => []NobodyWaitsInVain
<1>1. IInv /\ TurnsInv => NobodyWaitsInVain
  <2> SUFFICES ASSUME IInv, TurnsInv, Paced, NEW c \in Clients \ Manual,
                      client[c] \in Awaiting, ~Over(c), down[c] = <<>>
               PROVE  \/ session[c] = "none" /\ \E k \in DOMAIN backlog : backlog[k] = c
                      \/ session[c] \in {"created", "reply"}
                      \/ session[c] \in {"user", "pass", "port", "list"} /\ up[c] # <<>>
    BY DEF NobodyWaitsInVain
  <2>1. client[c] \notin {"start", "gone"} /\ ~dead
    BY DEF Awaiting, Over
  <2>2. <<client[c], session[c], up[c], down[c]>> \in Turns
    BY <2>1 DEF TurnsInv
  <2>3. session[c] = "none" => \E k \in DOMAIN backlog : backlog[k] = c
    BY <2>1 DEF TurnsInv
  <2>4. <<"331">> # <<>> /\ <<"230">> # <<>> /\ <<"USER">> # <<>> /\ <<"PASS">> # <<>>
        /\ <<"PORT">> # <<>> /\ <<"LIST">> # <<>>
    OBVIOUS
  <2>5. \/ session[c] \in {"none", "created", "reply"}
        \/ session[c] \in {"user", "pass", "port", "list"} /\ up[c] # <<>>
    <3>1. \/ client[c] = "await_user" /\ session[c] \in Early /\ up[c] = <<"USER">>
          \/ client[c] = "await_pass" /\ session[c] = "pass" /\ up[c] = <<"PASS">>
          \/ client[c] = "await_list" /\ session[c] = "list" /\ up[c] = <<"LIST">>
          \/ client[c] = "await_list" /\ session[c] = "reply"
      BY <2>2, <2>4, TurnIs DEF Awaiting
    <3> QED
      BY <2>4, <3>1 DEF Early
  <2> QED
    BY <2>3, <2>5
<1> QED
  BY <1>1, Inductive, SessionsTakeTurns, PTL

=============================================================================
