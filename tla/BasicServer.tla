---------------------------- MODULE BasicServer ----------------------------
(***************************************************************************)
(* basic-server/server.c: an iterative server.  It accepts one connection, *)
(* adds the ints it reads from it with blocking reads until one is 0,      *)
(* writes the result, closes, and only then accepts the next.              *)
(*                                                                         *)
(* Steps are cut at the system calls: accept, read, write and close.       *)
(***************************************************************************)
EXTENDS SumClient

VARIABLES
  bpc,             \* where main() is: the system call it makes next
  data_socket,     \* the client at the other end of data_socket, if open
  result           \* as in the code

basicVars == <<bpc, data_socket, result>>
bvars     == <<basicVars, credited, clientVars, netVars>>

BasicTypeOK ==
  /\ SumClientTypeOK
  /\ bpc \in {"accept", "read", "write", "close", "dead"}
  /\ data_socket \in Clients \cup {NoClient}
  /\ result \in Int
  /\ credited \in [Clients -> Int]

BasicIdle == bpc = "accept" /\ data_socket = NoClient /\ result = 0
BasicGone == bpc = "dead" /\ data_socket = NoClient /\ result = 0

BasicInit ==
  /\ SumClientInit
  /\ BasicIdle
  /\ credited = [c \in Clients |-> 0]

-----------------------------------------------------------------------------
\* result = 0 for the new connection, and a version without it.
KeepResult  == UNCHANGED result
ClearResult == result' = 0

\* accept() waits for a connection and takes the oldest.
BasicAccept ==
  /\ bpc = "accept"
  /\ backlog # <<>>
  /\ data_socket' = Head(backlog)
  /\ backlog' = Tail(backlog)
  /\ ClearResult
  /\ bpc' = "read"
  /\ UNCHANGED <<credited, clientVars, listening, srvEnd, up, down>>

\* read() waits for data, or for the end of the stream, whose zeroed buffer
\* looks like a 0.
BasicRead ==
  /\ bpc = "read"
  /\ Readable(data_socket)
  /\ Consume(data_socket)
  /\ IF DataRead(data_socket) = 0
       THEN /\ bpc' = "write"
            /\ UNCHANGED <<result, credited>>
       ELSE /\ result' = IntAdd(result, DataRead(data_socket))
            /\ credited' = [credited EXCEPT
                              ![data_socket] = IntAdd(@, DataRead(data_socket))]
            /\ UNCHANGED bpc
  /\ UNCHANGED <<data_socket, clientVars, listening, backlog, srvEnd, down>>

\* write() of the result: SIGPIPE when the client has closed its end.
BasicWrite ==
  /\ bpc = "write"
  /\ \/ /\ Hungup(data_socket)
        /\ bpc' = "dead"
        /\ ServerGone
        /\ UNCHANGED down
     \/ /\ ~Hungup(data_socket)
        /\ down' = [down EXCEPT ![data_socket] = Append(@, result)]
        /\ bpc' = "close"
        /\ UNCHANGED <<listening, backlog, srvEnd>>
  /\ UNCHANGED <<data_socket, result, credited, clientVars, up>>

\* close(), and a version without it.
LeftOpen == srvEnd
Closed   == [srvEnd EXCEPT ![data_socket] = "closed"]

BasicClose ==
  /\ bpc = "close"
  /\ srvEnd' = Closed
  /\ data_socket' = NoClient
  /\ bpc' = "accept"
  /\ UNCHANGED <<result, credited, clientVars, listening, backlog, up, down>>

BasicStep == BasicAccept \/ BasicRead \/ BasicWrite \/ BasicClose

BasicNext ==
  BasicStep \/ \E c \in Clients : ClientStep(c) /\ UNCHANGED <<basicVars, credited>>

BasicSpec == BasicInit /\ [][BasicNext]_bvars

-----------------------------------------------------------------------------
(* Properties.                                                             *)

\* The server has one connection in its hands, the one it accepted last, and
\* has closed all earlier ones: an open one that it does not serve waits in the
\* backlog, once, and has been given nothing and told nothing.
OneAtATime ==
  bpc # "dead" =>
    /\ data_socket = NoClient <=> bpc = "accept"
    /\ \A c \in Clients :
         srvEnd[c] = "open" =>
           \/ c = data_socket
           \/ /\ \E k \in 1 .. Len(backlog) : backlog[k] = c
              /\ credited[c] = 0 /\ down[c] = <<>> /\ answer[c] = <<>>

\* The one running sum is that of the connection being served, and every
\* result written is made of the ints of the connection it was written to.
BasicOwnSum ==
  /\ bpc \in {"read", "write", "close"} => result = credited[data_socket]
  /\ \A c \in Clients : Told(c) \in {<<>>, <<credited[c]>>}

-----------------------------------------------------------------------------
(* The inductive invariant behind the safety properties.                   *)

\* The connection being served and those that wait are open and distinct.
OpenInv ==
  /\ bpc \in {"read", "write", "close"} =>
       data_socket \in Clients /\ srvEnd[data_socket] = "open"
  /\ bpc # "dead" => \A k \in 1 .. Len(backlog) :
       /\ srvEnd[backlog[k]] = "open"
       /\ backlog[k] # data_socket
       /\ \A m \in 1 .. Len(backlog) : backlog[m] = backlog[k] => m = k

\* A client is told its sum between the write and the close, and not twice.
ToldInv ==
  /\ \A c \in Clients : srvEnd[c] = "none" =>
       /\ client[c] \in {"start", "refused"}
       /\ credited[c] = 0 /\ down[c] = <<>> /\ answer[c] = <<>>
  /\ \A c \in Clients : client[c] = "start" => srvEnd[c] = "none"
  /\ \A c \in Clients : answer[c] # <<>> => client[c] = "done"
  /\ bpc \in {"read", "write"} =>
       down[data_socket] = <<>> /\ answer[data_socket] = <<>>
  /\ bpc = "close" => Told(data_socket) # <<>>

\* With paced users, a 0 that was read is being answered, and nothing else is.
BasicZeroIsAnswered ==
  Paced =>
    /\ \A c \in Clients :
         ZeroWasRead(c) => bpc \in {"write", "close"} /\ data_socket = c
    /\ bpc \in {"write", "close"} =>
         client[data_socket] \notin {"start", "sending"}

BInv == OneAtATime /\ BasicOwnSum /\ OpenInv /\ ToldInv

=============================================================================
