------------------------------ MODULE SumClient ------------------------------
(***************************************************************************)
(* The client of the two summing servers (basic-server/client.c) and the   *)
(* local stream socket between a client and its server.                    *)
(*                                                                         *)
(* A client sends one int for each number its user types, the 0 that ends  *)
(* the list included, then the three letters "RES", then reads the result. *)
(* The socket carries bytes, not messages: whatever has arrived when the   *)
(* server reads comes out of one read(), up to BUFFER_SIZE bytes.  A unit  *)
(* of the stream is the four bytes of one int, represented by its value;   *)
(* "RES" is a last, shorter unit, represented by the int a server gets     *)
(* when it copies those bytes out of a zeroed buffer, RES_DATA.            *)
(***************************************************************************)
EXTENDS Integers, Sequences, SequencesExt

CONSTANTS
  Clients,         \* client processes, one connection each
  NoClient,        \* no process
  Summands,        \* the non-zero numbers users type
  RES_DATA,        \* "RES" read as an int: 0x00534552 on the real machine
  INT_HALF,        \* ints are -INT_HALF .. INT_HALF-1: 2^31 on the real one
  BUFFER_UNITS,    \* ints that fit BUFFER_SIZE: 32 in the code
  BACKLOG,         \* the argument of listen(): 20 in the code
  MAX_SENDS,       \* bound: the summands one user types
  Crashing,        \* the clients that may be killed at any moment
  Paced            \* users type a number only after the last was read

ASSUME SumClientAssumption ==
  /\ NoClient \notin Clients
  /\ Summands \subseteq Int \ {0}
  /\ RES_DATA \in Int \ {0}
  /\ INT_HALF \in Nat \ {0}
  /\ BUFFER_UNITS \in Nat \ {0}
  /\ BACKLOG \in Nat
  /\ MAX_SENDS \in Nat
  /\ Crashing \subseteq Clients
  /\ Paced \in BOOLEAN

VARIABLES
  listening,       \* whether the listening socket exists
  backlog,         \* connections made and not yet accepted, oldest first
  srvEnd,          \* the server's end of each connection
  up,              \* units written by a client and not yet read
  down,            \* results written by the server and not yet read
  client,          \* where each client is in its program
  typed,           \* the numbers each client wrote, the 0 left out
  answer,          \* what each client read: a sequence of at most one int
  credited         \* history: the sum of the ints a server used, per client

clientVars == <<client, typed, answer>>
netVars    == <<listening, backlog, srvEnd, up, down>>

Connected == {"sending", "request", "waiting"}
ClientStates == {"start", "refused", "done", "killed"} \cup Connected

SumClientTypeOK ==
  /\ listening \in BOOLEAN
  /\ backlog \in Seq(Clients)
  /\ srvEnd \in [Clients -> {"none", "open", "closed"}]
  /\ up \in [Clients -> Seq(Int)]
  /\ down \in [Clients -> Seq(Int)]
  /\ client \in [Clients -> ClientStates]
  /\ typed \in [Clients -> Seq(Int)]
  /\ answer \in [Clients -> Seq(Int)]

SumClientInit ==
  /\ listening = TRUE
  /\ backlog = <<>>
  /\ srvEnd = [c \in Clients |-> "none"]
  /\ up     = [c \in Clients |-> <<>>]
  /\ down   = [c \in Clients |-> <<>>]
  /\ client = [c \in Clients |-> "start"]
  /\ typed  = [c \in Clients |-> <<>>]
  /\ answer = [c \in Clients |-> <<>>]

\* Addition of two ints that overflows wraps around, as the build does.
Wrap(x) == ((x + INT_HALF) % (2 * INT_HALF)) - INT_HALF
IntAdd(a, b) == Wrap(a + b)

SumOf(numbers) ==
  LET sum[n \in 0 .. Len(numbers)] ==
        IF n = 0 THEN 0 ELSE IntAdd(sum[n - 1], numbers[n])
  IN  sum[Len(numbers)]

-----------------------------------------------------------------------------
(* The server's side of the socket, as read(), write() and close() see it.  *)

Hungup(c)   == client[c] \in {"refused", "done", "killed"}

\* Mutant: a socket that does not block, whose empty read looks like a zero.
AlwaysReadable(c) == TRUE

Readable(c) == up[c] # <<>> \/ Hungup(c)

\* read(fd, buffer, BUFFER_SIZE): all that is there, up to the buffer.
UnitsRead(c) ==
  IF Len(up[c]) < BUFFER_UNITS THEN Len(up[c]) ELSE BUFFER_UNITS

\* The first int of the buffer, zeroed before the read: 0 at end of file.
DataRead(c) == IF up[c] = <<>> THEN 0 ELSE up[c][1]

Consume(c) ==
  up' = [up EXCEPT ![c] = SubSeq(up[c], UnitsRead(c) + 1, Len(up[c]))]

\* The server process is gone: the kernel closes everything it had open.
ServerGone ==
  /\ listening' = FALSE
  /\ backlog' = <<>>
  /\ srvEnd' = [c \in Clients |->
                  IF srvEnd[c] = "open" THEN "closed" ELSE srvEnd[c]]

-----------------------------------------------------------------------------
(* The client process.                                                     *)

\* The connection is complete, and can be written to, before it is accepted.
Connect(c) ==
  /\ client[c] = "start"
  /\ listening
  /\ Len(backlog) <= BACKLOG
  /\ client' = [client EXCEPT ![c] = "sending"]
  /\ backlog' = Append(backlog, c)
  /\ srvEnd' = [srvEnd EXCEPT ![c] = "open"]
  /\ UNCHANGED <<listening, up, down, typed, answer>>

ConnectRefused(c) ==
  /\ client[c] = "start"
  /\ ~listening
  /\ client' = [client EXCEPT ![c] = "refused"]
  /\ UNCHANGED <<netVars, typed, answer>>

\* write() to a connection whose other end is closed raises SIGPIPE, whose
\* default action ends the process before write() can return -1.
Write(c, unit, next) ==
  IF srvEnd[c] = "closed"
    THEN /\ client' = [client EXCEPT ![c] = "killed"]
         /\ UNCHANGED up
    ELSE /\ client' = [client EXCEPT ![c] = next]
         /\ up' = [up EXCEPT ![c] = Append(up[c], unit)]

SendNumber(c) ==
  /\ client[c] = "sending"
  /\ Paced => up[c] = <<>>
  /\ \E n \in Summands \cup {0} :
       /\ n # 0 => Len(typed[c]) < MAX_SENDS
       /\ Write(c, n, IF n = 0 THEN "request" ELSE "sending")
       /\ typed' = IF n = 0 THEN typed ELSE [typed EXCEPT ![c] = Append(@, n)]
  /\ UNCHANGED <<listening, backlog, srvEnd, down, answer>>

SendRES(c) ==
  /\ client[c] = "request"
  /\ Write(c, RES_DATA, "waiting")
  /\ UNCHANGED <<listening, backlog, srvEnd, down, typed, answer>>

\* The read returns the result, or nothing once the server's end is closed.
ReadAnswer(c) ==
  /\ client[c] = "waiting"
  /\ down[c] # <<>> \/ srvEnd[c] = "closed"
  /\ client' = [client EXCEPT ![c] = "done"]
  /\ answer' = [answer EXCEPT ![c] = down[c]]
  /\ down' = [down EXCEPT ![c] = <<>>]
  /\ UNCHANGED <<listening, backlog, srvEnd, up, typed>>

\* The user interrupts the program.
Crash(c) ==
  /\ c \in Crashing
  /\ client[c] \in Connected
  /\ client' = [client EXCEPT ![c] = "killed"]
  /\ UNCHANGED <<netVars, typed, answer>>

ClientStep(c) ==
  Connect(c) \/ ConnectRefused(c) \/ SendNumber(c) \/ SendRES(c)
    \/ ReadAnswer(c) \/ Crash(c)

-----------------------------------------------------------------------------
(* What a server does for these clients, whichever it is.                  *)

\* What a server has told a client, read or not yet read.
Told(c) == IF answer[c] = <<>> THEN down[c] ELSE answer[c]

\* A client whose user types no faster than the server reads is told the sum
\* of all the numbers the user typed.
PacedAnswerIsSum ==
  Paced => \A c \in Clients :
    answer[c] # <<>> => answer[c] = <<SumOf(typed[c])>>

\* The inductive invariant behind it.  While the user types, at most one number
\* is unread, and the total lacks that number only; from the 0 on the total is
\* the sum, as long as the connection is open and in what the client was told.
PacedInv ==
  Paced => \A c \in Clients :
    /\ client[c] = "start" => typed[c] = <<>> /\ up[c] = <<>>
    /\ client[c] = "sending" /\ srvEnd[c] = "open" =>
         \/ up[c] = <<>> /\ credited[c] = SumOf(typed[c])
         \/ \E n \in Summands : /\ up[c] = <<n>>
                                /\ IntAdd(credited[c], n) = SumOf(typed[c])
    /\ client[c] \in {"request", "waiting"} /\ srvEnd[c] = "open" =>
         credited[c] = SumOf(typed[c])
    /\ client[c] \in {"request", "waiting", "done"} /\ Told(c) # <<>> =>
         credited[c] = SumOf(typed[c])

\* The client of an open connection has sent its 0, and that is not what the
\* next read returns.
ZeroWasRead(c) ==
  /\ client[c] \in {"request", "waiting"} /\ srvEnd[c] = "open"
  /\ ~(up[c] # <<>> /\ up[c][1] = 0)

\* The server is a summing service: it adds to each connection's own total
\* only, tells it once and no sooner than it closes, and after that adds no
\* more.
Service == INSTANCE SumService WITH
             conn <- srvEnd, total <- credited,
             result <- [c \in Clients |-> Told(c)]
ImplementsService == Service!ServiceSpec

=============================================================================
