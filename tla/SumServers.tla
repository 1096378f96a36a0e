----------------------------- MODULE SumServers -----------------------------
(***************************************************************************)
(* One client program, two servers.  multiplex/server.c binds the name     *)
(* that the client of SumClient connects to; basic-server/server.c binds   *)
(* another, but speaks the same protocol.  Here either of them was started *)
(* under the name that the client uses.                                    *)
(***************************************************************************)
EXTENDS MultiplexServer, BasicServer

VARIABLE server              \* the program that was started

onlyMultiplex == <<monitor_fd_set, client_result, readfds, pc, i, fdVars, console>>
sumVars       == <<server, basicVars, vars>>

\* The variables of the server that was not started are of no consequence.
SumInit ==
  /\ Init
  /\ \/ server = "multiplex" /\ BasicGone
     \/ server = "basic" /\ BasicIdle

RunServer ==
  \/ server = "multiplex" /\ ServerStep /\ UNCHANGED basicVars
  \/ server = "basic" /\ BasicStep /\ UNCHANGED onlyMultiplex

RunClient(step) == step /\ UNCHANGED <<serverVars, console, basicVars>>

SumNext ==
  /\ UNCHANGED server
  /\ \/ RunServer
     \/ \E c \in Clients : RunClient(ClientStep(c))

\* The kernel runs a process that can run.
SumSpec ==
  /\ SumInit /\ [][SumNext]_sumVars
  /\ WF_sumVars(RunServer /\ UNCHANGED server)
  /\ \A c \in Clients :
       /\ WF_sumVars(RunClient(SendRES(c)) /\ UNCHANGED server)
       /\ WF_sumVars(RunClient(ReadAnswer(c)) /\ UNCHANGED server)

-----------------------------------------------------------------------------
(* Properties.                                                             *)

\* Somebody holds the iterative server up: it reads from a user who has not
\* typed the 0.
HeldUp == data_socket # NoClient /\ client[data_socket] = "sending"

\* With users who wait until their last number was read, a client that has
\* asked for its result is not left waiting: never by the multiplexing server,
\* whatever the other users do, and not by the iterative one unless from some
\* time on the user being served stops typing for good.
RequestEnds ==
  []<>~HeldUp =>
    \A c \in Clients :
      client[c] \in {"request", "waiting"} ~> client[c] \in {"done", "killed"}

\* The inductive invariant of the two programs.  What BasicServer says of the
\* connections holds of the multiplexing server's as well.
SumInv ==
  /\ PacedInv
  /\ BInv
  /\ server = "multiplex" => BasicGone /\ IInv /\ ZeroIsAnswered
  /\ server = "basic" => BasicZeroIsAnswered
=============================================================================
