----------------------------- MODULE SumService -----------------------------
(***************************************************************************)
(* What both summing servers promise: each connection has a total of its   *)
(* own, is told it once, when nothing is added any more, and is closed     *)
(* only after that, unless the service stops for everybody.                *)
(***************************************************************************)
EXTENDS Integers

CONSTANTS Clients, INT_HALF

VARIABLES
  conn,            \* "none", "open" or "closed", for each client
  total,           \* the sum of each connection so far
  result           \* what each connection was told: at most one number

serviceVars == <<conn, total, result>>

ServiceInit ==
  /\ conn   = [c \in Clients |-> "none"]
  /\ total  = [c \in Clients |-> 0]
  /\ result = [c \in Clients |-> <<>>]

Join(c) ==
  /\ conn[c] = "none"
  /\ conn' = [conn EXCEPT ![c] = "open"]
  /\ UNCHANGED <<total, result>>

\* Adding some int, with overflow, may lead to any int.
Add(c) ==
  /\ conn[c] = "open"
  /\ result[c] = <<>>
  /\ \E n \in -INT_HALF .. (INT_HALF - 1) : total' = [total EXCEPT ![c] = n]
  /\ UNCHANGED <<conn, result>>

Tell(c) ==
  /\ conn[c] = "open"
  /\ result[c] = <<>>
  /\ result' = [result EXCEPT ![c] = <<total[c]>>]
  /\ UNCHANGED <<conn, total>>

Part(c) ==
  /\ conn[c] = "open"
  /\ result[c] # <<>>
  /\ conn' = [conn EXCEPT ![c] = "closed"]
  /\ UNCHANGED <<total, result>>

Stop ==
  /\ conn' = [c \in Clients |-> IF conn[c] = "open" THEN "closed" ELSE conn[c]]
  /\ UNCHANGED <<total, result>>

ServiceNext ==
  Stop \/ \E c \in Clients : Join(c) \/ Add(c) \/ Tell(c) \/ Part(c)

ServiceSpec == ServiceInit /\ [][ServiceNext]_serviceVars

=============================================================================
