------------------------------ MODULE RouteBag ------------------------------
(***************************************************************************)
(* What a routing table promises its callers: a bounded collection of      *)
(* routes, the same one possibly several times, in no particular order.    *)
(* Its constants are those of RoutingTable, with their assumption.         *)
(***************************************************************************)
EXTENDS Integers

CONSTANTS
  Routes,                  \* the contents of a RouteEntry
  Destinations,
  destination,             \* the destination field of each
  MAX_ROUTE_TABLE_ENTRY    \* 10 in the code

VARIABLES
  count,                   \* how many times each route is in the table
  size,                    \* how many there are in all
  ret                      \* what the last call returned

bagVars == <<count, size, ret>>

BagInit ==
  /\ count = [r \in Routes |-> 0]
  /\ size = 0
  /\ ret = 0

\* A full table takes no route.
Add(r) ==
  \/ /\ size < MAX_ROUTE_TABLE_ENTRY
     /\ count' = [count EXCEPT ![r] = @ + 1]
     /\ size' = size + 1
     /\ ret' = 1
  \/ /\ size = MAX_ROUTE_TABLE_ENTRY
     /\ ret' = 0
     /\ UNCHANGED <<count, size>>

Unknown(d) == \A r \in Routes : destination[r] = d => count[r] = 0

\* One route to d, whichever, becomes r.
Update(d, r) ==
  \/ /\ \E old \in Routes :
          /\ destination[old] = d /\ count[old] > 0
          /\ count' = [[count EXCEPT ![old] = @ - 1] EXCEPT ![r] = @ + 1]
     /\ ret' = 1
     /\ UNCHANGED size
  \/ Unknown(d) /\ ret' = 0 /\ UNCHANGED <<count, size>>

\* One route to d, whichever, disappears.
Delete(d) ==
  \/ /\ \E old \in Routes :
          /\ destination[old] = d /\ count[old] > 0
          /\ count' = [count EXCEPT ![old] = @ - 1]
     /\ size' = size - 1
     /\ ret' = 1
  \/ Unknown(d) /\ ret' = 0 /\ UNCHANGED <<count, size>>

Reset ==
  /\ count' = [r \in Routes |-> 0]
  /\ size' = 0
  /\ UNCHANGED ret

BagNext ==
  \/ Reset
  \/ \E r \in Routes : Add(r)
  \/ \E d \in Destinations : Delete(d) \/ \E r \in Routes : Update(d, r)

BagSpec == BagInit /\ [][BagNext]_bagVars

=============================================================================
