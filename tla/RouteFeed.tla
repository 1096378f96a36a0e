------------------------------ MODULE RouteFeed ------------------------------
(***************************************************************************)
(* What the routing server promises those who look at its routes: there is *)
(* one list, which only grows, at its end, and every screen goes from one  *)
(* version of it to a later one.                                           *)
(***************************************************************************)
EXTENDS Integers

CONSTANTS Clients, Routes, FirstRoute, MAX_ROUTE_TABLE_ENTRY

VARIABLES
  list,            \* the routes, numbered from 0
  screen           \* the version each client shows

feedVars == <<list, screen>>

\* The list as it was when it had k routes.
Version(k) == [n \in 0 .. (k - 1) |-> list[n]]

FeedInit ==
  /\ list = [n \in {0} |-> FirstRoute]
  /\ screen = [c \in Clients |-> [n \in {} |-> FirstRoute]]

Grow(r) ==
  /\ \E k \in 0 .. (MAX_ROUTE_TABLE_ENTRY - 1) :
       /\ DOMAIN list = 0 .. (k - 1)
       /\ list' = [n \in 0 .. k |-> IF n < k THEN list[n] ELSE r]
  /\ UNCHANGED screen

Show(c) ==
  /\ \E k \in 0 .. MAX_ROUTE_TABLE_ENTRY :
       /\ DOMAIN screen[c] \subseteq 0 .. (k - 1)
       /\ 0 .. (k - 1) \subseteq DOMAIN list
       /\ screen' = [screen EXCEPT ![c] = Version(k)]
  /\ UNCHANGED list

FeedNext == (\E r \in Routes : Grow(r)) \/ (\E c \in Clients : Show(c))

FeedSpec == FeedInit /\ [][FeedNext]_feedVars

=============================================================================
