---------------------------- MODULE RoutingTable ----------------------------
(***************************************************************************)
(* multiplex-routinginfo/routing_table.c: an array of MAX_ROUTE_TABLE_ENTRY *)
(* entries of which the first table_size are in use, and a change flag.    *)
(* A call returns 1 or 0, kept in ret.                                     *)
(***************************************************************************)
EXTENDS Integers, FiniteSets

CONSTANTS
  Routes, Destinations, destination,
  NoRoute,                 \* the bytes of an entry that was never written
  MAX_ROUTE_TABLE_ENTRY

ASSUME RoutingTableAssumption ==
  /\ destination \in [Routes -> Destinations]
  /\ NoRoute \notin Routes
  /\ MAX_ROUTE_TABLE_ENTRY \in Nat \ {0}

VARIABLES routing_table, table_size, table_change_flag, ret

tableVars == <<routing_table, table_size, table_change_flag>>

Entries == 0 .. (MAX_ROUTE_TABLE_ENTRY - 1)
InUse   == {n \in Entries : n < table_size}

TableTypeOK ==
  /\ routing_table \in [Entries -> Routes \cup {NoRoute}]
  /\ table_size \in 0 .. MAX_ROUTE_TABLE_ENTRY
  /\ table_change_flag \in {0, 1}
  /\ ret \in {0, 1}

TableInit ==
  /\ routing_table = [n \in Entries |-> NoRoute]
  /\ table_size = 0
  /\ table_change_flag = 0
  /\ ret = 0

\* The entries themselves are left as they are.
init_routing_table ==
  /\ table_size' = 0
  /\ table_change_flag' = 0
  /\ UNCHANGED <<routing_table, ret>>

\* Mutant: a table that is full one entry early.
FullEarly == table_size < MAX_ROUTE_TABLE_ENTRY - 1
HasRoom == table_size < MAX_ROUTE_TABLE_ENTRY

\* Mutant: the new entry is written over the last one.
AddOverLast(new_entry) ==
  /\ HasRoom
  /\ routing_table' = [routing_table EXCEPT ![table_size - 1] = new_entry]
  /\ table_size' = table_size + 1
  /\ ret' = 1
  /\ UNCHANGED table_change_flag

add_route(new_entry) ==
  \/ /\ HasRoom
     /\ routing_table' = [routing_table EXCEPT ![table_size] = new_entry]
     /\ table_size' = table_size + 1
     /\ ret' = 1
     /\ UNCHANGED table_change_flag
  \/ /\ ~HasRoom
     /\ ret' = 0
     /\ UNCHANGED tableVars

\* Entry n is the one the loops over the table find for destination d.
FindsRoute(d, n) ==
  /\ n \in InUse
  /\ destination[routing_table[n]] = d
  /\ \A m \in InUse : m < n => destination[routing_table[m]] # d

NoRouteTo(d) == ~ \E n \in Entries : FindsRoute(d, n)

update_route(d, updated_entry) ==
  \/ /\ \E n \in Entries :
          /\ FindsRoute(d, n)
          /\ routing_table' = [routing_table EXCEPT ![n] = updated_entry]
     /\ ret' = 1
     /\ UNCHANGED <<table_size, table_change_flag>>
  \/ /\ NoRouteTo(d)
     /\ ret' = 0
     /\ UNCHANGED tableVars

LastUsed == table_size - 1

\* The last entry is moved into the place of the deleted one.
delete_route(d) ==
  \/ /\ \E n \in Entries :
          /\ FindsRoute(d, n)
          /\ routing_table' = [routing_table EXCEPT ![n] = routing_table[LastUsed]]
     /\ table_size' = table_size - 1
     /\ ret' = 1
     /\ UNCHANGED table_change_flag
  \/ /\ NoRouteTo(d)
     /\ ret' = 0
     /\ UNCHANGED tableVars

check_table_change == table_change_flag

reset_table_changed ==
  /\ table_change_flag' = 0
  /\ UNCHANGED <<routing_table, table_size, ret>>

TableNext ==
  \/ init_routing_table \/ reset_table_changed
  \/ \E r \in Routes : add_route(r)
  \/ \E d \in Destinations : delete_route(d) \/ \E r \in Routes : update_route(d, r)

TableSpec == TableInit /\ [][TableNext]_<<tableVars, ret>>

-----------------------------------------------------------------------------
(* Properties.                                                             *)

\* The used entries are routes somebody stored, never bytes from before.
UsedAreRoutes == \A n \in InUse : routing_table[n] \in Routes

Times(r) == Cardinality({n \in InUse : routing_table[n] = r})

\* The array with its append, first match and move of the last entry behaves
\* as an unordered bounded collection: no call loses, duplicates or invents a
\* route, and each call's result says whether it did anything.
Bag == INSTANCE RouteBag WITH
         count <- [r \in Routes |-> Times(r)], size <- table_size
ImplementsBag == Bag!BagSpec

Listing == [n \in InUse |-> routing_table[n]]
=============================================================================
