--------------------------- MODULE MCRoutingTable ---------------------------
(* RoutingTable with four routes to two destinations.                      *)
EXTENDS RoutingTable, TLC
CONSTANTS r1, r2, r3, r4, d1, d2
TwoDestinations == r1 :> d1 @@ r2 :> d1 @@ r3 :> d2 @@ r4 :> d2
=============================================================================
