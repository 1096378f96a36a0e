--------------------------- MODULE MCRoutingServer ---------------------------
(* RoutingServer on small instances.                                       *)
EXTENDS RoutingServer, TLC
CONSTANTS v1, u1, u2, r0, r1, r2, bad, d

OneDestination == r0 :> d @@ r1 :> d @@ r2 :> d @@ bad :> d
TwoLengths == r1 :> 1 @@ r2 :> 2
=============================================================================
