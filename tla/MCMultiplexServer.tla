-------------------------- MODULE MCMultiplexServer --------------------------
(***************************************************************************)
(* MultiplexServer on small instances.  The clients are interchangeable.   *)
(***************************************************************************)
EXTENDS MultiplexServer

CONSTANTS c1, c2, c3

ClientSymmetry == Permutations({c1, c2, c3})
=============================================================================
