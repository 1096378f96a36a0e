---------------------------- MODULE MCInfoServer ----------------------------
(* InfoServer on small instances.                                          *)
EXTENDS InfoServer
CONSTANTS c1, c2, c3, c4
ClientSymmetry == Permutations({c1, c2, c3, c4})
=============================================================================
