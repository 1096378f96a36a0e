---------------------------- MODULE MCSumServers ----------------------------
(* SumServers on small instances.                                          *)
EXTENDS SumServers
CONSTANTS c1, c2
=============================================================================
