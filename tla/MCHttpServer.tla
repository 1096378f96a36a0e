---------------------------- MODULE MCHttpServer ----------------------------
(* HttpServer on small instances.                                          *)
EXTENDS HttpServer
CONSTANTS c1, c2, c3
=============================================================================
