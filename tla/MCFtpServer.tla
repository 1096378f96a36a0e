----------------------------- MODULE MCFtpServer -----------------------------
(* FtpServer on small instances.                                           *)
EXTENDS FtpServer
CONSTANTS c1, c2, c3
=============================================================================
