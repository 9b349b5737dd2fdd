---------------------------- MODULE MCDevServer ----------------------------
(***************************************************************************)
(* Small instances of DevServer.                                           *)
(***************************************************************************)
EXTENDS DevServer, TLC
=============================================================================
