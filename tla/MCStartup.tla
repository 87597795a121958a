----------------------------- MODULE MCStartup ------------------------------
(***************************************************************************)
(* Small instance of Startup for TLC.                                      *)
(***************************************************************************)
EXTENDS Startup
=============================================================================
