---------------------------- MODULE MCLongBench -----------------------------
(***************************************************************************)
(* A small instance of LongBench for TLC.                                  *)
(***************************************************************************)
EXTENDS LongBench

OneOffset == <<0>>
=============================================================================
