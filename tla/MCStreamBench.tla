--------------------------- MODULE MCStreamBench ----------------------------
(***************************************************************************)
(* Small instance of StreamBench for TLC.                                  *)
(***************************************************************************)
EXTENDS StreamBench

\* Two sessions, then the first alone with more chunks than it has room for.
TwoScenarios == <<[sessions |-> 2, offered |-> 4], [sessions |-> 1, offered |-> 3]>>
=============================================================================
