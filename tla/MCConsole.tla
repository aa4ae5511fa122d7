----------------------------- MODULE MCConsole -----------------------------
(***************************************************************************)
(* Instances of Console for TLC.                                           *)
(***************************************************************************)
EXTENDS Console

CONSTANTS p1, p2

MCSubmissions == 1..3
MCPolls == 1..2
=============================================================================
