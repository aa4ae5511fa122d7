-------------------------- MODULE MCServerProcess --------------------------
(***************************************************************************)
(* Instances of ServerProcess for TLC.                                     *)
(***************************************************************************)
EXTENDS ServerProcess

CONSTANTS c1, c2, d1, s1, s2
=============================================================================
