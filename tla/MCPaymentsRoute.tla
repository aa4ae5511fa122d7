-------------------------- MODULE MCPaymentsRoute --------------------------
(***************************************************************************)
(* Instances of PaymentsRoute for TLC: one key and one client address.     *)
(***************************************************************************)
EXTENDS PaymentsRoute, TLC

CONSTANTS r1, r2, r3, f1, f2, bad, m1, m2, m3

(* Two bodies that differ under metadata only, one with other fields, and  *)
(* one that is not valid.                                                  *)
MCBodies == [fields : {f1}, metadata : {m1, m2}]
                \cup [fields : {f2, bad}, metadata : {m3}]

SameRequests == Permutations(Requests) \cup Permutations({m1, m2})

(* Bodies with different fields, one of them not valid.  A second body     *)
(* with the same fields takes no step that the first does not: nothing in  *)
(* the route looks at metadata.                                            *)
FieldBodies == [fields : {f1, f2, bad}, metadata : {m1}]

SameFields == Permutations(Requests) \cup Permutations({f1, f2})
=============================================================================
