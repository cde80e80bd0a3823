---------------------------- MODULE MCActiveUsers ----------------------------
(* A user with two pages, and a viewer of the counts.                        *)
EXTENDS ActiveUsers, TLC

CONSTANTS a, p1, p2

MCUserOf == p1 :> a @@ p2 :> a
=============================================================================
