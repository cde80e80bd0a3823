----------------------------- MODULE MCGameSocket -----------------------------
(***************************************************************************)
(* Two clients of a game on different servers.                             *)
(***************************************************************************)
EXTENDS GameSocket

CONSTANTS s1, s2, r1, r2

TwoServers == s1 :> r1 @@ s2 :> r2

OneInput == {<<s1, 1>>}

OneBreak == r1 :> 0 @@ r2 :> 1
===============================================================================
