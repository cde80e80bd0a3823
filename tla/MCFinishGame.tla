----------------------------- MODULE MCFinishGame -----------------------------
(***************************************************************************)
(* Two rated games that share a player, the first a match of a tournament  *)
(* whose timer expires as well; a guest's game; entries delivered twice.   *)
(***************************************************************************)
EXTENDS FinishGame, TLC

CONSTANTS a, b, c, guest, g1, g2, g3, e1, e1Again, e1Expired, e2, e3, e3Again

WhiteOf == g1 :> a @@ g2 :> b @@ g3 :> a
BlackOf == g1 :> b @@ g2 :> c @@ g3 :> guest
EntryOf == e1 :> g1 @@ e1Again :> g1 @@ e1Expired :> g1 @@ e2 :> g2 @@ e3 :> g3 @@ e3Again :> g3

MCWhite == [g \in Games |-> WhiteOf[g]]
MCBlack == [g \in Games |-> BlackOf[g]]
MCEntryGame == [e \in Entries |-> EntryOf[e]]
=============================================================================
