------------------------------- MODULE RatedGames -----------------------------
(* The games whose results are recorded, and whose ratings they move.        *)
EXTENDS Naturals

CONSTANTS
    Games,
    Accounts,       \* registered users: ratings are theirs only
    Guests,
    White, Black    \* the two players of each game

Players == Accounts \cup Guests

ASSUME PlayersAssumption ==
    /\ Accounts \cap Guests = {}
    /\ White \in [Games -> Players]
    /\ Black \in [Games -> Players]
    /\ \A g \in Games : White[g] # Black[g]

\* The accounts a result is rated for: none when a guest has played.
Rated(g) ==
    IF White[g] \in Accounts /\ Black[g] \in Accounts THEN {White[g], Black[g]} ELSE {}

Unrated == [u \in Accounts |-> {}]
=============================================================================
