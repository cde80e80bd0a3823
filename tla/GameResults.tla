------------------------------ MODULE GameResults -----------------------------
(***************************************************************************)
(* What the record of finished games promises: a game is recorded at most  *)
(* once, and in the same step the ratings of its two players move on from  *)
(* the ratings they had.  A rating is the set of the games it counts, so   *)
(* that a lost or a doubled rating update shows.  FinishGame implements    *)
(* this with concurrent, repeated and failing transactions.                *)
(***************************************************************************)
EXTENDS RatedGames

VARIABLES
    replays,    \* games in the replays table
    elo,        \* user_mode_elos.elo: the games the rating of each account counts
    played      \* user_mode_elos.wins + losses

store == <<replays, elo, played>>

Init ==
    /\ replays = {}
    /\ elo = Unrated
    /\ played = [u \in Accounts |-> 0]

Record(g) ==
    /\ g \notin replays
    /\ replays' = replays \cup {g}
    /\ elo' = [u \in Accounts |-> IF u \in Rated(g) THEN elo[u] \cup {g} ELSE elo[u]]
    /\ played' = [u \in Accounts |-> IF u \in Rated(g) THEN played[u] + 1 ELSE played[u]]

Next == \E g \in Games : Record(g)

Spec == Init /\ [][Next]_store
=============================================================================
