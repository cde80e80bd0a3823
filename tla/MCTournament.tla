----------------------------- MODULE MCTournament -----------------------------
(***************************************************************************)
(* The tournaments that are checked, all of four users of whom two share a *)
(* rating.  White wins where both results of every game, together with the *)
(* number of rounds or of failures, are too many.                          *)
(***************************************************************************)
EXTENDS Tournament

Ratings == [u \in Users |-> IF u = 3 THEN 1 ELSE u]

Two  == <<1, 2>>
Four == <<3, 1, 2, 4>>

Undisturbed == [ruleset |-> "Swiss", rounds |-> 0, movers |-> {},
                results |-> {"WhiteWin", "BlackWin"}, slots |-> {1},
                failures |-> 0, lost |-> 0, repeats |-> 0]

WhiteWins == [Undisturbed EXCEPT !.results = {"WhiteWin"}]

\* A knockout whose last player comes and goes, with all that may go wrong.
Knockout == [Undisturbed EXCEPT !.ruleset = "Knockout", !.rounds = 2, !.movers = {4},
                 !.slots = {1, 2, 3}, !.failures = 1, !.lost = 1, !.repeats = 1]

AllCourses == {
    Knockout,
    Undisturbed,
    [WhiteWins EXCEPT !.ruleset = "RoundRobin"],
    [WhiteWins EXCEPT !.slots = {1, 2}, !.failures = 1, !.repeats = 1]}

FinalOfTwo == {[Undisturbed EXCEPT !.ruleset = "Knockout", !.rounds = 1, !.slots = {1, 2}]}
===============================================================================
