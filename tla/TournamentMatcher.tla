--------------------------- MODULE TournamentMatcher --------------------------
(***************************************************************************)
(* The matchmaking of the three rulesets.  A match is a record of its      *)
(* round, its players and the result of its replay ("None" without one);   *)
(* the matches of a tournament are ordered by round and insertion.         *)
(***************************************************************************)
EXTENDS Naturals, SequencesExt

CONSTANTS
    Users,      \* user ids: ties are broken by them
    Elo         \* ratings, here of the whole tournament

ASSUME RatingsAssumption ==
    /\ Users \subseteq Nat \ {0}
    /\ Elo \in [Users -> Nat]

NoWinner == 0

Pairing(white, black) == [white |-> white, black |-> black]

-----------------------------------------------------------------------------
(* The first round.                                                          *)

KnockoutParticipants(rounds) == 2 ^ rounds

\* int32(math.Log2(n)); of no participants, a number below one.
SwissRounds(n) == IF n = 0 THEN 0 ELSE CHOOSE k \in 0 .. n : 2 ^ k <= n /\ n < 2 ^ (k + 1)

CanStart(ruleset, participants, rounds) ==
    IF ruleset = "Knockout" THEN Len(participants) = KnockoutParticipants(rounds)
    ELSE Len(participants) % 2 = 0

TotalRounds(ruleset, n, rounds) ==
    CASE ruleset = "Knockout" -> rounds
      [] ruleset = "RoundRobin" -> (n * (n - 1)) \div 2
      [] ruleset = "Swiss" -> SwissRounds(n)

Linearly(participants) ==
    [i \in 1 .. Len(participants) \div 2 |-> Pairing(participants[2 * i - 1], participants[2 * i])]

\* Users by a score of theirs, the best first, equal ones by id.
Before(u, v, score) == score[u] > score[v] \/ (score[u] = score[v] /\ u < v)

Ahead(u, users, score) == {v \in users : Before(v, u, score)}

Ranked(users, score) ==
    [k \in 1 .. Cardinality(users) |->
        CHOOSE u \in users : Cardinality(Ahead(u, users, score)) = k - 1]

\* The best player meets the worst.
CrissCross(participants) ==
    LET sorted == Ranked(ToSet(participants), Elo)
        n == Len(sorted)
    IN  [i \in 1 .. n \div 2 |-> Pairing(sorted[i], sorted[n + 1 - i])]

NewFirstMatches(ruleset, participants) ==
    IF ruleset = "Swiss" THEN CrissCross(participants) ELSE Linearly(participants)

-----------------------------------------------------------------------------
(* The rounds that follow.                                                   *)

\* Matches are ordered by round: those of the last one are at the end.
PrevRound(matches) ==
    LET first == Min({i \in DOMAIN matches : matches[i].round = Last(matches).round})
    IN  SubSeq(matches, first, Len(matches))

\* A draw goes to the higher rating, or else to White.
KnockoutWinner(m) ==
    IF m.result = "WhiteWin" \/ (m.result = "Draw" /\ Elo[m.white] >= Elo[m.black])
    THEN m.white ELSE m.black

DoKnockoutMatchmaking(matches) ==
    LET prev == PrevRound(matches)
    IN  [i \in 1 .. Len(prev) \div 2 |->
            Pairing(KnockoutWinner(prev[2 * i - 1]), KnockoutWinner(prev[2 * i]))]

\* Mutant: the first match is not part of the rotation.
MutDoRoundRobinMatchmaking(matches) ==
    LET prev == PrevRound(matches)
    IN  [i \in 1 .. Len(prev) |->
            IF i = 1 THEN Pairing(prev[1].white, prev[1].black)
            ELSE Pairing(prev[i - 1].black, prev[i].white)]

\* White of the first match stays where he is, the others move on by one.
DoRoundRobinMatchmaking(matches) ==
    LET prev == PrevRound(matches)
    IN  [i \in 1 .. Len(prev) |->
            IF i = 1 THEN Pairing(prev[1].white, Last(prev).black)
            ELSE Pairing(prev[i - 1].black, prev[i].white)]

PlayersOf(matches) == UNION {{matches[i].white, matches[i].black} : i \in DOMAIN matches}

Points(matches, u, white, black) ==
    Cardinality({i \in DOMAIN matches :
                    \/ matches[i].white = u /\ matches[i].result = white
                    \/ matches[i].black = u /\ matches[i].result = black})

Wins(matches, u) == Points(matches, u, "WhiteWin", "BlackWin")

\* Twice the score of the Swiss table.
SwissScore(matches, u) == 2 * Wins(matches, u) + Points(matches, u, "Draw", "Draw")

DoSwissMatchmaking(matches) ==
    LET sorted == Ranked(PlayersOf(matches), [u \in PlayersOf(matches) |-> SwissScore(matches, u)])
    IN  [i \in 1 .. Len(sorted) \div 2 |-> Pairing(sorted[2 * i - 1], sorted[2 * i])]

\* The checks of DoMatchmaking: there are matches, and for a knockout their
\* number, over all rounds, is even.
CanGoOn(ruleset, matches) ==
    /\ matches # <<>>
    /\ ruleset = "Knockout" => Len(matches) % 2 = 0

DoMatchmaking(ruleset, matches) ==
    CASE ruleset = "Knockout" -> DoKnockoutMatchmaking(matches)
      [] ruleset = "RoundRobin" -> DoRoundRobinMatchmaking(matches)
      [] ruleset = "Swiss" -> DoSwissMatchmaking(matches)

Score(ruleset, matches, u) ==
    IF ruleset = "RoundRobin" THEN Wins(matches, u) ELSE SwissScore(matches, u)

\* Mutant: only the last round counts.
MutTournamentWinners(ruleset, matches) ==
    LET prev == PrevRound(matches) IN
    IF ruleset = "Knockout" THEN {KnockoutWinner(Last(matches))}
    ELSE {u \in PlayersOf(prev) :
             \A v \in PlayersOf(prev) : Score(ruleset, prev, u) >= Score(ruleset, prev, v)}

\* Who may win.  Ratings move with every game: the tiebreaker (the sum of the
\* ratings that a tied player has beaten) may choose any of the tied players.
TournamentWinners(ruleset, matches) ==
    IF ruleset = "Knockout" THEN {KnockoutWinner(Last(matches))}
    ELSE {u \in PlayersOf(matches) :
             \A v \in PlayersOf(matches) : Score(ruleset, matches, u) >= Score(ruleset, matches, v)}
=============================================================================
