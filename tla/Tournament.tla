------------------------------- MODULE Tournament -----------------------------
(***************************************************************************)
(* One tournament: its lobby, the jobs that advance it, the games of its   *)
(* matches and the results that come back.  Transactions on Postgres are   *)
(* serializable and are single steps; everything between them interleaves: *)
(* a job whose transaction has committed sets up the games one by one in   *)
(* Redis, may fail half way and is tried again with the same event id,     *)
(* while other games of the round end and insert further jobs.             *)
(***************************************************************************)
EXTENDS TournamentMatcher

CONSTANTS
    Creator,
    Lobby,          \* who has joined, in order, when we start looking
    MaxAttempts,    \* attempts of a job
    Jobs,           \* slots for the jobs that are queued at a time
    Courses         \* the tournaments we look at, and what may happen to each

\* How a tournament is created, who may still join or leave it, how its games
\* end, how many jobs are queued at a time, and bounds of what may go wrong.
Course == [ruleset  : {"Knockout", "RoundRobin", "Swiss"},
           rounds   : Nat,                      \* of a knockout
           movers   : SUBSET Users,
           results  : SUBSET {"WhiteWin", "BlackWin"},
           slots    : SUBSET Jobs,
           failures : Nat,
           lost     : Nat,
           repeats  : Nat]

ASSUME TournamentAssumption ==
    /\ Creator \in Users
    /\ Lobby \in Seq(Users) /\ IsInjective(Lobby)
    /\ Jobs \subseteq Nat /\ IsFiniteSet(Jobs) /\ MaxAttempts \in Nat \ {0}
    /\ \A c \in Courses : c \in Course /\ (c.ruleset = "Knockout" => c.rounds > 0)

VARIABLES
    course,
    status, rounds, winner,     \* the row of the tournament
    participants,               \* tournament_participants, by joined_on
    matches,                    \* tournament_matches, joined with replays
    keys,                       \* event keys: is it consumed, and which matches it created
    jobs,                       \* the jobs of the queue
    games,                      \* the game of each match, in Redis
    events,                     \* results on their way from the games
    failures, lost, repeats     \* what has gone wrong so far

row    == <<course, status, rounds, winner>>
faults == <<failures, lost, repeats>>
vars   == <<course, status, rounds, winner, participants, matches, keys, jobs, games,
            events, failures, lost, repeats>>

ruleset == course.ruleset

Statuses  == {"LOBBY", "SCHEDULED", "IN_PROGRESS", "FINISHED"}
JobStates == {"Free", "Available", "SetUp", "Discarded"}

NoJob == [state |-> "Free", attempt |-> 0, setUp |-> {}]
NoKey == [consumed |-> FALSE, creations |-> {}]

\* A job with a new event id.  The slot of a job that is over is used again:
\* nobody asks for its event id any more.
InsertJob ==
    LET free == {j \in course.slots : jobs[j].state = "Free"} IN
    /\ free # {}
    /\ jobs' = [jobs EXCEPT ![Min(free)] = [NoJob EXCEPT !.state = "Available"]]

Init ==
    /\ course \in Courses
    /\ status = "LOBBY"
    /\ rounds = (IF ruleset = "Knockout" THEN course.rounds ELSE 0)
    /\ winner = NoWinner
    /\ participants = Lobby
    /\ matches = <<>>
    /\ keys = [j \in Jobs |-> NoKey]
    /\ jobs = [j \in Jobs |-> NoJob]
    /\ games = <<>>
    /\ events = {}
    /\ failures = 0 /\ lost = 0 /\ repeats = 0

-----------------------------------------------------------------------------
(* The lobby.                                                                *)

JoinTournament(u) ==
    /\ status = "LOBBY"
    /\ ruleset = "Knockout" => Len(participants) < KnockoutParticipants(rounds)
    /\ u \notin ToSet(participants)
    /\ participants' = Append(participants, u)
    /\ UNCHANGED <<row, matches, keys, jobs, games, events, faults>>

\* Mutant: the status is not looked at.
MutLeaveTournament(u) ==
    /\ \E i \in DOMAIN participants :
          participants[i] = u /\ participants' = RemoveAt(participants, i)
    /\ UNCHANGED <<row, matches, keys, jobs, games, events, faults>>

LeaveTournament(u) ==
    /\ status = "LOBBY"
    /\ \E i \in DOMAIN participants :
          participants[i] = u /\ participants' = RemoveAt(participants, i)
    /\ UNCHANGED <<row, matches, keys, jobs, games, events, faults>>

\* Mutant: the countdown begins again when the tournament is running.
MutBeginTournamentCountdown(u) ==
    /\ status \in {"LOBBY", "IN_PROGRESS"}
    /\ u = Creator
    /\ status' = "SCHEDULED"
    /\ InsertJob
    /\ UNCHANGED <<course, rounds, winner, participants, matches, keys, games, events, faults>>

\* The job is due when the countdown ends.
BeginTournamentCountdown(u) ==
    /\ status = "LOBBY"
    /\ u = Creator
    /\ status' = "SCHEDULED"
    /\ InsertJob
    /\ UNCHANGED <<course, rounds, winner, participants, matches, keys, games, events, faults>>

-----------------------------------------------------------------------------
(* The jobs.                                                                 *)

SetJob(j, field, value) == jobs' = [jobs EXCEPT ![j][field] = value]

EndJob(j) ==
    /\ jobs' = [jobs EXCEPT ![j] = NoJob]
    /\ keys' = [keys EXCEPT ![j] = NoKey]

\* Mutant: only the last match is looked at.
MutAllCompleted(ms) == ms # <<>> => Last(ms).result # "None"

AllCompleted(ms) == \A i \in DOMAIN ms : ms[i].result # "None"

Created(j) == keys[j].creations

\* Mutant: the event keys are not consulted.
MutIsConsumed(j) == FALSE

IsConsumed(j) == keys[j].consumed

\* The event id has been consumed: its matches are taken up again.
TakeUpAgain(j) ==
    /\ jobs[j].state = "Available"
    /\ IsConsumed(j)
    /\ SetJob(j, "state", "SetUp")
    /\ UNCHANGED <<row, participants, matches, keys, games, events, faults>>

\* Mutant: the event key names one match too many.
MutInsertTournamentMatches(j, pairings, round, total, next, best) ==
    LET first == Len(matches) + 1
        count == Len(pairings)
    IN  /\ matches' = matches \o
              [i \in 1 .. count |-> [round |-> round, white |-> pairings[i].white,
                                     black |-> pairings[i].black, result |-> "None"]]
        /\ games' = games \o [i \in 1 .. count |-> "None"]
        /\ keys' = [keys EXCEPT ![j] = [consumed |-> TRUE, creations |-> first .. first + count]]
        /\ status' = next
        /\ rounds' = total
        /\ winner' = best
        /\ SetJob(j, "state", "SetUp")
        /\ UNCHANGED <<course, participants, events, faults>>

\* The batch of matches, the event key and the row of the tournament.
InsertTournamentMatches(j, pairings, round, total, next, best) ==
    LET first == Len(matches) + 1
        count == Len(pairings)
    IN  /\ matches' = matches \o
              [i \in 1 .. count |-> [round |-> round, white |-> pairings[i].white,
                                     black |-> pairings[i].black, result |-> "None"]]
        /\ games' = games \o [i \in 1 .. count |-> "None"]
        /\ keys' = [keys EXCEPT ![j] = [consumed |-> TRUE, creations |-> first .. first + count - 1]]
        /\ status' = next
        /\ rounds' = total
        /\ winner' = best
        /\ SetJob(j, "state", "SetUp")
        /\ UNCHANGED <<course, participants, events, faults>>

AdvanceScheduledTournament(j) ==
    /\ jobs[j].state = "Available"
    /\ ~IsConsumed(j)
    /\ status = "SCHEDULED"
    /\ CanStart(ruleset, participants, rounds)
    /\ InsertTournamentMatches(j, NewFirstMatches(ruleset, participants), 1,
          TotalRounds(ruleset, Len(participants), rounds), "IN_PROGRESS", winner)

\* After the last round the pairings of one more are inserted with the rest.
AdvanceInProgressTournament(j) ==
    /\ jobs[j].state = "Available"
    /\ ~IsConsumed(j)
    /\ status = "IN_PROGRESS"
    /\ AllCompleted(matches)
    /\ CanGoOn(ruleset, matches)
    /\ LET round == Last(matches).round + 1 IN
       \E pairings \in {DoMatchmaking(ruleset, matches)} :
           IF round > rounds
           THEN \E best \in TournamentWinners(ruleset, matches) :
                   InsertTournamentMatches(j, pairings, round, rounds, "FINISHED", best)
           ELSE InsertTournamentMatches(j, pairings, round, rounds, "IN_PROGRESS", winner)

\* A MatchInvariantError: the transaction is rolled back, the job cancelled.
CancelJob(j) ==
    /\ jobs[j].state = "Available"
    /\ ~IsConsumed(j)
    /\ CASE status = "SCHEDULED" -> ~CanStart(ruleset, participants, rounds)
         [] status = "IN_PROGRESS" -> ~AllCompleted(matches) \/ ~CanGoOn(ruleset, matches)
         [] OTHER -> TRUE
    /\ EndJob(j)
    /\ UNCHANGED <<row, participants, matches, games, events, faults>>

\* CreateGame sets the state of the game, whatever is stored under its id.
SetupGame(j, m) ==
    /\ jobs[j].state = "SetUp"
    /\ m \in Created(j) \ jobs[j].setUp
    /\ SetJob(j, "setUp", jobs[j].setUp \cup {m})
    /\ games' = [games EXCEPT ![m] = "Playing"]
    /\ UNCHANGED <<row, participants, matches, keys, events, faults>>

CompleteJob(j) ==
    /\ jobs[j].state = "SetUp"
    /\ jobs[j].setUp = Created(j)
    /\ EndJob(j)
    /\ UNCHANGED <<row, participants, matches, games, events, faults>>

\* Mutant: a failed job is not tried again.
MutFailJobForGood(j) ==
    /\ jobs[j].state \in {"Available", "SetUp"}
    /\ failures < course.failures
    /\ failures' = failures + 1
    /\ jobs' = [jobs EXCEPT ![j].state = "Discarded", ![j].setUp = {}]
    /\ UNCHANGED <<row, participants, matches, keys, games, events, lost, repeats>>

\* Any other error, a panic or a crash: the queue tries the job again.
FailJob(j) ==
    /\ jobs[j].state \in {"Available", "SetUp"}
    /\ failures < course.failures
    /\ failures' = failures + 1
    /\ jobs' = [jobs EXCEPT
          ![j].state = IF jobs[j].attempt + 1 < MaxAttempts THEN "Available" ELSE "Discarded",
          ![j].attempt = @ + 1,
          ![j].setUp = {}]
    /\ UNCHANGED <<row, participants, matches, keys, games, events, lost, repeats>>

-----------------------------------------------------------------------------
(* The games and their results.                                              *)

\* The players end their game; its result goes to the finish-game stream.
FinishGame(m) ==
    /\ games[m] = "Playing"
    /\ games' = [games EXCEPT ![m] = "Ended"]
    /\ \E result \in course.results :
          events' = events \cup {[match |-> m, result |-> result, step |-> "Record"]}
    /\ UNCHANGED <<row, participants, matches, keys, jobs, faults>>

\* The replay is inserted, unless the game has one.
RecordResult(e) ==
    /\ e \in events /\ e.step = "Record"
    /\ matches' = [matches EXCEPT ![e.match].result = IF @ = "None" THEN e.result ELSE @]
    /\ events' = (events \ {e}) \cup {[e EXCEPT !.step = "Publish"]}
    /\ UNCHANGED <<row, participants, keys, jobs, games, faults>>

\* A job with a new event id, due at once.
PublishTournamentEvent(e) ==
    /\ e \in events /\ e.step = "Publish"
    /\ InsertJob
    /\ events' = events \ {e}
    /\ UNCHANGED <<row, participants, matches, keys, games, faults>>

\* The handler of the entry fails: it is not handled again.
LoseEvent(e) ==
    /\ e \in events
    /\ lost < course.lost
    /\ lost' = lost + 1
    /\ events' = events \ {e}
    /\ UNCHANGED <<row, participants, matches, keys, jobs, games, failures, repeats>>

\* The timer of a finished game expires: its result is handled again.
RepeatEvent(m) ==
    /\ matches[m].result # "None"
    /\ repeats < course.repeats
    /\ repeats' = repeats + 1
    /\ InsertJob
    /\ UNCHANGED <<row, participants, matches, keys, games, events, failures, lost>>

-----------------------------------------------------------------------------
AdvanceTournament(j) ==
    \/ TakeUpAgain(j)
    \/ AdvanceScheduledTournament(j)
    \/ AdvanceInProgressTournament(j)
    \/ CancelJob(j)

WorkJob(j) ==
    \/ AdvanceTournament(j)
    \/ \E m \in DOMAIN games : SetupGame(j, m)
    \/ CompleteJob(j)

HandleFinishedGame(e) == RecordResult(e) \/ PublishTournamentEvent(e)

Next ==
    \/ \E u \in course.movers : JoinTournament(u) \/ LeaveTournament(u)
    \/ \E u \in Users : BeginTournamentCountdown(u)
    \/ \E j \in Jobs : WorkJob(j) \/ FailJob(j)
    \/ \E m \in DOMAIN matches : FinishGame(m) \/ RepeatEvent(m)
    \/ \E e \in events : HandleFinishedGame(e) \/ LoseEvent(e)

Spec == Init /\ [][Next]_vars

\* The queue works its jobs, the players end their games, and the consumer
\* handles what is published.
Progress ==
    \/ \E j \in Jobs : WorkJob(j)
    \/ \E m \in DOMAIN matches : FinishGame(m)
    \/ \E e \in events : HandleFinishedGame(e)

FairSpec == Spec /\ WF_vars(Progress)

-----------------------------------------------------------------------------
\* Type invariant of the tables, the queue, the games and the results.
TypeOK ==
    /\ course \in Courses /\ status \in Statuses /\ rounds \in Nat /\ winner \in Users \cup {NoWinner}
    /\ participants \in Seq(Users) /\ IsInjective(participants)
    /\ matches \in Seq([round : Nat \ {0}, white : Users, black : Users,
                        result : course.results \cup {"None"}])
    /\ keys \in [Jobs -> [consumed : BOOLEAN, creations : SUBSET DOMAIN matches]]
    /\ jobs \in [Jobs -> [state : JobStates, attempt : 0 .. MaxAttempts,
                           setUp : SUBSET DOMAIN matches]]
    /\ games \in Seq({"None", "Playing", "Ended"}) /\ Len(games) = Len(matches)
    /\ events \subseteq [match : DOMAIN matches, result : course.results, step : {"Record", "Publish"}]
    /\ failures \in 0 .. course.failures /\ lost \in 0 .. course.lost /\ repeats \in 0 .. course.repeats

Matches(rs) == Restrict(matches, {i \in DOMAIN matches : matches[i].round \in rs})
Round(r) == Matches({r})

LastRound == IF matches = <<>> THEN 0 ELSE Last(matches).round

(***************************************************************************)
(* Jobs of the same round, repeated ones and jobs that are tried again     *)
(* never start a round before the one before it is recorded.               *)
(***************************************************************************)
RoundsInOrder ==
    \A i, k \in DOMAIN matches :
        matches[i].round < matches[k].round => matches[i].result # "None"

(***************************************************************************)
(* A round is drawn once, however many jobs ask for it: nobody plays twice *)
(* in it, and it is played by everybody, in a knockout by the winners of   *)
(* the round before.                                                       *)
(***************************************************************************)
PlayersGoOn ==
    /\ \A i, k \in DOMAIN matches :
          i # k /\ matches[i].round = matches[k].round =>
              {matches[i].white, matches[i].black} \cap {matches[k].white, matches[k].black} = {}
    /\ \A i \in DOMAIN matches : matches[i].white # matches[i].black
    /\ \A r \in 2 .. LastRound :
          PlayersOf(Round(r)) =
              IF ruleset = "Knockout"
              THEN {KnockoutWinner(m) : m \in Range(Round(r - 1))}
              ELSE PlayersOf(Round(r - 1))

(***************************************************************************)
(* Write skew, case 1 of the comment on the transaction: the first round   *)
(* is played by the participants, before and after the lobby is closed.    *)
(***************************************************************************)
ParticipantsPlay ==
    matches # <<>> => PlayersOf(Round(1)) = ToSet(participants)

(***************************************************************************)
(* Partial failure: a committed match whose game is not set up yet has a   *)
(* job that is still going to set it up, while attempts are left to it.    *)
(***************************************************************************)
GamesAreSetUp ==
    \A m \in DOMAIN games : games[m] = "None" =>
        \E j \in Jobs : m \in Created(j) /\ jobs[j].state \in {"Available", "SetUp"}

(***************************************************************************)
(* Whoever has won a finished tournament took part in it, and nobody has   *)
(* won more often in the rounds that count.                                *)
(***************************************************************************)
WinnerHasMost ==
    status = "FINISHED" =>
        /\ winner \in ToSet(participants)
        /\ \A u \in ToSet(participants) :
              Wins(Matches(1 .. rounds), u) <= Wins(Matches(1 .. rounds), winner)

(***************************************************************************)
(* Lost update, case 2 of the comment on the transaction: the status only  *)
(* moves forward, and a finished tournament keeps its winner.              *)
(***************************************************************************)
StatusForward ==
    [][ /\ status' # status => <<status, status'>> \in
             {<<"LOBBY", "SCHEDULED">>, <<"SCHEDULED", "IN_PROGRESS">>, <<"IN_PROGRESS", "FINISHED">>}
        /\ status = "FINISHED" => winner' = winner ]_vars

(***************************************************************************)
(* Where no result is lost, failed and repeated jobs do not keep a         *)
(* tournament that has matches from finishing, unless it is a knockout.    *)
(***************************************************************************)
TournamentEnds ==
    /\ course.lost = 0 /\ ruleset # "Knockout"
    /\ status = "IN_PROGRESS" /\ matches # <<>>
    ~> status = "FINISHED"

-----------------------------------------------------------------------------
(***************************************************************************)
(* tournamentmatcher.go on knockouts: matches are decided by two each time *)
(* and stop at one; the winner is the player left standing.                *)
(***************************************************************************)
KnockoutStopsAtOne ==
    Cardinality(DOMAIN Round(rounds)) = 1 /\ Last(matches).result # "None" ~> status = "FINISHED"
=============================================================================
