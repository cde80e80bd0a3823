------------------------------- MODULE FinishGame -----------------------------
(***************************************************************************)
(* The consumer of the finish-game stream.  Every entry is handled by a    *)
(* goroutine of its own: FinishedGameWorker.Handle runs HandleFinishedGame,*)
(* whose steps are a Postgres transaction under repeatable read, an upsert *)
(* of the move history, the job that advances a tournament, and the Redis  *)
(* leaderboard.  Entries of the same game and entries that share a player  *)
(* are handled concurrently; any step may fail, and what has been read is  *)
(* never read again.  The sync-leaderboard cron job runs beside it.        *)
(***************************************************************************)
EXTENDS RatedGames

CONSTANTS
    TournamentGames,    \* games that are matches of a tournament
    Entries,            \* entries of the stream
    EntryGame,          \* the game each entry is about
    Expired,            \* entries an expired timer has published
    RetryCount          \* attempts of the transaction

ASSUME EntriesAssumption ==
    /\ EntryGame \in [Entries -> Games]
    /\ Expired \subseteq Entries
    /\ TournamentGames \subseteq Games

ASSUME RetryCountAssumption == RetryCount \in Nat \ {0}

VARIABLES
    replays, elo, played,   \* Postgres, as in GameResults
    moves,      \* what Redis has of each game: its final moves, or one taken back
    history,    \* replay_move_histories.data
    jobs,       \* advance-tournament jobs inserted for each game
    score,      \* leaderboard scores: how often each counts a game
    ranked,     \* members of the leaderboard
    based,      \* members whose score includes the rating they started from
    pc, attempts, snapshot, exists, eventMoves,     \* the goroutine of each entry
    job, rows                                       \* the cron job

store == <<replays, elo, played>>
cache == <<score, ranked, based>>
local == <<attempts, snapshot, exists, eventMoves>>
cron  == <<job, rows>>
vars  == <<replays, elo, played, moves, history, jobs, score, ranked, based, pc,
           attempts, snapshot, exists, eventMoves, job, rows>>

Results == INSTANCE GameResults WITH replays <- replays, elo <- elo, played <- played

Histories == {"Final", "TakenBack"}
Steps == {"Unread", "Begin", "Commit", "History", "Publish", "Leaderboard", "Done", "Lost"}

Init ==
    /\ Results!Init
    /\ moves = [g \in Games |-> "Final"]
    /\ history = [g \in Games |-> "None"]
    /\ jobs = [g \in Games |-> 0]
    /\ score = [u \in Accounts |-> [g \in Games |-> 0]]
    /\ ranked = {}
    /\ based = {}
    /\ pc = [e \in Entries |-> "Unread"]
    /\ attempts = [e \in Entries |-> 0]
    /\ snapshot = [e \in Entries |-> Unrated]
    /\ exists = [e \in Entries |-> FALSE]
    /\ eventMoves = [e \in Entries |-> "Final"]
    /\ job = "Idle"
    /\ rows = Unrated

Goto(e, step) == pc' = [pc EXCEPT ![e] = step]

-----------------------------------------------------------------------------
(* HandleFinishedGame, statement by statement.                               *)

\* The entry is read.  An expired timer's carries only the id: the rest is
\* what Redis has at this moment.  Any other carries the moves of the result.
BackfillEvent(e) ==
    /\ pc[e] = "Unread"
    /\ Goto(e, "Begin")
    /\ eventMoves' = [eventMoves EXCEPT ![e] = IF e \in Expired THEN moves[EntryGame[e]] ELSE @]
    /\ UNCHANGED <<store, moves, history, jobs, cache, attempts, snapshot, exists, cron>>

\* Mutant: an existing replay ends the handler.
MutSelectUserElos(e) ==
    /\ pc[e] = "Begin"
    /\ exists' = [exists EXCEPT ![e] = EntryGame[e] \in replays]
    /\ snapshot' = [snapshot EXCEPT ![e] = elo]
    /\ Goto(e, IF EntryGame[e] \in replays THEN "Done" ELSE "Commit")
    /\ UNCHANGED <<store, moves, history, jobs, cache, attempts, eventMoves, cron>>

\* The transaction's first queries fix its snapshot: is there a replay of this
\* game, and the ratings of the players.  A replay that exists ends it here.
SelectUserElos(e) ==
    /\ pc[e] = "Begin"
    /\ exists' = [exists EXCEPT ![e] = EntryGame[e] \in replays]
    /\ snapshot' = [snapshot EXCEPT ![e] = elo]
    /\ Goto(e, IF EntryGame[e] \in replays THEN "History" ELSE "Commit")
    /\ UNCHANGED <<store, moves, history, jobs, cache, attempts, eventMoves, cron>>

\* Mutant: read committed.
MutConflict(e) == FALSE

\* Repeatable read: a row that another transaction has updated since the
\* snapshot cannot be updated (SQLSTATE 40001).
Conflict(e) == \E u \in Rated(EntryGame[e]) : elo[u] # snapshot[e][u]

\* cause_enum has no TIMEOUT; idx_replay_game_id is unique.
InsertReplayFails(e) == e \in Expired \/ EntryGame[e] \in replays

\* Mutant: neither the isolation level nor the unique index.
MutInsertGameResult(e) ==
    /\ pc[e] = "Commit"
    /\ LET g == EntryGame[e] IN
          /\ replays' = replays \cup {g}
          /\ elo' = [u \in Accounts |->
                        IF u \in Rated(g) THEN snapshot[e][u] \cup {g} ELSE elo[u]]
          /\ played' = [u \in Accounts |-> IF u \in Rated(g) THEN played[u] + 1 ELSE played[u]]
    /\ Goto(e, "History")
    /\ UNCHANGED <<moves, history, jobs, cache, local, cron>>

\* Upsert the ratings computed from the snapshot, insert the replay, commit.
InsertGameResult(e) ==
    /\ pc[e] = "Commit"
    /\ ~Conflict(e)
    /\ ~InsertReplayFails(e)
    /\ LET g == EntryGame[e] IN
          /\ replays' = replays \cup {g}
          /\ elo' = [u \in Accounts |->
                        IF u \in Rated(g) THEN snapshot[e][u] \cup {g} ELSE elo[u]]
          /\ played' = [u \in Accounts |-> IF u \in Rated(g) THEN played[u] + 1 ELSE played[u]]
    /\ Goto(e, "History")
    /\ UNCHANGED <<moves, history, jobs, cache, local, cron>>

RetryTx(e) ==
    /\ pc[e] = "Commit"
    /\ Conflict(e)
    /\ attempts[e] + 1 < RetryCount
    /\ attempts' = [attempts EXCEPT ![e] = @ + 1]
    /\ Goto(e, "Begin")
    /\ UNCHANGED <<store, moves, history, jobs, cache, snapshot, exists, eventMoves, cron>>

\* Rolled back for good: retries exhausted, or a refused insert.
RollbackTx(e) ==
    /\ pc[e] = "Commit"
    /\ IF Conflict(e) THEN attempts[e] + 1 >= RetryCount ELSE InsertReplayFails(e)
    /\ Goto(e, "Lost")
    /\ UNCHANGED <<store, moves, history, jobs, cache, local, cron>>

UpsertReplayMoveHistories(e) ==
    /\ pc[e] = "History"
    /\ history' = [history EXCEPT ![EntryGame[e]] = eventMoves[e]]
    /\ Goto(e, "Publish")
    /\ UNCHANGED <<store, moves, jobs, cache, local, cron>>

PublishTournamentEvent(e) ==
    /\ pc[e] = "Publish"
    /\ jobs' = [jobs EXCEPT ![EntryGame[e]] =
                   IF EntryGame[e] \in TournamentGames THEN @ + 1 ELSE @]
    /\ Goto(e, "Leaderboard")
    /\ UNCHANGED <<store, moves, history, cache, local, cron>>

\* Mutant: the differences of a replay that existed are added again.
MutUpdateLeaderboard(e) ==
    /\ pc[e] = "Leaderboard"
    /\ LET g == EntryGame[e] IN
          /\ score' = [u \in Accounts |->
                          IF u \in Rated(g) THEN [score[u] EXCEPT ![g] = @ + 1] ELSE score[u]]
          /\ ranked' = ranked \cup Rated(g)
    /\ Goto(e, "Done")
    /\ UNCHANGED <<store, moves, history, jobs, based, local, cron>>

\* ZINCRBY of the two differences, which are zero for a replay that existed;
\* an account that is no member yet becomes one, scored from zero.
UpdateLeaderboard(e) ==
    /\ pc[e] = "Leaderboard"
    /\ LET g == EntryGame[e]
           changed == IF exists[e] THEN {} ELSE Rated(g)
       IN  /\ score' = [u \in Accounts |->
                           IF u \in changed THEN [score[u] EXCEPT ![g] = @ + 1] ELSE score[u]]
           /\ ranked' = ranked \cup changed
    /\ Goto(e, "Done")
    /\ UNCHANGED <<store, moves, history, jobs, based, local, cron>>

\* A statement returns an error, the handler panics, or the consumer dies.  The
\* entry was delivered, and only new entries are asked for: it is not read again.
Fail(e) ==
    /\ pc[e] \notin {"Unread", "Done", "Lost"}
    /\ Goto(e, "Lost")
    /\ UNCHANGED <<store, moves, history, jobs, cache, local, cron>>

-----------------------------------------------------------------------------
\* An undo that is accepted after the end of the game.
TakeBack(g) ==
    /\ moves[g] = "Final"
    /\ moves' = [moves EXCEPT ![g] = "TakenBack"]
    /\ UNCHANGED <<store, history, jobs, cache, pc, local, cron>>

\* The cron job reads the ratings and adds the members that are missing (NX).
SelectEloList ==
    /\ job = "Idle"
    /\ job' = "Write"
    /\ rows' = elo
    /\ UNCHANGED <<store, moves, history, jobs, cache, pc, local>>

SetLeaderboard ==
    /\ job = "Write"
    /\ job' = "Done"
    /\ LET added == {u \in Accounts : rows[u] # {}} \ ranked IN
          /\ score' = [u \in Accounts |->
                          IF u \in added THEN [g \in Games |-> IF g \in rows[u] THEN 1 ELSE 0]
                          ELSE score[u]]
          /\ ranked' = ranked \cup added
          /\ based' = based \cup added
    /\ UNCHANGED <<store, moves, history, jobs, pc, local, rows>>

SyncLeaderboard == SelectEloList \/ SetLeaderboard

HandleFinishedGame(e) ==
    \/ BackfillEvent(e)
    \/ SelectUserElos(e)
    \/ InsertGameResult(e)
    \/ RetryTx(e)
    \/ RollbackTx(e)
    \/ UpsertReplayMoveHistories(e)
    \/ PublishTournamentEvent(e)
    \/ UpdateLeaderboard(e)

Next ==
    \/ \E e \in Entries : HandleFinishedGame(e) \/ Fail(e)
    \/ \E g \in Games : TakeBack(g)
    \/ SyncLeaderboard

Spec == Init /\ [][Next]_vars

\* A goroutine that has an entry runs on; failures and the cron job may happen.
FairSpec == Spec /\ \A e \in Entries : WF_vars(HandleFinishedGame(e))

-----------------------------------------------------------------------------
\* Type invariant of the tables, the caches and the goroutines.
TypeOK ==
    /\ replays \subseteq Games
    /\ elo \in [Accounts -> SUBSET Games]
    /\ played \in [Accounts -> Nat]
    /\ moves \in [Games -> Histories]
    /\ history \in [Games -> Histories \cup {"None"}]
    /\ jobs \in [Games -> Nat]
    /\ score \in [Accounts -> [Games -> Nat]]
    /\ ranked \subseteq Accounts
    /\ based \subseteq ranked
    /\ pc \in [Entries -> Steps]
    /\ attempts \in [Entries -> 0 .. RetryCount - 1]
    /\ snapshot \in [Entries -> [Accounts -> SUBSET Games]]
    /\ exists \in [Entries -> BOOLEAN]
    /\ eventMoves \in [Entries -> Histories]
    /\ job \in {"Idle", "Write", "Done"}
    /\ rows \in [Accounts -> SUBSET Games]

(***************************************************************************)
(* Lost update, case 1 of the comment on the transaction: the rating of    *)
(* every account counts exactly the recorded games that are rated for it,  *)
(* whatever transactions run beside each other and whichever fail.         *)
(***************************************************************************)
EloCountsReplays ==
    \A u \in Accounts : elo[u] = {g \in replays : u \in Rated(g)}

(***************************************************************************)
(* Idempotency: the interleaved handlers are, seen from Postgres, a        *)
(* sequence of results that are each recorded once, ratings included.      *)
(***************************************************************************)
RecordedOnce == Results!Spec

(***************************************************************************)
(* The order of the steps: a tournament is told to advance only after the  *)
(* result it waits for is recorded with its moves, and the leaderboard     *)
(* never counts a game the ratings do not.                                 *)
(***************************************************************************)
RecordComesFirst ==
    /\ \A g \in Games : history[g] # "None" => g \in replays
    /\ \A g \in Games : jobs[g] > 0 => history[g] # "None"
    /\ \A u \in Accounts, g \in Games : score[u][g] > 0 => g \in elo[u]

(***************************************************************************)
(* ZINCRBY is not idempotent: as long as only the consumer writes the      *)
(* leaderboard, no game is counted twice, however often it is delivered.   *)
(***************************************************************************)
CountedOnce ==
    job # "Done" => \A u \in Accounts, g \in Games : score[u][g] <= 1

(***************************************************************************)
(* An entry that was handled to its end leaves nothing undone: replay,     *)
(* history and the tournament's job are there, also when another entry of  *)
(* the game had recorded it and was lost half way.                         *)
(***************************************************************************)
DoneIsComplete ==
    \A e \in Entries : pc[e] = "Done" =>
        /\ EntryGame[e] \in replays
        /\ history[EntryGame[e]] # "None"
        /\ EntryGame[e] \in TournamentGames => jobs[EntryGame[e]] > 0

-----------------------------------------------------------------------------
(***************************************************************************)
(* streams.go promises a retry of an entry whose handler failed.           *)
(***************************************************************************)
FailedIsRetried == \A e \in Entries : pc[e] = "Lost" ~> pc[e] # "Lost"
=============================================================================
