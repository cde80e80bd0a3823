--------------------------- MODULE FinishGame_proofs --------------------------
(***************************************************************************)
(* Proofs that finished games are recorded once and rated once, for any    *)
(* games, entries and failures.                                            *)
(***************************************************************************)
EXTENDS FinishGame, TLAPS

(***************************************************************************)
(* The inductive invariant adds to the properties what a handler knows     *)
(* from the step it has reached, that the cron job only holds ratings that *)
(* still count, and that a game not yet counted has one handler to do so.  *)
(***************************************************************************)
Recorded == {"History", "Publish", "Leaderboard", "Done"}

StepsKnow ==
    \A e \in Entries :
        /\ pc[e] \in Recorded => EntryGame[e] \in replays
        /\ pc[e] \in Recorded \ {"History"} => history[EntryGame[e]] # "None"
        /\ pc[e] \in {"Leaderboard", "Done"} /\ EntryGame[e] \in TournamentGames
              => jobs[EntryGame[e]] > 0

RowsCount == \A u \in Accounts : rows[u] \subseteq elo[u]

Recorder(e) == pc[e] \in Recorded \ {"Done"} /\ ~exists[e]

OneRecorder ==
    /\ \A e, f \in Entries : Recorder(e) /\ Recorder(f) /\ EntryGame[e] = EntryGame[f] => e = f
    /\ job # "Done" =>
          \A e \in Entries : Recorder(e) => \A u \in Accounts : score[u][EntryGame[e]] = 0

Inv ==
    /\ TypeOK
    /\ EloCountsReplays
    /\ StepsKnow
    /\ RecordComesFirst
    /\ RowsCount
    /\ OneRecorder
    /\ CountedOnce

LEMMA RatedType == \A g \in Games : Rated(g) \subseteq Accounts
BY DEF Rated

LEMMA InitInv == Init => Inv
<1> SUFFICES ASSUME Init PROVE Inv
  OBVIOUS
<1>1. TypeOK
  BY RetryCountAssumption DEF Init, Results!Init, TypeOK, Unrated, Results!Unrated, Histories, Steps
<1>2. EloCountsReplays
  BY DEF Init, Results!Init, Results!Unrated, EloCountsReplays
<1>3. StepsKnow /\ OneRecorder
  BY DEF Init, StepsKnow, OneRecorder, Recorder, Recorded
<1>4. RecordComesFirst /\ RowsCount /\ CountedOnce
  BY DEF Init, RecordComesFirst, RowsCount, CountedOnce, Unrated
<1> QED  BY <1>1, <1>2, <1>3, <1>4 DEF Inv

-----------------------------------------------------------------------------
(* Steps that move one handler and write nothing that is shared.             *)

LEMMA LocalInv ==
    ASSUME Inv, TypeOK', NEW e \in Entries, NEW step \in {"Begin", "Commit", "History", "Lost"},
           Goto(e, step),
           UNCHANGED <<replays, elo, played, history, jobs, score, ranked, based, job, rows>>,
           \A f \in Entries \ {e} : exists'[f] = exists[f],
           step = "History" => EntryGame[e] \in replays /\ exists'[e]
    PROVE  Inv'
<1>1. /\ pc'[e] = step
      /\ \A f \in Entries \ {e} : pc'[f] = pc[f]
  BY DEF Goto, Inv, TypeOK
<1>2. \A f \in Entries : Recorder(f)' => f # e /\ Recorder(f)
  BY <1>1 DEF Recorder, Recorded
<1>3. EloCountsReplays' /\ RecordComesFirst' /\ RowsCount' /\ CountedOnce'
  BY DEF Inv, EloCountsReplays, RecordComesFirst, RowsCount, CountedOnce
<1>4. StepsKnow'
  BY <1>1 DEF Inv, StepsKnow, Recorded
<1>5. OneRecorder'
  BY <1>2 DEF Inv, OneRecorder
<1> QED  BY <1>3, <1>4, <1>5 DEF Inv

LEMMA BackfillEventInv ==
    ASSUME Inv, NEW e \in Entries, BackfillEvent(e)
    PROVE  Inv'
<1>1. TypeOK'
  BY EntriesAssumption
     DEF Inv, TypeOK, BackfillEvent, Goto, Steps, store, cache, cron
<1> QED  BY <1>1, LocalInv DEF BackfillEvent, store, cache, cron

LEMMA SelectUserElosInv ==
    ASSUME Inv, NEW e \in Entries, SelectUserElos(e)
    PROVE  Inv'
<1>1. TypeOK'
  BY DEF Inv, TypeOK, SelectUserElos, Goto, Steps, store, cache, cron
<1>2. /\ exists'[e] = (EntryGame[e] \in replays)
      /\ \A f \in Entries \ {e} : exists'[f] = exists[f]
  BY DEF Inv, TypeOK, SelectUserElos
<1>3. CASE EntryGame[e] \in replays
  BY <1>1, <1>2, <1>3, LocalInv DEF SelectUserElos, store, cache, cron
<1>4. CASE EntryGame[e] \notin replays
  BY <1>1, <1>2, <1>4, LocalInv DEF SelectUserElos, store, cache, cron
<1> QED  BY <1>3, <1>4

LEMMA RetryTxInv ==
    ASSUME Inv, NEW e \in Entries, RetryTx(e)
    PROVE  Inv'
<1>1. TypeOK'
  BY RetryCountAssumption DEF Inv, TypeOK, RetryTx, Goto, Steps, store, cache, cron
<1> QED  BY <1>1, LocalInv DEF RetryTx, store, cache, cron

LEMMA LostInv ==
    ASSUME Inv, NEW e \in Entries, Goto(e, "Lost"),
           UNCHANGED <<store, moves, history, jobs, cache, local, cron>>
    PROVE  Inv'
<1>1. TypeOK'
  BY DEF Inv, TypeOK, Goto, Steps, store, cache, local, cron
<1> QED  BY <1>1, LocalInv DEF store, cache, local, cron

-----------------------------------------------------------------------------
(* Steps that write what is shared.                                          *)

LEMMA InsertGameResultInv ==
    ASSUME Inv, NEW e \in Entries, InsertGameResult(e)
    PROVE  Inv'
<1> DEFINE g == EntryGame[e]
<1>1. /\ g \in Games /\ g \notin replays
      /\ replays' = replays \cup {g}
      /\ \A u \in Rated(g) : snapshot[e][u] = elo[u]
      /\ UNCHANGED <<moves, history, jobs, score, ranked, based, attempts, snapshot, exists,
                     eventMoves, job, rows>>
  BY EntriesAssumption
     DEF InsertGameResult, InsertReplayFails, Conflict, cache, local, cron
<1>2. elo' = [u \in Accounts |-> IF u \in Rated(g) THEN elo[u] \cup {g} ELSE elo[u]]
  BY <1>1 DEF InsertGameResult
<1>3. pc'[e] = "History" /\ \A f \in Entries \ {e} : pc'[f] = pc[f]
  BY DEF InsertGameResult, Goto, Inv, TypeOK
<1>4. TypeOK'
  <2>1. replays' \subseteq Games /\ elo' \in [Accounts -> SUBSET Games]
    BY <1>1, <1>2 DEF Inv, TypeOK
  <2>2. played' \in [Accounts -> Nat]
    BY DEF InsertGameResult, Inv, TypeOK
  <2>3. pc' \in [Entries -> Steps]
    BY DEF InsertGameResult, Goto, Inv, TypeOK, Steps
  <2> QED  BY <1>1, <2>1, <2>2, <2>3 DEF Inv, TypeOK
<1>5. EloCountsReplays'
  BY <1>1, <1>2 DEF Inv, EloCountsReplays
<1>6. StepsKnow'
  BY <1>1, <1>3 DEF Inv, StepsKnow, Recorded
<1>7. RecordComesFirst' /\ RowsCount' /\ CountedOnce'
  BY <1>1, <1>2 DEF Inv, TypeOK, RecordComesFirst, RowsCount, CountedOnce
<1>8. OneRecorder'
  <2>1. ASSUME NEW f \in Entries, Recorder(f), EntryGame[f] = g PROVE FALSE
    BY <1>1, <2>1 DEF Inv, StepsKnow, Recorder, Recorded
  <2>2. \A u \in Accounts : score[u][g] = 0
    <3> SUFFICES ASSUME NEW u \in Accounts, score[u][g] # 0 PROVE FALSE
      OBVIOUS
    <3>1. score[u][g] \in Nat
      BY <1>1 DEF Inv, TypeOK
    <3>2. g \in elo[u]
      BY <1>1, <3>1 DEF Inv, RecordComesFirst
    <3> QED  BY <1>1, <3>2 DEF Inv, EloCountsReplays
  <2>3. \A f \in Entries \ {e} : Recorder(f)' <=> Recorder(f)
    BY <1>1, <1>3 DEF Recorder
  <2> QED  BY <1>1, <2>1, <2>2, <2>3 DEF Inv, OneRecorder
<1> QED  BY <1>4, <1>5, <1>6, <1>7, <1>8 DEF Inv

LEMMA UpsertReplayMoveHistoriesInv ==
    ASSUME Inv, NEW e \in Entries, UpsertReplayMoveHistories(e)
    PROVE  Inv'
<1> DEFINE g == EntryGame[e]
<1>1. /\ g \in replays /\ g \in Games
      /\ history'[g] # "None"
      /\ \A x \in Games \ {g} : history'[x] = history[x]
      /\ UNCHANGED <<replays, elo, played, moves, jobs, score, ranked, based, attempts,
                     snapshot, exists, eventMoves, job, rows>>
  BY EntriesAssumption DEF UpsertReplayMoveHistories, Inv, TypeOK, StepsKnow, Recorded,
                           Histories, store, cache, local, cron
<1>2. pc[e] = "History" /\ pc'[e] = "Publish" /\ \A f \in Entries \ {e} : pc'[f] = pc[f]
  BY DEF UpsertReplayMoveHistories, Goto, Inv, TypeOK
<1>3. TypeOK'
  <2>1. history' \in [Games -> Histories \cup {"None"}] /\ pc' \in [Entries -> Steps]
    BY DEF UpsertReplayMoveHistories, Goto, Inv, TypeOK, Steps
  <2> QED  BY <1>1, <2>1 DEF Inv, TypeOK
<1>4. EloCountsReplays' /\ RowsCount' /\ CountedOnce'
  BY <1>1 DEF Inv, EloCountsReplays, RowsCount, CountedOnce
<1>5. StepsKnow'
  BY <1>1, <1>2, EntriesAssumption DEF Inv, StepsKnow, Recorded
<1>6. RecordComesFirst'
  BY <1>1 DEF Inv, RecordComesFirst
<1>7. OneRecorder'
  <2>1. \A f \in Entries : Recorder(f)' <=> Recorder(f)
    BY <1>1, <1>2 DEF Recorder, Recorded
  <2> QED  BY <1>1, <2>1 DEF Inv, OneRecorder
<1> QED  BY <1>3, <1>4, <1>5, <1>6, <1>7 DEF Inv

LEMMA PublishTournamentEventInv ==
    ASSUME Inv, NEW e \in Entries, PublishTournamentEvent(e)
    PROVE  Inv'
<1> DEFINE g == EntryGame[e]
<1>1. /\ g \in Games /\ history[g] # "None"
      /\ UNCHANGED <<replays, elo, played, moves, history, score, ranked, based, attempts,
                     snapshot, exists, eventMoves, job, rows>>
  BY EntriesAssumption DEF PublishTournamentEvent, Inv, TypeOK, StepsKnow, Recorded,
                           store, cache, local, cron
<1>2. pc[e] = "Publish" /\ pc'[e] = "Leaderboard" /\ \A f \in Entries \ {e} : pc'[f] = pc[f]
  BY DEF PublishTournamentEvent, Goto, Inv, TypeOK
<1>3. /\ jobs' \in [Games -> Nat]
      /\ g \in TournamentGames => jobs'[g] > 0
      /\ \A x \in Games : jobs[x] > 0 => jobs'[x] > 0
      /\ \A x \in Games : jobs'[x] > 0 => jobs[x] > 0 \/ x = g
  <2>1. jobs' = [jobs EXCEPT ![g] = IF g \in TournamentGames THEN @ + 1 ELSE @]
    BY DEF PublishTournamentEvent
  <2>2. jobs \in [Games -> Nat] /\ jobs[g] \in Nat
    BY <1>1 DEF Inv, TypeOK
  <2>3. CASE g \in TournamentGames
    <3>1. jobs' = [jobs EXCEPT ![g] = jobs[g] + 1]
      BY <2>1, <2>3
    <3>2. jobs[g] + 1 \in Nat /\ jobs[g] + 1 > 0
      BY <2>2
    <3>3. jobs'[g] = jobs[g] + 1 /\ \A x \in Games \ {g} : jobs'[x] = jobs[x]
      BY <1>1, <2>2, <3>1
    <3>4. jobs' \in [Games -> Nat]
      BY <2>2, <3>1, <3>2
    <3> QED  BY <3>2, <3>3, <3>4
  <2>4. CASE g \notin TournamentGames
    BY <2>1, <2>2, <2>4
  <2> QED  BY <2>3, <2>4
<1>4. TypeOK'
  <2>1. pc' \in [Entries -> Steps]
    BY DEF PublishTournamentEvent, Goto, Inv, TypeOK, Steps
  <2> QED  BY <1>1, <1>3, <2>1 DEF Inv, TypeOK
<1>5. EloCountsReplays' /\ RowsCount' /\ CountedOnce'
  BY <1>1 DEF Inv, EloCountsReplays, RowsCount, CountedOnce
<1>6. StepsKnow'
  <2>1. \A f \in Entries : EntryGame[f] \in Games
    BY EntriesAssumption
  <2> QED  BY <1>1, <1>2, <1>3, <2>1 DEF Inv, StepsKnow, Recorded
<1>7. RecordComesFirst'
  BY <1>1, <1>3 DEF Inv, RecordComesFirst
<1>8. OneRecorder'
  <2>1. \A f \in Entries : Recorder(f)' <=> Recorder(f)
    BY <1>1, <1>2 DEF Recorder, Recorded
  <2> QED  BY <1>1, <2>1 DEF Inv, OneRecorder
<1> QED  BY <1>4, <1>5, <1>6, <1>7, <1>8 DEF Inv

LEMMA UpdateLeaderboardInv ==
    ASSUME Inv, NEW e \in Entries, UpdateLeaderboard(e)
    PROVE  Inv'
<1> DEFINE g == EntryGame[e]
           changed == IF exists[e] THEN {} ELSE Rated(g)
<1>1. /\ g \in replays /\ g \in Games /\ changed \subseteq Accounts
      /\ pc[e] = "Leaderboard"
      /\ UNCHANGED <<replays, elo, played, moves, history, jobs, based, attempts,
                     snapshot, exists, eventMoves, job, rows>>
  BY EntriesAssumption, RatedType DEF UpdateLeaderboard, Inv, StepsKnow, Recorded,
                                      store, cache, local, cron
<1>2. pc'[e] = "Done" /\ \A f \in Entries \ {e} : pc'[f] = pc[f]
  BY DEF UpdateLeaderboard, Goto, Inv, TypeOK
<1>3. \A u \in Accounts, x \in Games :
         score'[u][x] = IF u \in changed /\ x = g THEN score[u][x] + 1 ELSE score[u][x]
  BY <1>1 DEF UpdateLeaderboard, Inv, TypeOK
<1>4. TypeOK'
  <2>1. score' \in [Accounts -> [Games -> Nat]]
    BY <1>1 DEF UpdateLeaderboard, Inv, TypeOK
  <2>2. ranked' \subseteq Accounts /\ based \subseteq ranked'
    BY <1>1 DEF UpdateLeaderboard, Inv, TypeOK
  <2>3. pc' \in [Entries -> Steps]
    BY DEF UpdateLeaderboard, Goto, Inv, TypeOK, Steps
  <2> QED  BY <1>1, <2>1, <2>2, <2>3 DEF Inv, TypeOK
<1>5. EloCountsReplays' /\ RowsCount'
  BY <1>1 DEF Inv, EloCountsReplays, RowsCount
<1>6. StepsKnow'
  BY <1>1, <1>2 DEF Inv, StepsKnow, Recorded
<1>7. RecordComesFirst'
  <2>1. \A u \in changed : g \in elo[u]
    BY <1>1 DEF Inv, EloCountsReplays
  <2>2. \A u \in Accounts, x \in Games : score'[u][x] > 0 => x \in elo[u]
    BY <1>3, <2>1 DEF Inv, RecordComesFirst
  <2> QED  BY <1>1, <2>2 DEF Inv, RecordComesFirst
<1>8. ~exists[e] => Recorder(e)
  BY <1>1 DEF Recorder, Recorded
<1>9. CountedOnce'
  <2>1. job # "Done" => \A u \in changed : score[u][g] = 0
    BY <1>1, <1>8 DEF Inv, OneRecorder
  <2> QED  BY <1>1, <1>3, <2>1 DEF Inv, CountedOnce
<1>10. OneRecorder'
  <2>1. \A f \in Entries : Recorder(f)' <=> f # e /\ Recorder(f)
    BY <1>1, <1>2 DEF Recorder, Recorded
  <2>2. ASSUME NEW f \in Entries, Recorder(f), f # e, ~exists[e] PROVE EntryGame[f] # g
    BY <1>8, <2>2 DEF Inv, OneRecorder
  <2>3. \A f \in Entries : EntryGame[f] \in Games
    BY EntriesAssumption
  <2> QED  BY <1>1, <1>3, <2>1, <2>2, <2>3 DEF Inv, OneRecorder
<1> QED  BY <1>4, <1>5, <1>6, <1>7, <1>9, <1>10 DEF Inv

LEMMA TakeBackInv ==
    ASSUME Inv, NEW g \in Games, TakeBack(g)
    PROVE  Inv'
<1>1. UNCHANGED <<replays, elo, played, history, jobs, score, ranked, based, pc, attempts,
                  snapshot, exists, eventMoves, job, rows>>
  BY DEF TakeBack, store, cache, local, cron
<1>2. TypeOK'
  BY <1>1 DEF TakeBack, Inv, TypeOK, Histories
<1>3. \A e \in Entries : Recorder(e)' <=> Recorder(e)
  BY <1>1 DEF Recorder
<1>4. OneRecorder'
  BY <1>1, <1>3 DEF Inv, OneRecorder
<1> QED  BY <1>1, <1>2, <1>4
         DEF Inv, EloCountsReplays, StepsKnow, RecordComesFirst, RowsCount, CountedOnce

LEMMA SyncLeaderboardInv ==
    ASSUME Inv, SyncLeaderboard
    PROVE  Inv'
<1>1. UNCHANGED <<replays, elo, played, moves, history, jobs, pc, attempts, snapshot, exists,
                  eventMoves>>
  BY DEF SyncLeaderboard, SelectEloList, SetLeaderboard, store, local
<1>2. \A e \in Entries : Recorder(e)' <=> Recorder(e)
  BY <1>1 DEF Recorder
<1>3. EloCountsReplays' /\ StepsKnow'
  BY <1>1 DEF Inv, EloCountsReplays, StepsKnow
<1>4. CASE SelectEloList
  <2>1. rows' = elo /\ job' = "Write" /\ job # "Done" /\ UNCHANGED <<score, ranked, based>>
    BY <1>4 DEF SelectEloList, cache
  <2>2. TypeOK'
    BY <1>1, <2>1 DEF Inv, TypeOK
  <2>3. OneRecorder'
    BY <1>1, <1>2, <2>1 DEF Inv, OneRecorder
  <2> QED  BY <1>1, <1>3, <2>1, <2>2, <2>3 DEF Inv, RecordComesFirst, RowsCount, CountedOnce
<1>5. CASE SetLeaderboard
  <2> DEFINE added == {u \in Accounts : rows[u] # {}} \ ranked
  <2>1. /\ job' = "Done" /\ rows' = rows
        /\ ranked' = ranked \cup added
        /\ based' = based \cup added
    BY <1>5 DEF SetLeaderboard
  <2>2. score' = [u \in Accounts |->
                     IF u \in added THEN [x \in Games |-> IF x \in rows[u] THEN 1 ELSE 0]
                     ELSE score[u]]
    BY <1>5 DEF SetLeaderboard
  <2>3. score' \in [Accounts -> [Games -> Nat]]
    BY <2>2 DEF Inv, TypeOK
  <2>4. TypeOK'
    BY <1>1, <2>1, <2>3 DEF Inv, TypeOK
  <2>5. \A u \in Accounts, x \in Games : score'[u][x] > 0 => score[u][x] > 0 \/ x \in rows[u]
    BY <2>2
  <2>6. RecordComesFirst'
    BY <1>1, <2>5 DEF Inv, RecordComesFirst, RowsCount
  <2>7. OneRecorder'
    BY <1>1, <1>2, <2>1 DEF Inv, OneRecorder
  <2> QED  BY <1>1, <1>3, <2>1, <2>4, <2>6, <2>7 DEF Inv, RowsCount, CountedOnce
<1> QED  BY <1>4, <1>5 DEF SyncLeaderboard

LEMMA NextInv == Inv /\ [Next]_vars => Inv'
<1> SUFFICES ASSUME Inv, [Next]_vars PROVE Inv'
  OBVIOUS
<1>1. ASSUME NEW e \in Entries, HandleFinishedGame(e)
      PROVE  Inv'
  <2>1. CASE RollbackTx(e)
    BY <2>1, LostInv DEF RollbackTx
  <2> QED  BY <1>1, <2>1, BackfillEventInv, SelectUserElosInv, InsertGameResultInv, RetryTxInv,
              UpsertReplayMoveHistoriesInv, PublishTournamentEventInv, UpdateLeaderboardInv
           DEF HandleFinishedGame
<1>2. ASSUME NEW e \in Entries, Fail(e)
      PROVE  Inv'
  BY <1>2, LostInv DEF Fail
<1>3. CASE UNCHANGED vars
  <2>1. \A e \in Entries : Recorder(e)' <=> Recorder(e)
    BY <1>3 DEF vars, Recorder
  <2>2. OneRecorder'
    BY <1>3, <2>1 DEF vars, Inv, OneRecorder
  <2>3. TypeOK'
    BY <1>3 DEF vars, Inv, TypeOK
  <2> QED  BY <1>3, <2>2, <2>3
           DEF vars, Inv, EloCountsReplays, StepsKnow, RecordComesFirst, RowsCount, CountedOnce
<1> QED  BY <1>1, <1>2, <1>3, TakeBackInv, SyncLeaderboardInv DEF Next

LEMMA SpecInv == Spec => []Inv
BY InitInv, NextInv, PTL DEF Spec

-----------------------------------------------------------------------------
(***************************************************************************)
(* The tables, the leaderboard and the variables of every handler of       *)
(* HandleFinishedGame keep their types.                                    *)
(***************************************************************************)
THEOREM TypeCorrect == Spec => []TypeOK
BY SpecInv, PTL DEF Inv

(***************************************************************************)
(* No lost update: under the transaction of InsertGameResult every rating  *)
(* counts exactly the recorded games that are rated for its account.       *)
(***************************************************************************)
THEOREM NoRatingIsLost == Spec => []EloCountsReplays
BY SpecInv, PTL DEF Inv

(***************************************************************************)
(* HandleFinishedGame tells nobody of a result before it is recorded: not  *)
(* the tournament, not the leaderboard.                                    *)
(***************************************************************************)
THEOREM OthersLearnLater == Spec => []RecordComesFirst
BY SpecInv, PTL DEF Inv

(***************************************************************************)
(* The ZINCRBY of updateLeaderboard is applied at most once for a game,    *)
(* until the cron job has written the leaderboard too.                     *)
(***************************************************************************)
THEOREM ScoresCountOnce == Spec => []CountedOnce
BY SpecInv, PTL DEF Inv

(***************************************************************************)
(* A handler that reaches its end leaves the replay, the history and the   *)
(* job of the tournament behind, whoever has written them.                 *)
(***************************************************************************)
THEOREM EndLeavesNothingUndone == Spec => []DoneIsComplete
<1>1. Inv => DoneIsComplete
  BY DEF Inv, StepsKnow, Recorded, DoneIsComplete
<1> QED  BY <1>1, SpecInv, PTL

-----------------------------------------------------------------------------
(* Every step of a handler records its game or is a stutter of the record.   *)

LEMMA RecordStep ==
    ASSUME Inv, NEW e \in Entries, InsertGameResult(e)
    PROVE  Results!Record(EntryGame[e])
<1>1. \A u \in Rated(EntryGame[e]) : snapshot[e][u] = elo[u]
  BY DEF InsertGameResult, Conflict
<1>2. Results!Rated(EntryGame[e]) = Rated(EntryGame[e])
  BY DEF Rated, Results!Rated, Players, Results!Players
<1> QED  BY <1>1, <1>2 DEF InsertGameResult, InsertReplayFails, Results!Record

(***************************************************************************)
(* Idempotency: whatever is delivered twice, retried, refused or lost, the *)
(* transactions of all handlers are a sequence of results that are each    *)
(* recorded once, ratings and counts in the same step.                     *)
(***************************************************************************)
THEOREM RecordsEachGameOnce == Spec => RecordedOnce
<1>1. Init => Results!Init
  BY DEF Init
<1>2. ASSUME Inv, [Next]_vars PROVE [Results!Next]_(Results!store)
  <2>1. ASSUME NEW e \in Entries, InsertGameResult(e) PROVE Results!Next
    BY <1>2, <2>1, RecordStep, EntriesAssumption DEF Results!Next
  <2>2. ASSUME NEW e \in Entries, HandleFinishedGame(e), ~InsertGameResult(e)
        PROVE  UNCHANGED store
    BY <2>2 DEF HandleFinishedGame, BackfillEvent, SelectUserElos, RetryTx, RollbackTx,
                UpsertReplayMoveHistories, PublishTournamentEvent, UpdateLeaderboard
  <2>3. ASSUME NEW e \in Entries, Fail(e) PROVE UNCHANGED store
    BY <2>3 DEF Fail
  <2>4. ASSUME NEW g \in Games, TakeBack(g) PROVE UNCHANGED store
    BY <2>4 DEF TakeBack
  <2>5. CASE SyncLeaderboard
    BY <2>5 DEF SyncLeaderboard, SelectEloList, SetLeaderboard, store, Results!store
  <2>6. CASE UNCHANGED vars
    BY <2>6 DEF vars, store, Results!store
  <2> QED  BY <1>2, <2>1, <2>2, <2>3, <2>4, <2>5, <2>6 DEF Next, store, Results!store
<1> QED  BY <1>1, <1>2, SpecInv, PTL DEF Spec, RecordedOnce, Results!Spec
=============================================================================
