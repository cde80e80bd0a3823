# Hexchess: a TLA+ model of the backend

Hexchess is a server for hexagonal chess: players meet in a game over a WebSocket, the game
lives in Redis, its result is recorded in Postgres by a consumer of Redis streams, and
tournaments are advanced by a job queue on Postgres. This directory holds TLA+ modules that
model how these parts change shared state, TLC configurations that check them on small
instances, and proofs about them that TLAPS checks for every instance. Paths below are
relative to `src/backend/`.

1. [The system](#the-system)
2. [The modules](#the-modules)
3. [What is checked](#what-is-checked)
4. [What is proved](#what-is-proved)
5. [Where code and comments disagree](#where-code-and-comments-disagree)
6. [What is not modelled](#what-is-not-modelled)
7. [Plan](#plan)

## The system

Four processes are built from `cmd/server`: the **API** (HTTP, WebSocket and server-sent
events), the **consumer** (Redis streams and River jobs), the **trigger** (expires game
timers) and the **cron job** (synchronises the leaderboard, removes orphaned pictures). Any
number of API servers and consumers run at a time. They share Redis, Postgres, a bucket and
a search index.

| Component | State | Operations | Talks to | What makes it correct |
|---|---|---|---|---|
| Game play (`service/gameplay.go`, `gamecreate.go`, `model/chess.go`) | one `ChessState` per game: seats, undo request, end, initial board, moves, position | create, join, move, undo (create / accept / reject), end | repository, both streams | one result per game, about its players; seats and results are final; the position is what the moves lead to |
| Repository (`service/chessrepo.go`) | a Redis key and a sorted-set member per game | WATCH, GET, update, MULTI/EXEC, up to 5 times | Redis | no update is lost; events leave together with the state |
| Timers (`POLL_GAME_TIMERS.lua`, `trigger/timers.go`) | sorted set of games by time, per partition | take what is due, publish a timeout | finish-game stream | a timeout publishes no second result |
| WebSocket (`network/websocket.go`) | goroutines, channels, a subscription per client | start a handler per message, write outputs and errors | game play, brokers | every input is answered, nothing leaks |
| Stream consumer (`queue/consumers/streams.go`, `stream.go`) | position and pending entries of a consumer group | read new entries, handle a batch concurrently, acknowledge | game over, metadata | no entry is lost, no batch hangs |
| Game over (`service/gameover.go`) | `replays`, `user_mode_elos`, `replay_move_histories` | backfill, record, upsert moves, insert job, count in leaderboard | Postgres, Redis, River | a game is recorded and rated once, ratings lose no game, steps come in order |
| Leaderboard (`service/leaderboard.go`) | sorted set by rating and mode | increment, synchronise, read pages | Postgres, Redis | scores are the ratings |
| Tournaments (`service/tournament*.go`, `queue/*/river.go`) | tournament, participants, matches, event keys, jobs | create, join, leave, begin countdown, advance, set up games | Postgres, River, game play, game over | rounds follow each other, are drawn once, all their games exist, the tournament ends with its best player |
| Metadata (`service/chessmeta.go`) | `games_metadata` and its count | upsert from events, list by pages | stream, broadcasts | pages have each game once |
| Pub/sub (`pubsub/`) | subscribers per broker | subscribe, unsubscribe, broadcast, listen and reconnect | Redis pub/sub | a message reaches who is subscribed; no send on a closed channel |
| Active users, SSE (`service/activeuser.go`, `network/events.go`) | sorted set by time of arrival | add, retain, remove, expire, count | brokers | a connected user is active, one who has gone is soon not counted |
| Challenges (`service/challenge.go`) | `challenges` | insert, list, accept, reject, withdraw | game create | a challenge has one answer; an accepted one becomes one game, as it was made |
| Matchmaker (`service/matchmaker.go`) | pending users, proposals | begin, confirm, cancel, tick | gRPC stream | nobody is in two matches (no server starts it) |
| Chess rules (`chess/`) | board, move lists, attack tables | moves of each piece, check, mate, FEN | game play, browser | moves are legal, mate is mate |
| Accounts, sessions (`service/user.go`, `auth.go`, `usersearch.go`, `network/restapi.go`) | `users`, its read replica, session keys, `update-user` jobs, search index | register, log in, log in with Google, rename, change password, index | Postgres, Redis, River, Elasticsearch | attempts are counted one by one, one account per Google account, accounts are found |
| Profile pictures (`service/profile.go`, `orphan.go`) | objects in a bucket | upload, remove older ones, remove orphans | S3, Postgres | the newest picture stays, the others go |
| Chats, replays | keys, rows | single statements | HTTP | - |

How a game runs through the parts: `CreateGame` writes state, timer and a metadata event in
one MULTI. Each WebSocket message is handled by a goroutine of its own (`websocket.go:82`),
which runs an update closure inside `UpdateChessStateTxn`; the commit closure queues events
in the same MULTI. A mate, a forfeit or an expired timer puts an entry on the finish-game
stream. The consumer records it, and when the game is a match of a tournament inserts a job.
The job draws the next round in a transaction and sets up its games in Redis.

The behaviours that are hard to test: handlers on several servers racing for a key; the same
result arriving twice or together with a timeout; transactions that conflict, are retried
and fail half way; entries and jobs that are lost or tried again; overlapping jobs of a
round; cron job against consumer. They are listed line by line under `hazards` in
`PROJECT.json`, each with the properties that cover it or the reason why none does.

## The modules

```
ChessState ── ChessGame ──────── ChessGame_proofs
     │            ▲ refines
     └──────── ChessStore ────── ChessStore_proofs
RatedGames ── GameResults
     │            ▲ refines
     └──────── FinishGame ────── FinishGame_proofs
TournamentMatcher ── Tournament ─ Tournament_proofs
Hexagons ── HexBoard ─────────── HexBoard_proofs
GameSocket ────────────────┐
ActiveUsers ───────────────┴──── Connections_proofs
LoginAttempts
     ▲ refines
  Accounts ───────────────────── Accounts_proofs
ProfilePics ──────────────────── ProfilePics_proofs
```

An `MC` module with the same name instantiates each for TLC.

### ChessState and ChessGame: one game

`ChessState` holds the value of a game and one operator per update closure (`Joined`,
`Moved`, `UndoCreated`, `UndoAccepted`, `UndoRejected`, `Ended`): a set of possible results,
empty where the closure returns an error. A color drawn at random gives two results.
`FinishEvents` and `MetadataEvents` are the commit closures. `ChessGame` applies them in one
step each; it is what a player is promised and the abstract specification of `ChessStore`.

The position is abstracted to the sequence of effects that moves had on it. This is what
turn order, undo and the end depend on. Which moves are legal is left open: a client may
play any move of three kinds (quiet, mating, promotion to a knight); `HexBoard` says which
moves there are. Promotion is there because the stored move does not name the piece: the
undo of a later move replays it as a queen. A caller without a session is the zero player,
`NoPlayer`, as in the code: `HandleGameWebSocket` goes on after a failed initialisation.

The timer's score is the time it was last touched, so it is due at once, and the end of a
game does not remove it: the timer may expire in any state.

### ChessStore: the optimistic transaction

Handlers (goroutines of any server) take inputs and interleave at the level of Redis
commands: `Watch`, `GetChessState` (GET and the update closure), `ExecCommits`,
`ExecRefused`, `ExhaustRetries`, and `Crash` anywhere. `dirty[h]` is what Redis keeps for a
connection that watches: a commit by anybody marks every other watcher. The timer script
does not write the game's key and marks nobody. `NoLostUpdate` is `ChessGame!Spec` under the
identity mapping of the shared variables.

### RatedGames, GameResults and FinishGame: recording results

A rating is modelled by the set of games it counts, which shows a lost and a doubled update
alike. `GameResults` is the promise: a game is recorded once, and in the same step both
ratings move on. `FinishGame` has one process per stream entry, whose steps are the
statements of `HandleFinishedGame`: `BackfillEvent`, `SelectUserElos` (the first queries fix
the snapshot), `InsertGameResult` / `RetryTx` / `RollbackTx` (the commit under repeatable
read: a row that was updated since the snapshot is a serialization failure),
`UpsertReplayMoveHistories`, `PublishTournamentEvent`, `UpdateLeaderboard`. `Fail` is an
error, a panic or a crash at any of them. `SelectEloList` and `SetLeaderboard` are the two
halves of the cron job. `TakeBack` is an undo accepted after the end of a game, which
`ChessGame` allows.

A game may have several entries: the result delivered twice, or the result and the timeout
of a timer that outlived it.

### TournamentMatcher and Tournament

`TournamentMatcher` translates `tournamentmatcher.go` operator by operator: first rounds
(linear, or best against worst), the winner of a knockout match, the rotation of a round
robin, the pairing by score of a Swiss tournament, the number of rounds, and who may win.
`Tournament` has the row, the participants, the matches with the results of their replays,
the event keys, the queue of jobs, the games in Redis and the results on their way back.
`course` never changes: it is the kind of tournament and what may happen to it, one of the
constant `Courses`, so that one run looks at tournaments of several kinds under bounds of
their own.

A job first looks up its event id. `TakeUpAgain` finds it consumed and takes its matches;
otherwise `AdvanceScheduledTournament` or `AdvanceInProgressTournament` inserts matches,
event key and row in one serializable transaction, or `CancelJob` rolls it back for a
`MatchInvariantError`. Then `SetupGame` sets up one game after the other, in any order (an
errgroup), until `CompleteJob`; `FailJob` may happen in between, and the job is tried again.
`RecordResult` and `PublishTournamentEvent` are the two steps of the finish-game consumer
that matter here; `LoseEvent` stands for a handler that fails, `RepeatEvent` for the timer
of a finished game.

Abstractions: Postgres transactions at level serializable are one step (their retries are
those of `FinishGame`), so that of two joins for the last seat one comes first: this is
Postgres's promise and is not tested here. What races is leaving, which is one statement
outside of such a transaction, and jobs with each other; ratings stay what they were,
so that the tiebreaker of a tie, which adds ratings as they are at that moment, may choose
any tied player; draws do not occur, because no operation of game play produces one; the
length of the countdown is left out; slots of completed jobs are used again.

### Hexagons and HexBoard: the rules

`Hexagons` is the board as `chess/board.go` addresses it, by file and rank within the file:
`Step` is the switch over directions with its cases left and right of the middle file, and
every piece moves by sequences of steps. Beside it stands the same board in cube
coordinates, where a step adds a vector: this is the reference.

`HexBoard` is package `chess`: `InitPieceMoves` with its lists and attack tables,
`ValidateMove`, `NewMove`, undo (`JumpMoveIndex` replays all moves but the last from the
initial board), and `Fen` / `ParseFen`. A state is a game as it is stored between two
requests; a step is a move that a client may ask for, or an undo. `SerializeGame` is what
storing it loses: a stored move names no promotion (`serde.go:165`), so an undo does all
moves again with `Redo`, in which a pawn on its last rank becomes a queen. `past` is the
history of the games that were played. What the model shows of the code, right or not:

- the second step of a pawn does not look at the first hexagon (`PawnMoves`);
- `HasPawnMoved` of a black pawn is `rank < 7`, which holds where black pawns start in the
  standard position: none of them ever takes two steps;
- a side in check keeps the moves of its king only (`game.go:260`, a TODO there): a check
  that could be blocked or captured away counts as mate;
- the white king's moves are computed before the black king's attacks are: kings may come to
  stand side by side, and one may capture the other;
- a side without moves that is not in check has no move and nothing ends the game
  (`Stalemate` is computed and not used by game play);
- `ParseFen` does not look at how long the last file was.

The notation of moves for people, with its `IsTake` that is never true, and the clock of a
move are left out.

### GameSocket: from a change to the client

The sockets of one game on several servers: `HandleGameWebSocket` (`Subscribe`, `JoinGame`,
`WriteInit` or `InitFails`), the reader, a handler per input, the writer, and the clean-up
of both ends; the goroutine that publishes an output; Redis, which sends what is published
to every server that listens; the listener with its reconnection; the broker that broadcasts
into channels of `GameplayChanBufCap` and drops for a full one. The game itself is only the
number of changes made to it (what a change is, is `ChessStore`), so "which output" is a
number and "in order" means something. Faults: a PUBLISH fails, a server loses Redis, a
client disconnects at any point. The signal of a reconnection goes to a channel with room
for one that only a test reads: after a second one the listener is `Blocked` for good
(`receivers.go:32`). The run has one lost connection and does not get there, since two take
it beyond five minutes; the proofs hold for any number, and `ChangesArrive` excepts a server
that has lost two. Brokers of chats, counts, users and tournaments are instances of the
same code.

### LoginAttempts and Accounts

`LoginAttempts` is the promise: attempts at an account take effect one after the other, and
none while it is locked. `Accounts` has the handlers of `network/restapi.go` for accounts,
and the jobs of the search index. `VerifyUser` is a serializable transaction that is open
while a password is compared: it is two actions, and a write of the same row in between
makes it fail (`SerializationFailure`); there is no retry, and the client hears that there
is no such user. Google login reads the **replica** and then inserts, with unique indexes as
the only guard. Jobs read the replica too. Time is one bit per account: was the last wrong
attempt within the lockout. Only `isLocked` reads the time and only after a wrong attempt,
so the bit is not kept after a right one.

What can happen, and is not called correct anywhere: a renamed user's session keeps the old
name, and the password is verified under that name (`restapi.go:148`); two `update-user`
jobs, or a job and a lagging replica, may leave an old name in the index for good; Google
accounts are not put there; `UpdateUser` reports a taken name as an internal error.

### ProfilePics

Uploads, the goroutine that each one starts (`ListProfilePics`, `DeleteExpiredPics`), and
the job `clear-s3-orphans` (`NextPage`, `SelectExistsUsersByIDs`, `DeleteOrphanedKeys`),
step by step with failures of either. Listings are in the order of keys, by pages, with a
continuation token. The prefix of a user ends without a slash: the pictures of user 12 are
also under that of user 1, whose goroutine lists them together and deletes all but one, so
that user 12 may be left with nothing. `NewestKept` therefore speaks of users whose prefix
no other cuts into. The job runs on the primary (`cronjob/main.go:39` gives no read DSN).
Guests may upload; to the job their pictures are orphans. No code deletes an account.

### ActiveUsers

The two connections of a page (`HandleActiveConn`, `HandleUserEvents`) and a viewer of the
counts, each handler command by command: ZADD NX with the time read before it, ZREM,
ZREMRANGEBYSCORE up to a time read before it, ZCARD. A handler may fail before any command;
a server that stops is the failure of its handlers. The clock is in ticks; a command is sent
within `CallTime` of the one before or fails, as the Redis client gives up at its time
limits. `seen` is kept for the properties alone. `RetainActiveUser` has no action: the
ticker that should call it is stopped before it ever fires
([below](#where-code-and-comments-disagree)).

## What is checked

`run` is the name in `PROJECT.json`. Every property of a passing run has a mutant: a
plausible bug in a mapped definition under which TLC finds it violated.

| Run | Configuration | States | Shows |
|---|---|---|---|
| `game` | `MCChessGame.cfg` | 346 k | three users and no session, 3 moves, 2 timeouts or results before timers stop |
| `store` | `MCChessStore.cfg` | 410 k | two handlers, five conflicting inputs, two attempts |
| `finish` | `MCFinishGame.cfg` | 276 k | two games that share a player, a timeout of the first, a cron job, any failures |
| `tournament` | `MCTournament.cfg` | 628 k | four tournaments of four players, see their [properties](#properties-of-a-tournament) |
| `hex_board` | `MCHexBoard.cfg` | 4.4 k | four endings with every kind of piece, two or three moves deep, one move taken back |
| `game_socket` | `MCGameSocket.cfg` | 275 k | two clients on two servers, three changes, one lost connection to Redis, channels of one |
| `accounts` | `MCAccounts.cfg` | 402 k | two clients register, guess, rename, change passwords and log in with Google |
| `pictures` | `MCProfilePics.cfg` | 1.67 M | users 1 and 12 and a guest, three uploads, pages of one key, listings of two |
| `active_users` | `MCActiveUsers.cfg` | 1.84 M | two pages of a user, a viewer, an age of two ticks, commands that take one, six ticks |

Three more runs (`finish_retry`, `knockout_stalls`, `active_maintained`) are refuted, see
[below](#where-code-and-comments-disagree).

### Properties of a game

- `OneResult`: at most one result is published, and exactly when the state says `Finished`.
  It takes the order of mate, undo, late join and forfeit to break it: nothing but `end`
  keeps a game whose mating move was taken back from being mated again.
- `ResultNamesSeats`: the published players are those still seated, two different ones.
- `BoardFollowsMoves`: an accepted undo leaves the position of the remaining moves, up to
  the piece of a promotion.
- `NoStaleUndo`: the position never changes under a pending undo request.
- `Settled`: seats, and how a game ended, never change; an ended game gets no move.

Bounds: three users give two players and a spectator; three moves suffice for a move of
either side, a mate, its undo and another move; two entries for a result and a timeout in
either order.

### Properties of the transaction

- `NoLostUpdate`: the handlers implement `ChessGame`. (Proved along with it:
  `CleanViewIsCurrent`, a handler whose EXEC would be accepted holds what is stored.)
- `InputsAnswered`: a handler that has begun ends. Fairness: weak, per handler, on its own
  steps. A goroutine that can run is run by the Go scheduler and Redis answers; nothing is
  assumed of clients, timers, crashes.

Two handlers are enough to refuse each other; with two attempts a handler may retry and
exhaust. The proofs hold for any number of either.

### Properties of recording

- `EloCountsReplays`: every rating counts exactly the recorded games of its account.
- `RecordedOnce`: the handlers implement `GameResults`.
- `CountedOnce`: until the cron job has written, no game is counted twice in a score.
- `DoneIsComplete`: an entry handled to its end leaves replay, moves and job behind, also if
  another entry of its game was lost half way.

Bounds: two games that share a player give a conflict of transactions; two entries of the
first game give a repetition and a loss of either; one cron job overlaps all of it.

### Properties of a tournament

- `RoundsInOrder`: no match of a round exists before all of the round before are recorded.
- `PlayersGoOn`: nobody plays twice in a round; everybody plays in every round, in a
  knockout the winners of the round before.
- `ParticipantsPlay`: the first round is that of the participants, then and later.
- `GamesAreSetUp`: a committed match without a game has a job that will set it up, as long
  as the queue has attempts left (the runs fail less often than a job may be tried; River
  tries 25 times).
- `WinnerHasMost`: the winner took part, and nobody has more wins in the rounds that count.
- `StatusForward`: the status moves forward, one step at a time, and a winner stays.
- `TournamentEnds`: a Swiss tournament or round robin with matches ends, if no result is
  lost. (A knockout does not, see below.) Fairness: weak, on all steps of jobs, consumer and players together.
  River works the jobs it has; players are assumed to end their games, by a move or by a
  forfeit: the code does not see to that, as an expired game is never recorded (below).

The run begins with one of the `AllCourses` of `MCTournament`: a knockout whose last player
comes and goes, with a failed job, a lost and a repeated result and three jobs at a time; a
Swiss tournament where nothing fails, with every result of every game; a round robin; and a
Swiss tournament with a failed job, a repeated result and two jobs at a time.

Bounds: four players give a knockout of two rounds, a Swiss tournament of two and a round
robin of six, the extra round included. With three slots both jobs of a round and a repeated
one overlap. White wins the games of the round robin and of the last course: all results
of six rounds are too many. `CHECK_DEADLOCK FALSE`: a tournament that is over, cancelled or
has lost a result stops, and so does a consumer without entries, a game whose moves are used
up, or a server without clients.

### Properties of the rules

- `MovesAreGeometric`: rooks, bishops, queens and knights go where lines and leaps in cube
  coordinates let them go, up to the first piece: the cases of the walks left, right and on
  the middle file agree.
- `CheckIsThreat`: a side is in check exactly when a man of the other side threatens its
  king in cube coordinates, along an open line, by a leap or by one of the two captures of
  a pawn, or when the other king's list holds its hexagon: the tables, which are computed
  from lists and from what is attacked but not yet there, miss nothing and invent nothing.
- `ReplayGivesGame`: what a replay of any number of the stored moves gives resembles the
  game there was then. Squares, captures and the turn are the same; a man that a pawn was
  promoted to may be a queen, on the board, among the taken and as the piece of a later
  move. The comment at `chess/game.go:601` expects no difference at all, which storing the
  moves makes impossible (see [below](#where-code-and-comments-disagree)); the run reaches
  each of the three differences.
- `PawnsPromote`: no pawn comes to stand on its last rank.
- `FenRoundTrip`: a position survives being written and read.

Bounds: the endings have rook against rook and a pawn before promotion, a black pawn that
may promote by moving or capturing, and knight, bishop and pawns on the middle files; in two
moves (`MaxMoves`) each has captures and promotions, and the undo of either. The fourth is
of few men and three moves deep: a promotion, a move or the capture of what was promoted,
one more move, and the undo of that. Lists are checked in every
position; lines of all pieces from all hexagons are those of `Hexagons`, where
`StepIsTranslation` is proved for each hexagon.

### Properties of sockets

- `NoGap`: after the version a client was shown first, each change has reached it, is on its
  way, was dropped for a full channel, or was lost because PUBLISH failed or the server had
  lost Redis. It is the order subscribe, join, write that matters.
- `ChannelsClosedOnce`: no send on a closed channel and no second close, either a panic.
- `SameOrder`: no two clients see two changes in different orders (they may see them in an
  order other than that of the game: publishing goroutines overtake each other).
- `ChangesArrive`: the latest change gets to every connected client that has joined, unless
  missed as in `NoGap`, or its server lost Redis twice.
- `SocketsEnd`: a closed connection ends both goroutines and its subscription.
- `RefusalsAnswered`: a refused input is answered while the connection is open. (Later its
  handler may wait for ever: the error channel has no buffer and its reader is gone.)

Fairness (`FairSpec`): weak, on what servers do by themselves; inputs, disconnections and
faults need not happen. Every run of those steps is finite within the bounds, so no choice
between them is forced beyond what a scheduler, and a `select` that is random among ready
cases, do. Bounds: one change by each join and one more fill a channel of one and let two
outputs overtake.

### Properties of accounts

- `AttemptsAreAtomic`: `Accounts` implements `LoginAttempts`.
- `OneGoogleAccount`: the Google login, which checks the replica, makes one account.
- `RegisteredIsFound`: whoever registers gets into the search index, although the job may
  run before the replica has the account. Fairness (`FairSpec`): the replica catches up
  again and again, River takes up a job that can run, and a job that is tried again and
  again does reach the index once (strong, on that step; River's finite number of attempts
  is left out). None for handlers or clients.

Bounds: a second request of the same kind and two passwords suffice for a wrong and a right
attempt in the same instant; with a divisor of 2 and at most 3 wrong attempts an account
locks, is unlocked by time and counts on. One job at a time: a second one waits for it.

### Properties of pictures

- `NewestKept`: the newest picture under a prefix of its own is never deleted, beyond a page
  and beside the orphan job. Of pictures of the same second the newest is the one whose key
  comes last, for the code as for the property: one that was uploaded later in that second
  may go, and no property says otherwise.
- `OneIsLeft`: when all goroutines have ended without failure, a user within a page has one
  picture.
- `RunIsComplete`: a job without errors has removed each orphan of its beginning, although
  it deletes while it pages through.

Bounds: three uploads are a newest one, an expired one and one that a goroutine does not see
yet, or one of each owner; pages of one key make the job go through three pages.

### Properties of active users

- `CountsAreRecent`: what is counted are users who had a page open within the age and the
  time of two commands. Crashes, a removal that overtakes the addition, and a purge with an
  old time all stretch it, no further.
- `ActiveUntilAge`: while the connection that should maintain it is open and none of the
  user's pages has closed, a user is active until the age after their first page connected.
  This is what is left of `MaintainedWhileConnected`, and rests on the order of steps in two
  handlers and a third that purges: the member is made before the connection counts as open,
  by ZADD NX at a time that was read earlier, and beside purges whose time is older or newer.
  Members left over from before the page connected are its limit: ZADD NX keeps their score.

Bounds: two pages of one user are enough for one to remove the other's member and for a
member that outlives its page; six ticks are three times the age.

## What is proved

All theorems hold for every value of the constants under the assumptions named in the
modules: sets of users, handlers, games and entries of any size, any bounds. Every property
of a passing run is a theorem, but for those [at the end of this section](#only-model-checked).

The prover cannot instantiate the library's induction theorems. Where a proof needs to count
up, it goes by the least counterexample (`Least`: a nonempty set of numbers has a least one,
from the well-foundedness of finite sets), for the one set that is needed.

**ChessGame_proofs**: `TypeCorrect`, `PublishesOneResult` (`OneResult`), `ResultIsOfSeats`
(`ResultNamesSeats`), `StaysSettled` (`Settled`), `UndoIsFresh` (`NoStaleUndo`),
`BoardIsOfItsMoves` (`BoardFollowsMoves`). The inductive invariant is `TypeOK`, that the two
seats differ, `OneResult` and `ResultNamesSeats`. The seats are needed since
`ResultNamesSeats` says nothing before there is a result, while an end publishes whoever is
seated. The lemma `UpdatedGood` collects what every closure guarantees, so that the step
needs one case for a request and one for the timer.

**ChessStore_proofs**: `TypeCorrect`, `CleanViews` (`CleanViewIsCurrent`),
`TransactionsAreAtomic` (`NoLostUpdate`), the refinement, and `GameKeepsItsPromises`: what
is proved of `ChessGame` carries over to the game that the handlers share through Redis, one
result included. The invariant adds to `CleanViewIsCurrent` that a handler with a request has
one of the inputs. A commit writes the game and marks every watcher in the same step: this
keeps views current, and it makes the commit a step of `ChessGame` on the latest state. All
other steps stutter.

**FinishGame_proofs**: `TypeCorrect`, `NoRatingIsLost` (`EloCountsReplays`),
`OthersLearnLater` (`RecordComesFirst`), `ScoresCountOnce` (`CountedOnce`),
`EndLeavesNothingUndone` (`DoneIsComplete`), `RecordsEachGameOnce` (`RecordedOnce`).
`EloCountsReplays` is inductive with the types: a commit without conflict writes what the
snapshot and the rating have in common. The other properties need to know, for a handler at
each step, what is already there: past the transaction its game is recorded, past the upsert
its moves are stored, past the job it is inserted; and that a score counts a game only if
the handler that recorded it has passed the leaderboard, of which there is one per game
because only one entry of a game finds no replay.

**Tournament_proofs**: `TypeCorrect`, `OneRoundAfterTheOther` (`RoundsInOrder`),
`RoundsArePlayedOn` (`PlayersGoOn`), `ParticipantsAreDrawn` (`ParticipantsPlay`),
`NoGameIsForgotten` (`GamesAreSetUp`), `BestPlayerWins` (`WinnerHasMost`),
`StatusMovesForward` (`StatusForward`) and `KnockoutStops`, for any players, rounds, jobs
and results lost or repeated. The invariant has two parts. `RoundPart` is about Postgres:
the status against the rounds there are (`LobbyInv`, `TotalInv`), matches without result
only in the last round and a user once in a round (`RoundsInv`), who plays the next round
(`FieldInv`: everybody, or in a knockout the winners of the last), and that a round of a
knockout has half the matches of the one before (`HalvesInv`). `JobPart` is about River and
Redis: what is left to set up for a match is known to a job that will run (`JobsInv`,
`NoGameForgotten`). A step changes one of the two, except the transaction that inserts a
round and its keys. The rest are lemmas on the pairings: each of the three rulesets takes
everybody once. `NoGameIsForgotten` has the hypothesis that fewer than `MaxAttempts`
attempts failed, since River discards a job after that many, and its games with it; the runs
keep below it. `KnockoutStops` is the other side of `knockout_stalls`: no knockout of any
size ever gets to `FINISHED`, because its matches are counted in powers of two.

**HexBoard_proofs**: `MovesGiveGame` (`ReplayGivesGame`), `PawnsPromoteThm`
(`PawnsPromote`), `CheckMeansThreat` (`CheckIsThreat`), `PiecesMoveGeometrically`
(`MovesAreGeometric`), `PositionIsReadBack` (`FenRoundTrip`), for every initial position and
length of game; `StepIsTranslation` (a step of the code's coordinates adds its direction's
vector in cube coordinates) and `BoardIsHexagon` (the hexagons are those within five of the
middle in each cube coordinate). The invariant `HexInv` says that what is stored names no
promotion, that the stored moves can be replayed from the initial board, and that there are
games which such a replay goes through, each of which resembles the game that was played
then (`Replayable`), after as many moves, the same ones; and that no pawn stands where it
should have been promoted. The difference between the two has to be carried along: a man
that came back as a queen may move or be taken, and the pair of games still resembles each
other (`MoveFollows`, `StepResembles`), because what moved is a pawn in both or in neither,
and so promotes in both or in neither. Undo stays within it because the replay is that
chain, counting up (`ReplayIsChain`: the recursive function is what its recursion
determines). On geometry: walks over the board's cases add vectors, a line is the multiples
of one until it leaves the board, and the hexagon is convex, so that it does not come back.
On check: a man's moves that end on the king are the attacks that geometry gives it
(`MovesOntoKing`); a pawn's forward moves are none, as they need an empty hexagon; and the
table of a side is all of these (`TableIsThreat`). On the notation: the reader, after what
the writer has put out, is behind by the empty hexagons the writer has not yet counted
(`Halfway`), and at the start of the next file after the slash (`FileRead`).

**Connections_proofs**, of `GameSocket`: `TypeCorrect`, `ClosesOnce` (`ChannelsClosedOnce`), `MissesNothing`
(`NoGap`), `ClientsAgree` (`SameOrder`), for any servers, clients, inputs and lost
connections. The invariant relates the phase of a connection to its goroutines, to its
subscription and to whether its channel was closed, and says that each change since a *join*
is known of: `NoGap` alone speaks of connections that are served already. Most steps leave
messages alone (`StillKeeps`); one lemma each says that publishing, losing a connection,
receiving and writing lose track of no change. For `ClientsAgree` the invariant says that
what a client has, its channel and its server's inbox, one after the other, come in the
order in which Redis sent them, none twice.

Of `ActiveUsers`, which shares no state with `GameSocket` (its specification is called
`ActiveSpec`, so that one module can extend both): `CountsAreOfRecentUsers`
(`CountsAreRecent`) and `StaysActiveUntilAge` (`ActiveUntilAge`), for any pages, users,
viewers, age and times. The invariant is about times: a handler's command is sent within
`CallTime` of the one before (`InTime`); who is connected has been seen now, and a member
was made no later than its user was last seen (`SeenWhileConnected`); and who is a member
when a handler is about to count was seen within the age and one `CallTime` of its purge
(`SeenSincePurge`), also if added in between: only a page that is connected adds its user.
`HandlerKeeps` is the step for every action that lets nobody connect. For `ActiveUntilAge`
it adds that no score is from before its user first arrived (`ArrivedBefore`), and that a
connection past its ZADD NX has its user in the set (`StaysUntilAge`), in the stages of its
purge and count as well; `SetChanges` says what a step may do to the set for both to stay.

**Accounts_proofs**: `TypeCorrect` (`TypeOK`), `GoogleAccountIsOne` (`OneGoogleAccount`),
`LoginsAreAtomic` (`AttemptsAreAtomic`, the refinement), for any clients, names, passwords
and jobs. The invariant says that ids are given out in order (so that registering writes a
row that nobody has), that sessions, handlers, jobs and the replica name only accounts there
are, and that an account whose password is being compared is not locked unless the
transaction is bound to fail (`Sound`): whoever counts an attempt on the row in between
makes the others fail. Each action either leaves the table alone, inserts a row or updates
one (`Inserts`, `Updates`), and one lemma each says what this keeps.

**ProfilePics_proofs**: `TypeCorrect`, `NewestIsKept` (`NewestKept`), `AccountsAreSpared`
(`JobSparesAccounts`: what the job deletes belongs to nobody who is registered at that
moment), `OldOnesGo` (`OneIsLeft`), `OrphansGo` (`RunIsComplete`). The invariant adds that
listings hold uploads only, that uploads are of accounts or guests, and that the job about
to delete knows every account on its page. The step is that of two prefixes of a key one is
a prefix of the other, so that a goroutine that lists the newest picture lists only what is
older. For the other two it adds that of two pictures of a user the older is under a
goroutine that will list or has listed it, and that an orphan from before the run is on the
job's page or behind its continuation token; both need the order of keys to be total.

### Only model-checked

All liveness (`InputsAnswered`, `TournamentEnds`, `ChangesArrive`, `SocketsEnd`,
`RefusalsAnswered`, `RegisteredIsFound`) and `ENABLED`, which are beyond the prover. Every
safety property of a passing run is proved.

## Where code and comments disagree

Three of them have a run that TLC refutes:

| Run | Property | The code |
|---|---|---|
| `finish_retry` | `FailedIsRetried` | an entry whose handler failed is acknowledged, or is never read again (`streams.go:90`, `165`); the comment promises a retry |
| `knockout_stalls` | `KnockoutStopsAtOne` | the parity check refuses the step after the final: a knockout never finishes |
| `active_maintained` | `MaintainedWhileConnected` | `Schedule` stops its ticker as it returns (`schedule.go:11`), so `RetainActiveUser` is never called: who stays for `ActiveUserMaxAge` is no longer active, although `HandleActiveConn` is there "to maintain an active user" |

Others were met while modelling. They are in the modules as the code has them and have no
run:

- `gameover.go:298`: the cause of an expired game is no value of `cause_enum`; the
  transaction of such an entry always rolls back, and the result is never recorded.
- `gameover.go:74`: another entry of a recorded game overwrites its moves, from which one
  may have been taken back since.
- `leaderboard.go:48`: ZADD NX leaves members alone and ZINCRBY scores new ones from zero,
  so that the batch job does not recover scores; `leaderboard.go:112` may even add a stale
  one.
- `tournamentadvancer.go:346`: a job that is tried again sets up games that are being played
  or are over.
- `chess/game.go:268`: a king may be captured (see HexBoard above); with it the notes on
  pawns and checks there.
- `profile.go:42`: the prefix without a slash (see ProfilePics); the comments there and at
  `profile.go:152` promise the user's newest picture.
- `events.go:119`: a page that closes removes its user although another page is connected;
  `activeuser.go:76` does not renew the score of a user who comes back after a crash; and
  `IsActiveUser` does not look at the age, so that who has gone is active until somebody
  counts. Nothing is said of either.
- `gamemeta.sql:12` counts the games in a snapshot without the row it inserts: the number
  that is broadcast for a new game is one too low.
- `restapi.go:411`: the start color of a challenge, "from challenger's perspective"
  (`model/challenge.go:30`), goes to whoever joins its game first; when the game cannot be
  made, the challenge is gone all the same; an answer names two users, so that one from an
  old list may accept a later challenge of the pair in another color; expired challenges are
  not listed, but can be accepted from an old list, are counted, and stop their challenger
  from challenging again (`DeleteExpiredChallenges` is not called).
- `events.go`: the handler of count events reads the counts before it subscribes; a change
  in between is not seen until the next one. `HandleGameWebSocket` has the right order
  (`NoGap`).
- `gameplay.go:146` and `253` publish the standard board with every result; a game from
  another position gets a replay that starts from the wrong one (`FinishEvent`).
- `serde.go:165` stores no promotion: after an undo of a later move a knight is a queen,
  although `chess/game.go:601` expects the recomputed move to be the same. `RedoMove` in
  `ChessState` and `SerializeGame` in `HexBoard` do this; `BoardFollowsMoves` and
  `ReplayGivesGame` say that nothing else is lost.
- `tournamentmatcher.go:180` starts a round robin or Swiss tournament of nobody, which
  `tournamentmatcher.go:376` calls impossible (`CanStart`).
- `tournamentupdater.go:247` takes the stored milliseconds of a countdown for seconds.
- `tournamentmatcher.go:73` plays n(n-1)/2 rounds, each with n/2 matches, where a round
  robin has n-1.

## What is not modelled

`PROJECT.json` lists every component with its status.

- *Generated code* (`pb/`, `rpc/`, `querier_mock.go`, most of `database/`): some 21 of the
  37 thousand lines of implementation. The queries are modelled where they are used. This,
  and the test inputs of `itest/`, is why the definitions stand for a small share of all
  lines.
- *Matchmaker*: `cmd/` starts no server of it, the tick that would make pairs is commented
  out, and `BeginMatch` pairs a user with itself if it asks twice: there is no behaviour to
  be faithful to yet.
- *Challenges*: an insertion and a DELETE ... RETURNING, one statement each; the game that
  follows is created as in `ChessGame`.
- *Chats*: single commands of Redis, and an index entry that may be lost.
- *The list of games*: upserts of a game wait for each other, and an older seating may
  overwrite a newer one (`chessmeta.go:35`).
- *Queries*, validation and mapping of HTTP, presentation, frontend, deployment: no state of
  theirs.

Not modelled inside the modules: the errors that the bucket reports for single objects of a
deletion that succeeds otherwise (the code does not look at them, and the pictures stay),
clocks (a timer may be due at any time, a job at once), the
TTL of game keys, the partition of games over streams and sorted sets, the numbers of the
rating formula, the attempts River has for an `update-user` job.

## Plan

Done, with proofs: `ChessState`, `ChessGame`; `ChessStore`;
`RatedGames`, `GameResults`, `FinishGame`; `TournamentMatcher`, `Tournament`; `Hexagons`,
`HexBoard`; `GameSocket`; `LoginAttempts`, `Accounts`; `ProfilePics`; `ActiveUsers`.

Next, in the order of what a failure would cost:

1. `GameList`: the upserts of `gamemeta.sql` under the lock of a row, and a client that reads
   the list page by page meanwhile: no game twice, none missed that was left alone. Then
   `Challenges`: one answer and one game each.
2. `Delivery`: consumer group, pending entries and acknowledgement, as an abstract stream
   that `FinishGame` and the metadata consumer share.
