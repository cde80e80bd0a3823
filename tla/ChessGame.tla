------------------------------ MODULE ChessGame -------------------------------
(***************************************************************************)
(* One game as its players are promised it: every operation of             *)
(* GamePlayService takes effect in one step, on the latest state, together *)
(* with the timer it touches and the events it publishes.  ChessStore      *)
(* shows that the optimistic Redis transactions implement this.            *)
(***************************************************************************)
EXTENDS ChessState

CONSTANT
    MaxEvents   \* bound on the finish-game stream: timers expire below it only

VARIABLES
    game,       \* the ChessState under the game's key
    timer,      \* is the game in the timers sorted set of its partition
    metadata,   \* seatings published on the update-game-metadata stream
    finishGame  \* the finish-game stream, oldest first

vars == <<game, timer, metadata, finishGame>>

(***************************************************************************)
(* CreateGame: the state, its timer and the first metadata event are       *)
(* written in one MULTI.  Tournament games are created with both players,  *)
(* every other game with none.                                             *)
(***************************************************************************)
Init ==
    /\ \E color \in Colors, start \in Boards :
          \/ game = NewChessState(NoPlayer, NoPlayer, color, start)
          \/ \E w \in Users : \E b \in Users \ {w} : game = NewChessState(w, b, color, start)
    /\ timer = TRUE
    /\ metadata = {Seating(game)}
    /\ finishGame = <<>>

\* SET state, ZADD timer and the commit closure, executed by one EXEC.  The
\* score written is the present time, so that the timer is due from then on.
Committed(r, g) ==
    /\ game' = g
    /\ timer' = TRUE
    /\ metadata' = metadata \cup MetadataEvents(r, g)
    /\ finishGame' = finishGame \o FinishEvents(r, g)

Handle(r) == \E g \in Updated(game, r) : Committed(r, g)

JoinGame(p) == Handle([op |-> "Join", user |-> p, move |-> "None"])
MakeGameMove(p, m) == Handle([op |-> "Move", user |-> p, move |-> m])
AttemptGameUndo(p, kind) == Handle([op |-> kind, user |-> p, move |-> "None"])
EndGame(p) == Handle([op |-> "End", user |-> p, move |-> "None"])

\* The POLL_GAME_TIMERS script: take the due timer, publish a timeout.
TryExpireTimers ==
    /\ timer
    /\ Len(finishGame) < MaxEvents
    /\ timer' = FALSE
    /\ finishGame' = Append(finishGame, TimeoutEvent)
    /\ UNCHANGED <<game, metadata>>

Next ==
    \/ \E p \in Callers : JoinGame(p)
    \/ \E p \in Callers, m \in MoveKinds : MakeGameMove(p, m)
    \/ \E p \in Callers, kind \in UndoKinds : AttemptGameUndo(p, kind)
    \/ \E p \in Callers : EndGame(p)
    \/ TryExpireTimers

Spec == Init /\ [][Next]_vars

-----------------------------------------------------------------------------
\* Type invariant of the stored game and of the keys written with it.
TypeOK ==
    /\ game \in Games
    /\ timer \in BOOLEAN
    /\ metadata \subseteq [white : Callers, black : Callers]
    /\ finishGame \in Seq(GameplayEvents \cup {TimeoutEvent})

IsResult(i) == i \in DOMAIN finishGame /\ finishGame[i].cause # "Timeout"

(***************************************************************************)
(* A game publishes one result: whatever mates, forfeits, undos, late      *)
(* joins and expired timers follow each other, the stream holds at most    *)
(* one event that carries a result, and it holds one exactly when the      *)
(* state says Finished.                                                    *)
(***************************************************************************)
OneResult ==
    /\ \A i, j \in DOMAIN finishGame : IsResult(i) /\ IsResult(j) => i = j
    /\ game.end = "Finished" <=> \E i \in DOMAIN finishGame : IsResult(i)

(***************************************************************************)
(* The published result is about the two players who are still seated:     *)
(* two different ones, neither of whom took the seat after the end.        *)
(***************************************************************************)
ResultNamesSeats ==
    \A i \in DOMAIN finishGame : IsResult(i) =>
        /\ finishGame[i].white = game.white
        /\ finishGame[i].black = game.black
        /\ Seated(game) = {game.white, game.black}
        /\ game.white # game.black

(***************************************************************************)
(* The board is what the stored moves lead to, one effect per move, up to  *)
(* the piece a promotion chose: an undo that replays the history never     *)
(* leaves a board that some other history would lead to.                   *)
(***************************************************************************)
BoardFollowsMoves ==
    /\ Len(game.board) = Len(game.moves)
    /\ \A i \in DOMAIN game.moves :
          \/ game.board[i] = RedoMove(game.moves[i])
          \/ game.board[i] = "Knight" /\ game.moves[i] = "Promotion"

(***************************************************************************)
(* No stale undo: a request to take a move back outlives no change of the  *)
(* position, so that accepting it takes back the move it was made about.   *)
(***************************************************************************)
NoStaleUndo ==
    [][game'.board # game.board => game'.undo = NoPlayer]_vars

(***************************************************************************)
(* What is settled stays settled: a taken seat keeps its player, an ended  *)
(* game stays ended as it did, and no move is added to it.                 *)
(***************************************************************************)
Settled ==
    [][/\ game.white # NoPlayer => game'.white = game.white
       /\ game.black # NoPlayer => game'.black = game.black
       /\ IsEnded(game) => /\ game'.end = game.end
                           /\ Len(game'.moves) <= Len(game.moves)]_vars

=============================================================================
