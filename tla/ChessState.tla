------------------------------ MODULE ChessState ------------------------------
(***************************************************************************)
(* The value of one game as the backend keeps it in Redis, and what each   *)
(* websocket operation does to it.  Every operator below is the update or  *)
(* the commit closure of one method of GamePlayService: it is a function   *)
(* of the stored state, so that ChessGame can apply it in one step and     *)
(* ChessStore can run it inside the optimistic Redis transaction.          *)
(*                                                                         *)
(* The hexagonal board is abstracted to the sequence of effects the moves  *)
(* had on it since the initial board: this is all that turn order, undo    *)
(* and check mate depend on.  Which moves are legal is left open.          *)
(***************************************************************************)
EXTENDS Naturals, Sequences

CONSTANTS
    Users,      \* identities a session can carry: accounts and guests
    NoPlayer,   \* the zero PlayerState: an empty seat, a client without session
    MaxMoves    \* bound on the length of a game

ASSUME UsersAssumption == NoPlayer \notin Users
ASSUME MaxMovesAssumption == MaxMoves \in Nat

Callers   == Users \cup {NoPlayer}
EndKinds  == {"NotEnded", "Aborted", "Finished"}
Colors    == {"White", "Black", "Random"}
UndoKinds == {"Create", "Accept", "Reject"}

(***************************************************************************)
(* A legal move as the client sends it: an ordinary one, one that leaves   *)
(* the opponent in check without a move, or a promotion to a piece other   *)
(* than the default queen.                                                 *)
(***************************************************************************)
MoveKinds == {"Quiet", "Mating", "KnightPromotion"}

Requests ==
    [op : {"Join", "End", "Create", "Accept", "Reject"}, user : Callers, move : {"None"}]
        \cup [op : {"Move"}, user : Callers, move : MoveKinds]

-----------------------------------------------------------------------------
(* What is kept of a move.  The protobuf HistMove has no promotion field, so *)
(* a promotion comes back from Redis without its piece; replaying a move     *)
(* that names no piece promotes to a queen.                                  *)

HistMoves == {"Quiet", "Mating", "Promotion"}
Effects   == {"Quiet", "Mating", "Knight", "Queen"}

SerializeHistMove(m) == IF m = "KnightPromotion" THEN "Promotion" ELSE m
NewMove(m)  == IF m = "KnightPromotion" THEN "Knight" ELSE m
RedoMove(h) == IF h = "Promotion" THEN "Queen" ELSE h

JumpMoveIndex(moves, count) == [i \in 1 .. count |-> RedoMove(moves[i])]

(***************************************************************************)
(* A game starts from the standard board or from a position the creator    *)
(* chose, where either side may be on the move.                            *)
(***************************************************************************)
Boards == [standard : {TRUE}, whiteTurn : {TRUE}]
            \cup [standard : {FALSE}, whiteTurn : BOOLEAN]

Games ==
    [white : Callers, black : Callers, firstColor : Colors, undo : Callers,
     end : EndKinds, start : Boards, moves : Seq(HistMoves), board : Seq(Effects)]

NewChessState(w, b, color, start) ==
    [white |-> w, black |-> b, firstColor |-> color, undo |-> NoPlayer,
     end |-> "NotEnded", start |-> start, moves |-> <<>>, board |-> <<>>]

-----------------------------------------------------------------------------
Seated(g) == {g.white, g.black} \ {NoPlayer}
HasBothPlayers(g) == g.white # NoPlayer /\ g.black # NoPlayer
IsEnded(g) == g.end # "NotEnded"
IsWhiteTurn(g) == (Len(g.board) % 2 = 0) <=> g.start.whiteTurn
CurrPlayer(g)  == IF IsWhiteTurn(g) THEN g.white ELSE g.black

(***************************************************************************)
(* The update closures.  Each yields the set of states the closure may     *)
(* leave; the empty set is an error return, which aborts the transaction.  *)
(***************************************************************************)

\* The first player takes the color the creator asked for, or a random one;
\* the second takes the seat left over; anybody else watches.
SeatsOnOffer(g) ==
    IF Seated(g) = {}
    THEN IF g.firstColor = "Random" THEN {"White", "Black"} ELSE {g.firstColor}
    ELSE IF g.white = NoPlayer THEN {"White"} ELSE {"Black"}

Sit(g, p, color) ==
    IF color = "White" THEN [g EXCEPT !.white = p] ELSE [g EXCEPT !.black = p]

\* Mutants: a player who is seated is seated again; a full game is joined.
MutJoinedTwice(g, p) ==
    IF p = NoPlayer \/ HasBothPlayers(g) THEN {g} ELSE {Sit(g, p, color) : color \in SeatsOnOffer(g)}

MutJoinedFull(g, p) ==
    IF p = NoPlayer \/ p \in Seated(g)
    THEN {g}
    ELSE {Sit(g, p, color) : color \in SeatsOnOffer(g)}

Joined(g, p) ==
    IF p = NoPlayer \/ p \in Seated(g) \/ HasBothPlayers(g)
    THEN {g}
    ELSE {Sit(g, p, color) : color \in SeatsOnOffer(g)}

\* Mutants: the pending undo outlives the move; a finished game goes on.
MutMovedUndoKept(g, p, m) ==
    IF HasBothPlayers(g) /\ ~IsEnded(g) /\ p = CurrPlayer(g) /\ Len(g.moves) < MaxMoves
    THEN {[g EXCEPT !.moves = Append(@, SerializeHistMove(m)),
                    !.board = Append(@, NewMove(m)),
                    !.end   = IF m = "Mating" THEN "Finished" ELSE @]}
    ELSE {}

MutMovedAfterEnd(g, p, m) ==
    IF HasBothPlayers(g) /\ p = CurrPlayer(g) /\ Len(g.moves) < MaxMoves
    THEN {[g EXCEPT !.moves = Append(@, SerializeHistMove(m)),
                    !.board = Append(@, NewMove(m)),
                    !.end   = IF m = "Mating" THEN "Finished" ELSE @,
                    !.undo  = NoPlayer]}
    ELSE {}

Moved(g, p, m) ==
    IF HasBothPlayers(g) /\ ~IsEnded(g) /\ p = CurrPlayer(g) /\ Len(g.moves) < MaxMoves
    THEN {[g EXCEPT !.moves = Append(@, SerializeHistMove(m)),
                    !.board = Append(@, NewMove(m)),
                    !.end   = IF m = "Mating" THEN "Finished" ELSE @,
                    !.undo  = NoPlayer]}
    ELSE {}

UndoCreated(g, p) ==
    IF p # NoPlayer /\ p = CurrPlayer(g) THEN {} ELSE {[g EXCEPT !.undo = p]}

\* Mutant: the board is replayed to the last move, not to the one before.
MutUndoAccepted(g, p) ==
    IF g.undo \notin {NoPlayer, p} /\ g.moves # <<>>
    THEN {[g EXCEPT !.moves = SubSeq(@, 1, Len(@) - 1),
                    !.board = JumpMoveIndex(g.moves, Len(g.moves)),
                    !.undo  = NoPlayer]}
    ELSE {}

UndoAccepted(g, p) ==
    IF g.undo \notin {NoPlayer, p} /\ g.moves # <<>>
    THEN {[g EXCEPT !.moves = SubSeq(@, 1, Len(@) - 1),
                    !.board = JumpMoveIndex(g.moves, Len(g.moves) - 1),
                    !.undo  = NoPlayer]}
    ELSE {}

UndoRejected(g, p) == IF g.undo = NoPlayer THEN {} ELSE {[g EXCEPT !.undo = NoPlayer]}

Ended(g, p) ==
    IF ~IsEnded(g) /\ p \in Seated(g)
    THEN {[g EXCEPT !.end = IF HasBothPlayers(g) THEN "Finished" ELSE "Aborted"]}
    ELSE {}

Updated(g, r) ==
    CASE r.op = "Join"   -> Joined(g, r.user)
      [] r.op = "Move"   -> Moved(g, r.user, r.move)
      [] r.op = "Create" -> UndoCreated(g, r.user)
      [] r.op = "Accept" -> UndoAccepted(g, r.user)
      [] r.op = "Reject" -> UndoRejected(g, r.user)
      [] r.op = "End"    -> Ended(g, r.user)

-----------------------------------------------------------------------------
(* The commit closures: what is queued in the same MULTI as the new state.   *)

Causes  == {"Checkmate", "Forfeit", "Timeout"}
Results == {"WhiteWin", "BlackWin"}

\* An expired timer publishes the game's id and nothing else.
TimeoutEvent == [cause |-> "Timeout"]

GameplayEvents ==
    [cause : Causes \ {"Timeout"}, result : Results, white : Callers, black : Callers,
     board : Boards, moves : Seq(HistMoves)]

FinishEvent(g, cause, result) ==
    [cause |-> cause, result |-> result, white |-> g.white, black |-> g.black,
     board |-> [standard |-> TRUE, whiteTurn |-> TRUE], moves |-> g.moves]

\* MakeGameMove: nothing until the game has ended, then the side that is not
\* on the move has won.  EndGame: the player who ends a full game loses it.
FinishEvents(r, g) ==
    CASE r.op = "Move" /\ IsEnded(g) /\ HasBothPlayers(g) ->
            <<FinishEvent(g, "Checkmate", IF IsWhiteTurn(g) THEN "BlackWin" ELSE "WhiteWin")>>
      [] r.op = "End" /\ HasBothPlayers(g) ->
            <<FinishEvent(g, "Forfeit", IF g.black = r.user THEN "WhiteWin" ELSE "BlackWin")>>
      [] OTHER -> <<>>

Seating(g) == [white |-> g.white, black |-> g.black]

MetadataEvents(r, g) == IF r.op = "Join" THEN {Seating(g)} ELSE {}
=============================================================================
