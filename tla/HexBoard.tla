-------------------------------- MODULE HexBoard --------------------------------
(***************************************************************************)
(* The rules of the game as package chess implements them: the moves each  *)
(* side has (InitPieceMoves), which of a client's moves are accepted       *)
(* (ValidateMove), what a move does to the board and to the pieces taken   *)
(* (NewMove), and how a position is computed again from the moves          *)
(* (JumpMoveIndex), which is how a move is taken back.  Between any two of *)
(* these the game is written to Redis and read back (SerializeGame).       *)
(*                                                                         *)
(* The notation and the clock kept with a move are left out.               *)
(***************************************************************************)
EXTENDS Hexagons, FiniteSets

CONSTANTS
    StartPositions, \* [board, whiteTurn] of the games considered
    MaxMoves,       \* bound on the number of moves of a game from each of them
    MaxUndos        \* bound on the number of moves taken back

ASSUME MaxMovesAssumption == MaxMoves \in [StartPositions -> Nat]
ASSUME MaxUndosAssumption == MaxUndos \in Nat

Kinds  == {"Pawn", "Knight", "Bishop", "Rook", "Queen", "King"}
Pieces == [kind : Kinds, white : BOOLEAN]
Empty  == [kind |-> "Empty", white |-> FALSE]  \* as even as a black piece
Squares == Pieces \cup {Empty}
Boards == [Hexes -> Squares]

ASSUME StartPositionsAssumption == StartPositions \subseteq [board : Boards, whiteTurn : BOOLEAN]

Promotions == {"None", "Queen", "Rook", "Bishop", "Knight"}

VARIABLES
    start,  \* the initial board and who is on the move on it
    game,   \* chess.Game: board, turn, pieces taken, moves
    lists,  \* chess.Game: the moves and the attacked hexagons of each side
    past,   \* history: the games as they were played, one for each number of moves
    undos   \* history: how many moves were taken back

vars == <<start, game, lists, past, undos>>

HistMoves == [piece : Pieces, from : Hexes, to : Hexes, promotion : Promotions]

NewGame(position) ==
    [board |-> position.board, whiteTurn |-> position.whiteTurn,
     takenWhite |-> <<>>, takenBlack |-> <<>>, moves |-> <<>>]

-----------------------------------------------------------------------------
(* Where the pieces of a board can go. *)

\* One that stands still may land on an empty hexagon or capture.
CanLand(b, h, to) == b[to] = Empty \/ b[to].white # b[h].white

\* The lines do not depend on the board.
Lines == [h \in Hexes |-> [offset \in KingOffsets |-> Line(h, offset)]]
Leaps == [h \in Hexes |-> {Walk(h, offset) : offset \in KnightOffsets} \cap Hexes]
Near  == [h \in Hexes |-> {Walk(h, offset) : offset \in KingOffsets} \cap Hexes]

\* Along a line a piece travels up to the first hexagon that is not empty.
Reach(b, line) ==
    LET stops == {n \in DOMAIN line : b[line[n]] # Empty}
    IN  {line[n] : n \in {n \in DOMAIN line : \A k \in stops : n <= k}}

Traveling(b, h, offsets) ==
    {to \in UNION {Reach(b, Lines[h][offset]) : offset \in offsets} : CanLand(b, h, to)}

HasPawnMoved(h, white) ==
    IF white
    THEN h[1] \in {0, 10} \/ h[2] > (IF h[1] <= Midpoint THEN h[1] ELSE 10 - h[1]) - 1
    ELSE h[2] < 7

PawnTakes(b, h) ==
    {to \in {Step(h, d) : d \in IF b[h].white THEN {"UpLeft", "UpRight"}
                                              ELSE {"DownLeft", "DownRight"}} \cap Hexes :
        b[to] # Empty /\ b[to].white # b[h].white}

\* The second step does not ask whether the first one was free.
PawnMoves(b, h) ==
    LET ahead == IF b[h].white THEN "Up" ELSE "Down"
        one   == Step(h, ahead)
        two   == Step(one, ahead)
    IN  {to \in {one} \cap Hexes : b[to] = Empty}
            \cup {to \in {two} \cap Hexes : b[to] = Empty /\ ~HasPawnMoved(h, b[h].white)}
            \cup PawnTakes(b, h)

\* findPieceMoves: the moves of one piece, and the hexagons it is said to attack.
PieceMoves(b, h) ==
    CASE b[h].kind = "Rook"   -> Traveling(b, h, RookOffsets)
      [] b[h].kind = "Bishop" -> Traveling(b, h, BishopOffsets)
      [] b[h].kind = "Queen"  -> Traveling(b, h, KingOffsets)
      [] b[h].kind = "Knight" -> {to \in Leaps[h] : CanLand(b, h, to)}
      [] b[h].kind = "Pawn"   -> PawnMoves(b, h)

Attacked(b, h) == IF b[h].kind = "Pawn" THEN PawnTakes(b, h) ELSE PieceMoves(b, h)

Men(b, white)   == {h \in Hexes : b[h] # Empty /\ b[h].white = white /\ b[h].kind # "King"}
Kings(b, white) == {h \in Hexes : b[h] = [kind |-> "King", white |-> white]}

\* FindKing takes the first king in the order of files and ranks.
FindKing(b, white) ==
    {k \in Kings(b, white) : \A h \in Kings(b, white) : k[1] < h[1] \/ (k[1] = h[1] /\ k[2] <= h[2])}

KingMoves(b, k, attacked) == {to \in Near[k] \ attacked : CanLand(b, k, to)}

(***************************************************************************)
(* InitPieceMoves.  The attack tables first hold what the pieces other     *)
(* than the kings can reach; a side in check loses the moves of all of     *)
(* them; then the white king's moves avoid the black table and join the    *)
(* white one, and the black king's avoid that.                             *)
(***************************************************************************)
InitPieceMoves(g) ==
    LET b == g.board
        table == [white \in BOOLEAN |-> UNION {Attacked(b, h) : h \in Men(b, white)}]
        inCheck(white) == g.whiteTurn = white /\ FindKing(b, white) \cap table[~white] # {}
        side(white, attacked) ==
            [h \in (IF inCheck(white) THEN {} ELSE Men(b, white)) \cup FindKing(b, white) |->
                IF b[h].kind = "King" THEN KingMoves(b, h, attacked) ELSE PieceMoves(b, h)]
        white == side(TRUE, table[FALSE])
        whiteTable == table[TRUE] \cup UNION {white[k] : k \in FindKing(b, TRUE)}
        black == side(FALSE, whiteTable)
        blackTable == table[FALSE] \cup UNION {black[k] : k \in FindKing(b, FALSE)}
    IN  [white |-> white, whiteTable |-> whiteTable, black |-> black, blackTable |-> blackTable]

GetTurnMoves(l, white) == IF white THEN l.white ELSE l.black

\* Mutant: a side's own attack table.
MutGetTurnAttackTable(l, white) == IF white THEN l.whiteTable ELSE l.blackTable

GetTurnAttackTable(l, white) == IF white THEN l.blackTable ELSE l.whiteTable

Check(g, l) == FindKing(g.board, g.whiteTurn) \cap GetTurnAttackTable(l, g.whiteTurn) # {}
Stalemate(g, l) == UNION Range(GetTurnMoves(l, g.whiteTurn)) = {}
Checkmate(g, l) == Check(g, l) /\ Stalemate(g, l)

-----------------------------------------------------------------------------
(* What a move does. *)

\* Mutant: a black pawn is taken to promote on the last rank of its file.
MutIsPromotion(g, m) ==
    g.board[m.from].kind = "Pawn" /\ m.to[2] = RanksPerFile(m.to[1]) - 1

IsPromotion(g, m) ==
    /\ g.board[m.from].kind = "Pawn"
    /\ m.to[2] = IF g.whiteTurn THEN RanksPerFile(m.to[1]) - 1 ELSE 0

GetPromoPiece(promotion, white) ==
    [kind |-> IF promotion = "None" THEN "Queen" ELSE promotion, white |-> white]

Chosen(g, m) == IF IsPromotion(g, m) THEN GetPromoPiece(m.promotion, g.whiteTurn).kind ELSE "None"
Landed(g, m) == IF IsPromotion(g, m) THEN GetPromoPiece(m.promotion, g.whiteTurn) ELSE g.board[m.from]

\* The pieces a side has lost, after the move.
Taken(g, m, white) ==
    LET list == IF white THEN g.takenWhite ELSE g.takenBlack
    IN  IF g.board[m.to] # Empty /\ g.whiteTurn # white THEN Append(list, g.board[m.to]) ELSE list

Recorded(g, m) ==
    [piece |-> g.board[m.from], from |-> m.from, to |-> m.to, promotion |-> Chosen(g, m)]

NewMove(g, m) ==
    [board |-> [g.board EXCEPT ![m.from] = Empty, ![m.to] = Landed(g, m)],
     whiteTurn |-> ~g.whiteTurn,
     takenWhite |-> Taken(g, m, TRUE),
     takenBlack |-> Taken(g, m, FALSE),
     moves |-> Append(g.moves, Recorded(g, m))]

\* What is left of a game that was stored and read: its moves name no promotion.
SerializeHistMove(m) == [piece |-> m.piece, from |-> m.from, to |-> m.to, promotion |-> "None"]
SerializeGame(g) == [g EXCEPT !.moves = [n \in DOMAIN @ |-> SerializeHistMove(@[n])]]

\* A move done again is kept as it was read.
Redo(g, m) == [NewMove(g, m) EXCEPT !.moves = Append(g.moves, m)]

\* The first count moves done again from the initial board.
JumpMoveIndex(position, moves, count) ==
    LET after[n \in 0 .. count] ==
            IF n = 0 THEN NewGame(position) ELSE Redo(after[n - 1], moves[n])
    IN  after[count]

ValidateMove(g, l, m) ==
    /\ m.from # m.to
    /\ IsPromotion(g, m) => m.promotion # "None"
    /\ m.from \in DOMAIN GetTurnMoves(l, g.whiteTurn)
    /\ m.to \in GetTurnMoves(l, g.whiteTurn)[m.from]

-----------------------------------------------------------------------------
Init ==
    /\ start \in StartPositions
    /\ game = NewGame(start)
    /\ lists = InitPieceMoves(game)
    /\ past = <<NewGame(start)>>
    /\ undos = 0

NewValidMove(m) ==
    /\ Len(game.moves) < MaxMoves[start]
    /\ ValidateMove(game, lists, m)
    /\ game' = SerializeGame(NewMove(game, m))
    /\ lists' = InitPieceMoves(game')
    /\ past' = Append(past, game')
    /\ UNCHANGED <<start, undos>>

\* Mutant: the move to be taken back is played again.
MutUndo ==
    /\ game.moves # <<>>
    /\ undos < MaxUndos
    /\ game' = JumpMoveIndex(start, game.moves, Len(game.moves))
    /\ lists' = InitPieceMoves(game')
    /\ past' = Front(past)
    /\ undos' = undos + 1
    /\ UNCHANGED start

Undo ==
    /\ game.moves # <<>>
    /\ undos < MaxUndos
    /\ game' = JumpMoveIndex(start, game.moves, Len(game.moves) - 1)
    /\ lists' = InitPieceMoves(game')
    /\ past' = Front(past)
    /\ undos' = undos + 1
    /\ UNCHANGED start

Moves == [from : Hexes, to : Hexes, promotion : Promotions]

\* What a client may ask for.  A promotion named with a move that is none is
\* ignored, and a move that is in no list is refused.
Asked ==
    {m \in UNION {[from : {h}, to : GetTurnMoves(lists, game.whiteTurn)[h], promotion : Promotions] :
                      h \in DOMAIN GetTurnMoves(lists, game.whiteTurn)} :
        IsPromotion(game, m) \/ m.promotion = "None"}

Next == Undo \/ \E m \in Asked : NewValidMove(m)

Spec == Init /\ [][Next]_vars

-----------------------------------------------------------------------------
(* Forsyth-Edwards notation, in which boards are stored and exchanged: a     *)
(* file is a run of pieces and counts of empty hexagons, files are separated *)
(* by slashes, and the side on the move comes last.                          *)

Piece(p)    == [is |-> "piece", piece |-> p]
Count(n)    == [is |-> "count", count |-> n]
Slash       == [is |-> "slash"]
Turn(white) == [is |-> "turn", white |-> white]

\* The count of a run of empty hexagons is written before what follows it.
Counted(s) == IF s.empty > 0 THEN Append(s.text, Count(s.empty)) ELSE s.text

\* Mutant: the count goes on after a piece.
MutFenHex(s, p) ==
    IF p = Empty THEN [s EXCEPT !.empty = @ + 1]
                 ELSE [text |-> Append(Counted(s), Piece(p)), empty |-> s.empty]

FenHex(s, p) ==
    IF p = Empty THEN [s EXCEPT !.empty = @ + 1]
                 ELSE [text |-> Append(Counted(s), Piece(p)), empty |-> 0]

FenFile(b, file) ==
    LET done[n \in 0 .. RanksPerFile(file)] ==
            IF n = 0 THEN [text |-> <<>>, empty |-> 0] ELSE FenHex(done[n - 1], b[<<file, n - 1>>])
    IN  Counted(done[RanksPerFile(file)]) \o (IF file = 10 THEN <<>> ELSE <<Slash>>)

Fen(position) ==
    LET files[n \in 0 .. 11] == IF n = 0 THEN <<>> ELSE files[n - 1] \o FenFile(position.board, n - 1)
    IN  Append(files[11], Turn(position.whiteTurn))

\* One character read: a count moves on, a piece must fit, a slash ends a full
\* file, and the side on the move ends it all.
ParseFenToken(s, token) ==
    LET fits == CASE token.is = "piece" -> s.rank < RanksPerFile(s.file)
                  [] token.is = "slash" -> s.rank = RanksPerFile(s.file)
                  [] OTHER              -> TRUE
    IN  IF ~s.ok \/ s.over \/ s.file \notin Files THEN s
        ELSE IF ~fits THEN [s EXCEPT !.ok = FALSE]
        ELSE CASE token.is = "piece" -> [s EXCEPT !.board[<<s.file, s.rank>>] = token.piece, !.rank = @ + 1]
               [] token.is = "count" -> [s EXCEPT !.rank = @ + token.count]
               [] token.is = "slash" -> [s EXCEPT !.file = @ + 1, !.rank = 0]
               [] token.is = "turn"  -> [s EXCEPT !.whiteTurn = token.white, !.over = TRUE]

ParseFen(text) ==
    LET read[n \in 0 .. Len(text)] ==
            IF n = 0 THEN [board |-> [h \in Hexes |-> Empty], whiteTurn |-> FALSE,
                           file |-> 0, rank |-> 0, ok |-> TRUE, over |-> FALSE]
            ELSE ParseFenToken(read[n - 1], text[n])
        last == read[Len(text)]
    IN  [last EXCEPT !.ok = @ /\ last.file = 10 /\ last.over]

-----------------------------------------------------------------------------
(* Where the geometry of the board, told in cube coordinates, lets a man go.  *)

Way(h, to) == Minus(Cube(to), Cube(h))
Open(b, h, to) == \A x \in Hexes \ {h} : Within(Way(h, x), Way(h, to)) => b[x] = Empty

CanReach(b, h, to) ==
    IF b[h].kind = "Knight" THEN KnightLeap(Way(h, to))
    ELSE /\ \/ b[h].kind \in {"Rook", "Queen"} /\ OnRookLine(Way(h, to))
            \/ b[h].kind \in {"Bishop", "Queen"} /\ OnBishopLine(Way(h, to))
         /\ Open(b, h, to)

\* A pawn threatens the two hexagons ahead of it to the left and to the right.
Threatens(b, h, to) ==
    IF b[h].kind = "Pawn"
    THEN Way(h, to) \in {Vector(d) : d \in IF b[h].white THEN {"UpLeft", "UpRight"}
                                                       ELSE {"DownLeft", "DownRight"}}
    ELSE CanReach(b, h, to)

(***************************************************************************)
(* Every piece goes where the geometry of the board lets it go: a rook,    *)
(* bishop or queen along the lines of cube coordinates up to the first     *)
(* piece in the way, a knight to the hexagons three steps away that are on *)
(* no line (Walk, RookOffsets, BishopOffsets, KnightOffsets,               *)
(* findMovesByTraveling).                                                  *)
(***************************************************************************)
MovesAreGeometric ==
    \A h \in (DOMAIN lists.white \cup DOMAIN lists.black)
                \ (Kings(game.board, TRUE) \cup Kings(game.board, FALSE)) :
        LET b == game.board
        IN  b[h].kind # "Pawn" =>
                (IF b[h].white THEN lists.white ELSE lists.black)[h] =
                    {to \in Hexes \ {h} :
                        (b[to] = Empty \/ b[to].white # b[h].white) /\ CanReach(b, h, to)}

(***************************************************************************)
(* Doing the first moves of a game again from its initial board, which is  *)
(* how moves are taken back, gives the game that was played up to there,   *)
(* with one loss: a piece that was chosen in a promotion comes back as a   *)
(* queen, on the board, among the pieces taken and in what is recorded of  *)
(* a move.  Turn, moves, captures and all other pieces are the same, so    *)
(* that where only queens were chosen the replay is the game; and this is  *)
(* so however often moves were taken back and others made in their place.  *)
(* The comment in the replay expects the recomputed move to be the         *)
(* recorded one without checking it (SerializeHistMove, NewMove,           *)
(* JumpMoveIndex, ChessState.Undo).                                        *)
(***************************************************************************)
PromotedTo(games, moves, count) ==
    {games[n + 1].board[moves[n].to] : n \in {k \in 1 .. count : IsPromotion(games[k], moves[k])}}

ComesBackAs(p, q, promoted) ==
    p = q \/ (q \in promoted /\ p = [kind |-> "Queen", white |-> q.white])

AlikeLists(s, t, promoted) ==
    Len(s) = Len(t) /\ \A i \in 1 .. Len(t) : ComesBackAs(s[i], t[i], promoted)

Resembles(replay, g, promoted) ==
    /\ replay.whiteTurn = g.whiteTurn /\ replay.moves = g.moves
    /\ \A h \in Hexes : ComesBackAs(replay.board[h], g.board[h], promoted)
    /\ AlikeLists(replay.takenWhite, g.takenWhite, promoted)
    /\ AlikeLists(replay.takenBlack, g.takenBlack, promoted)

ReplayGivesGame ==
    LET len == Len(game.moves)
        replay(count) == JumpMoveIndex(start, game.moves, count)
    IN  /\ Len(past) = len + 1
        /\ game \in {past[len + 1], replay(len)}
        /\ \A count \in 0 .. len :
              Resembles(replay(count), past[count + 1], PromotedTo(past, game.moves, count))
        /\ \A n \in 1 .. len :
              ComesBackAs(replay(n - 1).board[game.moves[n].from], game.moves[n].piece,
                          PromotedTo(past, game.moves, n - 1))

(***************************************************************************)
(* A pawn that reaches the far edge is promoted, whichever side and file:  *)
(* none stands there unless the initial board put it there (IsPromotion,   *)
(* ValidateMove, NewMove).                                                 *)
(***************************************************************************)
LastRank(white) == {h \in Hexes : h[2] = IF white THEN RanksPerFile(h[1]) - 1 ELSE 0}

PawnsPromote ==
    \A white \in BOOLEAN : \A h \in LastRank(white) :
        LET pawn == [kind |-> "Pawn", white |-> white]
        IN  game.board[h] = pawn => start.board[h] = pawn

(***************************************************************************)
(* The side on the move is in check exactly when its king is threatened:   *)
(* by a man of the other side which the geometry lets go there, nothing    *)
(* being in its way, or by the other king.  The code looks for it in       *)
(* tables that it fills while it makes the lists of both sides, of which   *)
(* some are left empty (setAttackTable, handleCheck, Check).               *)
(***************************************************************************)
CheckIsThreat ==
    LET b == game.board
        white == game.whiteTurn
    IN  Check(game, lists) <=>
            \E k \in FindKing(b, white) :
                \/ \E h \in Men(b, ~white) : Threatens(b, h, k)
                \/ \E h \in FindKing(b, ~white) : k \in GetTurnMoves(lists, ~white)[h]

\* A position read back from the notation it was stored in is the same
\* position (Board.Fen, ParseFen).
FenRoundTrip ==
    LET parsed == ParseFen(Fen(game))
    IN  parsed.ok /\ parsed.board = game.board /\ parsed.whiteTurn = game.whiteTurn
=============================================================================
