------------------------------- MODULE MCHexBoard -------------------------------
(***************************************************************************)
(* Small endings in which the things that are hard to get right happen     *)
(* within a few moves: captures, both ways of promotion, undo of each,     *)
(* pieces of every kind on both halves of the board.                       *)
(***************************************************************************)
EXTENDS HexBoard

Man(kind, white) == [kind |-> kind, white |-> white]

Place(men) == [h \in Hexes |-> IF h \in DOMAIN men THEN men[h] ELSE Empty]

\* Two rooks' lines cross, a white pawn is one step from the edge.
Rooks ==
    [board |-> Place(  <<0, 0>> :> Man("King", TRUE)  @@ <<7, 7>> :> Man("Pawn", TRUE)
                    @@ <<5, 2>> :> Man("Rook", TRUE)  @@ <<10, 5>> :> Man("King", FALSE)
                    @@ <<8, 7>> :> Man("Rook", FALSE)),
     whiteTurn |-> TRUE]

\* A black pawn is about to promote or to capture on either side.
BlackPawn ==
    [board |-> Place(  <<10, 0>> :> Man("King", TRUE)  @@ <<4, 0>> :> Man("Bishop", TRUE)
                    @@ <<5, 1>> :> Man("Pawn", FALSE)  @@ <<6, 0>> :> Man("Knight", TRUE)
                    @@ <<0, 5>> :> Man("King", FALSE)),
     whiteTurn |-> FALSE]

\* A white pawn on its starting hexagon, a knight and a bishop in the middle.
Middle ==
    [board |-> Place(  <<2, 1>> :> Man("Pawn", TRUE)    @@ <<5, 5>> :> Man("Knight", TRUE)
                    @@ <<0, 0>> :> Man("King", TRUE)    @@ <<4, 4>> :> Man("Bishop", FALSE)
                    @@ <<3, 3>> :> Man("Pawn", FALSE)   @@ <<10, 5>> :> Man("King", FALSE)),
     whiteTurn |-> TRUE]

\* A piece other than a queen is promoted to and has time to move.
Underpromotion ==
    [board |-> Place(  <<0, 0>> :> Man("King", TRUE)  @@ <<7, 7>> :> Man("Pawn", TRUE)
                    @@ <<10, 5>> :> Man("King", FALSE)),
     whiteTurn |-> TRUE]

Endings == {Rooks, BlackPawn, Middle, Underpromotion}
MCMaxMoves == [ending \in Endings |-> IF ending = Underpromotion THEN 3 ELSE 2]
=============================================================================
