----------------------------- MODULE MCChessGame ------------------------------
(* Two players and a spectator, any of whom may also lack a session.         *)
EXTENDS ChessGame, TLC
=============================================================================
