----------------------------- MODULE MCChessStore -----------------------------
(***************************************************************************)
(* Two handlers and inputs that conflict: a player joins, one mates, the   *)
(* other forfeits, and the mating move is taken back.                      *)
(***************************************************************************)
EXTENDS ChessStore

CONSTANTS u1, u2

Ask(op, u) == [op |-> op, user |-> u, move |-> "None"]

Conflicting ==
    {Ask("Join", u2), Ask("Create", u1), Ask("Accept", u2), Ask("End", u2),
     [op |-> "Move", user |-> u1, move |-> "Mating"]}
=============================================================================
