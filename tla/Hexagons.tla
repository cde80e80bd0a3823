-------------------------------- MODULE Hexagons --------------------------------
(***************************************************************************)
(* The board of hexagonal chess as chess/board.go addresses it: 11 files   *)
(* of 6 to 11 hexagons, a hexagon being the pair of its file and its rank  *)
(* within the file.  Walking to a neighbouring file shifts the rank on one *)
(* side of the middle file and not on the other; every piece moves by      *)
(* sequences of such steps.                                                *)
(*                                                                         *)
(* File and rank are uint32 in the code.  A walk that leaves the board is  *)
(* never followed by one that comes back (no offset turns around), so a    *)
(* coordinate that wraps and one that is negative are both out of bounds.  *)
(***************************************************************************)
EXTENDS Integers, Sequences, SequencesExt

Files == 0 .. 10
Midpoint == 5

RanksPerFile(file) == IF file <= Midpoint THEN 6 + file ELSE 16 - file

InBounds(h) == h[1] \in Files /\ 0 <= h[2] /\ h[2] < RanksPerFile(h[1])

Hexes == {h \in Files \X (0 .. 10) : InBounds(h)}

-----------------------------------------------------------------------------
Directions == {"Up", "Down", "DownLeft", "DownRight", "UpLeft", "UpRight"}

\* Mutants: the middle file taken for the right or the left half of the board.
MutStep(h, d) ==
    CASE d = "Up"        -> <<h[1], h[2] + 1>>
      [] d = "Down"      -> <<h[1], h[2] - 1>>
      [] d = "UpLeft"    -> <<h[1] - 1, IF h[1] >= Midpoint THEN h[2] + 1 ELSE h[2]>>
      [] d = "DownLeft"  -> <<h[1] - 1, IF h[1] <= Midpoint THEN h[2] - 1 ELSE h[2]>>
      [] d = "UpRight"   -> <<h[1] + 1, IF h[1] < Midpoint THEN h[2] + 1 ELSE h[2]>>
      [] d = "DownRight" -> <<h[1] + 1, IF h[1] >= Midpoint THEN h[2] - 1 ELSE h[2]>>

Step(h, d) ==
    CASE d = "Up"        -> <<h[1], h[2] + 1>>
      [] d = "Down"      -> <<h[1], h[2] - 1>>
      [] d = "UpLeft"    -> <<h[1] - 1, IF h[1] > Midpoint THEN h[2] + 1 ELSE h[2]>>
      [] d = "DownLeft"  -> <<h[1] - 1, IF h[1] <= Midpoint THEN h[2] - 1 ELSE h[2]>>
      [] d = "UpRight"   -> <<h[1] + 1, IF h[1] < Midpoint THEN h[2] + 1 ELSE h[2]>>
      [] d = "DownRight" -> <<h[1] + 1, IF h[1] >= Midpoint THEN h[2] - 1 ELSE h[2]>>

Walk(h, directions) ==
    LET at[n \in 0 .. Len(directions)] == IF n = 0 THEN h ELSE Step(at[n - 1], directions[n])
    IN  at[Len(directions)]

RookOffsets == {<<d>> : d \in Directions}

BishopOffsets ==
    {<<"UpRight", "DownRight">>, <<"UpLeft", "DownLeft">>, <<"Up", "UpRight">>,
     <<"Up", "UpLeft">>, <<"Down", "DownRight">>, <<"Down", "DownLeft">>}

KingOffsets == RookOffsets \cup BishopOffsets

KnightOffsets ==
    {<<"UpRight", "UpRight", "Up">>, <<"UpRight", "Up", "Up">>,
     <<"DownRight", "DownRight", "Down">>, <<"DownRight", "Down", "Down">>,
     <<"UpLeft", "UpLeft", "Up">>, <<"UpLeft", "Up", "Up">>,
     <<"DownLeft", "DownLeft", "Down">>, <<"DownLeft", "Down", "Down">>,
     <<"UpLeft", "UpLeft", "DownLeft">>, <<"DownLeft", "DownLeft", "UpLeft">>,
     <<"UpRight", "UpRight", "DownRight">>, <<"DownRight", "DownRight", "UpRight">>}

\* The hexagons a piece passes when it repeats the offset to the edge.
Line(h, offset) ==
    LET at[n \in 0 .. 10] == IF n = 0 THEN h ELSE Walk(at[n - 1], offset)
    IN  [n \in {n \in 1 .. 10 : \A k \in 1 .. n : InBounds(at[k])} |-> at[n]]

-----------------------------------------------------------------------------
(***************************************************************************)
(* The same board in cube coordinates, where a step adds a vector whatever *)
(* the file.  This is the reference the walks are compared with.           *)
(***************************************************************************)
Cube(h) ==
    LET q == h[1] - Midpoint
        r == h[2] - (IF h[1] < Midpoint THEN h[1] ELSE Midpoint)
    IN  <<q, r, - q - r>>

Abs(n) == IF n < 0 THEN - n ELSE n

Vector(d) ==
    CASE d = "Up"        -> << 0,  1, -1>>
      [] d = "Down"      -> << 0, -1,  1>>
      [] d = "UpLeft"    -> <<-1,  1,  0>>
      [] d = "DownLeft"  -> <<-1,  0,  1>>
      [] d = "UpRight"   -> << 1,  0, -1>>
      [] d = "DownRight" -> << 1, -1,  0>>

Add(u, v)   == <<u[1] + v[1], u[2] + v[2], u[3] + v[3]>>
Minus(u, v) == <<u[1] - v[1], u[2] - v[2], u[3] - v[3]>>

OnRookLine(v)   == \E i \in 1 .. 3 : v[i] = 0
OnBishopLine(v) == \E i, j \in 1 .. 3 : i # j /\ v[i] = v[j]
KnightLeap(v)   == {Abs(v[i]) : i \in 1 .. 3} = {1, 2, 3}
KingStep(v)     == \A i \in 1 .. 3 : Abs(v[i]) <= 1 \/ (Abs(v[i]) = 2 /\ OnBishopLine(v))

Norm(v) == Abs(v[1]) + Abs(v[2]) + Abs(v[3])

\* v points the same way as w and is shorter.
Within(v, w) == Norm(v) < Norm(w) /\ \A i \in 1 .. 3 : v[i] * Norm(w) = w[i] * Norm(v)
=============================================================================
