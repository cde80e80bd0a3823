----------------------------- MODULE HexBoard_proofs -----------------------------
(***************************************************************************)
(* What holds of the rules on every board and in games of any length: the  *)
(* walks are translations of the hexagonal grid, the board is the grid's   *)
(* hexagon of radius five, pieces move along its lines, the replay of a    *)
(* game is the game but for promotions, no pawn stays on the far edge, a   *)
(* check is a threat in the lists, and the notation of a position is read  *)
(* back as it was.                                                         *)
(***************************************************************************)
EXTENDS HexBoard, SequenceTheorems, FiniteSetTheorems, WellFoundedInduction, TLAPS

(***************************************************************************)
(* A step adds the same vector whatever the file it starts from, on the    *)
(* board and off it: the shifts of the rank around the middle file         *)
(* (Hex.Walk) are those of a hexagonal grid, without exception.            *)
(***************************************************************************)
THEOREM StepIsTranslation ==
    ASSUME NEW file \in Int, NEW rank \in Int, NEW d \in Directions
    PROVE  Cube(Step(<<file, rank>>, d)) = Add(Cube(<<file, rank>>), Vector(d))
<1> DEFINE h == <<file, rank>>
<1>1. CASE d = "Up"
  BY <1>1 DEF Cube, Step, Add, Vector, Midpoint
<1>2. CASE d = "Down"
  BY <1>2 DEF Cube, Step, Add, Vector, Midpoint
<1>3. CASE d = "UpLeft"
  BY <1>3 DEF Cube, Step, Add, Vector, Midpoint
<1>4. CASE d = "DownLeft"
  BY <1>4 DEF Cube, Step, Add, Vector, Midpoint
<1>5. CASE d = "UpRight"
  BY <1>5 DEF Cube, Step, Add, Vector, Midpoint
<1>6. CASE d = "DownRight"
  BY <1>6 DEF Cube, Step, Add, Vector, Midpoint
<1> QED
  BY <1>1, <1>2, <1>3, <1>4, <1>5, <1>6 DEF Directions

(***************************************************************************)
(* The hexagons in bounds are those at most five steps from the middle one *)
(* (RanksPerFile, InBounds).                                               *)
(***************************************************************************)
THEOREM BoardIsHexagon ==
    ASSUME NEW file \in Int, NEW rank \in Int
    PROVE  InBounds(<<file, rank>>) <=> \A i \in 1 .. 3 : Abs(Cube(<<file, rank>>)[i]) <= 5
<1>1. (\A i \in 1 .. 3 : Abs(Cube(<<file, rank>>)[i]) <= 5)
        <=> /\ Abs(Cube(<<file, rank>>)[1]) <= 5
            /\ Abs(Cube(<<file, rank>>)[2]) <= 5
            /\ Abs(Cube(<<file, rank>>)[3]) <= 5
  OBVIOUS
<1>2. CASE file < Midpoint
  BY <1>1, <1>2 DEF InBounds, Files, RanksPerFile, Cube, Abs, Midpoint
<1>3. CASE file >= Midpoint
  BY <1>1, <1>3 DEF InBounds, Files, RanksPerFile, Cube, Abs, Midpoint
<1> QED
  BY <1>2, <1>3 DEF Midpoint

-----------------------------------------------------------------------------
(* Counting up.                                                              *)

LEMMA Least ==
    ASSUME NEW S \in SUBSET Nat, S # {}
    PROVE  \E n \in S : \A m \in S : n <= m
<1> DEFINE Segments == {0 .. n : n \in S}
<1>1. Segments # {}
  OBVIOUS
<1>2. Segments \subseteq FiniteSubsetsOf(Nat)
  <2>1. \A n \in S : IsFiniteSet(0 .. n) /\ 0 .. n \in SUBSET Nat
    BY FS_Interval
  <2> QED
    BY <2>1 DEF FiniteSubsetsOf
<1>3. PICK T \in Segments : \A U \in Segments : ~(<<U, T>> \in StrictSubsetOrdering(Nat))
  BY <1>1, <1>2, FS_StrictSubsetOrderingWellFounded, WFMin, Zenon
<1>4. PICK n \in S : T = 0 .. n
  OBVIOUS
<1>5. ASSUME NEW m \in S, m < n
      PROVE  FALSE
  <2>1. 0 .. m \subseteq 0 .. n /\ 0 .. m # 0 .. n
    BY <1>5
  <2>2. <<0 .. m, 0 .. n>> \in StrictSubsetOrdering(Nat)
    BY <2>1 DEF StrictSubsetOrdering
  <2> QED
    BY <1>3, <1>4, <2>2
<1> QED
  BY <1>5

\* What holds at zero and goes on holding up to count.
LEMMA UpTo ==
    ASSUME NEW count \in Nat, NEW S \in SUBSET (0 .. count), 0 \in S,
           \A n \in 1 .. count : n - 1 \in S => n \in S
    PROVE  S = 0 .. count
<1> DEFINE Out == (0 .. count) \ S
<1>1. SUFFICES ASSUME Out # {} PROVE FALSE
  OBVIOUS
<1>2. Out \in SUBSET Nat
  OBVIOUS
<1>3. PICK n \in Out : \A m \in Out : n <= m
  BY <1>1, <1>2, Least, Zenon
<1>4. n # 0
  BY <1>3
<1>5. n \in 1 .. count /\ n - 1 \in 0 .. count /\ ~(n <= n - 1)
  BY <1>4
<1>6. n - 1 \in S
  BY <1>3, <1>5
<1> QED
  BY <1>3, <1>5, <1>6

-----------------------------------------------------------------------------
(* Walks in cube coordinates: an offset of directions adds a vector.  A      *)
(* function that does what the recursion says is the one the recursion       *)
(* defines (WalkIsChain, LineIsChain, ReplayIsChain): by counting up.        *)

Points == Int \X Int
Cubes == {c \in Int \X Int \X Int : c[1] + c[2] + c[3] = 0}

\* The hexagon with these cube coordinates.
Hexagon(c) == <<c[1] + Midpoint, c[2] + (IF c[1] < 0 THEN c[1] + Midpoint ELSE Midpoint)>>

Times(n, v) == <<n * v[1], n * v[2], n * v[3]>>

\* Hexagons and cube coordinates correspond one to one.
LEMMA HexagonOfCube ==
    ASSUME NEW c \in Cubes
    PROVE  Hexagon(c) \in Points /\ Cube(Hexagon(c)) = c
<1>1. PICK x \in Int, y \in Int, z \in Int : c = <<x, y, z>>
  BY DEF Cubes
<1>2. z = - x - y
  BY <1>1 DEF Cubes
<1> QED
  BY <1>1, <1>2 DEF Hexagon, Cube, Points, Midpoint

LEMMA CubeOfHexagon ==
    ASSUME NEW h \in Points
    PROVE  Cube(h) \in Cubes /\ Hexagon(Cube(h)) = h
<1>1. PICK file \in Int, rank \in Int : h = <<file, rank>>
  BY DEF Points
<1> QED
  BY <1>1 DEF Hexagon, Cube, Cubes, Midpoint

LEMMA CubeParts ==
    ASSUME NEW c \in Cubes
    PROVE  \E x \in Int, y \in Int, z \in Int : c = <<x, y, z>> /\ x + y + z = 0
<1>1. PICK x \in Int, y \in Int, z \in Int : c = <<x, y, z>>
  BY DEF Cubes
<1>2. x + y + z = 0
  BY <1>1 DEF Cubes
<1> QED
  BY <1>1, <1>2

LEMMA CubeMade ==
    ASSUME NEW x \in Int, NEW y \in Int, NEW z \in Int, x + y + z = 0
    PROVE  <<x, y, z>> \in Cubes
BY DEF Cubes

LEMMA VectorsAreCubes ==
    ASSUME NEW d \in Directions
    PROVE  Vector(d) \in Cubes
<1>1. d = "Up" \/ d = "Down" \/ d = "UpLeft" \/ d = "DownLeft" \/ d = "UpRight" \/ d = "DownRight"
  BY DEF Directions
<1> QED
  BY <1>1 DEF Vector, Cubes

\* Vectors are added as expected.
LEMMA AddCubes ==
    ASSUME NEW c \in Cubes, NEW v \in Cubes
    PROVE  /\ Add(c, v) \in Cubes
           /\ \A w \in Cubes : Add(Add(c, v), w) = Add(c, Add(v, w))
           /\ \A n \in Int : Times(n, v) \in Cubes /\ Add(Add(c, Times(n, v)), v) = Add(c, Times(n + 1, v))
           /\ Add(c, Times(0, v)) = c
<1>1. PICK x \in Int, y \in Int, z \in Int : c = <<x, y, z>> /\ x + y + z = 0
  BY CubeParts
<1>2. PICK p \in Int, q \in Int, r \in Int : v = <<p, q, r>> /\ p + q + r = 0
  BY CubeParts
<1>3. Add(c, v) \in Cubes
  BY <1>1, <1>2 DEF Add, Cubes
<1>4. ASSUME NEW w \in Cubes PROVE Add(Add(c, v), w) = Add(c, Add(v, w))
  <2>1. PICK i \in Int, j \in Int, k \in Int : w = <<i, j, k>>
    BY DEF Cubes
  <2> QED
    BY <1>1, <1>2, <2>1 DEF Add
<1>5. ASSUME NEW n \in Int
      PROVE  Times(n, v) \in Cubes /\ Add(Add(c, Times(n, v)), v) = Add(c, Times(n + 1, v))
  <2>1. n * p + n * q + n * r = 0
    <3>1. n * p + n * q + n * r = n * (p + q + r)
      BY Z3
    <3> QED
      BY <1>2, <3>1
  <2>2. Times(n, v) = <<n * p, n * q, n * r>> /\ n * p \in Int /\ n * q \in Int /\ n * r \in Int
    BY <1>2 DEF Times
  <2>3. Times(n, v) \in Cubes
    BY <2>1, <2>2, CubeMade
  <2>4. (n + 1) * p = n * p + p /\ (n + 1) * q = n * q + q /\ (n + 1) * r = n * r + r
    BY <1>2
  <2>5. Times(n + 1, v) = <<n * p + p, n * q + q, n * r + r>>
    BY <1>2, <2>4 DEF Times
  <2> QED
    BY <1>1, <1>2, <2>2, <2>3, <2>5 DEF Add
<1>6. Add(c, Times(0, v)) = c
  BY <1>1, <1>2 DEF Add, Times
<1> QED
  BY <1>3, <1>4, <1>5, <1>6

LEMMA StepAdds ==
    ASSUME NEW c \in Cubes, NEW d \in Directions
    PROVE  Step(Hexagon(c), d) = Hexagon(Add(c, Vector(d)))
<1>1. PICK file \in Int, rank \in Int : Hexagon(c) = <<file, rank>>
  BY HexagonOfCube DEF Points
<1>2. Cube(Step(Hexagon(c), d)) = Add(c, Vector(d))
  BY <1>1, StepIsTranslation, HexagonOfCube
<1>3. Step(Hexagon(c), d) \in Points
  <2>1. Step(<<file, rank>>, d) \in Points
    BY DEF Step, Directions, Points, Midpoint
  <2> QED
    BY <1>1, <2>1
<1> QED
  BY <1>2, <1>3, CubeOfHexagon

IsWalk(chain, h, s) ==
    chain[0] = h /\ \A n \in 1 .. Len(s) : chain[n] = Step(chain[n - 1], s[n])

LEMMA WalkIsChain ==
    ASSUME NEW h, NEW s, Len(s) \in Nat, NEW chain, IsWalk(chain, h, s)
    PROVE  Walk(h, s) = chain[Len(s)]
<1> USE DEF IsWalk
<1> DEFINE count == Len(s)
           Goes(f) == [n \in 0 .. Len(s) |-> IF n = 0 THEN h ELSE Step(f[n - 1], s[n])]
           at == CHOOSE f : f = Goes(f)
           known == [n \in 0 .. count |-> chain[n]]
<1>1. ASSUME NEW n \in 0 .. count
      PROVE  known[n] = IF n = 0 THEN h ELSE Step(known[n - 1], s[n])
  <2>1. CASE n = 0
    BY <2>1
  <2>2. CASE n # 0
    <3>1. n \in 1 .. count /\ n - 1 \in 0 .. count
      BY <2>2
    <3> QED
      BY <2>2, <3>1
  <2> QED
    BY <2>1, <2>2
<1>2. known = Goes(known)
  BY <1>1
<1>3. at = Goes(at)
  BY <1>2, Zenon
<1>4. \A n \in 0 .. count : at[n] = IF n = 0 THEN h ELSE Step(at[n - 1], s[n])
  <2> HIDE DEF at
  <2> QED
    BY <1>3
<1>5. \A n \in 0 .. count : at[n] = chain[n]
  <2> HIDE DEF at
  <2> DEFINE S == {n \in 0 .. count : at[n] = chain[n]}
  <2>1. 0 \in S
    BY <1>4
  <2>2. ASSUME NEW n \in 1 .. count, n - 1 \in S PROVE n \in S
    BY <1>4, <2>2
  <2>3. S \in SUBSET (0 .. count)
    OBVIOUS
  <2>4. S = 0 .. count
    <3> HIDE DEF S
    <3> QED
      BY <2>1, <2>2, <2>3, UpTo
  <2> QED
    BY <2>4
<1>6. Walk(h, s) = at[Len(s)]
  BY Zenon DEF Walk
<1> QED
  BY <1>5, <1>6

\* The vector of an offset: the sum of those of its directions.
Shift(s) ==
    CASE Len(s) = 1 -> Vector(s[1])
      [] Len(s) = 2 -> Add(Vector(s[1]), Vector(s[2]))
      [] Len(s) = 3 -> Add(Add(Vector(s[1]), Vector(s[2])), Vector(s[3]))

LEMMA WalkOneAdds ==
    ASSUME NEW c \in Cubes, NEW d \in Directions
    PROVE  /\ Shift(<<d>>) = Vector(d) /\ Shift(<<d>>) \in Cubes
           /\ Walk(Hexagon(c), <<d>>) = Hexagon(Add(c, Shift(<<d>>)))
<1> DEFINE s == <<d>>
           chain == [n \in 0 .. 1 |-> IF n = 0 THEN Hexagon(c) ELSE Step(Hexagon(c), d)]
<1>1. Shift(<<d>>) = Vector(d)
  BY DEF Shift
<1>2. Walk(Hexagon(c), <<d>>) = chain[1]
  <2>1. Len(s) = 1 /\ 1 \in Nat /\ chain[0] = Hexagon(c)
    OBVIOUS
  <2>2. \A n \in 1 .. 1 : chain[n] = Step(chain[n - 1], s[n])
    OBVIOUS
  <2> HIDE DEF chain, s
  <2>3. IsWalk(chain, Hexagon(c), s)
    BY <2>1, <2>2 DEF IsWalk
  <2>4. Walk(Hexagon(c), s) = chain[1]
    BY <2>1, <2>3, WalkIsChain
  <2> QED
    BY <2>1, <2>4 DEF s, chain
<1> QED
  BY <1>1, <1>2, StepAdds, VectorsAreCubes

LEMMA WalkTwoAdds ==
    ASSUME NEW c \in Cubes, NEW d \in Directions, NEW e \in Directions
    PROVE  /\ Shift(<<d, e>>) = Add(Vector(d), Vector(e)) /\ Shift(<<d, e>>) \in Cubes
           /\ Walk(Hexagon(c), <<d, e>>) = Hexagon(Add(c, Shift(<<d, e>>)))
<1> DEFINE h1 == Step(Hexagon(c), d)
           h2 == Step(h1, e)
           s == <<d, e>>
           chain == [n \in 0 .. 2 |-> IF n = 0 THEN Hexagon(c) ELSE IF n = 1 THEN h1 ELSE h2]
<1>1. Shift(<<d, e>>) = Add(Vector(d), Vector(e))
  BY DEF Shift
<1>2. Walk(Hexagon(c), <<d, e>>) = h2
  <2>1. Len(s) = 2 /\ 2 \in Nat /\ chain[0] = Hexagon(c) /\ chain[2] = h2
    OBVIOUS
  <2>2. ASSUME NEW n \in 1 .. 2 PROVE chain[n] = Step(chain[n - 1], s[n])
    <3>1. n = 1 \/ n = 2
      OBVIOUS
    <3>2. chain[1] = Step(chain[0], d) /\ chain[2] = Step(chain[1], e)
      OBVIOUS
    <3> HIDE DEF chain
    <3> QED
      BY <3>1, <3>2
  <2> HIDE DEF chain, h2, s
  <2>3. IsWalk(chain, Hexagon(c), s)
    BY <2>1, <2>2 DEF IsWalk
  <2>4. Walk(Hexagon(c), s) = chain[2]
    BY <2>1, <2>3, WalkIsChain
  <2> QED
    BY <2>1, <2>4 DEF s
<1>3. Vector(d) \in Cubes /\ Vector(e) \in Cubes
  BY VectorsAreCubes
<1>4. h2 = Hexagon(Add(Add(c, Vector(d)), Vector(e)))
  BY <1>3, StepAdds, AddCubes
<1> HIDE DEF h2
<1> QED
  BY <1>1, <1>2, <1>3, <1>4, AddCubes

LEMMA WalkThreeAdds ==
    ASSUME NEW c \in Cubes, NEW d \in Directions, NEW e \in Directions, NEW i \in Directions
    PROVE  /\ Shift(<<d, e, i>>) = Add(Add(Vector(d), Vector(e)), Vector(i))
           /\ Shift(<<d, e, i>>) \in Cubes
           /\ Walk(Hexagon(c), <<d, e, i>>) = Hexagon(Add(c, Shift(<<d, e, i>>)))
<1> DEFINE h1 == Step(Hexagon(c), d)
           h2 == Step(h1, e)
           h3 == Step(h2, i)
           s == <<d, e, i>>
           chain == [n \in 0 .. 3 |-> IF n = 0 THEN Hexagon(c)
                                       ELSE IF n = 1 THEN h1 ELSE IF n = 2 THEN h2 ELSE h3]
<1>1. Shift(<<d, e, i>>) = Add(Add(Vector(d), Vector(e)), Vector(i))
  BY DEF Shift
<1>2. Walk(Hexagon(c), <<d, e, i>>) = h3
  <2>1. Len(s) = 3 /\ 3 \in Nat /\ chain[0] = Hexagon(c) /\ chain[3] = h3
    OBVIOUS
  <2>2. ASSUME NEW n \in 1 .. 3 PROVE chain[n] = Step(chain[n - 1], s[n])
    <3>1. n = 1 \/ n = 2 \/ n = 3
      OBVIOUS
    <3>2. chain[1] = Step(chain[0], d) /\ chain[2] = Step(chain[1], e) /\ chain[3] = Step(chain[2], i)
      OBVIOUS
    <3> HIDE DEF chain
    <3> QED
      BY <3>1, <3>2
  <2> HIDE DEF chain, h3, s
  <2>3. IsWalk(chain, Hexagon(c), s)
    BY <2>1, <2>2 DEF IsWalk
  <2>4. Walk(Hexagon(c), s) = chain[3]
    BY <2>1, <2>3, WalkIsChain
  <2> QED
    BY <2>1, <2>4 DEF s
<1>3. Vector(d) \in Cubes /\ Vector(e) \in Cubes /\ Vector(i) \in Cubes
  BY VectorsAreCubes
<1>4. h2 = Hexagon(Add(Add(c, Vector(d)), Vector(e)))
  BY <1>3, StepAdds, AddCubes
<1>5. h3 = Hexagon(Add(Add(Add(c, Vector(d)), Vector(e)), Vector(i)))
  <2> HIDE DEF h2
  <2> QED
    BY <1>3, <1>4, StepAdds, AddCubes
<1>6. Add(Vector(d), Vector(e)) \in Cubes
  BY <1>3, AddCubes
<1>7. Add(Add(Add(c, Vector(d)), Vector(e)), Vector(i))
         = Add(c, Add(Add(Vector(d), Vector(e)), Vector(i)))
  <2>1. Add(Add(c, Vector(d)), Vector(e)) = Add(c, Add(Vector(d), Vector(e)))
    BY <1>3, AddCubes
  <2> QED
    BY <1>3, <1>6, <2>1, AddCubes
<1> HIDE DEF h3
<1> QED
  BY <1>1, <1>2, <1>3, <1>5, <1>6, <1>7, AddCubes

\* The vectors of the offsets, computed.
RookVectors == {<<0, 1, -1>>, <<0, -1, 1>>, <<-1, 0, 1>>, <<1, -1, 0>>, <<-1, 1, 0>>, <<1, 0, -1>>}

BishopVectors ==
    {<<2, -1, -1>>, <<-2, 1, 1>>, <<1, 1, -2>>, <<-1, 2, -1>>, <<1, -2, 1>>, <<-1, -1, 2>>}

KnightVectors ==
    {<<2, 1, -3>>, <<1, 2, -3>>, <<2, -3, 1>>, <<1, -3, 2>>, <<-2, 3, -1>>, <<-1, 3, -2>>,
     <<-2, -1, 3>>, <<-1, -2, 3>>, <<-3, 2, 1>>, <<-3, 1, 2>>, <<3, -1, -2>>, <<3, -2, -1>>}

Adds(offset) ==
    /\ Shift(offset) \in Cubes
    /\ \A c \in Cubes : Walk(Hexagon(c), offset) = Hexagon(Add(c, Shift(offset)))

\* The offsets of rooks have the six vectors along an edge.
LEMMA RookOffsetsAdd ==
    /\ \A offset \in RookOffsets : Adds(offset) /\ Shift(offset) \in RookVectors
    /\ \A v \in RookVectors : \E offset \in RookOffsets : Shift(offset) = v
<1>1. \A d \in Directions : Adds(<<d>>) /\ Shift(<<d>>) = Vector(d)
  <2> TAKE d \in Directions
  <2>0. <<0, 0, 0>> \in Cubes
    BY CubeMade
  <2>1. Shift(<<d>>) = Vector(d) /\ Shift(<<d>>) \in Cubes
    BY <2>0, WalkOneAdds, Zenon
  <2>2. \A c \in Cubes : Walk(Hexagon(c), <<d>>) = Hexagon(Add(c, Shift(<<d>>)))
    BY WalkOneAdds, Zenon
  <2> QED
    BY <2>1, <2>2, Zenon DEF Adds
<1>2. /\ Vector("Up") = <<0, 1, -1>> /\ Vector("Down") = <<0, -1, 1>>
      /\ Vector("UpLeft") = <<-1, 1, 0>> /\ Vector("DownLeft") = <<-1, 0, 1>>
      /\ Vector("UpRight") = <<1, 0, -1>> /\ Vector("DownRight") = <<1, -1, 0>>
  BY DEF Vector
<1>3. \A d \in Directions : Vector(d) \in RookVectors
  BY <1>2 DEF Directions, RookVectors
<1>4. \A v \in RookVectors : \E d \in Directions : Vector(d) = v
  BY <1>2 DEF Directions, RookVectors
<1>5. \A offset \in RookOffsets : \E d \in Directions : offset = <<d>>
  BY DEF RookOffsets
<1>6. \A d \in Directions : <<d>> \in RookOffsets
  BY DEF RookOffsets
<1> QED
  BY <1>1, <1>3, <1>4, <1>5, <1>6

\* Those of bishops have the six across an edge.
LEMMA BishopOffsetsAdd ==
    /\ \A offset \in BishopOffsets : Adds(offset) /\ Shift(offset) \in BishopVectors
    /\ \A v \in BishopVectors : \E offset \in BishopOffsets : Shift(offset) = v
<1>1. \A d, e \in Directions : Adds(<<d, e>>) /\ Shift(<<d, e>>) = Add(Vector(d), Vector(e))
  <2> TAKE d, e \in Directions
  <2>1. <<0, 0, 0>> \in Cubes
    BY CubeMade
  <2>2. Shift(<<d, e>>) = Add(Vector(d), Vector(e)) /\ Shift(<<d, e>>) \in Cubes
    BY <2>1, WalkTwoAdds, Zenon
  <2>3. \A c \in Cubes : Walk(Hexagon(c), <<d, e>>) = Hexagon(Add(c, Shift(<<d, e>>)))
    BY WalkTwoAdds, Zenon
  <2> QED
    BY <2>2, <2>3, Zenon DEF Adds
<1>2. \A offset \in BishopOffsets : Adds(offset)
  BY <1>1 DEF BishopOffsets, Directions
<1>3. /\ Shift(<<"UpRight", "DownRight">>) = <<2, -1, -1>>
      /\ Shift(<<"UpLeft", "DownLeft">>) = <<-2, 1, 1>>
      /\ Shift(<<"Up", "UpRight">>) = <<1, 1, -2>>
      /\ Shift(<<"Up", "UpLeft">>) = <<-1, 2, -1>>
      /\ Shift(<<"Down", "DownRight">>) = <<1, -2, 1>>
      /\ Shift(<<"Down", "DownLeft">>) = <<-1, -1, 2>>
  BY <1>1 DEF Directions, Add, Vector
<1>4. \A offset \in BishopOffsets : Shift(offset) \in BishopVectors
  BY <1>3 DEF BishopOffsets, BishopVectors
<1>5. \A v \in BishopVectors : \E offset \in BishopOffsets : Shift(offset) = v
  BY <1>3 DEF BishopOffsets, BishopVectors
<1> QED
  BY <1>2, <1>4, <1>5

\* Those of knights have the twelve leaps.
LEMMA KnightOffsetsAdd ==
    /\ \A offset \in KnightOffsets : Adds(offset) /\ Shift(offset) \in KnightVectors
    /\ \A v \in KnightVectors : \E offset \in KnightOffsets : Shift(offset) = v
<1>1. \A d, e, i \in Directions :
         Adds(<<d, e, i>>) /\ Shift(<<d, e, i>>) = Add(Add(Vector(d), Vector(e)), Vector(i))
  <2> TAKE d, e, i \in Directions
  <2>1. <<0, 0, 0>> \in Cubes
    BY CubeMade
  <2>2. /\ Shift(<<d, e, i>>) = Add(Add(Vector(d), Vector(e)), Vector(i))
        /\ Shift(<<d, e, i>>) \in Cubes
    <3>1. Shift(<<d, e, i>>) = Add(Add(Vector(d), Vector(e)), Vector(i))
      BY DEF Shift
    <3>2. Shift(<<d, e, i>>) \in Cubes
      BY <2>1, WalkThreeAdds, ZenonT(40)
    <3> QED
      BY <3>1, <3>2
  <2>3. \A c \in Cubes : Walk(Hexagon(c), <<d, e, i>>) = Hexagon(Add(c, Shift(<<d, e, i>>)))
    BY WalkThreeAdds, Zenon
  <2> QED
    BY <2>2, <2>3, Zenon DEF Adds
<1>2. \A offset \in KnightOffsets : Adds(offset)
  BY <1>1 DEF KnightOffsets, Directions
<1>3. /\ Vector("Up") = <<0, 1, -1>> /\ Vector("Down") = <<0, -1, 1>>
      /\ Vector("UpLeft") = <<-1, 1, 0>> /\ Vector("DownLeft") = <<-1, 0, 1>>
      /\ Vector("UpRight") = <<1, 0, -1>> /\ Vector("DownRight") = <<1, -1, 0>>
  BY DEF Vector
<1>4. \A d, e, i \in Directions : Shift(<<d, e, i>>) = Add(Add(Vector(d), Vector(e)), Vector(i))
  BY <1>1
<1>5. /\ "Up" \in Directions /\ "Down" \in Directions /\ "UpLeft" \in Directions
      /\ "DownLeft" \in Directions /\ "UpRight" \in Directions /\ "DownRight" \in Directions
  BY DEF Directions
<1>6. Shift(<<"UpRight", "UpRight", "Up">>) = <<2, 1, -3>>
  <2>1. Shift(<<"UpRight", "UpRight", "Up">>) = Add(Add(Vector("UpRight"), Vector("UpRight")), Vector("Up"))
    BY <1>4, <1>5, Zenon
  <2> QED
    BY <1>3, <2>1 DEF Add
<1>7. Shift(<<"UpRight", "Up", "Up">>) = <<1, 2, -3>>
  <2>1. Shift(<<"UpRight", "Up", "Up">>) = Add(Add(Vector("UpRight"), Vector("Up")), Vector("Up"))
    BY <1>4, <1>5, Zenon
  <2> QED
    BY <1>3, <2>1 DEF Add
<1>8. Shift(<<"DownRight", "DownRight", "Down">>) = <<2, -3, 1>>
  <2>1. Shift(<<"DownRight", "DownRight", "Down">>) = Add(Add(Vector("DownRight"), Vector("DownRight")), Vector("Down"))
    BY <1>4, <1>5, Zenon
  <2> QED
    BY <1>3, <2>1 DEF Add
<1>9. Shift(<<"DownRight", "Down", "Down">>) = <<1, -3, 2>>
  <2>1. Shift(<<"DownRight", "Down", "Down">>) = Add(Add(Vector("DownRight"), Vector("Down")), Vector("Down"))
    BY <1>4, <1>5, Zenon
  <2> QED
    BY <1>3, <2>1 DEF Add
<1>10. Shift(<<"UpLeft", "UpLeft", "Up">>) = <<-2, 3, -1>>
  <2>1. Shift(<<"UpLeft", "UpLeft", "Up">>) = Add(Add(Vector("UpLeft"), Vector("UpLeft")), Vector("Up"))
    BY <1>4, <1>5, Zenon
  <2> QED
    BY <1>3, <2>1 DEF Add
<1>11. Shift(<<"UpLeft", "Up", "Up">>) = <<-1, 3, -2>>
  <2>1. Shift(<<"UpLeft", "Up", "Up">>) = Add(Add(Vector("UpLeft"), Vector("Up")), Vector("Up"))
    BY <1>4, <1>5, Zenon
  <2> QED
    BY <1>3, <2>1 DEF Add
<1>12. Shift(<<"DownLeft", "DownLeft", "Down">>) = <<-2, -1, 3>>
  <2>1. Shift(<<"DownLeft", "DownLeft", "Down">>) = Add(Add(Vector("DownLeft"), Vector("DownLeft")), Vector("Down"))
    BY <1>4, <1>5, Zenon
  <2> QED
    BY <1>3, <2>1 DEF Add
<1>13. Shift(<<"DownLeft", "Down", "Down">>) = <<-1, -2, 3>>
  <2>1. Shift(<<"DownLeft", "Down", "Down">>) = Add(Add(Vector("DownLeft"), Vector("Down")), Vector("Down"))
    BY <1>4, <1>5, Zenon
  <2> QED
    BY <1>3, <2>1 DEF Add
<1>14. Shift(<<"UpLeft", "UpLeft", "DownLeft">>) = <<-3, 2, 1>>
  <2>1. Shift(<<"UpLeft", "UpLeft", "DownLeft">>) = Add(Add(Vector("UpLeft"), Vector("UpLeft")), Vector("DownLeft"))
    BY <1>4, <1>5, Zenon
  <2> QED
    BY <1>3, <2>1 DEF Add
<1>15. Shift(<<"DownLeft", "DownLeft", "UpLeft">>) = <<-3, 1, 2>>
  <2>1. Shift(<<"DownLeft", "DownLeft", "UpLeft">>) = Add(Add(Vector("DownLeft"), Vector("DownLeft")), Vector("UpLeft"))
    BY <1>4, <1>5, Zenon
  <2> QED
    BY <1>3, <2>1 DEF Add
<1>16. Shift(<<"UpRight", "UpRight", "DownRight">>) = <<3, -1, -2>>
  <2>1. Shift(<<"UpRight", "UpRight", "DownRight">>) = Add(Add(Vector("UpRight"), Vector("UpRight")), Vector("DownRight"))
    BY <1>4, <1>5, Zenon
  <2> QED
    BY <1>3, <2>1 DEF Add
<1>17. Shift(<<"DownRight", "DownRight", "UpRight">>) = <<3, -2, -1>>
  <2>1. Shift(<<"DownRight", "DownRight", "UpRight">>) = Add(Add(Vector("DownRight"), Vector("DownRight")), Vector("UpRight"))
    BY <1>4, <1>5, Zenon
  <2> QED
    BY <1>3, <2>1 DEF Add
<1>18. \A offset \in KnightOffsets : Shift(offset) \in KnightVectors
  BY <1>6, <1>7, <1>8, <1>9, <1>10, <1>11, <1>12, <1>13, <1>14, <1>15, <1>16, <1>17 DEF KnightOffsets, KnightVectors
<1>19. \A v \in KnightVectors : \E offset \in KnightOffsets : Shift(offset) = v
  BY <1>6, <1>7, <1>8, <1>9, <1>10, <1>11, <1>12, <1>13, <1>14, <1>15, <1>16, <1>17 DEF KnightOffsets, KnightVectors
<1> QED
  BY <1>2, <1>18, <1>19

-----------------------------------------------------------------------------
(* Lines.                                                                    *)

\* The hexagon n times the vector away.
Along(c, v, n) == Hexagon(Add(c, Times(n, v)))

IsLine(at, h, offset) ==
    at[0] = h /\ \A n \in 1 .. 10 : at[n] = Walk(at[n - 1], offset)

OnBoard(at) == [n \in {n \in 1 .. 10 : \A k \in 1 .. n : InBounds(at[k])} |-> at[n]]

LEMMA LineIsChain ==
    ASSUME NEW h, NEW offset, NEW chain, IsLine(chain, h, offset)
    PROVE  Line(h, offset) = OnBoard(chain)
<1> DEFINE Goes(f) == [n \in 0 .. 10 |-> IF n = 0 THEN h ELSE Walk(f[n - 1], offset)]
           at == CHOOSE f : f = Goes(f)
           known == [n \in 0 .. 10 |-> chain[n]]
<1>1. ASSUME NEW n \in 0 .. 10
      PROVE  known[n] = IF n = 0 THEN h ELSE Walk(known[n - 1], offset)
  <2>1. CASE n = 0
    BY <2>1 DEF IsLine
  <2>2. CASE n # 0
    <3>1. n \in 1 .. 10 /\ n - 1 \in 0 .. 10
      BY <2>2
    <3> QED
      BY <2>2, <3>1 DEF IsLine
  <2> QED
    BY <2>1, <2>2
<1>2. known = Goes(known)
  BY <1>1
<1>3. at = Goes(at)
  BY <1>2, Zenon
<1>4. \A n \in 0 .. 10 : at[n] = IF n = 0 THEN h ELSE Walk(at[n - 1], offset)
  <2> HIDE DEF at
  <2> QED
    BY <1>3
<1>5. \A n \in 0 .. 10 : at[n] = chain[n]
  <2> HIDE DEF at
  <2> DEFINE S == {n \in 0 .. 10 : at[n] = chain[n]}
  <2>1. 0 \in S
    BY <1>4 DEF IsLine
  <2>2. ASSUME NEW n \in 1 .. 10, n - 1 \in S PROVE n \in S
    BY <1>4, <2>2 DEF IsLine
  <2>3. S \in SUBSET (0 .. 10) /\ 10 \in Nat
    OBVIOUS
  <2>4. S = 0 .. 10
    <3> HIDE DEF S
    <3> QED
      BY <2>1, <2>2, <2>3, UpTo
  <2> QED
    BY <2>4
<1>6. Line(h, offset) = OnBoard(at)
  BY Zenon DEF Line, OnBoard
<1>7. OnBoard(at) = OnBoard(chain)
  <2> HIDE DEF at
  <2> QED
    BY <1>5 DEF OnBoard
<1> QED
  BY <1>6, <1>7, Zenon

\* A line from h has the multiples of the vector that are on the board.
LEMMA LineIsAlong ==
    ASSUME NEW c \in Cubes, NEW offset, Adds(offset)
    PROVE  LET v == Shift(offset)
           IN  Line(Hexagon(c), offset) =
                  [n \in {n \in 1 .. 10 : \A k \in 1 .. n : InBounds(Along(c, v, k))} |-> Along(c, v, n)]
<1> DEFINE v == Shift(offset)
           chain == [n \in 0 .. 10 |-> Along(c, v, n)]
<1>1. v \in Cubes
  BY DEF Adds
<1>2. Along(c, v, 0) = Hexagon(c)
  BY <1>1, AddCubes DEF Along
<1>3. ASSUME NEW n \in 1 .. 10
      PROVE  Along(c, v, n) = Walk(Along(c, v, n - 1), offset)
  <2>1. n - 1 \in Int /\ n - 1 + 1 = n
    OBVIOUS
  <2>2. Times(n - 1, v) \in Cubes /\ Add(Add(c, Times(n - 1, v)), v) = Add(c, Times(n, v))
    BY <1>1, <2>1, AddCubes
  <2>3. Add(c, Times(n - 1, v)) \in Cubes
    BY <2>2, AddCubes
  <2> QED
    BY <2>2, <2>3 DEF Along, Adds
<1> HIDE DEF v
<1>4. IsLine(chain, Hexagon(c), offset)
  <2>1. \A n \in 1 .. 10 : n - 1 \in 0 .. 10
    OBVIOUS
  <2> QED
    BY <1>2, <1>3, <2>1 DEF IsLine
<1>5. \A n \in 0 .. 10 : chain[n] = Along(c, v, n)
  OBVIOUS
<1> HIDE DEF chain
<1>6. Line(Hexagon(c), offset) =
         [n \in {n \in 1 .. 10 : \A k \in 1 .. n : InBounds(chain[k])} |-> chain[n]]
  <2>1. Line(Hexagon(c), offset) = OnBoard(chain)
    BY <1>4, LineIsChain
  <2> QED
    BY <2>1, Zenon DEF OnBoard
<1>7. {n \in 1 .. 10 : \A k \in 1 .. n : InBounds(chain[k])}
         = {n \in 1 .. 10 : \A k \in 1 .. n : InBounds(Along(c, v, k))}
  BY <1>5
<1> QED
  BY <1>5, <1>6, <1>7 DEF v

-----------------------------------------------------------------------------
(* The hexagon of the board is convex, and the hexagons on a line are the    *)
(* multiples of a vector.                                                    *)

LEMMA BoardOfCubes ==
    ASSUME NEW c \in Cubes
    PROVE  Hexagon(c) \in Hexes <=> Abs(c[1]) <= 5 /\ Abs(c[2]) <= 5 /\ Abs(c[3]) <= 5
<1>1. PICK file \in Int, rank \in Int : Hexagon(c) = <<file, rank>>
  BY HexagonOfCube DEF Points
<1>2. InBounds(Hexagon(c)) <=> \A i \in 1 .. 3 : Abs(c[i]) <= 5
  BY <1>1, BoardIsHexagon, HexagonOfCube
<1>3. InBounds(Hexagon(c)) <=> Hexagon(c) \in Hexes
  BY <1>1 DEF Hexes, InBounds, RanksPerFile, Files, Midpoint
<1>4. (\A i \in 1 .. 3 : Abs(c[i]) <= 5) <=> Abs(c[1]) <= 5 /\ Abs(c[2]) <= 5 /\ Abs(c[3]) <= 5
  OBVIOUS
<1> QED
  BY <1>2, <1>3, <1>4

LEMMA HexesAreInBounds ==
    ASSUME NEW h \in Points
    PROVE  InBounds(h) <=> h \in Hexes
<1>1. PICK file \in Int, rank \in Int : h = <<file, rank>>
  BY DEF Points
<1> QED
  BY <1>1 DEF Hexes, InBounds, RanksPerFile, Files, Midpoint

LEMMA HexesArePoints ==
    ASSUME NEW h \in Hexes
    PROVE  h \in Points /\ Cube(h) \in Cubes /\ Hexagon(Cube(h)) = h
<1>1. h \in Points
  BY DEF Hexes, Points, Files
<1> QED
  BY <1>1, CubeOfHexagon

\* The vectors of the pieces that travel.
Glides == RookVectors \cup BishopVectors

LEMMA GlideParts ==
    ASSUME NEW v \in Glides
    PROVE  \E p \in -2 .. 2, q \in -2 .. 2, r \in -2 .. 2 :
              /\ v = <<p, q, r>> /\ p + q + r = 0
              /\ v \in RookVectors => \/ p = 0 /\ q \in {-1, 1}
                                      \/ q = 0 /\ r \in {-1, 1}
                                      \/ r = 0 /\ p \in {-1, 1}
              /\ v \in BishopVectors => \/ p = q /\ p \in {-1, 1}
                                        \/ q = r /\ q \in {-1, 1}
                                        \/ r = p /\ r \in {-1, 1}
BY DEF Glides, RookVectors, BishopVectors

\* What is within five of the middle in a coordinate lies on the way.
LEMMA Convex ==
    ASSUME NEW c \in Cubes, NEW v \in Glides, Hexagon(c) \in Hexes,
           NEW n \in Nat, Along(c, v, n) \in Hexes
    PROVE  /\ n <= 10
           /\ \A k \in 0 .. n : Along(c, v, k) \in Hexes
<1>1. PICK x \in Int, y \in Int, z \in Int : c = <<x, y, z>> /\ x + y + z = 0
  BY CubeParts
<1>2. PICK p \in -2 .. 2, q \in -2 .. 2, r \in -2 .. 2 : v = <<p, q, r>> /\ p + q + r = 0
                                                        /\ (p # 0 \/ q # 0)
  BY GlideParts DEF Glides
<1>3. ASSUME NEW k \in Int
      PROVE  /\ Add(c, Times(k, v)) \in Cubes
             /\ Add(c, Times(k, v))[1] = x + k * p
             /\ Add(c, Times(k, v))[2] = y + k * q
             /\ Add(c, Times(k, v))[3] = z + k * r
  <2>1. v \in Cubes
    BY <1>2, CubeMade
  <2> QED
    <3>1. Times(k, v) \in Cubes /\ Add(c, Times(k, v)) \in Cubes
      BY <2>1, AddCubes
    <3>2. Times(k, v) = <<k * p, k * q, k * r>>
      BY <1>2 DEF Times
    <3>3. Add(c, Times(k, v)) = <<x + k * p, y + k * q, z + k * r>>
      BY <1>1, <3>2 DEF Add
    <3> DEFINE a == Add(c, Times(k, v))
               i == x + k * p
               j == y + k * q
               l == z + k * r
    <3>4. a = <<i, j, l>> => a[1] = i /\ a[2] = j /\ a[3] = l
      <4> HIDE DEF a, i, j, l
      <4> QED
        OBVIOUS
    <3> QED
      BY <3>1, <3>3, <3>4, Zenon
<1>4. /\ Abs(x) <= 5 /\ Abs(y) <= 5 /\ Abs(z) <= 5
      /\ Abs(x + n * p) <= 5 /\ Abs(y + n * q) <= 5 /\ Abs(z + n * r) <= 5
  <2>1. Abs(x) <= 5 /\ Abs(y) <= 5 /\ Abs(z) <= 5
    BY <1>1, BoardOfCubes
  <2>2. Hexagon(Add(c, Times(n, v))) \in Hexes /\ n \in Int
    BY DEF Along
  <2>3. /\ Abs(Add(c, Times(n, v))[1]) <= 5 /\ Abs(Add(c, Times(n, v))[2]) <= 5
        /\ Abs(Add(c, Times(n, v))[3]) <= 5
    BY <1>3, <2>2, BoardOfCubes
  <2>4. /\ Add(c, Times(n, v))[1] = x + n * p /\ Add(c, Times(n, v))[2] = y + n * q
        /\ Add(c, Times(n, v))[3] = z + n * r
    BY <1>3, <2>2
  <2> QED
    BY <2>1, <2>3, <2>4
<1>5. ASSUME NEW i \in Int, NEW e \in -2 .. 2, Abs(i) <= 5, Abs(i + n * e) <= 5, NEW k \in 0 .. n
      PROVE  Abs(i + k * e) <= 5 /\ (e # 0 => n <= 10)
  <2>1. CASE e = 0
    BY <1>5, <2>1 DEF Abs
  <2>2. CASE e = 1
    BY <1>5, <2>2 DEF Abs
  <2>3. CASE e = 2
    BY <1>5, <2>3 DEF Abs
  <2>4. CASE e = -1
    BY <1>5, <2>4 DEF Abs
  <2>5. CASE e = -2
    BY <1>5, <2>5 DEF Abs
  <2> QED
    BY <2>1, <2>2, <2>3, <2>4, <2>5
<1>6. n <= 10
  BY <1>2, <1>4, <1>5
<1>7. ASSUME NEW k \in 0 .. n PROVE Along(c, v, k) \in Hexes
  <2>1. Abs(x + k * p) <= 5 /\ Abs(y + k * q) <= 5 /\ Abs(z + k * r) <= 5
    BY <1>4, <1>5
  <2>2. Abs(Add(c, Times(k, v))[1]) <= 5 /\ Abs(Add(c, Times(k, v))[2]) <= 5
            /\ Abs(Add(c, Times(k, v))[3]) <= 5
    <3>1. /\ Add(c, Times(k, v))[1] = x + k * p /\ Add(c, Times(k, v))[2] = y + k * q
          /\ Add(c, Times(k, v))[3] = z + k * r
      <4>1. k \in Int
        OBVIOUS
      <4> QED
        BY <1>3, <4>1, Zenon
    <3> QED
      BY <2>1, <3>1
  <2> QED
    BY <1>3, <2>2, BoardOfCubes DEF Along
<1> QED
  BY <1>6, <1>7

\* A way with a zero in it is a multiple of a rook's vector.
LEMMA RookLineIsRepeated ==
    ASSUME NEW w \in Cubes
    PROVE  OnRookLine(w) /\ w # <<0, 0, 0>>
              <=> \E v \in RookVectors, n \in Nat \ {0} : w = Times(n, v)
<1>1. PICK x \in Int, y \in Int, z \in Int : w = <<x, y, z>> /\ x + y + z = 0
  BY CubeParts
<1>2. OnRookLine(w) <=> x = 0 \/ y = 0 \/ z = 0
  BY <1>1 DEF OnRookLine
<1>3. ASSUME NEW n \in Nat \ {0}
      PROVE  /\ Times(n, <<0, 1, -1>>) = <<0, n, -n>> /\ Times(n, <<0, -1, 1>>) = <<0, -n, n>>
             /\ Times(n, <<-1, 0, 1>>) = <<-n, 0, n>> /\ Times(n, <<1, -1, 0>>) = <<n, -n, 0>>
             /\ Times(n, <<-1, 1, 0>>) = <<-n, n, 0>> /\ Times(n, <<1, 0, -1>>) = <<n, 0, -n>>
  BY DEF Times
<1>4. ASSUME NEW v \in RookVectors, NEW n \in Nat \ {0}, w = Times(n, v)
      PROVE  OnRookLine(w) /\ w # <<0, 0, 0>>
  <2>1. w \in {<<0, n, -n>>, <<0, -n, n>>, <<-n, 0, n>>, <<n, -n, 0>>, <<-n, n, 0>>, <<n, 0, -n>>}
    BY <1>3, <1>4 DEF RookVectors
  <2> QED
    BY <1>1, <1>2, <2>1
<1>5. ASSUME OnRookLine(w), w # <<0, 0, 0>>
      PROVE  \E v \in RookVectors, n \in Nat \ {0} : w = Times(n, v)
  <2>1. x # 0 \/ y # 0
    BY <1>1, <1>5
  <2>2. CASE x = 0 /\ y > 0
    BY <1>1, <1>3, <2>2 DEF RookVectors
  <2>3. CASE x = 0 /\ y < 0
    <3>1. -y \in Nat \ {0} /\ -(-y) = y /\ z = -y
      BY <1>1, <2>3
    <3> QED
      BY <1>1, <1>3, <2>3, <3>1 DEF RookVectors
  <2>4. CASE y = 0 /\ x > 0
    BY <1>1, <1>3, <2>4 DEF RookVectors
  <2>5. CASE y = 0 /\ x < 0
    <3>1. -x \in Nat \ {0} /\ -(-x) = x /\ z = -x
      BY <1>1, <2>5
    <3> QED
      BY <1>1, <1>3, <2>5, <3>1 DEF RookVectors
  <2>6. CASE z = 0 /\ x > 0
    <3>1. x \in Nat \ {0} /\ y = -x
      BY <1>1, <2>6
    <3> QED
      BY <1>1, <1>3, <2>6, <3>1 DEF RookVectors
  <2>7. CASE z = 0 /\ x < 0
    <3>1. -x \in Nat \ {0} /\ -(-x) = x /\ y = -x
      BY <1>1, <2>7
    <3> QED
      BY <1>1, <1>3, <2>7, <3>1 DEF RookVectors
  <2> QED
    BY <1>2, <1>5, <2>1, <2>2, <2>3, <2>4, <2>5, <2>6, <2>7
<1> QED
  BY <1>4, <1>5

\* A way with two equal parts is a multiple of a bishop's vector.
LEMMA BishopLineIsRepeated ==
    ASSUME NEW w \in Cubes
    PROVE  OnBishopLine(w) /\ w # <<0, 0, 0>>
              <=> \E v \in BishopVectors, n \in Nat \ {0} : w = Times(n, v)
<1>1. PICK x \in Int, y \in Int, z \in Int : w = <<x, y, z>> /\ x + y + z = 0
  BY CubeParts
<1>2. OnBishopLine(w) <=> x = y \/ y = z \/ z = x
  <2>1. OnBishopLine(w) <=> \/ w[1] = w[2] \/ w[2] = w[3] \/ w[3] = w[1]
    BY DEF OnBishopLine
  <2> QED
    BY <1>1, <2>1
<1>3. ASSUME NEW n \in Nat \ {0}
      PROVE  /\ Times(n, <<2, -1, -1>>) = <<2 * n, -n, -n>> /\ Times(n, <<-2, 1, 1>>) = <<-(2 * n), n, n>>
             /\ Times(n, <<1, 1, -2>>) = <<n, n, -(2 * n)>> /\ Times(n, <<-1, 2, -1>>) = <<-n, 2 * n, -n>>
             /\ Times(n, <<1, -2, 1>>) = <<n, -(2 * n), n>> /\ Times(n, <<-1, -1, 2>>) = <<-n, -n, 2 * n>>
  BY DEF Times
<1>4. ASSUME NEW v \in BishopVectors, NEW n \in Nat \ {0}, w = Times(n, v)
      PROVE  OnBishopLine(w) /\ w # <<0, 0, 0>>
  <2>1. w \in {<<2 * n, -n, -n>>, <<-(2 * n), n, n>>, <<n, n, -(2 * n)>>,
               <<-n, 2 * n, -n>>, <<n, -(2 * n), n>>, <<-n, -n, 2 * n>>}
    BY <1>3, <1>4 DEF BishopVectors
  <2> QED
    BY <1>1, <1>2, <2>1
<1>5. ASSUME OnBishopLine(w), w # <<0, 0, 0>>
      PROVE  \E v \in BishopVectors, n \in Nat \ {0} : w = Times(n, v)
  <2>1. x # 0 \/ y # 0
    BY <1>1, <1>5
  <2>2. CASE x = y /\ x > 0
    <3>1. x \in Nat \ {0} /\ z = -(2 * x)
      BY <1>1, <2>2
    <3> QED
      BY <1>1, <1>3, <2>2, <3>1 DEF BishopVectors
  <2>3. CASE x = y /\ x < 0
    <3>1. PICK n \in Nat \ {0} : x = -n
      <4>1. -x \in Nat \ {0} /\ x = -(-x)
        BY <2>3
      <4> QED
        BY <4>1
    <3>2. w = <<-n, -n, 2 * n>>
      BY <1>1, <2>3, <3>1
    <3>3. Times(n, <<-1, -1, 2>>) = <<-n, -n, 2 * n>> /\ <<-1, -1, 2>> \in BishopVectors
      BY <1>3 DEF BishopVectors
    <3> QED
      BY <3>2, <3>3
  <2>4. CASE y = z /\ y > 0
    <3>1. y \in Nat \ {0} /\ x = -(2 * y)
      BY <1>1, <2>4
    <3> QED
      BY <1>1, <1>3, <2>4, <3>1 DEF BishopVectors
  <2>5. CASE y = z /\ y < 0
    <3>1. PICK n \in Nat \ {0} : y = -n
      <4>1. -y \in Nat \ {0} /\ y = -(-y)
        BY <2>5
      <4> QED
        BY <4>1
    <3>2. w = <<2 * n, -n, -n>>
      BY <1>1, <2>5, <3>1
    <3>3. Times(n, <<2, -1, -1>>) = <<2 * n, -n, -n>> /\ <<2, -1, -1>> \in BishopVectors
      BY <1>3 DEF BishopVectors
    <3> QED
      BY <3>2, <3>3
  <2>6. CASE z = x /\ x > 0
    <3>1. x \in Nat \ {0} /\ y = -(2 * x)
      BY <1>1, <2>6
    <3> QED
      BY <1>1, <1>3, <2>6, <3>1 DEF BishopVectors
  <2>7. CASE z = x /\ x < 0
    <3>1. PICK n \in Nat \ {0} : x = -n
      <4>1. -x \in Nat \ {0} /\ x = -(-x)
        BY <2>7
      <4> QED
        BY <4>1
    <3>2. w = <<-n, 2 * n, -n>>
      BY <1>1, <2>7, <3>1
    <3>3. Times(n, <<-1, 2, -1>>) = <<-n, 2 * n, -n>> /\ <<-1, 2, -1>> \in BishopVectors
      BY <1>3 DEF BishopVectors
    <3> QED
      BY <3>2, <3>3
  <2> QED
    <3>1. x = y \/ y = z \/ z = x
      BY <1>2, <1>5
    <3>2. x = y => x # 0
      BY <2>1
    <3>3. y = z => y # 0
      BY <1>1, <2>1
    <3>4. z = x => x # 0
      BY <1>1, <2>1
    <3> QED
      BY <3>1, <3>2, <3>3, <3>4, <2>2, <2>3, <2>4, <2>5, <2>6, <2>7
<1> QED
  BY <1>4, <1>5

LEMMA Cancel ==
    ASSUME NEW n \in Nat \ {0}, NEW a \in Int, NEW b \in Int, n * a = n * b
    PROVE  a = b
<1>1. n * (a - b) = 0
  BY Z3
<1>2. a - b > 0 => n * (a - b) > 0
  BY Z3
<1>3. a - b < 0 => n * (a - b) < 0
  BY Z3
<1> QED
  BY <1>1, <1>2, <1>3

\* How far a step of each of these pieces goes.
LEMMA GlideNorm ==
    ASSUME NEW v \in Glides
    PROVE  \E p \in -2 .. 2, q \in -2 .. 2, r \in -2 .. 2 :
              /\ v = <<p, q, r>> /\ p + q + r = 0
              /\ Abs(p) + Abs(q) + Abs(r) \in {2, 4}
              /\ p \in {-1, 1} \/ q \in {-1, 1}
BY DEF Glides, RookVectors, BishopVectors, Abs

LEMMA NormOfMultiple ==
    ASSUME NEW p \in -2 .. 2, NEW k \in Nat
    PROVE  Abs(k * p) = k * Abs(p) /\ k * p \in Int
<1>1. p = -2 \/ p = -1 \/ p = 0 \/ p = 1 \/ p = 2
  OBVIOUS
<1> QED
  BY <1>1 DEF Abs

\* What lies within a way along a line is a smaller multiple of its vector.
LEMMA WithinMultiple ==
    ASSUME NEW v \in Glides, NEW n \in Nat \ {0}, NEW u \in Cubes, u # <<0, 0, 0>>
    PROVE  Within(u, Times(n, v)) <=> \E k \in 1 .. n - 1 : u = Times(k, v)
<1>1. PICK p \in -2 .. 2, q \in -2 .. 2, r \in -2 .. 2 :
         /\ v = <<p, q, r>> /\ p + q + r = 0
         /\ Abs(p) + Abs(q) + Abs(r) \in {2, 4}
         /\ p \in {-1, 1} \/ q \in {-1, 1}
  BY GlideNorm
<1>2. PICK x \in Int, y \in Int, z \in Int : u = <<x, y, z>> /\ x + y + z = 0
  BY CubeParts
<1> DEFINE N == Abs(p) + Abs(q) + Abs(r)
           s == Abs(x) + Abs(y) + Abs(z)
<1>3. s \in Nat \ {0} /\ Norm(u) = s /\ N \in {2, 4}
  <2>1. x # 0 \/ y # 0
    BY <1>2
  <2>2. Abs(x) \in Nat /\ Abs(y) \in Nat /\ Abs(z) \in Nat /\ (x # 0 => Abs(x) > 0) /\ (y # 0 => Abs(y) > 0)
    BY DEF Abs
  <2>3. Norm(u) = s
    BY <1>2 DEF Norm
  <2> QED
    BY <1>1, <2>1, <2>2, <2>3
<1>4. ASSUME NEW k \in Nat
      PROVE  Times(k, v) = <<k * p, k * q, k * r>> /\ Norm(Times(k, v)) = k * N
  <2>1. Times(k, v) = <<k * p, k * q, k * r>>
    BY <1>1 DEF Times
  <2>2. Norm(Times(k, v)) = Abs(k * p) + Abs(k * q) + Abs(k * r)
    <3> DEFINE i == k * p
               j == k * q
               l == k * r
    <3>1. Norm(<<i, j, l>>) = Abs(i) + Abs(j) + Abs(l)
      <4> HIDE DEF i, j, l
      <4> QED
        BY DEF Norm
    <3> QED
      BY <2>1, <3>1, Zenon
  <2>3. Abs(p) \in Nat /\ Abs(q) \in Nat /\ Abs(r) \in Nat
    BY DEF Abs
  <2>4. k * Abs(p) + k * Abs(q) + k * Abs(r) = k * (Abs(p) + Abs(q) + Abs(r))
    BY <2>3, Z3
  <2>5. Abs(k * p) = k * Abs(p) /\ Abs(k * q) = k * Abs(q) /\ Abs(k * r) = k * Abs(r)
    BY NormOfMultiple
  <2> QED
    BY <2>1, <2>2, <2>4, <2>5
<1> HIDE DEF N, s
<1>5. Within(u, Times(n, v)) <=>
         /\ s < n * N
         /\ x * (n * N) = (n * p) * s
         /\ y * (n * N) = (n * q) * s
         /\ z * (n * N) = (n * r) * s
  <2> DEFINE i == n * p
             j == n * q
             l == n * r
             M == n * N
             w == Times(n, v)
  <2>1. w = <<i, j, l>> /\ Norm(w) = M
    BY <1>4
  <2> HIDE DEF i, j, l, M, w
  <2>2. Within(u, w) <=> s < M /\ \A a \in 1 .. 3 : u[a] * M = w[a] * s
    BY <1>3, <2>1 DEF Within
  <2>3. (\A a \in 1 .. 3 : u[a] * M = w[a] * s)
           <=> u[1] * M = w[1] * s /\ u[2] * M = w[2] * s /\ u[3] * M = w[3] * s
    OBVIOUS
  <2>4. u[1] = x /\ u[2] = y /\ u[3] = z /\ w[1] = i /\ w[2] = j /\ w[3] = l
    BY <1>2, <2>1
  <2> QED
    BY <2>2, <2>3, <2>4, Zenon DEF i, j, l, M, w
<1>6. ASSUME NEW a \in Int, NEW e \in -2 .. 2
      PROVE  a * (n * N) = (n * e) * s <=> a * N = e * s
  <2>1. N \in Int /\ s \in Int
    BY <1>3
  <2>2. a * (n * N) = n * (a * N) /\ (n * e) * s = n * (e * s) /\ a * N \in Int /\ e * s \in Int
    BY <2>1, Z3
  <2> QED
    BY <2>2, Cancel
<1>7. Within(u, Times(n, v)) <=> s < n * N /\ x * N = p * s /\ y * N = q * s /\ z * N = r * s
  BY <1>5, <1>6
<1>8. ASSUME NEW k \in 1 .. n - 1, u = Times(k, v)
      PROVE  Within(u, Times(n, v))
  <2>1. k \in Nat /\ k < n
    OBVIOUS
  <2>2. s = k * N
    BY <1>3, <1>4, <1>8, <2>1
  <2>3. x = k * p /\ y = k * q /\ z = k * r
    <3> DEFINE i == k * p
               j == k * q
               l == k * r
    <3>1. <<x, y, z>> = <<i, j, l>>
      BY <1>2, <1>4, <1>8, <2>1
    <3>2. x = i /\ y = j /\ z = l
      <4> HIDE DEF i, j, l
      <4> QED
        BY <3>1
    <3> QED
      BY <3>2
  <2>4. ASSUME NEW e \in -2 .. 2 PROVE (k * e) * N = e * s
    BY <1>3, <2>1, <2>2, Z3
  <2>5. s < n * N
    BY <1>3, <2>1, <2>2
  <2> QED
    BY <1>7, <2>3, <2>4, <2>5
<1>9. ASSUME Within(u, Times(n, v))
      PROVE  \E k \in 1 .. n - 1 : u = Times(k, v)
  <2>1. s < n * N /\ x * N = p * s /\ y * N = q * s /\ z * N = r * s
    BY <1>7, <1>9
  <2>2. PICK k \in Int : s = k * N
    <3>1. CASE p = 1
      BY <2>1, <3>1, <1>3
    <3>2. CASE p = -1
      <4>1. s = (-x) * N
        BY <2>1, <3>2, <1>3
      <4> QED
        BY <4>1
    <3>3. CASE q = 1
      BY <2>1, <3>3, <1>3
    <3>4. CASE q = -1
      <4>1. s = (-y) * N
        BY <2>1, <3>4, <1>3
      <4> QED
        BY <4>1
    <3> QED
      BY <1>1, <3>1, <3>2, <3>3, <3>4
  <2>3. k \in 1 .. n - 1
    BY <1>3, <2>1, <2>2
  <2>4. ASSUME NEW a \in Int, NEW e \in -2 .. 2, a * N = e * s PROVE a = k * e
    <3>1. CASE N = 2
      <4>1. 2 * a = 2 * (k * e)
        BY <2>2, <2>4, <3>1, Z3
      <4> QED
        BY <4>1
    <3>2. CASE N = 4
      <4>1. 4 * a = 4 * (k * e)
        BY <2>2, <2>4, <3>2, Z3
      <4> QED
        BY <4>1
    <3> QED
      BY <1>3, <3>1, <3>2
  <2>5. x = k * p /\ y = k * q /\ z = k * r
    BY <2>1, <2>4
  <2>6. u = Times(k, v)
    <3>1. Times(k, v) = <<k * p, k * q, k * r>>
      BY <1>4, <2>3
    <3> QED
      BY <1>2, <2>5, <3>1, Zenon
  <2> QED
    BY <2>3, <2>6
<1> QED
  BY <1>8, <1>9

-----------------------------------------------------------------------------
(* Moves.                                                                    *)

LEMMA MinusIsAdd ==
    ASSUME NEW a \in Cubes, NEW c \in Cubes
    PROVE  /\ Minus(a, c) \in Cubes
           /\ \A t \in Cubes : Minus(a, c) = t <=> a = Add(c, t)
           /\ Minus(a, c) = <<0, 0, 0>> <=> a = c
<1>1. PICK x \in Int, y \in Int, z \in Int : a = <<x, y, z>> /\ x + y + z = 0
  BY CubeParts
<1>2. PICK p \in Int, q \in Int, r \in Int : c = <<p, q, r>> /\ p + q + r = 0
  BY CubeParts
<1>3. Minus(a, c) = <<x - p, y - q, z - r>>
  BY <1>1, <1>2 DEF Minus
<1>4. Minus(a, c) \in Cubes
  <2>1. (x - p) + (y - q) + (z - r) = 0 /\ x - p \in Int /\ y - q \in Int /\ z - r \in Int
    BY <1>1, <1>2
  <2> QED
    BY <1>3, <2>1, CubeMade
<1>5. ASSUME NEW t \in Cubes PROVE Minus(a, c) = t <=> a = Add(c, t)
  <2>1. PICK i \in Int, j \in Int, k \in Int : t = <<i, j, k>> /\ i + j + k = 0
    BY CubeParts
  <2> QED
    BY <1>1, <1>2, <1>3, <2>1 DEF Add
<1>6. Minus(a, c) = <<0, 0, 0>> <=> a = c
  BY <1>1, <1>2, <1>3
<1> QED
  BY <1>4, <1>5, <1>6

LEMMA WayFacts ==
    ASSUME NEW h \in Hexes, NEW to \in Hexes
    PROVE  /\ Way(h, to) \in Cubes
           /\ Way(h, to) = <<0, 0, 0>> <=> to = h
           /\ \A t \in Cubes : Way(h, to) = t <=> to = Hexagon(Add(Cube(h), t))
<1>1. Cube(h) \in Cubes /\ Cube(to) \in Cubes /\ Hexagon(Cube(h)) = h /\ Hexagon(Cube(to)) = to
  BY HexesArePoints
<1>2. Cube(to) = Cube(h) <=> to = h
  BY <1>1
<1>3. ASSUME NEW t \in Cubes PROVE Way(h, to) = t <=> to = Hexagon(Add(Cube(h), t))
  <2>1. Way(h, to) = t <=> Cube(to) = Add(Cube(h), t)
    BY <1>1, MinusIsAdd DEF Way
  <2>2. Add(Cube(h), t) \in Cubes
    BY <1>1, AddCubes
  <2>3. Cube(Hexagon(Add(Cube(h), t))) = Add(Cube(h), t)
    BY <2>2, HexagonOfCube
  <2> QED
    BY <1>1, <2>1, <2>3
<1> QED
  BY <1>1, <1>2, <1>3, MinusIsAdd DEF Way

LEMMA GlidesAreCubes == Glides \subseteq Cubes
<1> SUFFICES ASSUME NEW v \in Glides PROVE v \in Cubes
  OBVIOUS
<1>1. PICK p \in Int, q \in Int, r \in Int : v = <<p, q, r>> /\ p + q + r = 0
  BY GlideParts
<1> QED
  BY <1>1, CubeMade

LEMMA WayIsAlong ==
    ASSUME NEW h \in Hexes, NEW to \in Hexes, NEW v \in Glides, NEW n \in Nat
    PROVE  to = Along(Cube(h), v, n) <=> Way(h, to) = Times(n, v)
<1>1. v \in Cubes /\ Cube(h) \in Cubes /\ n \in Int
  BY GlidesAreCubes, HexesArePoints
<1>2. Times(n, v) \in Cubes
  BY <1>1, AddCubes
<1> QED
  BY <1>2, WayFacts DEF Along

Reaches(b, c, v, to) ==
    \E n \in Nat \ {0} :
       /\ to = Along(c, v, n) /\ to \in Hexes
       /\ \A k \in 1 .. n - 1 : b[Along(c, v, k)] = Empty

LEMMA ReachIsAlong ==
    ASSUME NEW b, NEW h \in Hexes, NEW offset, Adds(offset), Shift(offset) \in Glides, NEW to
    PROVE  to \in Reach(b, Line(h, offset)) <=> Reaches(b, Cube(h), Shift(offset), to)
<1> DEFINE c == Cube(h)
           v == Shift(offset)
           D == {n \in 1 .. 10 : \A k \in 1 .. n : InBounds(Along(c, v, k))}
           line == [n \in D |-> Along(c, v, n)]
           stops == {n \in D : b[line[n]] # Empty}
<1>1. c \in Cubes /\ Hexagon(c) = h /\ v \in Cubes
  BY HexesArePoints, GlidesAreCubes
<1>2. Line(h, offset) = line
  BY <1>1, LineIsAlong
<1>3. \A n \in Nat : Along(c, v, n) \in Points
  <2> TAKE n \in Nat
  <2>1. Times(n, v) \in Cubes
    BY <1>1, AddCubes
  <2>2. Add(c, Times(n, v)) \in Cubes
    BY <1>1, <2>1, AddCubes
  <2> QED
    BY <2>2, HexagonOfCube DEF Along
<1>4. v \in Glides
  OBVIOUS
<1> HIDE DEF c, v
<1>5. \A n \in Nat \ {0} : n \in D <=> Along(c, v, n) \in Hexes
  <2> TAKE n \in Nat \ {0}
  <2>1. ASSUME n \in D PROVE Along(c, v, n) \in Hexes
    <3>1. InBounds(Along(c, v, n))
      BY <2>1
    <3> QED
      BY <1>3, <3>1, HexesAreInBounds
  <2>2. ASSUME Along(c, v, n) \in Hexes PROVE n \in D
    <3>1. n <= 10 /\ \A k \in 0 .. n : Along(c, v, k) \in Hexes
      BY <1>1, <1>4, <2>2, Convex
    <3>2. ASSUME NEW k \in 1 .. n PROVE InBounds(Along(c, v, k))
      BY <1>3, <3>1, HexesAreInBounds
    <3> QED
      BY <3>1, <3>2
  <2> QED
    BY <2>1, <2>2
<1>6. \A n \in D : n \in Nat \ {0} /\ \A k \in 1 .. n - 1 : k \in D
  OBVIOUS
<1>7. \A n \in D : line[n] = Along(c, v, n)
  OBVIOUS
<1>8. to \in Reach(b, line) <=> \E n \in D : to = line[n] /\ \A k \in stops : n <= k
  BY DEF Reach
<1> HIDE DEF D
<1>9. \A n \in D : (\A k \in stops : n <= k) <=> \A k \in 1 .. n - 1 : b[Along(c, v, k)] = Empty
  <2> TAKE n \in D
  <2>1. ASSUME \A k \in stops : n <= k, NEW k \in 1 .. n - 1 PROVE b[Along(c, v, k)] = Empty
    <3>1. k \in D /\ ~(n <= k)
      BY <1>6
    <3> QED
      BY <1>7, <2>1, <3>1
  <2>2. ASSUME \A k \in 1 .. n - 1 : b[Along(c, v, k)] = Empty, NEW k \in stops PROVE n <= k
    BY <1>6, <1>7, <2>2
  <2> QED
    BY <2>1, <2>2
<1> HIDE DEF line, stops
<1>10. to \in Reach(b, line) <=>
          \E n \in D : to = Along(c, v, n) /\ \A k \in 1 .. n - 1 : b[Along(c, v, k)] = Empty
  BY <1>7, <1>8, <1>9
<1>11. to \in Reach(b, line) <=>
          \E n \in Nat \ {0} :
             /\ to = Along(c, v, n) /\ to \in Hexes
             /\ \A k \in 1 .. n - 1 : b[Along(c, v, k)] = Empty
  BY <1>5, <1>6, <1>10
<1> QED
  BY <1>2, <1>11 DEF c, v, Reaches

\* No piece stands between two hexagons on a line.
\* A way is open if the smaller multiples of its vector lead to empty hexagons.
LEMMA OpenIsEmpty ==
    ASSUME NEW b, NEW h \in Hexes, NEW to \in Hexes, NEW v \in Glides, NEW n \in Nat \ {0},
           to = Along(Cube(h), v, n)
    PROVE  Open(b, h, to) <=> \A k \in 1 .. n - 1 : b[Along(Cube(h), v, k)] = Empty
<1>1. Way(h, to) = Times(n, v)
  BY WayIsAlong
<1>2. ASSUME Open(b, h, to), NEW k \in 1 .. n - 1 PROVE b[Along(Cube(h), v, k)] = Empty
  <2> DEFINE x == Along(Cube(h), v, k)
  <2>1. x \in Hexes
    <3>1. Cube(h) \in Cubes /\ Hexagon(Cube(h)) \in Hexes /\ k \in 0 .. n
      BY HexesArePoints
    <3> QED
      BY <3>1, Convex
  <2>2. Way(h, x) = Times(k, v) /\ Way(h, x) \in Cubes
    BY <2>1, WayIsAlong, WayFacts
  <2>3. x # h
    <3>1. Times(k, v) # <<0, 0, 0>>
      <4>1. PICK p \in -2 .. 2, q \in -2 .. 2, r \in -2 .. 2 :
               v = <<p, q, r>> /\ (p \in {-1, 1} \/ q \in {-1, 1})
        BY GlideNorm
      <4>2. Times(k, v) = <<k * p, k * q, k * r>>
        BY <4>1 DEF Times
      <4>3. k * p # 0 \/ k * q # 0
        BY <4>1
      <4> QED
        BY <4>2, <4>3
    <3> QED
      BY <2>1, <2>2, <3>1, WayFacts
  <2>4. Within(Way(h, x), Way(h, to))
    <3>1. Way(h, x) # <<0, 0, 0>>
      BY <2>1, <2>3, WayFacts
    <3> QED
      BY <1>1, <2>2, <3>1, WithinMultiple
  <2> QED
    BY <1>2, <2>1, <2>3, <2>4 DEF Open
<1>3. ASSUME \A k \in 1 .. n - 1 : b[Along(Cube(h), v, k)] = Empty,
             NEW x \in Hexes \ {h}, Within(Way(h, x), Way(h, to))
      PROVE  b[x] = Empty
  <2>1. Way(h, x) \in Cubes /\ Way(h, x) # <<0, 0, 0>>
    BY WayFacts
  <2>2. PICK k \in 1 .. n - 1 : Way(h, x) = Times(k, v)
    BY <1>1, <1>3, <2>1, WithinMultiple
  <2>3. x = Along(Cube(h), v, k)
    BY <2>2, WayIsAlong
  <2> QED
    BY <1>3, <2>3
<1> QED
  BY <1>2, <1>3 DEF Open

\* The offsets are those of the vectors.
OffsetsOf(offsets, vectors) ==
    /\ offsets \subseteq KingOffsets /\ vectors \subseteq Glides
    /\ \A offset \in offsets : Adds(offset) /\ Shift(offset) \in vectors
    /\ \A v \in vectors : \E offset \in offsets : Shift(offset) = v

\* Traveling along offsets is going an open way along their vectors.
LEMMA TravelingIsGeometric ==
    ASSUME NEW b, NEW h \in Hexes, NEW offsets, NEW vectors, OffsetsOf(offsets, vectors), NEW to
    PROVE  to \in Traveling(b, h, offsets) <=>
              /\ to \in Hexes /\ CanLand(b, h, to)
              /\ \E v \in vectors, n \in Nat \ {0} : Way(h, to) = Times(n, v)
              /\ Open(b, h, to)
<1>1. \A offset \in offsets : Lines[h][offset] = Line(h, offset)
  <2>1. \A offset \in KingOffsets : Lines[h][offset] = Line(h, offset)
    BY DEF Lines
  <2> QED
    BY <2>1 DEF OffsetsOf
<1>2. to \in Traveling(b, h, offsets) <=>
         CanLand(b, h, to) /\ \E offset \in offsets : to \in Reach(b, Line(h, offset))
  BY <1>1 DEF Traveling
<1>3. ASSUME NEW offset \in offsets, to \in Reach(b, Line(h, offset))
      PROVE  /\ to \in Hexes
             /\ \E v \in vectors, n \in Nat \ {0} : Way(h, to) = Times(n, v)
             /\ Open(b, h, to)
  <2> DEFINE v == Shift(offset)
  <2>1. v \in vectors /\ v \in Glides /\ Adds(offset)
    BY DEF OffsetsOf
  <2>2. PICK n \in Nat \ {0} :
           /\ to = Along(Cube(h), v, n) /\ to \in Hexes
           /\ \A k \in 1 .. n - 1 : b[Along(Cube(h), v, k)] = Empty
    <3>1. Reaches(b, Cube(h), v, to)
      BY <1>3, <2>1, ReachIsAlong
    <3> QED
      BY <3>1, Zenon DEF Reaches
  <2> HIDE DEF v
  <2>3. Way(h, to) = Times(n, v)
    BY <2>1, <2>2, WayIsAlong
  <2> QED
    BY <2>1, <2>2, <2>3, OpenIsEmpty
<1>4. ASSUME to \in Hexes, NEW v \in vectors, NEW n \in Nat \ {0}, Way(h, to) = Times(n, v),
             Open(b, h, to)
      PROVE  \E offset \in offsets : to \in Reach(b, Line(h, offset))
  <2>1. PICK offset \in offsets : Shift(offset) = v
    BY DEF OffsetsOf
  <2>2. v \in Glides /\ Adds(offset)
    BY DEF OffsetsOf
  <2>3. to = Along(Cube(h), v, n)
    BY <1>4, <2>2, WayIsAlong
  <2>4. \A k \in 1 .. n - 1 : b[Along(Cube(h), v, k)] = Empty
    BY <1>4, <2>2, <2>3, OpenIsEmpty
  <2>5. to \in Reach(b, Line(h, offset))
    <3>1. Reaches(b, Cube(h), v, to)
      BY <1>4, <2>3, <2>4 DEF Reaches
    <3> QED
      BY <2>1, <2>2, <3>1, ReachIsAlong
  <2> QED
    BY <2>5
<1> QED
  BY <1>2, <1>3, <1>4

LEMMA RookOffsetsOf == OffsetsOf(RookOffsets, RookVectors)
BY RookOffsetsAdd DEF OffsetsOf, KingOffsets, Glides

LEMMA BishopOffsetsOf == OffsetsOf(BishopOffsets, BishopVectors)
BY BishopOffsetsAdd DEF OffsetsOf, KingOffsets, Glides

LEMMA KingOffsetsOf == OffsetsOf(KingOffsets, Glides)
BY RookOffsetsAdd, BishopOffsetsAdd DEF OffsetsOf, KingOffsets, Glides

LEMMA TravelsAlongLines ==
    ASSUME NEW b, NEW h \in Hexes, NEW to \in Hexes
    PROVE  LET free == CanLand(b, h, to) /\ to # h /\ Open(b, h, to)
           IN  /\ to \in Traveling(b, h, RookOffsets) <=> free /\ OnRookLine(Way(h, to))
               /\ to \in Traveling(b, h, BishopOffsets) <=> free /\ OnBishopLine(Way(h, to))
               /\ to \in Traveling(b, h, KingOffsets)
                     <=> free /\ (OnRookLine(Way(h, to)) \/ OnBishopLine(Way(h, to)))
<1> DEFINE On(vectors) == \E v \in vectors, n \in Nat \ {0} : Way(h, to) = Times(n, v)
<1>1. Way(h, to) \in Cubes /\ (Way(h, to) = <<0, 0, 0>> <=> to = h)
  BY WayFacts
<1>2. On(RookVectors) <=> OnRookLine(Way(h, to)) /\ to # h
  BY <1>1, RookLineIsRepeated, Zenon
<1>3. On(BishopVectors) <=> OnBishopLine(Way(h, to)) /\ to # h
  BY <1>1, BishopLineIsRepeated, Zenon
<1>4. On(Glides) <=> On(RookVectors) \/ On(BishopVectors)
  BY Zenon DEF Glides
<1>5. /\ to \in Traveling(b, h, RookOffsets) <=> CanLand(b, h, to) /\ On(RookVectors) /\ Open(b, h, to)
      /\ to \in Traveling(b, h, BishopOffsets) <=> CanLand(b, h, to) /\ On(BishopVectors) /\ Open(b, h, to)
      /\ to \in Traveling(b, h, KingOffsets) <=> CanLand(b, h, to) /\ On(Glides) /\ Open(b, h, to)
  <2>1. ASSUME NEW offsets, NEW vectors, OffsetsOf(offsets, vectors)
        PROVE  to \in Traveling(b, h, offsets) <=> CanLand(b, h, to) /\ On(vectors) /\ Open(b, h, to)
    BY <2>1, TravelingIsGeometric
  <2> HIDE DEF On
  <2> QED
    BY <2>1, RookOffsetsOf, BishopOffsetsOf, KingOffsetsOf
<1> HIDE DEF On
<1> QED
  BY <1>2, <1>3, <1>4, <1>5

\* A way whose parts are one, two and three in some order is a knight's vector.
LEMMA KnightVectorsLeap ==
    ASSUME NEW w \in Cubes
    PROVE  w \in KnightVectors <=> KnightLeap(w)
<1>1. PICK x \in Int, y \in Int, z \in Int : w = <<x, y, z>> /\ x + y + z = 0
  BY CubeParts
<1>2. w \in KnightVectors <=>
         \/ x = 2 /\ y = 1 /\ z = -3
         \/ x = 1 /\ y = 2 /\ z = -3
         \/ x = 2 /\ y = -3 /\ z = 1
         \/ x = 1 /\ y = -3 /\ z = 2
         \/ x = -2 /\ y = 3 /\ z = -1
         \/ x = -1 /\ y = 3 /\ z = -2
         \/ x = -2 /\ y = -1 /\ z = 3
         \/ x = -1 /\ y = -2 /\ z = 3
         \/ x = -3 /\ y = 2 /\ z = 1
         \/ x = -3 /\ y = 1 /\ z = 2
         \/ x = 3 /\ y = -1 /\ z = -2
         \/ x = 3 /\ y = -2 /\ z = -1
  <2>1. w \in KnightVectors <=>
         \/ w = <<2, 1, -3>> \/ w = <<1, 2, -3>> \/ w = <<2, -3, 1>>
         \/ w = <<1, -3, 2>> \/ w = <<-2, 3, -1>> \/ w = <<-1, 3, -2>>
         \/ w = <<-2, -1, 3>> \/ w = <<-1, -2, 3>> \/ w = <<-3, 2, 1>>
         \/ w = <<-3, 1, 2>> \/ w = <<3, -1, -2>> \/ w = <<3, -2, -1>>
    BY Zenon DEF KnightVectors
  <2>3. w = <<2, 1, -3>> <=> x = 2 /\ y = 1 /\ z = -3
    BY <1>1
  <2>4. w = <<1, 2, -3>> <=> x = 1 /\ y = 2 /\ z = -3
    BY <1>1
  <2>5. w = <<2, -3, 1>> <=> x = 2 /\ y = -3 /\ z = 1
    BY <1>1
  <2>6. w = <<1, -3, 2>> <=> x = 1 /\ y = -3 /\ z = 2
    BY <1>1
  <2>7. w = <<-2, 3, -1>> <=> x = -2 /\ y = 3 /\ z = -1
    BY <1>1
  <2>8. w = <<-1, 3, -2>> <=> x = -1 /\ y = 3 /\ z = -2
    BY <1>1
  <2>9. w = <<-2, -1, 3>> <=> x = -2 /\ y = -1 /\ z = 3
    BY <1>1
  <2>10. w = <<-1, -2, 3>> <=> x = -1 /\ y = -2 /\ z = 3
    BY <1>1
  <2>11. w = <<-3, 2, 1>> <=> x = -3 /\ y = 2 /\ z = 1
    BY <1>1
  <2>12. w = <<-3, 1, 2>> <=> x = -3 /\ y = 1 /\ z = 2
    BY <1>1
  <2>13. w = <<3, -1, -2>> <=> x = 3 /\ y = -1 /\ z = -2
    BY <1>1
  <2>14. w = <<3, -2, -1>> <=> x = 3 /\ y = -2 /\ z = -1
    BY <1>1
  <2> QED
    BY <2>1, <2>3, <2>4, <2>5, <2>6, <2>7, <2>8, <2>9, <2>10, <2>11, <2>12, <2>13, <2>14
<1>3. {Abs(w[i]) : i \in 1 .. 3} = {Abs(x), Abs(y), Abs(z)}
  BY <1>1
<1>4. KnightLeap(w) <=>
         \/ Abs(x) = 1 /\ Abs(y) = 2 /\ Abs(z) = 3
         \/ Abs(x) = 1 /\ Abs(y) = 3 /\ Abs(z) = 2
         \/ Abs(x) = 2 /\ Abs(y) = 1 /\ Abs(z) = 3
         \/ Abs(x) = 2 /\ Abs(y) = 3 /\ Abs(z) = 1
         \/ Abs(x) = 3 /\ Abs(y) = 1 /\ Abs(z) = 2
         \/ Abs(x) = 3 /\ Abs(y) = 2 /\ Abs(z) = 1
  <2> DEFINE i == Abs(x)
             j == Abs(y)
             k == Abs(z)
             orders ==
                  \/ i = 1 /\ j = 2 /\ k = 3
                  \/ i = 1 /\ j = 3 /\ k = 2
                  \/ i = 2 /\ j = 1 /\ k = 3
                  \/ i = 2 /\ j = 3 /\ k = 1
                  \/ i = 3 /\ j = 1 /\ k = 2
                  \/ i = 3 /\ j = 2 /\ k = 1
  <2>1. i \in Int /\ j \in Int /\ k \in Int
    BY <1>1 DEF Abs
  <2>2. KnightLeap(w) <=> {i, j, k} = {1, 2, 3}
    BY <1>3, Zenon DEF KnightLeap
  <2> HIDE DEF i, j, k
  <2>3. {i, j, k} = {1, 2, 3} <=> orders
    <3> USE <2>1
    <3>1. ASSUME {i, j, k} = {1, 2, 3}
          PROVE  /\ i \in {1, 2, 3} /\ j \in {1, 2, 3} /\ k \in {1, 2, 3}
                 /\ i = 1 \/ j = 1 \/ k = 1
                 /\ i = 2 \/ j = 2 \/ k = 2
                 /\ i = 3 \/ j = 3 \/ k = 3
      BY <3>1, Zenon
    <3>2. /\ {1, 3, 2} = {1, 2, 3} /\ {2, 1, 3} = {1, 2, 3} /\ {2, 3, 1} = {1, 2, 3}
          /\ {3, 1, 2} = {1, 2, 3} /\ {3, 2, 1} = {1, 2, 3}
      OBVIOUS
    <3>3. {i, j, k} = {1, 2, 3} => orders
      <4> SUFFICES ASSUME {i, j, k} = {1, 2, 3} PROVE orders
        OBVIOUS
      <4>1. /\ i \in {1, 2, 3} /\ j \in {1, 2, 3} /\ k \in {1, 2, 3}
            /\ i = 1 \/ j = 1 \/ k = 1
            /\ i = 2 \/ j = 2 \/ k = 2
            /\ i = 3 \/ j = 3 \/ k = 3
        BY <3>1, Zenon
      <4>2. CASE i = 1
        BY <4>1, <4>2
      <4>3. CASE i = 2
        BY <4>1, <4>3
      <4>4. CASE i = 3
        BY <4>1, <4>4
      <4> QED
        BY <4>1, <4>2, <4>3, <4>4
    <3>4. orders => {i, j, k} = {1, 2, 3}
      BY <3>2, Zenon
    <3> QED
      BY <3>3, <3>4, Zenon
  <2> QED
    BY <2>2, <2>3 DEF i, j, k
<1>5. ASSUME NEW i \in Int
      PROVE  /\ Abs(i) = 1 <=> i = 1 \/ i = -1
             /\ Abs(i) = 2 <=> i = 2 \/ i = -2
             /\ Abs(i) = 3 <=> i = 3 \/ i = -3
  BY DEF Abs
<1>6. KnightLeap(w) <=>
         \/ (x = 1 \/ x = -1) /\ (y = 2 \/ y = -2) /\ (z = 3 \/ z = -3)
         \/ (x = 1 \/ x = -1) /\ (y = 3 \/ y = -3) /\ (z = 2 \/ z = -2)
         \/ (x = 2 \/ x = -2) /\ (y = 1 \/ y = -1) /\ (z = 3 \/ z = -3)
         \/ (x = 2 \/ x = -2) /\ (y = 3 \/ y = -3) /\ (z = 1 \/ z = -1)
         \/ (x = 3 \/ x = -3) /\ (y = 1 \/ y = -1) /\ (z = 2 \/ z = -2)
         \/ (x = 3 \/ x = -3) /\ (y = 2 \/ y = -2) /\ (z = 1 \/ z = -1)
  <2>1. /\ Abs(x) = 1 <=> x = 1 \/ x = -1
        /\ Abs(x) = 2 <=> x = 2 \/ x = -2
        /\ Abs(x) = 3 <=> x = 3 \/ x = -3
    BY <1>5
  <2>2. /\ Abs(y) = 1 <=> y = 1 \/ y = -1
        /\ Abs(y) = 2 <=> y = 2 \/ y = -2
        /\ Abs(y) = 3 <=> y = 3 \/ y = -3
    BY <1>5
  <2>3. /\ Abs(z) = 1 <=> z = 1 \/ z = -1
        /\ Abs(z) = 2 <=> z = 2 \/ z = -2
        /\ Abs(z) = 3 <=> z = 3 \/ z = -3
    BY <1>5
  <2> QED
    BY <1>4, <2>1, <2>2, <2>3
<1>7. x + y + z = 0
  BY <1>1
<1>8. KnightLeap(w) => w \in KnightVectors
  BY <1>2, <1>6, <1>7
<1>9. w \in KnightVectors => KnightLeap(w)
  BY <1>2, <1>6, <1>7
<1> QED
  BY <1>8, <1>9

LEMMA KnightsLeap ==
    ASSUME NEW h \in Hexes, NEW to \in Hexes
    PROVE  to \in Leaps[h] <=> to # h /\ KnightLeap(Way(h, to))
<1>1. Cube(h) \in Cubes /\ Hexagon(Cube(h)) = h
  BY HexesArePoints
<1>2. to \in Leaps[h] <=> \E offset \in KnightOffsets : to = Walk(h, offset)
  BY DEF Leaps
<1>3. ASSUME NEW offset \in KnightOffsets
      PROVE  to = Walk(h, offset) <=> Way(h, to) = Shift(offset)
  <2>1. Adds(offset)
    BY KnightOffsetsAdd
  <2>2. Walk(h, offset) = Hexagon(Add(Cube(h), Shift(offset))) /\ Shift(offset) \in Cubes
    BY <1>1, <2>1 DEF Adds
  <2> QED
    BY <2>2, WayFacts
<1>4. (\E offset \in KnightOffsets : Way(h, to) = Shift(offset)) <=> Way(h, to) \in KnightVectors
  BY KnightOffsetsAdd
<1>5. Way(h, to) \in KnightVectors => to # h
  <2>1. <<0, 0, 0>> \notin KnightVectors
    BY DEF KnightVectors
  <2> QED
    BY <2>1, WayFacts
<1> QED
  BY <1>2, <1>3, <1>4, <1>5, KnightVectorsLeap, WayFacts

\* What MovesAreGeometric says of a piece of a board and its moves.
Geometric(b, h, moves) ==
    LET glides(to) == \/ b[h].kind \in {"Rook", "Queen"} /\ OnRookLine(Way(h, to))
                      \/ b[h].kind \in {"Bishop", "Queen"} /\ OnBishopLine(Way(h, to))
    IN  b[h].kind # "Pawn" =>
            moves = {to \in Hexes \ {h} :
                        /\ CanLand(b, h, to)
                        /\ IF b[h].kind = "Knight" THEN KnightLeap(Way(h, to))
                                                   ELSE glides(to) /\ Open(b, h, to)}

LEMMA PieceMovesAreGeometric ==
    ASSUME NEW b, NEW h \in Hexes, b[h].kind \in Kinds, b[h].kind # "King"
    PROVE  Geometric(b, h, PieceMoves(b, h))
<1> DEFINE kind == b[h].kind
           glides(to) == \/ kind \in {"Rook", "Queen"} /\ OnRookLine(Way(h, to))
                         \/ kind \in {"Bishop", "Queen"} /\ OnBishopLine(Way(h, to))
           expected == {to \in Hexes \ {h} :
                           /\ CanLand(b, h, to)
                           /\ IF kind = "Knight" THEN KnightLeap(Way(h, to))
                                                 ELSE glides(to) /\ Open(b, h, to)}
<1>1. SUFFICES ASSUME kind # "Pawn" PROVE PieceMoves(b, h) = expected
  BY DEF Geometric
<1>3. CASE kind = "Knight"
  <2>1. PieceMoves(b, h) = {to \in Leaps[h] : CanLand(b, h, to)}
    BY <1>3 DEF PieceMoves
  <2>2. Leaps[h] \subseteq Hexes
    BY DEF Leaps
  <2>3. \A to \in Hexes : to \in PieceMoves(b, h) <=> to \in expected
    BY <1>3, <2>1, KnightsLeap
  <2> QED
    BY <2>1, <2>2, <2>3
<1>4. CASE kind = "Rook"
  <2>1. PieceMoves(b, h) = Traveling(b, h, RookOffsets)
    BY <1>4 DEF PieceMoves
  <2>2. \A to \in Traveling(b, h, RookOffsets) : to \in Hexes
    BY TravelingIsGeometric, RookOffsetsOf
  <2>3. \A to \in Hexes : to \in Traveling(b, h, RookOffsets) <=> to \in expected
    BY <1>4, TravelsAlongLines
  <2> QED
    BY <2>1, <2>2, <2>3
<1>5. CASE kind = "Bishop"
  <2>1. PieceMoves(b, h) = Traveling(b, h, BishopOffsets)
    BY <1>5 DEF PieceMoves
  <2>2. \A to \in Traveling(b, h, BishopOffsets) : to \in Hexes
    BY TravelingIsGeometric, BishopOffsetsOf
  <2>3. \A to \in Hexes : to \in Traveling(b, h, BishopOffsets) <=> to \in expected
    BY <1>5, TravelsAlongLines
  <2> QED
    BY <2>1, <2>2, <2>3
<1>6. CASE kind = "Queen"
  <2>1. PieceMoves(b, h) = Traveling(b, h, KingOffsets)
    BY <1>6 DEF PieceMoves
  <2>2. \A to \in Traveling(b, h, KingOffsets) : to \in Hexes
    BY TravelingIsGeometric, KingOffsetsOf
  <2>3. \A to \in Hexes : to \in Traveling(b, h, KingOffsets) <=> to \in expected
    BY <1>6, TravelsAlongLines
  <2> QED
    BY <2>1, <2>2, <2>3
<1> QED
  BY <1>1, <1>3, <1>4, <1>5, <1>6 DEF Kinds

\* The lists hold the moves of the pieces of each side.
LEMMA ListsHoldMoves ==
    ASSUME NEW g, NEW h,
           LET l == InitPieceMoves(g)
           IN  h \in (DOMAIN l.white \cup DOMAIN l.black)
                         \ (Kings(g.board, TRUE) \cup Kings(g.board, FALSE))
    PROVE  LET l == InitPieceMoves(g)
           IN  /\ h \in Hexes /\ g.board[h] # Empty /\ g.board[h].kind # "King"
               /\ (IF g.board[h].white THEN l.white ELSE l.black)[h] = PieceMoves(g.board, h)
<1> DEFINE b == g.board
           l == InitPieceMoves(g)
<1>1. DOMAIN l.white \subseteq Men(b, TRUE) \cup FindKing(b, TRUE)
  BY DEF InitPieceMoves
<1>2. DOMAIN l.black \subseteq Men(b, FALSE) \cup FindKing(b, FALSE)
  BY DEF InitPieceMoves
<1>3. ASSUME NEW k \in DOMAIN l.white, b[k].kind # "King" PROVE l.white[k] = PieceMoves(b, k)
  BY <1>3 DEF InitPieceMoves
<1>4. ASSUME NEW k \in DOMAIN l.black, b[k].kind # "King" PROVE l.black[k] = PieceMoves(b, k)
  BY <1>4 DEF InitPieceMoves
<1>5. FindKing(b, TRUE) \subseteq Kings(b, TRUE) /\ FindKing(b, FALSE) \subseteq Kings(b, FALSE)
  BY DEF FindKing
<1>6. \A white \in BOOLEAN : \A k \in Men(b, white) :
         k \in Hexes /\ b[k] # Empty /\ b[k].kind # "King" /\ b[k].white = white
  BY DEF Men
<1> HIDE DEF b, l
<1>7. CASE h \in DOMAIN l.white
  <2>1. h \in Men(b, TRUE)
    BY <1>1, <1>5, <1>7 DEF b, l
  <2> QED
    BY <1>3, <1>6, <1>7, <2>1 DEF b, l
<1>8. CASE h \in DOMAIN l.black
  <2>1. h \in Men(b, FALSE)
    BY <1>2, <1>5, <1>8 DEF b, l
  <2> QED
    BY <1>4, <1>6, <1>8, <2>1 DEF b, l
<1> QED
  BY <1>7, <1>8 DEF b, l

-----------------------------------------------------------------------------
(* What is kept true of the game and of its replay.                          *)

PawnsOK(g, initial) ==
    \A white \in BOOLEAN : \A h \in LastRank(white) :
        LET pawn == [kind |-> "Pawn", white |-> white]
        IN  g.board[h] = pawn => initial.board[h] = pawn

IsSeq(s) == s \in Seq({s[i] : i \in DOMAIN s})

Sound(g, initial) ==
    /\ g.board \in Boards
    /\ g.whiteTurn \in BOOLEAN
    /\ IsSeq(g.moves) /\ IsSeq(g.takenWhite) /\ IsSeq(g.takenBlack)
    /\ PawnsOK(g, initial)

\* No move that was stored names a promotion.
AllStored(moves) == \A i \in 1 .. Len(moves) : moves[i] = SerializeHistMove(moves[i])

\* A promotion gives a piece that is no pawn.
NoPawns(promoted) == \A q \in promoted : q \in Pieces /\ q.kind # "Pawn"

\* A replay up to its n-th game, beside the game as it was played.
Agrees(games, played, initial, moves, n) ==
    /\ Sound(games[n], initial)
    /\ Resembles(games[n], played[n], PromotedTo(played, moves, n - 1))
    /\ Len(games[n].moves) = n - 1
    /\ \A i \in 1 .. n - 1 : games[n].moves[i] = moves[i]

\* One step of a replay, and what it finds where the move was recorded.
Replays(games, played, moves, n) ==
    /\ games[n + 1] = Redo(games[n], moves[n])
    /\ ComesBackAs(games[n].board[moves[n].from], moves[n].piece, PromotedTo(played, moves, n - 1))

\* The games that doing the moves again goes through, up to the last of them.
ReplayOf(games, played, initial, g, len) ==
    /\ games[1] = NewGame(initial)
    /\ g \in {played[len + 1], games[len + 1]}
    /\ NoPawns(PromotedTo(played, g.moves, len))
    /\ \A n \in 1 .. len + 1 : Agrees(games, played, initial, g.moves, n)
    /\ \A n \in 1 .. len : Replays(games, played, g.moves, n)

Replayable(played, initial, g, len) == \E games : ReplayOf(games, played, initial, g, len)

HexInv ==
    /\ Sound(game, start)
    /\ AllStored(game.moves)
    /\ lists = InitPieceMoves(game)
    /\ IsSeq(past) /\ Len(past) = Len(game.moves) + 1
    /\ Replayable(past, start, game, Len(game.moves))

\* Appending to a sequence, and dropping its last element.
LEMMA SeqFacts ==
    ASSUME NEW s, IsSeq(s), NEW e
    PROVE  /\ Len(s) \in Nat /\ DOMAIN s = 1 .. Len(s)
           /\ IsSeq(Append(s, e))
           /\ DOMAIN Append(s, e) = 1 .. Len(s) + 1
           /\ \A i \in 1 .. Len(s) : Append(s, e)[i] = s[i]
           /\ Append(s, e)[Len(s) + 1] = e
<1> DEFINE S == {s[i] : i \in DOMAIN s}
           T == S \cup {e}
           a == Append(s, e)
<1>1. s \in Seq(T)
  BY DEF IsSeq
<1>2. a \in Seq(T) /\ Len(a) = Len(s) + 1 /\ DOMAIN a = 1 .. Len(a)
  BY <1>1
<1>3. a \in Seq({a[i] : i \in DOMAIN a})
  BY <1>2
<1> QED
  BY <1>1, <1>2, <1>3 DEF IsSeq

LEMMA FrontFacts ==
    ASSUME NEW s, IsSeq(s), s # <<>>
    PROVE  /\ IsSeq(Front(s))
           /\ DOMAIN Front(s) = 1 .. Len(s) - 1 /\ Len(Front(s)) = Len(s) - 1
           /\ \A i \in 1 .. Len(s) - 1 : Front(s)[i] = s[i]
<1> DEFINE S == {s[i] : i \in DOMAIN s}
           f == Front(s)
<1>1. s \in Seq(S) /\ Len(s) \in Nat /\ Len(s) >= 1
  BY DEF IsSeq
<1>2. /\ f \in Seq(S) /\ Len(f) = Len(s) - 1 /\ DOMAIN f = 1 .. Len(s) - 1
      /\ \A i \in 1 .. Len(s) - 1 : f[i] = s[i]
  <2>1. \A i \in 1 .. Len(s) - 1 : s[i] \in S
    BY <1>1
  <2>2. f = SubSeq(s, 1, Len(s) - 1) /\ 1 \in Int /\ Len(s) - 1 \in Int
    BY <1>1 DEF Front
  <2> QED
    <3>1. /\ SubSeq(s, 1, Len(s) - 1) \in Seq(S)
          /\ Len(SubSeq(s, 1, Len(s) - 1)) = IF 1 <= Len(s) - 1 THEN Len(s) - 1 - 1 + 1 ELSE 0
          /\ \A i \in 1 .. Len(s) - 1 - 1 + 1 : SubSeq(s, 1, Len(s) - 1)[i] = s[1 + i - 1]
      BY <1>1, <2>1, <2>2, SubSeqProperties
    <3>2. /\ f \in Seq(S)
          /\ Len(f) = Len(s) - 1
      <4>1. f \in Seq(S) /\ Len(f) = IF 1 <= Len(s) - 1 THEN Len(s) - 1 - 1 + 1 ELSE 0
        BY <2>2, <3>1, Zenon
      <4>2. PICK n \in Nat : n = Len(s) /\ n >= 1
        BY <1>1
      <4>3. Len(f) = IF 1 <= n - 1 THEN n - 1 - 1 + 1 ELSE 0
        BY <4>1, <4>2
      <4>4. Len(f) = n - 1
        <5> HIDE DEF f, S
        <5> QED BY <4>2, <4>3
      <4> QED
        BY <4>1, <4>2, <4>4
    <3>3. DOMAIN f = 1 .. Len(s) - 1
      BY <3>2
    <3>4. ASSUME NEW i \in 1 .. Len(s) - 1 PROVE f[i] = s[i]
      <4>1. i \in 1 .. Len(s) - 1 - 1 + 1 /\ 1 + i - 1 = i
        BY <1>1
      <4> QED
        BY <2>2, <3>1, <4>1
    <3> QED
      BY <3>2, <3>3, <3>4
<1>3. f \in Seq({f[i] : i \in DOMAIN f})
  BY <1>2
<1> QED
  BY <1>2, <1>3 DEF IsSeq

\* The lists of a side name its own pieces only.
LEMMA OwnMoves ==
    ASSUME NEW g, g.board \in Boards, g.whiteTurn \in BOOLEAN,
           NEW h \in DOMAIN GetTurnMoves(InitPieceMoves(g), g.whiteTurn)
    PROVE  h \in Hexes /\ g.board[h] \in Pieces /\ g.board[h].white = g.whiteTurn
<1> DEFINE Own(white) == Men(g.board, white) \cup FindKing(g.board, white)
<1>1. CASE g.whiteTurn = TRUE
  <2>1. h \in Own(TRUE)
    BY <1>1 DEF GetTurnMoves, InitPieceMoves
  <2>2. \A k \in Men(g.board, TRUE) : k \in Hexes /\ g.board[k] \in Pieces /\ g.board[k].white = TRUE
    BY DEF Men, Boards, Squares
  <2>3. \A k \in FindKing(g.board, TRUE) :
           k \in Hexes /\ g.board[k] \in Pieces /\ g.board[k].white = TRUE
    <3>1. [kind |-> "King", white |-> TRUE] \in Pieces
      BY DEF Pieces, Kinds
    <3>2. [kind |-> "King", white |-> TRUE].white = TRUE
      OBVIOUS
    <3>3. \A k \in FindKing(g.board, TRUE) : k \in Hexes /\ g.board[k] = [kind |-> "King", white |-> TRUE]
      BY DEF FindKing, Kings
    <3> QED
      BY <3>1, <3>2, <3>3, Zenon
  <2> QED
    <3>1. CASE h \in Men(g.board, TRUE)
      BY <1>1, <2>2, <3>1
    <3>2. CASE h \in FindKing(g.board, TRUE)
      BY <1>1, <2>3, <3>2
    <3> QED
      BY <2>1, <3>1, <3>2
<1>2. CASE g.whiteTurn = FALSE
  <2>1. h \in Own(FALSE)
    BY <1>2 DEF GetTurnMoves, InitPieceMoves
  <2>2. \A k \in Men(g.board, FALSE) : k \in Hexes /\ g.board[k] \in Pieces /\ g.board[k].white = FALSE
    BY DEF Men, Boards, Squares
  <2>3. \A k \in FindKing(g.board, FALSE) :
           k \in Hexes /\ g.board[k] \in Pieces /\ g.board[k].white = FALSE
    <3>1. [kind |-> "King", white |-> FALSE] \in Pieces
      BY DEF Pieces, Kinds
    <3>2. [kind |-> "King", white |-> FALSE].white = FALSE
      OBVIOUS
    <3>3. \A k \in FindKing(g.board, FALSE) : k \in Hexes /\ g.board[k] = [kind |-> "King", white |-> FALSE]
      BY DEF FindKing, Kings
    <3> QED
      BY <3>1, <3>2, <3>3, Zenon
  <2> QED
    <3>1. CASE h \in Men(g.board, FALSE)
      BY <1>2, <2>2, <3>1
    <3>2. CASE h \in FindKing(g.board, FALSE)
      BY <1>2, <2>3, <3>2
    <3> QED
      BY <2>1, <3>1, <3>2
<1> QED
  BY <1>1, <1>2

\* A man that a side moves, wherever to.
Moving(g, m) ==
    /\ m.from \in Hexes /\ m.to \in Hexes /\ m.promotion \in Promotions
    /\ g.board[m.from] \in Pieces /\ g.board[m.from].white = g.whiteTurn

\* The lists lead to hexagons of the board.
LEMMA PieceMovesOnBoard ==
    ASSUME NEW b, NEW h \in Hexes, b[h].kind \in Kinds, b[h].kind # "King"
    PROVE  PieceMoves(b, h) \subseteq Hexes
<1>1. CASE b[h].kind = "Pawn"
  <2>1. PieceMoves(b, h) = PawnMoves(b, h)
    BY <1>1 DEF PieceMoves
  <2>2. PawnMoves(b, h) \subseteq Hexes
    BY DEF PawnMoves, PawnTakes
  <2> QED
    BY <2>1, <2>2
<1>2. CASE b[h].kind # "Pawn"
  BY <1>2, PieceMovesAreGeometric DEF Geometric
<1> QED
  BY <1>1, <1>2

LEMMA MovesOnBoard ==
    ASSUME NEW g, g.board \in Boards, g.whiteTurn \in BOOLEAN,
           NEW h \in DOMAIN GetTurnMoves(InitPieceMoves(g), g.whiteTurn)
    PROVE  GetTurnMoves(InitPieceMoves(g), g.whiteTurn)[h] \subseteq Hexes
<1> DEFINE b == g.board
           l == InitPieceMoves(g)
<1>1. h \in Hexes /\ b[h] \in Pieces
  BY OwnMoves
<1>2. b[h].kind # "King" => PieceMoves(b, h) \subseteq Hexes
  <2>1. b[h].kind \in Kinds
    BY <1>1 DEF Pieces
  <2> QED
    BY <1>1, <2>1, PieceMovesOnBoard
<1>3. \A attacked : KingMoves(b, h, attacked) \subseteq Hexes
  <2>1. Near[h] \subseteq Hexes
    BY <1>1 DEF Near
  <2> QED
    BY <2>1 DEF KingMoves
<1>4. CASE g.whiteTurn = TRUE
  <2>1. h \in DOMAIN l.white
    BY <1>4 DEF GetTurnMoves
  <2>2. b[h].kind # "King" => l.white[h] = PieceMoves(b, h)
    BY <2>1 DEF InitPieceMoves
  <2>3. b[h].kind = "King" => \E attacked : l.white[h] = KingMoves(b, h, attacked)
    BY <2>1 DEF InitPieceMoves
  <2> HIDE DEF l, b
  <2>4. l.white[h] \subseteq Hexes
    BY <1>2, <1>3, <2>2, <2>3
  <2> QED
    BY <1>4, <2>4 DEF GetTurnMoves, l
<1>5. CASE g.whiteTurn = FALSE
  <2>1. h \in DOMAIN l.black
    BY <1>5 DEF GetTurnMoves
  <2>2. b[h].kind # "King" => l.black[h] = PieceMoves(b, h)
    BY <2>1 DEF InitPieceMoves
  <2>3. b[h].kind = "King" => \E attacked : l.black[h] = KingMoves(b, h, attacked)
    BY <2>1 DEF InitPieceMoves
  <2> HIDE DEF l, b
  <2>4. l.black[h] \subseteq Hexes
    BY <1>2, <1>3, <2>2, <2>3
  <2> QED
    BY <1>5, <2>4 DEF GetTurnMoves, l
<1> QED
  BY <1>4, <1>5

LEMMA AskedMoving ==
    ASSUME NEW m \in Asked, Sound(game, start), lists = InitPieceMoves(game)
    PROVE  Moving(game, m)
<1> DEFINE l == GetTurnMoves(lists, game.whiteTurn)
<1>1. PICK h \in DOMAIN l : m \in [from : {h}, to : l[h], promotion : Promotions]
  BY DEF Asked
<1>2. m.from = h /\ m.to \in l[h] /\ m.promotion \in Promotions
  BY <1>1
<1>3. l[h] \subseteq Hexes
  BY MovesOnBoard DEF Sound
<1>4. h \in Hexes /\ game.board[h] \in Pieces /\ game.board[h].white = game.whiteTurn
  BY OwnMoves DEF Sound
<1> QED
  BY <1>2, <1>3, <1>4 DEF Moving

\* What a move makes of a game.
LEMMA MoveFields ==
    ASSUME NEW g, NEW m
    PROVE  /\ NewMove(g, m).board = [g.board EXCEPT ![m.from] = Empty, ![m.to] = Landed(g, m)]
           /\ NewMove(g, m).whiteTurn = ~g.whiteTurn
           /\ NewMove(g, m).takenWhite = Taken(g, m, TRUE)
           /\ NewMove(g, m).takenBlack = Taken(g, m, FALSE)
           /\ NewMove(g, m).moves = Append(g.moves, Recorded(g, m))
BY DEF NewMove

\* The move stored last is added to those that were stored before.
LEMMA SerializeAppends ==
    ASSUME NEW moves, IsSeq(moves), AllStored(moves), NEW r
    PROVE  LET s == Append(moves, r)
           IN  /\ [n \in DOMAIN s |-> SerializeHistMove(s[n])] = Append(moves, SerializeHistMove(r))
               /\ AllStored(Append(moves, SerializeHistMove(r)))
<1> DEFINE e == SerializeHistMove(r)
           s == Append(moves, r)
           t == Append(moves, e)
           len == Len(moves)
<1>1. /\ len \in Nat /\ DOMAIN s = 1 .. len + 1 /\ DOMAIN t = 1 .. len + 1
      /\ s[len + 1] = r /\ t[len + 1] = e
      /\ \A i \in 1 .. len : s[i] = moves[i] /\ t[i] = moves[i]
  <2> HIDE DEF e
  <2> QED
    BY SeqFacts
<1>2. IsSeq(t) /\ Len(t) = len + 1
  <2>1. IsSeq(t)
    <3> HIDE DEF e
    <3> QED
      BY SeqFacts
  <2> QED
    BY <1>1, <2>1 DEF IsSeq
<1>3. \A i \in 1 .. len : moves[i] = SerializeHistMove(moves[i])
  BY DEF AllStored
<1>4. SerializeHistMove(e) = e
  BY DEF SerializeHistMove
<1>5. t = [n \in DOMAIN t |-> t[n]]
  <2> HIDE DEF t, len
  <2> QED
    BY <1>2 DEF IsSeq
<1> HIDE DEF e, s, t, len
<1>6. \A n \in 1 .. len + 1 : SerializeHistMove(s[n]) = t[n]
  <2> TAKE n \in 1 .. len + 1
  <2>1. CASE n = len + 1
    BY <1>1, <2>1 DEF e
  <2>2. CASE n # len + 1
    <3>1. n \in 1 .. len
      BY <1>1, <2>2
    <3> QED
      BY <1>1, <1>3, <3>1
  <2> QED
    BY <2>1, <2>2
<1>7. \A n \in 1 .. len + 1 : t[n] = SerializeHistMove(t[n])
  <2> TAKE n \in 1 .. len + 1
  <2>1. CASE n = len + 1
    BY <1>1, <1>4, <2>1
  <2>2. CASE n # len + 1
    <3>1. n \in 1 .. len
      BY <1>1, <2>2
    <3> QED
      BY <1>1, <1>3, <3>1
  <2> QED
    BY <2>1, <2>2
<1>8. [n \in DOMAIN s |-> SerializeHistMove(s[n])] = [n \in DOMAIN t |-> t[n]]
  BY <1>1, <1>6
<1> QED
  BY <1>2, <1>5, <1>7, <1>8 DEF AllStored, s, t, e

\* A game that was played on and stored.
LEMMA PlayedFields ==
    ASSUME NEW g, NEW m, IsSeq(g.moves), AllStored(g.moves)
    PROVE  LET played == SerializeGame(NewMove(g, m))
               e == SerializeHistMove(Recorded(g, m))
           IN  /\ played.board = NewMove(g, m).board
               /\ played.whiteTurn = ~g.whiteTurn
               /\ played.takenWhite = Taken(g, m, TRUE)
               /\ played.takenBlack = Taken(g, m, FALSE)
               /\ played.moves = Append(g.moves, e)
               /\ AllStored(played.moves)
<1> DEFINE new == NewMove(g, m)
           r == Recorded(g, m)
<1>1. /\ SerializeGame(new).board = new.board
      /\ SerializeGame(new).whiteTurn = new.whiteTurn
      /\ SerializeGame(new).takenWhite = new.takenWhite
      /\ SerializeGame(new).takenBlack = new.takenBlack
      /\ SerializeGame(new).moves = [n \in DOMAIN new.moves |-> SerializeHistMove(new.moves[n])]
  <2>1. PICK b, w, tw, tb, ms : new = [board |-> b, whiteTurn |-> w, takenWhite |-> tw,
                                       takenBlack |-> tb, moves |-> ms]
    BY DEF NewMove
  <2> HIDE DEF new
  <2> QED
    BY <2>1 DEF SerializeGame
<1>2. new.moves = Append(g.moves, r)
  BY MoveFields
<1>3. /\ new.whiteTurn = ~g.whiteTurn
      /\ new.takenWhite = Taken(g, m, TRUE) /\ new.takenBlack = Taken(g, m, FALSE)
  BY MoveFields
<1> HIDE DEF r, new
<1>4. LET s == Append(g.moves, r)
      IN  /\ [n \in DOMAIN s |-> SerializeHistMove(s[n])] = Append(g.moves, SerializeHistMove(r))
          /\ AllStored(Append(g.moves, SerializeHistMove(r)))
  BY SerializeAppends, Zenon
<1>5. /\ SerializeGame(new).moves = Append(g.moves, SerializeHistMove(r))
      /\ AllStored(Append(g.moves, SerializeHistMove(r)))
  BY <1>1, <1>2, <1>4, Zenon
<1>6. AllStored(SerializeGame(new).moves)
  BY <1>5, Zenon
<1> QED
  BY <1>1, <1>3, <1>5, <1>6, Zenon DEF new, r

\* The lists of pieces taken stay lists.
LEMMA TakenIsSeq ==
    ASSUME NEW g, NEW m, NEW white, IsSeq(g.takenWhite), IsSeq(g.takenBlack)
    PROVE  IsSeq(Taken(g, m, white))
BY SeqFacts DEF Taken

\* A move of the side on the move keeps the far edges clear of its pawns.
LEMMA NewMoveSound ==
    ASSUME NEW g, NEW m, NEW initial, Sound(g, initial), Moving(g, m)
    PROVE  /\ NewMove(g, m).board \in Boards
           /\ PawnsOK(NewMove(g, m), initial)
           /\ Landed(g, m) \in Pieces
           /\ IsPromotion(g, m) => Landed(g, m).kind # "Pawn"
<1> DEFINE new == NewMove(g, m)
<1>1. m.from \in Hexes /\ g.board[m.from] \in Pieces /\ g.board[m.from].white = g.whiteTurn
  BY DEF Moving
<1>2. m.promotion \in Promotions
  BY DEF Moving
<1>3. Landed(g, m) \in Pieces
  BY <1>1, <1>2 DEF Landed, GetPromoPiece, Pieces, Kinds, Promotions, Sound
<1>4. new.board = [g.board EXCEPT ![m.from] = Empty, ![m.to] = Landed(g, m)]
  BY DEF NewMove
<1>5. new.board \in Boards
  BY <1>3, <1>4 DEF Boards, Squares, Sound
<1>6. IsPromotion(g, m) => Landed(g, m).kind # "Pawn"
  BY <1>2 DEF Landed, GetPromoPiece, Promotions
<1>7. ASSUME NEW white \in BOOLEAN, NEW h \in LastRank(white),
             new.board[h] = [kind |-> "Pawn", white |-> white]
      PROVE  initial.board[h] = [kind |-> "Pawn", white |-> white]
  <2>1. h \in Hexes
    BY DEF LastRank
  <2>2. CASE h = m.to
    <3>1. Landed(g, m) = [kind |-> "Pawn", white |-> white]
      BY <1>4, <1>5, <1>7, <2>1, <2>2 DEF Boards, Sound
    <3>2. ~IsPromotion(g, m) /\ g.board[m.from] = [kind |-> "Pawn", white |-> white]
      BY <3>1, <1>6 DEF Landed
    <3>3. white = g.whiteTurn
      BY <3>2, <1>1
    <3> QED
      BY <3>2, <3>3, <2>2 DEF IsPromotion, LastRank
  <2>3. CASE h = m.from /\ h # m.to
    BY <1>4, <1>7, <2>1, <2>3 DEF Boards, Sound, Empty
  <2>4. CASE h # m.from /\ h # m.to
    <3>1. g.board[h] = [kind |-> "Pawn", white |-> white]
      BY <1>4, <1>7, <2>1, <2>4 DEF Boards, Sound
    <3> QED
      BY <3>1 DEF Sound, PawnsOK
  <2> QED
    BY <2>2, <2>3, <2>4
<1> QED
  BY <1>3, <1>5, <1>6, <1>7 DEF PawnsOK

LEMMA RedoSound ==
    ASSUME NEW g, NEW m, NEW initial, Sound(g, initial), Moving(g, m)
    PROVE  Sound(Redo(g, m), initial)
<1> DEFINE again == Redo(g, m)
<1>1. NewMove(g, m).board \in Boards /\ PawnsOK(NewMove(g, m), initial)
  BY NewMoveSound
<1>2. /\ again.board = NewMove(g, m).board /\ again.whiteTurn = ~g.whiteTurn
      /\ again.takenWhite = Taken(g, m, TRUE) /\ again.takenBlack = Taken(g, m, FALSE)
      /\ again.moves = Append(g.moves, m)
  BY DEF NewMove, Redo
<1> HIDE DEF again
<1>3. PawnsOK(again, initial) /\ again.board \in Boards /\ again.whiteTurn \in BOOLEAN
  BY <1>1, <1>2 DEF PawnsOK, Sound
<1>4. IsSeq(again.moves)
  BY <1>2, SeqFacts DEF Sound
<1>5. IsSeq(again.takenWhite) /\ IsSeq(again.takenBlack)
  BY <1>2, TakenIsSeq DEF Sound
<1> QED
  BY <1>3, <1>4, <1>5 DEF Sound, again

LEMMA PlayedSound ==
    ASSUME NEW g, NEW m, NEW initial, Sound(g, initial), AllStored(g.moves), Moving(g, m)
    PROVE  Sound(SerializeGame(NewMove(g, m)), initial)
<1> DEFINE played == SerializeGame(NewMove(g, m))
           e == SerializeHistMove(Recorded(g, m))
<1>1. NewMove(g, m).board \in Boards /\ PawnsOK(NewMove(g, m), initial)
  BY NewMoveSound
<1>2. /\ played.board = NewMove(g, m).board /\ played.whiteTurn = ~g.whiteTurn
      /\ played.takenWhite = Taken(g, m, TRUE) /\ played.takenBlack = Taken(g, m, FALSE)
      /\ played.moves = Append(g.moves, e)
  BY PlayedFields DEF Sound
<1> HIDE DEF played, e
<1>3. PawnsOK(played, initial) /\ played.board \in Boards /\ played.whiteTurn \in BOOLEAN
  BY <1>1, <1>2 DEF PawnsOK, Sound
<1>4. IsSeq(played.moves)
  BY <1>2, SeqFacts DEF Sound
<1>5. IsSeq(played.takenWhite) /\ IsSeq(played.takenBlack)
  BY <1>2, TakenIsSeq DEF Sound
<1> QED
  BY <1>3, <1>4, <1>5 DEF Sound, played

-----------------------------------------------------------------------------
(* A move done in the replay of a game and in the game.                      *)

\* What comes back as something else was no pawn, and comes back as no pawn.
LEMMA AlikeMen ==
    ASSUME NEW p, NEW q \in Squares, NEW promoted, NoPawns(promoted), ComesBackAs(p, q, promoted)
    PROVE  /\ p = Empty <=> q = Empty
           /\ p.kind = "Pawn" <=> q.kind = "Pawn"
           /\ p.white = q.white
           /\ q \in Pieces => p \in Pieces
           /\ p.kind = "Pawn" => p = q
<1>1. CASE p = q
  BY <1>1
<1>2. CASE q \in promoted /\ p = [kind |-> "Queen", white |-> q.white]
  <2>1. q \in Pieces /\ q.kind # "Pawn" /\ q # Empty
    BY <1>2 DEF NoPawns, Pieces, Kinds, Empty
  <2>2. p.kind = "Queen" /\ p.white = q.white /\ p # Empty /\ p \in Pieces
    BY <1>2, <2>1 DEF Pieces, Kinds, Empty
  <2> QED
    BY <2>1, <2>2
<1> QED
  BY <1>1, <1>2 DEF ComesBackAs

LEMMA AlikeAppend ==
    ASSUME NEW s, NEW t, NEW p, NEW q, NEW promoted, NEW more, promoted \subseteq more,
           IsSeq(s), IsSeq(t), AlikeLists(s, t, promoted), ComesBackAs(p, q, promoted)
    PROVE  AlikeLists(Append(s, p), Append(t, q), more)
<1> DEFINE len == Len(t)
<1>1. len \in Nat /\ Len(s) = len /\ \A i \in 1 .. len : ComesBackAs(s[i], t[i], promoted)
  BY DEF AlikeLists, IsSeq
<1>2. Len(Append(s, p)) = len + 1 /\ Len(Append(t, q)) = len + 1
  BY <1>1 DEF IsSeq
<1>3. /\ \A i \in 1 .. len : Append(s, p)[i] = s[i] /\ Append(t, q)[i] = t[i]
      /\ Append(s, p)[len + 1] = p /\ Append(t, q)[len + 1] = q
  BY <1>1, SeqFacts
<1>4. ASSUME NEW i \in 1 .. len + 1
      PROVE  ComesBackAs(Append(s, p)[i], Append(t, q)[i], more)
  <2> HIDE DEF len
  <2>1. CASE i = len + 1
    <3>1. ComesBackAs(p, q, more)
      BY DEF ComesBackAs
    <3> QED
      BY <1>3, <2>1, <3>1
  <2>2. CASE i # len + 1
    <3>1. i \in 1 .. len
      BY <1>1, <2>2
    <3>2. ComesBackAs(s[i], t[i], more)
      BY <1>1, <3>1 DEF ComesBackAs
    <3> QED
      BY <1>3, <3>1, <3>2
  <2> QED
    BY <2>1, <2>2
<1> QED
  BY <1>2, <1>4 DEF AlikeLists

LEMMA AlikeMore ==
    ASSUME NEW s, NEW t, NEW promoted, NEW more, promoted \subseteq more, AlikeLists(s, t, promoted)
    PROVE  AlikeLists(s, t, more)
BY DEF AlikeLists, ComesBackAs

\* The move that is read back, done in the replay of the game.
LEMMA SameMove ==
    ASSUME NEW r, NEW g, NEW m, NEW promoted, NEW initial,
           Sound(r, initial), Sound(g, initial), NoPawns(promoted),
           Resembles(r, g, promoted), Moving(g, m)
    PROVE  LET e == SerializeHistMove(Recorded(g, m))
           IN  /\ e.from = m.from /\ e.to = m.to /\ e.piece = g.board[m.from]
               /\ e.promotion = "None" /\ e = SerializeHistMove(e)
               /\ Moving(r, e)
               /\ IsPromotion(r, e) <=> IsPromotion(g, m)
               /\ ComesBackAs(r.board[e.from], e.piece, promoted)
<1> DEFINE e == SerializeHistMove(Recorded(g, m))
<1>1. /\ e.from = m.from /\ e.to = m.to /\ e.piece = g.board[m.from]
      /\ e.promotion = "None" /\ e = SerializeHistMove(e)
  BY DEF SerializeHistMove, Recorded
<1> HIDE DEF e
<1>2. /\ m.from \in Hexes /\ m.to \in Hexes
      /\ g.board[m.from] \in Pieces /\ g.board[m.from].white = g.whiteTurn
  BY DEF Moving
<1>3. r.whiteTurn = g.whiteTurn /\ ComesBackAs(r.board[m.from], g.board[m.from], promoted)
  BY <1>2 DEF Resembles
<1>4. g.board[m.from] \in Squares
  BY <1>2 DEF Squares
<1>5. /\ r.board[m.from].kind = "Pawn" <=> g.board[m.from].kind = "Pawn"
      /\ r.board[m.from].white = g.board[m.from].white
      /\ r.board[m.from] \in Pieces
  BY <1>2, <1>3, <1>4, AlikeMen, Zenon
<1>6. Moving(r, e)
  BY <1>1, <1>2, <1>3, <1>5 DEF Moving, Promotions
<1>7. IsPromotion(r, e) <=> IsPromotion(g, m)
  BY <1>1, <1>3, <1>5 DEF IsPromotion
<1> QED
  BY <1>1, <1>3, <1>6, <1>7, Zenon DEF e

LEMMA SameBoard ==
    ASSUME NEW r, NEW g, NEW m, NEW promoted, NEW more, NEW initial,
           Sound(r, initial), Sound(g, initial), NoPawns(promoted), promoted \subseteq more,
           Resembles(r, g, promoted), Moving(g, m),
           IsPromotion(g, m) => Landed(g, m) \in more, NEW h \in Hexes
    PROVE  LET e == SerializeHistMove(Recorded(g, m))
           IN  ComesBackAs(NewMove(r, e).board[h], NewMove(g, m).board[h], more)
<1> DEFINE e == SerializeHistMove(Recorded(g, m))
<1>1. /\ e.from = m.from /\ e.to = m.to /\ e.promotion = "None" /\ Moving(r, e)
      /\ IsPromotion(r, e) <=> IsPromotion(g, m)
      /\ ComesBackAs(r.board[e.from], g.board[m.from], promoted)
  BY SameMove
<1> HIDE DEF e
<1>2. /\ m.from \in Hexes /\ m.to \in Hexes
      /\ g.board[m.from] \in Pieces /\ g.board[m.from].white = g.whiteTurn
  BY DEF Moving
<1>3. /\ NewMove(r, e).board = [r.board EXCEPT ![m.from] = Empty, ![m.to] = Landed(r, e)]
      /\ NewMove(g, m).board = [g.board EXCEPT ![m.from] = Empty, ![m.to] = Landed(g, m)]
  BY <1>1 DEF NewMove
<1>4. r.board \in Boards /\ g.board \in Boards /\ r.whiteTurn = g.whiteTurn
  BY DEF Sound, Resembles
<1>5. ComesBackAs(Landed(r, e), Landed(g, m), more)
  <2>1. CASE IsPromotion(g, m)
    <3>1. Landed(g, m) = GetPromoPiece(m.promotion, g.whiteTurn)
      BY <2>1 DEF Landed
    <3>2. Landed(r, e) = [kind |-> "Queen", white |-> g.whiteTurn]
      BY <1>1, <1>4, <2>1 DEF Landed, GetPromoPiece
    <3>3. Landed(g, m).white = g.whiteTurn /\ Landed(g, m) \in more
      BY <2>1, <3>1 DEF GetPromoPiece
    <3> QED
      BY <3>2, <3>3 DEF ComesBackAs
  <2>2. CASE ~IsPromotion(g, m)
    <3>1. Landed(g, m) = g.board[m.from] /\ Landed(r, e) = r.board[m.from]
      BY <1>1, <2>2 DEF Landed
    <3> QED
      BY <1>1, <3>1 DEF ComesBackAs
  <2> QED
    BY <2>1, <2>2
<1>6. CASE h = m.to
  <2>1. NewMove(r, e).board[h] = Landed(r, e) /\ NewMove(g, m).board[h] = Landed(g, m)
    BY <1>3, <1>4, <1>6 DEF Boards
  <2> QED
    BY <1>5, <2>1 DEF e
<1>7. CASE h = m.from /\ h # m.to
  <2>1. NewMove(r, e).board[h] = Empty /\ NewMove(g, m).board[h] = Empty
    BY <1>3, <1>4, <1>7 DEF Boards
  <2> QED
    BY <2>1 DEF ComesBackAs, e
<1>8. CASE h # m.from /\ h # m.to
  <2>1. NewMove(r, e).board[h] = r.board[h] /\ NewMove(g, m).board[h] = g.board[h]
    BY <1>3, <1>4, <1>8 DEF Boards
  <2> QED
    BY <2>1 DEF Resembles, ComesBackAs, e
<1> QED
  BY <1>6, <1>7, <1>8

LEMMA SameTaken ==
    ASSUME NEW r, NEW g, NEW m, NEW e, NEW promoted, NEW more, NEW initial, NEW white \in BOOLEAN,
           Sound(r, initial), Sound(g, initial), NoPawns(promoted), promoted \subseteq more,
           Resembles(r, g, promoted), m.to \in Hexes, e.to = m.to
    PROVE  AlikeLists(Taken(r, e, white), Taken(g, m, white), more)
<1> DEFINE p == r.board[m.to]
           q == g.board[m.to]
           s == IF white THEN r.takenWhite ELSE r.takenBlack
           t == IF white THEN g.takenWhite ELSE g.takenBlack
           capture == q # Empty /\ g.whiteTurn # white
<1>1. ComesBackAs(p, q, promoted) /\ AlikeLists(s, t, promoted) /\ r.whiteTurn = g.whiteTurn
  BY DEF Resembles
<1>2. q \in Squares
  BY DEF Sound, Boards
<1>3. IsSeq(s) /\ IsSeq(t)
  BY DEF Sound
<1>4. p = Empty <=> q = Empty
  BY <1>1, <1>2, AlikeMen
<1>5. /\ Taken(r, e, white) = IF capture THEN Append(s, p) ELSE s
      /\ Taken(g, m, white) = IF capture THEN Append(t, q) ELSE t
  BY <1>1, <1>4 DEF Taken
<1> HIDE DEF p, q, s, t, capture
<1>6. CASE capture
  BY <1>1, <1>3, <1>5, <1>6, AlikeAppend
<1>7. CASE ~capture
  BY <1>1, <1>5, <1>7, AlikeMore
<1> QED
  BY <1>6, <1>7

LEMMA StepResembles ==
    ASSUME NEW r, NEW g, NEW m, NEW promoted, NEW more, NEW initial,
           Sound(r, initial), Sound(g, initial), NoPawns(promoted), promoted \subseteq more,
           Resembles(r, g, promoted), Moving(g, m), AllStored(g.moves),
           IsPromotion(g, m) => Landed(g, m) \in more
    PROVE  LET e == SerializeHistMove(Recorded(g, m))
           IN  Resembles(Redo(r, e), SerializeGame(NewMove(g, m)), more)
<1> DEFINE e == SerializeHistMove(Recorded(g, m))
           again == Redo(r, e)
           played == SerializeGame(NewMove(g, m))
<1>1. e.to = m.to /\ m.to \in Hexes
  BY SameMove DEF Moving
<1>2. \A h \in Hexes : ComesBackAs(NewMove(r, e).board[h], NewMove(g, m).board[h], more)
  BY SameBoard
<1>3. /\ played.board = NewMove(g, m).board /\ played.whiteTurn = ~g.whiteTurn
      /\ played.takenWhite = Taken(g, m, TRUE) /\ played.takenBlack = Taken(g, m, FALSE)
      /\ played.moves = Append(g.moves, e)
  BY PlayedFields DEF Sound
<1> HIDE DEF e, played
<1>4. /\ again.board = NewMove(r, e).board /\ again.whiteTurn = ~r.whiteTurn
      /\ again.takenWhite = Taken(r, e, TRUE) /\ again.takenBlack = Taken(r, e, FALSE)
      /\ again.moves = Append(r.moves, e)
  BY DEF NewMove, Redo
<1> HIDE DEF again
<1>5. r.whiteTurn = g.whiteTurn /\ r.moves = g.moves
  BY DEF Resembles
<1>6. /\ AlikeLists(Taken(r, e, TRUE), Taken(g, m, TRUE), more)
      /\ AlikeLists(Taken(r, e, FALSE), Taken(g, m, FALSE), more)
  BY <1>1, SameTaken
<1>7. again.whiteTurn = played.whiteTurn /\ again.moves = played.moves
  BY <1>3, <1>4, <1>5
<1>8. \A h \in Hexes : ComesBackAs(again.board[h], played.board[h], more)
  BY <1>2, <1>3, <1>4
<1>9. AlikeLists(again.takenWhite, played.takenWhite, more) /\ AlikeLists(again.takenBlack, played.takenBlack, more)
  BY <1>3, <1>4, <1>6
<1>10. Resembles(again, played, more)
  BY <1>7, <1>8, <1>9 DEF Resembles
<1> QED
  BY <1>10 DEF e, again, played

-----------------------------------------------------------------------------
(* The games there were, and the replay of their moves.                      *)

\* A chain of games, each the one before after a recorded move, is what doing
\* the moves again gives.
LEMMA ReplayIsChain ==
    ASSUME NEW position, NEW moves, NEW games, NEW count \in Nat,
           games[1] = NewGame(position),
           \A n \in 1 .. count : games[n + 1] = Redo(games[n], moves[n])
    PROVE  JumpMoveIndex(position, moves, count) = games[count + 1]
<1> DEFINE Next1(f) == [n \in 0 .. count |->
                            IF n = 0 THEN NewGame(position) ELSE Redo(f[n - 1], moves[n])]
           after == CHOOSE f : f = Next1(f)
           chain == [n \in 0 .. count |-> games[n + 1]]
           Apart == {n \in 0 .. count : after[n] # games[n + 1]}
<1>1. chain = Next1(chain)
  <2>1. ASSUME NEW n \in 0 .. count
        PROVE  chain[n] = IF n = 0 THEN NewGame(position) ELSE Redo(chain[n - 1], moves[n])
    <3>1. CASE n = 0
      BY <3>1
    <3>2. CASE n # 0
      <4>1. n \in 1 .. count /\ n - 1 \in 0 .. count /\ n - 1 + 1 = n
        BY <3>2
      <4>2. chain[n - 1] = games[n] /\ chain[n] = games[n + 1]
        BY <4>1
      <4> QED
        BY <3>2, <4>1, <4>2, Zenon
    <3> QED
      BY <3>1, <3>2
  <2> QED
    BY <2>1
<1>2. after = Next1(after)
  BY <1>1, Zenon
<1>3. ASSUME NEW n \in 0 .. count
      PROVE  after[n] = IF n = 0 THEN NewGame(position) ELSE Redo(after[n - 1], moves[n])
  <2> HIDE DEF after
  <2> QED
    BY <1>2
<1>4. after[count] = games[count + 1]
  <2> HIDE DEF after
  <2>1. SUFFICES ASSUME Apart # {} PROVE FALSE
    OBVIOUS
  <2>2. Apart \in SUBSET Nat
    OBVIOUS
  <2>3. PICK n \in Apart : \A m \in Apart : n <= m
    BY <2>1, <2>2, Least, Zenon
  <2>4. n # 0
    BY <1>3, <2>3
  <2>5. n \in 1 .. count /\ n - 1 \in 0 .. count /\ n - 1 + 1 = n /\ ~(n <= n - 1)
    BY <2>4
  <2>6. after[n - 1] = games[n]
    BY <2>3, <2>5
  <2>7. after[n] = Redo(games[n], moves[n])
    BY <1>3, <2>5, <2>6
  <2> QED
    BY <2>5, <2>7
<1>5. JumpMoveIndex(position, moves, count) = after[count]
  BY Zenon DEF JumpMoveIndex
<1> QED
  BY <1>4, <1>5, Zenon

\* What the first promotions gave does not depend on what comes after them.
LEMMA PromotedBefore ==
    ASSUME NEW games, NEW others, NEW moves, NEW again, NEW count \in Nat,
           \A n \in 1 .. count + 1 : others[n] = games[n],
           \A n \in 1 .. count : again[n] = moves[n]
    PROVE  PromotedTo(others, again, count) = PromotedTo(games, moves, count)
<1>1. \A n \in 1 .. count : n \in 1 .. count + 1 /\ n + 1 \in 1 .. count + 1
  OBVIOUS
<1>2. \A n \in 1 .. count :
         /\ IsPromotion(others[n], again[n]) <=> IsPromotion(games[n], moves[n])
         /\ others[n + 1].board[again[n].to] = games[n + 1].board[moves[n].to]
  BY <1>1
<1> QED
  BY <1>2 DEF PromotedTo

LEMMA PromotedNext ==
    ASSUME NEW games, NEW moves, NEW count \in Nat
    PROVE  PromotedTo(games, moves, count + 1) =
               PromotedTo(games, moves, count)
                   \cup (IF IsPromotion(games[count + 1], moves[count + 1])
                         THEN {games[count + 2].board[moves[count + 1].to]} ELSE {})
<1>1. 1 .. count + 1 = (1 .. count) \cup {count + 1} /\ count + 1 + 1 = count + 2
  OBVIOUS
<1> QED
  BY <1>1 DEF PromotedTo

\* What is so of the first games of a replay stays so.
LEMMA AgreesStill ==
    ASSUME NEW games, NEW played, NEW initial, NEW moves, NEW n \in Nat, n >= 1,
           NEW others, NEW after, NEW again,
           Agrees(games, played, initial, moves, n), others[n] = games[n],
           \A i \in 1 .. n : after[i] = played[i],
           \A i \in 1 .. n - 1 : again[i] = moves[i]
    PROVE  Agrees(others, after, initial, again, n)
<1>1. n - 1 \in Nat /\ n - 1 + 1 = n /\ n \in 1 .. n
  OBVIOUS
<1>2. PromotedTo(after, again, n - 1) = PromotedTo(played, moves, n - 1)
  BY <1>1, PromotedBefore
<1> QED
  BY <1>1, <1>2 DEF Agrees

LEMMA ReplaysStill ==
    ASSUME NEW games, NEW played, NEW moves, NEW n \in Nat, n >= 1,
           NEW others, NEW after, NEW again,
           Replays(games, played, moves, n), others[n] = games[n], others[n + 1] = games[n + 1],
           \A i \in 1 .. n : after[i] = played[i],
           \A i \in 1 .. n : again[i] = moves[i]
    PROVE  Replays(others, after, again, n)
<1>1. n - 1 \in Nat /\ n - 1 + 1 = n /\ n \in 1 .. n /\ 1 .. n - 1 \subseteq 1 .. n
  OBVIOUS
<1>2. PromotedTo(after, again, n - 1) = PromotedTo(played, moves, n - 1)
  BY <1>1, PromotedBefore
<1> QED
  BY <1>1, <1>2 DEF Replays

\* The replay of the game resembles the game, as it does the last one played.
LEMMA LastResembles ==
    ASSUME NEW games, NEW played, NEW initial, NEW g, NEW len \in Nat,
           ReplayOf(games, played, initial, g, len)
    PROVE  Resembles(games[len + 1], g, PromotedTo(played, g.moves, len))
<1> DEFINE promoted == PromotedTo(played, g.moves, len)
           r == games[len + 1]
<1>1. len + 1 \in 1 .. len + 1 /\ len + 1 - 1 = len
  OBVIOUS
<1>2. Resembles(r, played[len + 1], promoted)
  BY <1>1 DEF ReplayOf, Agrees
<1>3. Resembles(r, r, promoted)
  BY DEF Resembles, AlikeLists, ComesBackAs
<1>4. g = played[len + 1] \/ g = r
  BY DEF ReplayOf
<1> QED
  BY <1>2, <1>3, <1>4

\* Whichever of the two the game is, the same moves promote in the last one played.
LEMMA LastPromotes ==
    ASSUME NEW games, NEW played, NEW initial, NEW g, NEW len \in Nat, NEW m,
           Sound(g, initial), Moving(g, m), ReplayOf(games, played, initial, g, len)
    PROVE  LET e == SerializeHistMove(Recorded(g, m))
           IN  IsPromotion(played[len + 1], e) <=> IsPromotion(g, m)
<1> DEFINE e == SerializeHistMove(Recorded(g, m))
           promoted == PromotedTo(played, g.moves, len)
           p == played[len + 1]
<1>1. e.from = m.from /\ e.to = m.to
  BY DEF SerializeHistMove, Recorded
<1> HIDE DEF e
<1>2. CASE g = p
  BY <1>1, <1>2 DEF IsPromotion, e
<1>3. CASE g = games[len + 1]
  <2>1. Resembles(g, p, promoted)
    <3>1. len + 1 \in 1 .. len + 1 /\ len + 1 - 1 = len
      OBVIOUS
    <3> QED
      BY <1>3, <3>1 DEF ReplayOf, Agrees
  <2>2. m.from \in Hexes /\ g.board[m.from] \in Pieces /\ NoPawns(promoted)
    BY DEF Moving, ReplayOf
  <2>3. g.whiteTurn = p.whiteTurn /\ ComesBackAs(g.board[m.from], p.board[m.from], promoted)
    BY <2>1, <2>2 DEF Resembles
  <2>4. g.board[m.from].kind = "Pawn" <=> p.board[m.from].kind = "Pawn"
    BY <2>2, <2>3 DEF ComesBackAs, NoPawns
  <2> QED
    BY <1>1, <2>3, <2>4 DEF IsPromotion, e
<1> QED
  BY <1>2, <1>3 DEF ReplayOf

\* A move made: the replay goes on by one game.
LEMMA MoveFollows ==
    ASSUME NEW games, NEW played, NEW initial, NEW g, NEW len \in Nat, NEW m,
           IsSeq(played), Len(played) = len + 1, Len(g.moves) = len,
           Sound(g, initial), AllStored(g.moves), Moving(g, m),
           ReplayOf(games, played, initial, g, len)
    PROVE  LET next == SerializeGame(NewMove(g, m))
           IN  Replayable(Append(played, next), initial, next, len + 1)
<1> DEFINE next == SerializeGame(NewMove(g, m))
           e == SerializeHistMove(Recorded(g, m))
           after == Append(played, next)
           again == next.moves
           others == [n \in 1 .. len + 2 |-> IF n = len + 2 THEN Redo(games[len + 1], e) ELSE games[n]]
           before == PromotedTo(played, g.moves, len)
           promoted == PromotedTo(after, again, len + 1)
           r == games[len + 1]
<1>1. /\ next.board = NewMove(g, m).board /\ again = Append(g.moves, e)
  BY PlayedFields DEF Sound
<1>2. e.to = m.to /\ (IsPromotion(played[len + 1], e) <=> IsPromotion(g, m))
  <2>1. e.to = m.to
    BY DEF SerializeHistMove, Recorded
  <2>2. IsPromotion(played[len + 1], e) <=> IsPromotion(g, m)
    BY LastPromotes
  <2> QED
    BY <2>1, <2>2
<1>3. /\ IsPromotion(g, m) => NewMove(g, m).board[m.to] = Landed(g, m)
      /\ Landed(g, m) \in Pieces
      /\ IsPromotion(g, m) => Landed(g, m).kind # "Pawn"
  <2>1. NewMove(g, m).board = [g.board EXCEPT ![m.from] = Empty, ![m.to] = Landed(g, m)]
    BY DEF NewMove
  <2>2. NewMove(g, m).board[m.to] = Landed(g, m)
    BY <2>1 DEF Sound, Boards, Moving
  <2> QED
    BY <2>2, NewMoveSound
<1> HIDE DEF next, e, after
<1>4. /\ \A i \in 1 .. len : again[i] = g.moves[i]
      /\ again[len + 1] = e
      /\ Len(again) = len + 1
  <2>1. IsSeq(g.moves)
    BY DEF Sound
  <2>2. Len(Append(g.moves, e)) = len + 1
    BY <2>1 DEF IsSeq
  <2> QED
    BY <1>1, <2>1, <2>2, SeqFacts
<1>5. \A i \in 1 .. len + 1 : after[i] = played[i]
  BY SeqFacts DEF after
<1>6. after[len + 2] = next
  <2>1. after[Len(played) + 1] = next
    BY SeqFacts DEF after
  <2> QED
    BY <2>1
<1>7. /\ \A n \in 1 .. len + 1 : others[n] = games[n]
      /\ others[len + 2] = Redo(r, e)
  OBVIOUS
<1> HIDE DEF others, again
<1>8. PromotedTo(after, again, len) = before
  BY <1>4, <1>5, PromotedBefore
<1>9. promoted = before \cup (IF IsPromotion(g, m) THEN {Landed(g, m)} ELSE {})
  <2>1. len + 1 \in 1 .. len + 1
    OBVIOUS
  <2>2. after[len + 1] = played[len + 1]
    BY <1>5, <2>1
  <2>3. promoted = before \cup (IF IsPromotion(after[len + 1], again[len + 1])
                                THEN {after[len + 2].board[again[len + 1].to]} ELSE {})
    BY <1>8, PromotedNext
  <2> QED
    BY <1>1, <1>2, <1>3, <1>4, <1>6, <2>2, <2>3
<1>10. NoPawns(before) /\ NoPawns(promoted) /\ before \subseteq promoted
  BY <1>3, <1>9 DEF ReplayOf, NoPawns
<1>11. IsPromotion(g, m) => Landed(g, m) \in promoted
  BY <1>9
<1>12. Sound(r, initial) /\ Len(r.moves) = len /\ \A i \in 1 .. len : r.moves[i] = g.moves[i]
  <2>1. len + 1 \in 1 .. len + 1 /\ len + 1 - 1 = len
    OBVIOUS
  <2> QED
    BY <2>1 DEF ReplayOf, Agrees
<1>13. Resembles(r, g, before)
  BY LastResembles
<1> HIDE DEF before, promoted
<1>14. Resembles(Redo(r, e), next, promoted)
  BY <1>10, <1>11, <1>12, <1>13, StepResembles DEF next, e
<1>15. Moving(r, e) /\ ComesBackAs(r.board[e.from], e.piece, before)
  BY <1>10, <1>12, <1>13, SameMove DEF e
<1>16. /\ Sound(Redo(r, e), initial)
       /\ Len(Redo(r, e).moves) = len + 1
       /\ \A i \in 1 .. len + 1 : Redo(r, e).moves[i] = again[i]
  <2>1. Sound(Redo(r, e), initial)
    BY <1>12, <1>15, RedoSound
  <2>2. Redo(r, e).moves = Append(r.moves, e)
    BY DEF Redo, NewMove
  <2>3. IsSeq(r.moves)
    BY <1>12 DEF Sound
  <2>4. Len(Append(r.moves, e)) = len + 1
    <3> DEFINE s == r.moves
    <3>1. IsSeq(s) /\ Len(s) = len
      BY <1>12, <2>3
    <3> HIDE DEF s
    <3>2. Len(Append(s, e)) = len + 1
      BY <3>1 DEF IsSeq
    <3> QED
      BY <3>2 DEF s
  <2>5. /\ \A i \in 1 .. len : Append(r.moves, e)[i] = r.moves[i]
        /\ Append(r.moves, e)[len + 1] = e
    BY <1>12, <2>3, SeqFacts
  <2>6. \A i \in 1 .. len + 1 : i \in 1 .. len \/ i = len + 1
    OBVIOUS
  <2> QED
    BY <1>4, <1>12, <2>1, <2>2, <2>4, <2>5, <2>6
<1>17. ASSUME NEW n \in 1 .. len + 2 PROVE Agrees(others, after, initial, again, n)
  <2>1. CASE n = len + 2
    <3>1. others[n] = Redo(r, e) /\ after[n] = next /\ n - 1 = len + 1
      BY <1>6, <1>7, <2>1
    <3>2. PromotedTo(after, again, n - 1) = promoted
      BY <3>1 DEF promoted
    <3> QED
      BY <1>14, <1>16, <3>1, <3>2 DEF Agrees
  <2>2. CASE n # len + 2
    <3>1. n \in 1 .. len + 1 /\ n \in Nat /\ n >= 1
      BY <2>2
    <3>2. Agrees(games, played, initial, g.moves, n) /\ others[n] = games[n]
      BY <1>7, <3>1 DEF ReplayOf
    <3>3. \A i \in 1 .. n : after[i] = played[i]
      BY <1>5, <3>1
    <3>4. \A i \in 1 .. n - 1 : again[i] = g.moves[i]
      BY <1>4, <3>1
    <3> QED
      BY <3>1, <3>2, <3>3, <3>4, AgreesStill
  <2> QED
    BY <2>1, <2>2
<1>18. ASSUME NEW n \in 1 .. len + 1 PROVE Replays(others, after, again, n)
  <2>1. CASE n = len + 1
    <3>1. /\ others[n] = r /\ others[n + 1] = Redo(r, e) /\ again[n] = e
          /\ n - 1 = len
      <4>1. len + 1 + 1 = len + 2 /\ len + 1 - 1 = len /\ len + 1 \in 1 .. len + 1
        OBVIOUS
      <4> QED
        BY <1>4, <1>7, <2>1, <4>1
    <3>2. PromotedTo(after, again, n - 1) = before
      BY <1>8, <3>1
    <3> QED
      BY <1>15, <3>1, <3>2 DEF Replays
  <2>2. CASE n # len + 1
    <3>1. n \in 1 .. len /\ n \in 1 .. len + 1 /\ n + 1 \in 1 .. len + 1 /\ n \in Nat /\ n >= 1
      BY <2>2
    <3>2. /\ Replays(games, played, g.moves, n)
          /\ others[n] = games[n] /\ others[n + 1] = games[n + 1]
      BY <1>7, <3>1 DEF ReplayOf
    <3>3. \A i \in 1 .. n : after[i] = played[i] /\ again[i] = g.moves[i]
      BY <1>4, <1>5, <3>1
    <3> QED
      BY <3>1, <3>2, <3>3, ReplaysStill
  <2> QED
    BY <2>1, <2>2
<1>19. others[1] = NewGame(initial)
  <2>1. 1 \in 1 .. len + 1
    OBVIOUS
  <2> QED
    BY <1>7, <2>1 DEF ReplayOf
<1>20. ReplayOf(others, after, initial, next, len + 1)
  <2>1. len + 1 + 1 = len + 2
    OBVIOUS
  <2>2. next \in {after[len + 1 + 1], others[len + 1 + 1]}
    BY <1>6, <2>1
  <2>3. \A n \in 1 .. len + 1 + 1 : Agrees(others, after, initial, again, n)
    BY <1>17, <2>1
  <2>4. NoPawns(PromotedTo(after, again, len + 1))
    BY <1>10 DEF promoted
  <2> QED
    BY <1>18, <1>19, <2>2, <2>3, <2>4, Zenon DEF ReplayOf, again
<1> QED
  BY <1>20, Zenon DEF Replayable, after, next

\* A move taken back: the game is the last but one of the replay.
LEMMA UndoFollows ==
    ASSUME NEW games, NEW played, NEW initial, NEW g, NEW len \in Nat, len >= 1,
           IsSeq(played), Len(played) = len + 1, AllStored(g.moves), Len(g.moves) = len,
           ReplayOf(games, played, initial, g, len)
    PROVE  /\ Replayable(Front(played), initial, games[len], len - 1)
           /\ Sound(games[len], initial)
           /\ Len(games[len].moves) = len - 1
           /\ AllStored(games[len].moves)
<1> DEFINE next == games[len]
           after == Front(played)
           again == next.moves
<1>1. len \in 1 .. len + 1 /\ len - 1 \in Nat /\ len - 1 + 1 = len
  OBVIOUS
<1>2. Agrees(games, played, initial, g.moves, len)
  BY <1>1 DEF ReplayOf
<1>3. /\ Sound(next, initial) /\ Len(again) = len - 1
      /\ \A i \in 1 .. len - 1 : again[i] = g.moves[i]
  BY <1>2 DEF Agrees
<1>4. AllStored(again)
  BY <1>1, <1>3 DEF AllStored
<1>5. \A i \in 1 .. len : after[i] = played[i]
  <2>1. played # <<>> /\ Len(played) - 1 = len
    BY DEF IsSeq
  <2>2. \A i \in 1 .. Len(played) - 1 : Front(played)[i] = played[i]
    BY <2>1, FrontFacts
  <2> QED
    BY <2>1, <2>2
<1> HIDE DEF next, after, again
<1>6. ASSUME NEW n \in 1 .. len PROVE Agrees(games, after, initial, again, n)
  <2>1. n \in 1 .. len + 1 /\ n \in Nat /\ n >= 1
    OBVIOUS
  <2>2. Agrees(games, played, initial, g.moves, n)
    BY <2>1 DEF ReplayOf
  <2>3. \A i \in 1 .. n : after[i] = played[i]
    BY <1>5
  <2>4. \A i \in 1 .. n - 1 : again[i] = g.moves[i]
    BY <1>3
  <2> QED
    BY <2>1, <2>2, <2>3, <2>4, AgreesStill
<1>7. ASSUME NEW n \in 1 .. len - 1 PROVE Replays(games, after, again, n)
  <2>1. n \in 1 .. len /\ n \in Nat /\ n >= 1
    OBVIOUS
  <2>2. Replays(games, played, g.moves, n)
    BY <2>1 DEF ReplayOf
  <2>3. \A i \in 1 .. n : after[i] = played[i] /\ again[i] = g.moves[i]
    BY <1>3, <1>5
  <2> QED
    BY <2>1, <2>2, <2>3, ReplaysStill
<1>8. NoPawns(PromotedTo(after, again, len - 1))
  <2>1. PromotedTo(after, again, len - 1) = PromotedTo(played, g.moves, len - 1)
    BY <1>1, <1>3, <1>5, PromotedBefore
  <2>2. PromotedTo(played, g.moves, len - 1) \subseteq PromotedTo(played, g.moves, len)
    BY <1>1, PromotedNext
  <2> QED
    BY <2>1, <2>2 DEF ReplayOf, NoPawns
<1>9. ReplayOf(games, after, initial, next, len - 1)
  <2>1. games[1] = NewGame(initial)
    BY DEF ReplayOf
  <2>2. next \in {after[len - 1 + 1], games[len - 1 + 1]}
    BY <1>1 DEF next
  <2>3. \A n \in 1 .. len - 1 + 1 : Agrees(games, after, initial, again, n)
    BY <1>1, <1>6
  <2> QED
    BY <1>7, <1>8, <2>1, <2>2, <2>3, Zenon DEF ReplayOf, again
<1>10. Replayable(after, initial, next, len - 1)
  BY <1>9, Zenon DEF Replayable
<1> QED
  BY <1>3, <1>4, <1>10 DEF next, after, again

LEMMA HistoryIsReplay == HexInv => ReplayGivesGame
<1> SUFFICES ASSUME HexInv PROVE ReplayGivesGame
  OBVIOUS
<1> DEFINE len == Len(game.moves)
           moves == game.moves
<1>1. len \in Nat
  BY DEF HexInv, Sound, IsSeq
<1>2. PICK games : ReplayOf(games, past, start, game, len)
  BY DEF HexInv, Replayable
<1> HIDE DEF len, moves, HexInv
<1>3. games[1] = NewGame(start) /\ \A n \in 1 .. len : games[n + 1] = Redo(games[n], moves[n])
  BY <1>2 DEF ReplayOf, Replays, moves
<1>4. ASSUME NEW count \in 0 .. len
      PROVE  JumpMoveIndex(start, moves, count) = games[count + 1]
  <2>1. count \in Nat /\ \A n \in 1 .. count : n \in 1 .. len
    BY <1>1
  <2>2. \A n \in 1 .. count : games[n + 1] = Redo(games[n], moves[n])
    BY <1>3, <2>1
  <2> QED
    BY <1>3, <2>1, <2>2, ReplayIsChain
<1>5. Len(past) = len + 1
  BY DEF HexInv, len
<1>6. game \in {past[len + 1], JumpMoveIndex(start, moves, len)}
  <2>1. len \in 0 .. len
    BY <1>1
  <2> QED
    BY <1>2, <1>4, <2>1 DEF ReplayOf
<1>7. ASSUME NEW count \in 0 .. len
      PROVE  Resembles(JumpMoveIndex(start, moves, count), past[count + 1],
                       PromotedTo(past, moves, count))
  <2>1. count + 1 \in 1 .. len + 1 /\ count + 1 - 1 = count
    BY <1>1
  <2>2. Agrees(games, past, start, moves, count + 1)
    BY <1>2, <2>1 DEF ReplayOf, moves
  <2> QED
    BY <1>4, <2>1, <2>2 DEF Agrees
<1>8. ASSUME NEW n \in 1 .. len
      PROVE  ComesBackAs(JumpMoveIndex(start, moves, n - 1).board[moves[n].from], moves[n].piece,
                         PromotedTo(past, moves, n - 1))
  <2>1. n - 1 \in 0 .. len /\ n - 1 + 1 = n
    BY <1>1
  <2>2. Replays(games, past, moves, n)
    BY <1>2 DEF ReplayOf, moves
  <2>3. JumpMoveIndex(start, moves, n - 1) = games[n]
    BY <1>4, <2>1
  <2> QED
    BY <2>2, <2>3 DEF Replays
<1> QED
  BY <1>5, <1>6, <1>7, <1>8, Zenon DEF ReplayGivesGame, len, moves

LEMMA InitHexInv == Init => HexInv
<1> SUFFICES ASSUME Init PROVE HexInv
  OBVIOUS
<1> DEFINE g == NewGame(start)
<1>1. Sound(g, start) /\ g.moves = <<>> /\ g.takenWhite = <<>> /\ g.takenBlack = <<>>
  BY StartPositionsAssumption DEF Init, Sound, PawnsOK, NewGame, IsSeq
<1>2. past \in Seq({g}) /\ past[1] = g /\ Len(past) = 1 /\ DOMAIN past = {1}
  BY DEF Init
<1>3. game = g /\ lists = InitPieceMoves(game) /\ Len(game.moves) = 0
  BY <1>1 DEF Init
<1> HIDE DEF g
<1>4. AllStored(game.moves)
  BY <1>3 DEF AllStored
<1>5. IsSeq(past)
  BY <1>2 DEF IsSeq
<1>6. Replayable(past, start, game, 0)
  <2> DEFINE games == [n \in {1} |-> g]
  <2>1. games[1] = g
    OBVIOUS
  <2> HIDE DEF games
  <2>2. Resembles(g, g, PromotedTo(past, game.moves, 0))
    BY <1>1 DEF Resembles, AlikeLists, ComesBackAs
  <2>3. NoPawns(PromotedTo(past, game.moves, 0))
    BY DEF PromotedTo, NoPawns
  <2>4. Agrees(games, past, start, game.moves, 1)
    BY <1>1, <1>2, <2>1, <2>2 DEF Agrees
  <2>5. ReplayOf(games, past, start, game, 0)
    <3>1. games[1] = NewGame(start) /\ game \in {past[0 + 1], games[0 + 1]}
      BY <1>2, <1>3, <2>1 DEF g
    <3>2. \A n \in 1 .. 0 + 1 : Agrees(games, past, start, game.moves, n)
      BY <2>4
    <3>3. \A n \in 1 .. 0 : Replays(games, past, game.moves, n)
      OBVIOUS
    <3> QED
      BY <2>3, <3>1, <3>2, <3>3, Zenon DEF ReplayOf
  <2> QED
    BY <2>5, Zenon DEF Replayable
<1> QED
  BY <1>1, <1>2, <1>3, <1>4, <1>5, <1>6 DEF HexInv, g

LEMMA MoveKeeps ==
    ASSUME HexInv, NEW m \in Asked, NewValidMove(m)
    PROVE  HexInv'
<1> DEFINE next == SerializeGame(NewMove(game, m))
           len == Len(game.moves)
<1>1. /\ start' = start /\ past' = Append(past, next) /\ lists' = InitPieceMoves(game')
      /\ game' = next
  BY DEF NewValidMove
<1>2. /\ Sound(game, start) /\ AllStored(game.moves) /\ IsSeq(past) /\ Len(past) = len + 1
      /\ lists = InitPieceMoves(game) /\ IsSeq(game.moves)
  BY DEF HexInv, Sound
<1>3. len \in Nat
  BY <1>2 DEF IsSeq
<1>4. Moving(game, m)
  BY <1>2, AskedMoving
<1>5. Sound(next, start)
  BY <1>2, <1>4, PlayedSound
<1>6. AllStored(next.moves) /\ next.moves = Append(game.moves, SerializeHistMove(Recorded(game, m)))
  BY <1>2, PlayedFields
<1>7. Len(next.moves) = len + 1
  <2> DEFINE e == SerializeHistMove(Recorded(game, m))
  <2>1. next.moves = Append(game.moves, e)
    BY <1>6
  <2> HIDE DEF next, e
  <2>2. Len(Append(game.moves, e)) = len + 1
    BY <1>2 DEF IsSeq
  <2> QED
    BY <2>1, <2>2
<1>8. Replayable(Append(past, next), start, next, len + 1)
  <2>1. PICK games : ReplayOf(games, past, start, game, len)
    BY DEF HexInv, Replayable
  <2> HIDE DEF len
  <2>2. Len(game.moves) = len
    BY DEF len
  <2> QED
    BY <1>2, <1>3, <1>4, <2>1, <2>2, MoveFollows
<1>9. IsSeq(Append(past, next)) /\ Len(Append(past, next)) = len + 1 + 1
  <2> HIDE DEF next
  <2>1. IsSeq(Append(past, next))
    BY <1>2, SeqFacts
  <2>2. Len(Append(past, next)) = Len(past) + 1
    BY <1>2 DEF IsSeq
  <2> QED
    BY <1>2, <2>1, <2>2
<1> HIDE DEF next, len
<1>10. /\ Sound(game', start') /\ AllStored(game'.moves)
       /\ IsSeq(past') /\ Len(past') = Len(game'.moves) + 1
  BY <1>1, <1>5, <1>6, <1>7, <1>9
<1>11. Replayable(past', start', game', Len(game'.moves))
  BY <1>1, <1>7, <1>8
<1> QED
  BY <1>1, <1>10, <1>11 DEF HexInv

LEMMA UndoKeeps ==
    ASSUME HexInv, Undo
    PROVE  HexInv'
<1> DEFINE len == Len(game.moves)
<1>1. /\ start' = start /\ past' = Front(past) /\ lists' = InitPieceMoves(game')
      /\ game' = JumpMoveIndex(start, game.moves, len - 1) /\ game.moves # <<>>
  BY DEF Undo
<1>2. /\ AllStored(game.moves) /\ IsSeq(past) /\ Len(past) = len + 1 /\ IsSeq(game.moves)
  BY DEF HexInv, Sound
<1>3. len \in Nat /\ len >= 1 /\ past # <<>>
  <2>1. len \in Nat /\ len >= 1
    BY <1>1, <1>2 DEF IsSeq
  <2> QED
    BY <1>2, <2>1
<1>4. PICK games : ReplayOf(games, past, start, game, len)
  BY DEF HexInv, Replayable
<1> HIDE DEF len
<1>5. game' = games[len]
  <2>1. len - 1 \in Nat /\ len - 1 + 1 = len /\ \A n \in 1 .. len - 1 : n \in 1 .. len
    BY <1>3
  <2>2. games[1] = NewGame(start) /\ \A n \in 1 .. len - 1 : games[n + 1] = Redo(games[n], game.moves[n])
    BY <1>4, <2>1 DEF ReplayOf, Replays
  <2>3. JumpMoveIndex(start, game.moves, len - 1) = games[len]
    BY <2>1, <2>2, ReplayIsChain
  <2> QED
    BY <1>1, <2>3
<1>6. /\ Replayable(Front(past), start, games[len], len - 1)
      /\ Sound(games[len], start)
      /\ Len(games[len].moves) = len - 1
      /\ AllStored(games[len].moves)
  <2>1. Len(game.moves) = len
    BY DEF len
  <2> QED
    BY <1>2, <1>3, <1>4, <2>1, UndoFollows
<1>7. IsSeq(Front(past)) /\ Len(Front(past)) = len
  <2>1. IsSeq(Front(past)) /\ Len(Front(past)) = Len(past) - 1
    BY <1>2, <1>3, FrontFacts
  <2> QED
    BY <1>2, <1>3, <2>1
<1>8. len - 1 + 1 = len
  BY <1>3
<1> QED
  BY <1>1, <1>5, <1>6, <1>7, <1>8 DEF HexInv

LEMMA NextHexInv ==
    ASSUME HexInv, [Next]_vars
    PROVE  HexInv'
<1>1. CASE UNCHANGED vars
  <2>1. start' = start /\ game' = game /\ lists' = lists /\ past' = past
    BY <1>1 DEF vars
  <2> QED
    BY <2>1 DEF HexInv
<1>2. Next \/ UNCHANGED vars
  OBVIOUS
<1> QED
  BY <1>1, <1>2, MoveKeeps, UndoKeeps, Zenon DEF Next

(***************************************************************************)
(* Doing the moves again goes through games that resemble, each with its   *)
(* promotions, the ones that were played, and the game is the last of      *)
(* either (NewMove, SerializeHistMove, JumpMoveIndex).                     *)
(***************************************************************************)
THEOREM HexInvariant == Spec => []HexInv
BY InitHexInv, NextHexInv, PTL DEF Spec

(***************************************************************************)
(* On every board and in games of any length, whatever is taken back, a    *)
(* replay of moves gives the game that was played but for the pieces that  *)
(* were chosen in promotions, which come back as queens: nothing else is   *)
(* lost by storing moves without their promotions, and nothing at all      *)
(* where only queens were chosen (SerializeHistMove, JumpMoveIndex, Undo). *)
(***************************************************************************)
THEOREM MovesGiveGame == Spec => []ReplayGivesGame
BY HexInvariant, HistoryIsReplay, PTL

(***************************************************************************)
(* On every board and in games of any length a pawn never stays on the far *)
(* edge of the board (IsPromotion, ValidateMove, NewMove, Undo).           *)
(***************************************************************************)
THEOREM PawnsPromoteThm == Spec => []PawnsPromote
<1>1. HexInv => PawnsPromote
  BY DEF HexInv, Sound, PawnsOK, PawnsPromote
<1> QED
  BY HexInvariant, <1>1, PTL

-----------------------------------------------------------------------------
(* The attack tables.                                                        *)

\* A man of the other side moves onto the king if it threatens its hexagon.
LEMMA MovesOntoKing ==
    ASSUME NEW b \in Boards, NEW white \in BOOLEAN,
           NEW k \in FindKing(b, white), NEW h \in Men(b, ~white)
    PROVE  /\ k \in Attacked(b, h) <=> k \in PieceMoves(b, h)
           /\ k \in PieceMoves(b, h) <=> Threatens(b, h, k)
<1>1. k \in Hexes /\ b[k].white = white /\ b[k] # Empty
  BY DEF FindKing, Kings, Empty
<1>2. h \in Hexes /\ b[h].white = ~white /\ b[h] # Empty /\ b[h].kind # "King" /\ b[h].kind \in Kinds
  BY DEF Men, Boards, Squares, Pieces
<1>3. h # k /\ b[k].white # b[h].white
  BY <1>1, <1>2
<1>4. CASE b[h].kind = "Pawn"
  <2> DEFINE ways == IF b[h].white THEN {"UpLeft", "UpRight"} ELSE {"DownLeft", "DownRight"}
  <2>1. Attacked(b, h) = PawnTakes(b, h) /\ PieceMoves(b, h) = PawnMoves(b, h)
    BY <1>4 DEF Attacked, PieceMoves
  <2>2. k \in PawnMoves(b, h) <=> k \in PawnTakes(b, h)
    BY <1>1 DEF PawnMoves
  <2>3. k \in PawnTakes(b, h) <=> \E d \in ways : k = Step(h, d)
    BY <1>1, <1>3 DEF PawnTakes
  <2>4. ASSUME NEW d \in Directions PROVE k = Step(h, d) <=> Way(h, k) = Vector(d)
    <3>1. Cube(h) \in Cubes /\ Hexagon(Cube(h)) = h
      BY <1>2, HexesArePoints
    <3>2. Step(h, d) = Hexagon(Add(Cube(h), Vector(d)))
      BY <3>1, StepAdds
    <3>3. Vector(d) \in Cubes
      BY VectorsAreCubes
    <3> QED
      BY <1>1, <1>2, <3>2, <3>3, WayFacts
  <2>5. ways \subseteq Directions
    BY DEF Directions
  <2> HIDE DEF ways
  <2>6. (\E d \in ways : k = Step(h, d)) <=> Way(h, k) \in {Vector(d) : d \in ways}
    BY <2>4, <2>5
  <2>7. Threatens(b, h, k) <=> Way(h, k) \in {Vector(d) : d \in ways}
    BY <1>4 DEF Threatens, ways
  <2> QED
    BY <2>1, <2>2, <2>3, <2>6, <2>7
<1>5. CASE b[h].kind # "Pawn"
  <2>1. Geometric(b, h, PieceMoves(b, h))
    BY <1>2, PieceMovesAreGeometric
  <2>2. k \in PieceMoves(b, h) <=> CanLand(b, h, k) /\ CanReach(b, h, k)
    BY <1>1, <1>3, <1>5, <2>1 DEF Geometric, CanReach
  <2>3. CanLand(b, h, k)
    BY <1>3 DEF CanLand
  <2> QED
    BY <1>5, <2>2, <2>3 DEF Attacked, Threatens
<1> QED
  BY <1>4, <1>5

\* The king that is looked for in a table is threatened by a man or a king.
LEMMA TableIsThreat ==
    ASSUME NEW g, g.board \in Boards, g.whiteTurn \in BOOLEAN, NEW k \in FindKing(g.board, g.whiteTurn)
    PROVE  LET l == InitPieceMoves(g)
               b == g.board
           IN  k \in GetTurnAttackTable(l, g.whiteTurn)
                 <=> \/ \E h \in Men(b, ~g.whiteTurn) : Threatens(b, h, k)
                     \/ \E h \in FindKing(b, ~g.whiteTurn) : k \in GetTurnMoves(l, ~g.whiteTurn)[h]
<1> DEFINE b == g.board
           l == InitPieceMoves(g)
<1>1. \A h \in Men(b, ~g.whiteTurn) : k \in Attacked(b, h) <=> Threatens(b, h, k)
  BY MovesOntoKing
<1>2. CASE g.whiteTurn = TRUE
  <2>1. l.blackTable
            = (UNION {Attacked(b, h) : h \in Men(b, FALSE)}) \cup (UNION {l.black[h] : h \in FindKing(b, FALSE)})
    BY DEF InitPieceMoves
  <2>2. GetTurnAttackTable(l, TRUE) = l.blackTable /\ GetTurnMoves(l, FALSE) = l.black
    BY DEF GetTurnAttackTable, GetTurnMoves
  <2> HIDE DEF l, b
  <2>3. k \in GetTurnAttackTable(l, TRUE)
          <=> (\E h \in Men(b, FALSE) : k \in Attacked(b, h)) \/ (\E h \in FindKing(b, FALSE) : k \in l.black[h])
    <3>1. k \in l.blackTable
            <=> (\E h \in Men(b, FALSE) : k \in Attacked(b, h)) \/ (\E h \in FindKing(b, FALSE) : k \in l.black[h])
      BY <2>1
    <3> QED
      BY <2>2, <3>1, Zenon
  <2> QED
    BY <1>1, <1>2, <2>2, <2>3 DEF l, b
<1>3. CASE g.whiteTurn = FALSE
  <2>1. l.whiteTable
            = (UNION {Attacked(b, h) : h \in Men(b, TRUE)}) \cup (UNION {l.white[h] : h \in FindKing(b, TRUE)})
    BY DEF InitPieceMoves
  <2>2. GetTurnAttackTable(l, FALSE) = l.whiteTable /\ GetTurnMoves(l, TRUE) = l.white
    BY DEF GetTurnAttackTable, GetTurnMoves
  <2> HIDE DEF l, b
  <2>3. k \in GetTurnAttackTable(l, FALSE)
          <=> (\E h \in Men(b, TRUE) : k \in Attacked(b, h)) \/ (\E h \in FindKing(b, TRUE) : k \in l.white[h])
    <3>1. k \in l.whiteTable
            <=> (\E h \in Men(b, TRUE) : k \in Attacked(b, h)) \/ (\E h \in FindKing(b, TRUE) : k \in l.white[h])
      BY <2>1
    <3> QED
      BY <2>2, <3>1, Zenon
  <2> QED
    BY <1>1, <1>3, <2>2, <2>3 DEF l, b
<1> QED
  BY <1>2, <1>3

(***************************************************************************)
(* On every board the side on the move is in check exactly when a man of   *)
(* the other side reaches its king along an open line, by a knight's leap  *)
(* or by a pawn's capture, or the other king does (setAttackTable,         *)
(* InitPieceMoves, Check).                                                 *)
(***************************************************************************)
THEOREM CheckMeansThreat == Spec => []CheckIsThreat
<1>1. HexInv => CheckIsThreat
  <2> SUFFICES ASSUME HexInv PROVE CheckIsThreat
    OBVIOUS
  <2> DEFINE b == game.board
             white == game.whiteTurn
             threat(k) == \/ \E h \in Men(b, ~white) : Threatens(b, h, k)
                          \/ \E h \in FindKing(b, ~white) : k \in GetTurnMoves(lists, ~white)[h]
  <2>1. white \in BOOLEAN /\ b \in Boards /\ lists = InitPieceMoves(game)
    BY DEF HexInv, Sound
  <2>2. \A k \in FindKing(b, white) : k \in GetTurnAttackTable(lists, white) <=> threat(k)
    BY <2>1, TableIsThreat
  <2>3. Check(game, lists) <=> \E k \in FindKing(b, white) : threat(k)
    <3> HIDE DEF threat
    <3> QED
      BY <2>2 DEF Check
  <2> QED
    BY <2>3, Zenon DEF CheckIsThreat
<1> QED
  BY HexInvariant, <1>1, PTL

(***************************************************************************)
(* On every board each rook, bishop and queen of the lists has the moves   *)
(* along the lines of cube coordinates up to the first piece in its way,   *)
(* and each knight the leaps that are on no line (Walk, RookOffsets,       *)
(* BishopOffsets, KnightOffsets, findMovesByTraveling).                    *)
(***************************************************************************)
THEOREM PiecesMoveGeometrically == Spec => []MovesAreGeometric
<1>1. HexInv => MovesAreGeometric
  <2> SUFFICES ASSUME HexInv,
                      NEW h \in (DOMAIN lists.white \cup DOMAIN lists.black)
                                    \ (Kings(game.board, TRUE) \cup Kings(game.board, FALSE))
               PROVE  Geometric(game.board, h,
                                (IF game.board[h].white THEN lists.white ELSE lists.black)[h])
    BY Zenon DEF MovesAreGeometric, Geometric, CanReach, CanLand
  <2>1. lists = InitPieceMoves(game) /\ game.board \in Boards
    BY DEF HexInv, Sound
  <2>2. /\ h \in Hexes /\ game.board[h] # Empty /\ game.board[h].kind # "King"
        /\ (IF game.board[h].white THEN lists.white ELSE lists.black)[h] = PieceMoves(game.board, h)
    BY <2>1, ListsHoldMoves
  <2>3. game.board[h].kind \in Kinds
    BY <2>1, <2>2 DEF Boards, Squares, Pieces
  <2> QED
    BY <2>2, <2>3, PieceMovesAreGeometric
<1> QED
  BY HexInvariant, <1>1, PTL

-----------------------------------------------------------------------------
(* The notation.  Reading starts, after any file, at the first hexagon of    *)
(* the next one, with what was written of the board so far; that a function  *)
(* does what a recursion says and that there is one goes by counting up.     *)

Tokens == {Piece(p) : p \in Squares} \cup {Count(n) : n \in Nat} \cup {Slash}
              \cup {Turn(white) : white \in BOOLEAN}

\* The reader within a file of the board b.
Reader(file, rank, b) ==
    [board |-> b, whiteTurn |-> FALSE, file |-> file, rank |-> rank, ok |-> TRUE, over |-> FALSE]

\* The reader that has come to the side on the move.
Finished(s, white) == [s EXCEPT !.whiteTurn = white, !.over = TRUE]

\* Reading the text takes the reader from s to t.
Follows(states, s, text) ==
    /\ states[0] = s
    /\ \A n \in 1 .. Len(text) : states[n] = ParseFenToken(states[n - 1], text[n])

Reads(s, text, t) == \E states : Follows(states, s, text) /\ states[Len(text)] = t

\* The part of a board before a hexagon.
Before(b, file, rank) ==
    [h \in Hexes |-> IF h[1] < file \/ (h[1] = file /\ h[2] < rank) THEN b[h] ELSE Empty]

\* Where a file of the board has been read, with the slash.
FileRead(b, file) ==
    IF file < 10 THEN Reader(file + 1, 0, Before(b, file + 1, 0)) ELSE Reader(10, 6, b)

LEMMA ReadsNothing ==
    ASSUME NEW s
    PROVE  Reads(s, <<>>, s)
<1>1. Follows([n \in 0 .. 0 |-> s], s, <<>>) /\ [n \in 0 .. 0 |-> s][Len(<<>>)] = s
  BY DEF Follows
<1> QED
  BY <1>1 DEF Reads

LEMMA ReadsToken ==
    ASSUME NEW s, NEW t, NEW text \in Seq(Tokens), NEW token \in Tokens, Reads(s, text, t)
    PROVE  Append(text, token) \in Seq(Tokens) /\ Reads(s, Append(text, token), ParseFenToken(t, token))
<1>1. PICK states : Follows(states, s, text) /\ states[Len(text)] = t
  BY DEF Reads
<1> DEFINE len == Len(text)
           more == [n \in 0 .. len + 1 |-> IF n = len + 1 THEN ParseFenToken(t, token) ELSE states[n]]
<1>2. /\ len \in Nat /\ Len(Append(text, token)) = len + 1 /\ Append(text, token)[len + 1] = token
      /\ Append(text, token) \in Seq(Tokens)
      /\ \A n \in 1 .. len : Append(text, token)[n] = text[n]
  OBVIOUS
<1>3. /\ more[len + 1] = ParseFenToken(t, token)
      /\ \A n \in 0 .. len : more[n] = states[n]
  BY <1>2
<1>4. Follows(more, s, Append(text, token))
  <2> HIDE DEF more, len
  <2>1. more[0] = s
    BY <1>1, <1>2, <1>3 DEF Follows
  <2>2. ASSUME NEW n \in 1 .. len + 1
        PROVE  more[n] = ParseFenToken(more[n - 1], Append(text, token)[n])
    <3>1. CASE n = len + 1
      <4>1. more[n - 1] = t
        BY <1>1, <1>2, <1>3, <3>1 DEF len
      <4> QED
        BY <1>2, <1>3, <3>1, <4>1
    <3>2. CASE n # len + 1
      <4>1. n \in 1 .. len /\ n \in 0 .. len /\ n - 1 \in 0 .. len
        BY <1>2, <3>2
      <4> QED
        BY <1>1, <1>2, <1>3, <4>1 DEF Follows, len
    <3> QED
      BY <3>1, <3>2
  <2> QED
    BY <1>2, <2>1, <2>2 DEF Follows
<1> QED
  BY <1>2, <1>3, <1>4 DEF Reads

LEMMA ReadsBoth ==
    ASSUME NEW s, NEW t, NEW u, NEW text \in Seq(Tokens), NEW rest \in Seq(Tokens),
           Reads(s, text, t), Reads(t, rest, u)
    PROVE  text \o rest \in Seq(Tokens) /\ Reads(s, text \o rest, u)
<1>1. PICK states : Follows(states, s, text) /\ states[Len(text)] = t
  BY DEF Reads
<1>2. PICK further : Follows(further, t, rest) /\ further[Len(rest)] = u
  BY DEF Reads
<1> DEFINE len == Len(text)
           left == Len(rest)
           both == [n \in 0 .. len + left |-> IF n <= len THEN states[n] ELSE further[n - len]]
<1>3. /\ len \in Nat /\ left \in Nat /\ Len(text \o rest) = len + left
      /\ text \o rest \in Seq(Tokens)
      /\ \A n \in 1 .. len : (text \o rest)[n] = text[n]
      /\ \A n \in 1 .. left : (text \o rest)[len + n] = rest[n]
  OBVIOUS
<1>4. /\ \A n \in 0 .. len : both[n] = states[n]
      /\ \A n \in 1 .. left : both[len + n] = further[n]
  BY <1>3
<1>5. both[len] = t /\ further[0] = t
  BY <1>1, <1>2, <1>3, <1>4 DEF Follows
<1>6. \A n \in 0 .. left : both[len + n] = further[n]
  <2> HIDE DEF both, len, left
  <2>1. ASSUME NEW n \in 0 .. left  PROVE both[len + n] = further[n]
    <3>1. CASE n = 0
      BY <1>3, <1>5, <3>1
    <3>2. CASE n # 0
      BY <1>3, <1>4, <3>2
    <3> QED
      BY <3>1, <3>2
  <2> QED
    BY <2>1
<1>7. Follows(both, s, text \o rest)
  <2> HIDE DEF both, len, left
  <2>1. both[0] = s
    BY <1>1, <1>3, <1>4 DEF Follows
  <2>2. ASSUME NEW n \in 1 .. len + left
        PROVE  both[n] = ParseFenToken(both[n - 1], (text \o rest)[n])
    <3>1. CASE n <= len
      <4>1. n \in 1 .. len /\ n \in 0 .. len /\ n - 1 \in 0 .. len
        BY <1>3, <3>1
      <4> QED
        BY <1>1, <1>3, <1>4, <4>1 DEF Follows, len
    <3>2. CASE ~(n <= len)
      <4> DEFINE m == n - len
      <4>1. m \in 1 .. left /\ m \in 0 .. left /\ m - 1 \in 0 .. left /\ n = len + m /\ n - 1 = len + (m - 1)
        BY <1>3, <3>2
      <4>2. further[m] = ParseFenToken(further[m - 1], rest[m])
        BY <1>2, <4>1 DEF Follows, left
      <4> HIDE DEF m
      <4>3. both[len + m] = further[m] /\ both[len + (m - 1)] = further[m - 1] /\ (text \o rest)[len + m] = rest[m]
        BY <1>3, <1>6, <4>1
      <4> QED
        BY <4>1, <4>2, <4>3
    <3> QED
      BY <3>1, <3>2
  <2> QED
    BY <1>3, <2>1, <2>2 DEF Follows
<1>8. both[len + left] = u
  BY <1>2, <1>3, <1>6
<1> QED
  BY <1>3, <1>7, <1>8 DEF Reads

LEMMA ParseIsReading ==
    ASSUME NEW text \in Seq(Tokens), NEW t, Reads(Reader(0, 0, [h \in Hexes |-> Empty]), text, t)
    PROVE  ParseFen(text) = [t EXCEPT !.ok = @ /\ t.file = 10 /\ t.over]
<1> DEFINE first == Reader(0, 0, [h \in Hexes |-> Empty])
           count == Len(text)
           Next1(f) == [n \in 0 .. count |-> IF n = 0 THEN first ELSE ParseFenToken(f[n - 1], text[n])]
           read == CHOOSE f : f = Next1(f)
<1>0. count \in Nat
  OBVIOUS
<1>1. PICK states : Follows(states, first, text) /\ states[count] = t
  BY DEF Reads
<1> DEFINE chain == [n \in 0 .. count |-> states[n]]
           Apart == {n \in 0 .. count : read[n] # states[n]}
<1>2. chain = Next1(chain)
  <2> HIDE DEF first, count
  <2>1. ASSUME NEW n \in 0 .. count
        PROVE  chain[n] = IF n = 0 THEN first ELSE ParseFenToken(chain[n - 1], text[n])
    <3>1. CASE n = 0
      BY <1>0, <1>1, <3>1 DEF Follows
    <3>2. CASE n # 0
      <4>1. n \in 1 .. count /\ n - 1 \in 0 .. count
        BY <1>0, <3>2
      <4>2. states[n] = ParseFenToken(states[n - 1], text[n])
        BY <1>1, <4>1 DEF Follows, count
      <4>3. chain[n - 1] = states[n - 1] /\ chain[n] = states[n]
        BY <4>1
      <4> QED
        BY <3>2, <4>2, <4>3, Zenon
    <3> QED
      BY <3>1, <3>2
  <2> QED
    BY <2>1
<1>3. read = Next1(read)
  BY <1>2, Zenon
<1>4. ASSUME NEW n \in 0 .. count
      PROVE  read[n] = IF n = 0 THEN first ELSE ParseFenToken(read[n - 1], text[n])
  <2> HIDE DEF read, first, count
  <2> QED
    BY <1>3
<1>5. read[count] = t
  <2> HIDE DEF read, first
  <2>1. SUFFICES ASSUME Apart # {} PROVE FALSE
    BY <1>0, <1>1
  <2>2. Apart \in SUBSET Nat
    OBVIOUS
  <2>3. PICK n \in Apart : \A m \in Apart : n <= m
    BY <2>1, <2>2, Least, Zenon
  <2>4. n # 0
    BY <1>1, <1>4, <2>3 DEF Follows
  <2>5. n \in 1 .. count /\ n - 1 \in 0 .. count /\ ~(n <= n - 1)
    BY <1>0, <2>3, <2>4
  <2>6. read[n - 1] = states[n - 1]
    BY <2>3, <2>5
  <2>7. read[n] = ParseFenToken(states[n - 1], text[n])
    BY <1>4, <2>5, <2>6
  <2>8. states[n] = ParseFenToken(states[n - 1], text[n])
    BY <1>1, <2>5 DEF Follows
  <2> QED
    BY <2>3, <2>7, <2>8
<1>6. ParseFen(text) = [read[count] EXCEPT !.ok = @ /\ read[count].file = 10 /\ read[count].over]
  BY Zenon DEF ParseFen, Reader
<1> QED
  BY <1>5, <1>6, Zenon

LEMMA TokensAre ==
    /\ \A p \in Squares : Piece(p) \in Tokens
    /\ \A n \in Nat : Count(n) \in Tokens
    /\ Slash \in Tokens
    /\ \A white \in BOOLEAN : Turn(white) \in Tokens
BY DEF Tokens

\* What a token does in a file of the board.
LEMMA PieceDoes ==
    ASSUME NEW file \in Files, NEW rank \in Nat, NEW b, NEW p \in Squares, rank < RanksPerFile(file)
    PROVE  ParseFenToken(Reader(file, rank, b), Piece(p)) =
               Reader(file, rank + 1, [b EXCEPT ![<<file, rank>>] = p])
<1> DEFINE s == Reader(file, rank, b)
<1>1. s.ok /\ ~s.over /\ s.file = file /\ s.rank = rank /\ s.board = b
  BY DEF Reader
<1>2. Piece(p).is = "piece" /\ Piece(p).piece = p
  BY DEF Piece
<1>3. ParseFenToken(s, Piece(p)) = [s EXCEPT !.board[<<file, rank>>] = p, !.rank = rank + 1]
  <2> HIDE DEF s
  <2> QED
    BY <1>1, <1>2 DEF ParseFenToken
<1> QED
  BY <1>3 DEF Reader

LEMMA CountDoes ==
    ASSUME NEW file \in Files, NEW rank \in Nat, NEW b, NEW n \in Nat
    PROVE  ParseFenToken(Reader(file, rank, b), Count(n)) = Reader(file, rank + n, b)
<1> DEFINE s == Reader(file, rank, b)
<1>1. s.ok /\ ~s.over /\ s.file = file /\ s.rank = rank
  BY DEF Reader
<1>2. Count(n).is = "count" /\ Count(n).count = n
  BY DEF Count
<1>3. ParseFenToken(s, Count(n)) = [s EXCEPT !.rank = rank + n]
  <2> HIDE DEF s
  <2> QED
    BY <1>1, <1>2 DEF ParseFenToken
<1> QED
  BY <1>3 DEF Reader

LEMMA SlashDoes ==
    ASSUME NEW file \in Files, NEW rank, NEW b, rank = RanksPerFile(file)
    PROVE  ParseFenToken(Reader(file, rank, b), Slash) = Reader(file + 1, 0, b)
<1> DEFINE s == Reader(file, rank, b)
<1>1. s.ok /\ ~s.over /\ s.file = file /\ s.rank = rank
  BY DEF Reader
<1>2. Slash.is = "slash"
  BY DEF Slash
<1>3. ParseFenToken(s, Slash) = [s EXCEPT !.file = file + 1, !.rank = 0]
  <2> HIDE DEF s
  <2> QED
    BY <1>1, <1>2 DEF ParseFenToken
<1> QED
  BY <1>3 DEF Reader

LEMMA TurnDoes ==
    ASSUME NEW file \in Files, NEW rank, NEW b, NEW white
    PROVE  ParseFenToken(Reader(file, rank, b), Turn(white)) = Finished(Reader(file, rank, b), white)
<1> DEFINE s == Reader(file, rank, b)
<1>1. s.ok /\ ~s.over /\ s.file = file
  BY DEF Reader
<1>2. Turn(white).is = "turn" /\ Turn(white).white = white
  BY DEF Turn
<1> HIDE DEF s
<1>3. ParseFenToken(s, Turn(white)) = Finished(s, white)
  BY <1>1, <1>2 DEF ParseFenToken, Finished
<1> QED
  BY <1>3 DEF s

\* The count of the empty hexagons makes up for those that were passed.
LEMMA CountedReads ==
    ASSUME NEW s, NEW file \in Files, NEW rank \in Nat, NEW b,
           NEW d \in [text : Seq(Tokens), empty : Nat], Reads(s, d.text, Reader(file, rank, b))
    PROVE  Counted(d) \in Seq(Tokens) /\ Reads(s, Counted(d), Reader(file, rank + d.empty, b))
<1>1. d.text \in Seq(Tokens) /\ d.empty \in Nat
  OBVIOUS
<1>2. CASE d.empty > 0
  <2>1. ParseFenToken(Reader(file, rank, b), Count(d.empty)) = Reader(file, rank + d.empty, b)
    BY <1>1, CountDoes
  <2>2. Count(d.empty) \in Tokens
    BY <1>1, TokensAre
  <2>3. Counted(d) = Append(d.text, Count(d.empty))
    BY <1>2 DEF Counted
  <2>4. /\ Append(d.text, Count(d.empty)) \in Seq(Tokens)
        /\ Reads(s, Append(d.text, Count(d.empty)),
                 ParseFenToken(Reader(file, rank, b), Count(d.empty)))
    BY <1>1, <2>2, ReadsToken
  <2> QED
    BY <2>1, <2>3, <2>4
<1>3. CASE ~(d.empty > 0)
  <2>1. d.empty = 0 /\ rank + d.empty = rank /\ Counted(d) = d.text
    BY <1>1, <1>3 DEF Counted
  <2> QED
    BY <1>1, <2>1
<1> QED
  BY <1>2, <1>3

LEMMA FileOfRanks ==
    ASSUME NEW file \in Files
    PROVE  /\ RanksPerFile(file) \in 6 .. 11
           /\ \A rank \in 0 .. RanksPerFile(file) - 1 : <<file, rank>> \in Hexes
           /\ file = 10 => RanksPerFile(file) = 6
<1>1. RanksPerFile(file) \in 6 .. 11 /\ (file = 10 => RanksPerFile(file) = 6)
  BY DEF RanksPerFile, Files, Midpoint
<1>2. ASSUME NEW rank \in 0 .. RanksPerFile(file) - 1  PROVE <<file, rank>> \in Hexes
  BY <1>1 DEF Hexes, InBounds
<1> QED
  BY <1>1, <1>2

LEMMA HexIs ==
    ASSUME NEW h \in Hexes
    PROVE  h[1] \in Files /\ h[2] \in Nat /\ h[2] < RanksPerFile(h[1]) /\ h = <<h[1], h[2]>>
BY DEF Hexes, InBounds

\* What was read grows by a hexagon, a file, and is the board in the end.
LEMMA BeforeNext ==
    ASSUME NEW b \in Boards, NEW file \in Files, NEW rank \in 0 .. RanksPerFile(file) - 1
    PROVE  /\ Before(b, file, rank + 1) = [Before(b, file, rank) EXCEPT ![<<file, rank>>] = b[<<file, rank>>]]
           /\ b[<<file, rank>>] = Empty => Before(b, file, rank + 1) = Before(b, file, rank)
<1> DEFINE x == <<file, rank>>
<1>1. x \in Hexes /\ file \in Int /\ rank \in Int /\ x[1] = file /\ x[2] = rank
  BY FileOfRanks DEF Files
<1>2. ASSUME NEW h \in Hexes
      PROVE  Before(b, file, rank + 1)[h] = IF h = x THEN b[h] ELSE Before(b, file, rank)[h]
  <2>1. h[1] \in Int /\ h[2] \in Int /\ h = <<h[1], h[2]>>
    BY HexIs DEF Files
  <2>2. CASE h = x
    BY <1>1, <2>2 DEF Before
  <2>3. CASE h # x
    <3>1. h[1] # file \/ h[2] # rank
      BY <2>1, <2>3
    <3>2. (h[1] < file \/ (h[1] = file /\ h[2] < rank + 1)) <=> (h[1] < file \/ (h[1] = file /\ h[2] < rank))
      BY <1>1, <2>1, <3>1
    <3> QED
      BY <2>3, <3>2 DEF Before
  <2> QED
    BY <2>2, <2>3
<1>3. Before(b, file, rank)[x] = Empty
  BY <1>1 DEF Before
<1>4. Before(b, file, rank + 1) = [h \in Hexes |-> IF h = x THEN b[h] ELSE Before(b, file, rank)[h]]
  <2>1. Before(b, file, rank + 1) = [h \in Hexes |-> Before(b, file, rank + 1)[h]]
    BY DEF Before
  <2> HIDE DEF x
  <2> QED
    BY <1>2, <2>1
<1>5. Before(b, file, rank) = [h \in Hexes |-> Before(b, file, rank)[h]]
  BY DEF Before
<1>6. Before(b, file, rank + 1) = [Before(b, file, rank) EXCEPT ![x] = b[x]]
  <2> HIDE DEF x
  <2> QED
    BY <1>1, <1>4, <1>5
<1>7. ASSUME b[x] = Empty  PROVE Before(b, file, rank + 1) = Before(b, file, rank)
  <2> HIDE DEF x
  <2> QED
    BY <1>3, <1>4, <1>5, <1>7
<1> QED
  BY <1>6, <1>7

LEMMA BeforeFile ==
    ASSUME NEW b \in Boards, NEW file \in Files
    PROVE  Before(b, file, RanksPerFile(file)) = IF file < 10 THEN Before(b, file + 1, 0) ELSE b
<1>1. ASSUME NEW h \in Hexes
      PROVE  (h[1] < file \/ (h[1] = file /\ h[2] < RanksPerFile(file))) <=>
             IF file < 10 THEN h[1] < file + 1 \/ (h[1] = file + 1 /\ h[2] < 0) ELSE TRUE
  <2>1. h[1] \in 0 .. 10 /\ h[2] \in Nat /\ h[2] < RanksPerFile(h[1]) /\ file \in 0 .. 10
    BY HexIs DEF Files
  <2>2. h[1] = file => h[2] < RanksPerFile(file)
    BY <2>1
  <2>3. RanksPerFile(file) \in Int
    BY FileOfRanks
  <2> QED
    BY <2>1, <2>2, <2>3
<1>2. CASE file < 10
  BY <1>1, <1>2 DEF Before
<1>3. CASE ~(file < 10)
  <2>1. b = [h \in Hexes |-> b[h]]
    BY DEF Boards
  <2>2. \A h \in Hexes : Before(b, file, RanksPerFile(file))[h] = b[h]
    BY <1>1, <1>3 DEF Before
  <2>3. Before(b, file, RanksPerFile(file)) = [h \in Hexes |-> Before(b, file, RanksPerFile(file))[h]]
    BY DEF Before
  <2> QED
    BY <1>3, <2>1, <2>2, <2>3
<1> QED
  BY <1>2, <1>3

-----------------------------------------------------------------------------
(* A file, and all files, as written and as read.                            *)

\* The writer in a file, after some of its hexagons.
Writes(done, b, file, count) ==
    /\ done[0] = [text |-> <<>>, empty |-> 0]
    /\ \A n \in 1 .. count : done[n] = FenHex(done[n - 1], b[<<file, n - 1>>])

\* What the writer has, the reader reads, up to the empty hexagons not yet counted.
Halfway(d, b, file, count) ==
    /\ d \in [text : Seq(Tokens), empty : Nat]
    /\ d.empty <= count
    /\ Reads(Reader(file, 0, Before(b, file, 0)), d.text, Reader(file, count - d.empty, Before(b, file, count)))

LEMMA WritesHex ==
    ASSUME NEW b \in Boards, NEW file \in Files, NEW count \in 0 .. RanksPerFile(file) - 1,
           NEW d, Halfway(d, b, file, count)
    PROVE  Halfway(FenHex(d, b[<<file, count>>]), b, file, count + 1)
<1> DEFINE p == b[<<file, count>>]
           first == Reader(file, 0, Before(b, file, 0))
           here == Before(b, file, count)
           next == Before(b, file, count + 1)
<1>1. /\ d \in [text : Seq(Tokens), empty : Nat]
      /\ d.text \in Seq(Tokens) /\ d.empty \in Nat /\ d.empty <= count
      /\ count \in Nat /\ count < RanksPerFile(file)
      /\ count - d.empty \in Nat /\ count - d.empty + d.empty = count
  BY FileOfRanks DEF Halfway
<1>2. p \in Squares
  BY FileOfRanks DEF Boards
<1>3. next = [here EXCEPT ![<<file, count>>] = p] /\ (p = Empty => next = here)
  BY BeforeNext
<1>4. Reads(first, d.text, Reader(file, count - d.empty, here))
  BY DEF Halfway
<1> HIDE DEF p, first, here, next
<1>5. CASE p = Empty
  <2>1. FenHex(d, p) = [text |-> d.text, empty |-> d.empty + 1]
    BY <1>1, <1>5 DEF FenHex
  <2>2. count + 1 - (d.empty + 1) = count - d.empty /\ d.empty + 1 \in Nat /\ d.empty + 1 <= count + 1
    BY <1>1
  <2>3. Reads(first, d.text, Reader(file, count + 1 - (d.empty + 1), next))
    BY <1>3, <1>4, <1>5, <2>2
  <2> DEFINE more == FenHex(d, p)
  <2>4. more.text = d.text /\ more.empty = d.empty + 1 /\ more \in [text : Seq(Tokens), empty : Nat]
    BY <1>1, <2>1
  <2> HIDE DEF more
  <2>5. Halfway(more, b, file, count + 1)
    BY <2>2, <2>3, <2>4 DEF Halfway, first, next
  <2> QED
    BY <2>5 DEF more, p
<1>6. CASE p # Empty
  <2>1. FenHex(d, p) = [text |-> Append(Counted(d), Piece(p)), empty |-> 0]
    BY <1>6 DEF FenHex
  <2>2. Counted(d) \in Seq(Tokens) /\ Reads(first, Counted(d), Reader(file, count, here))
    <3>1. Counted(d) \in Seq(Tokens)
          /\ Reads(first, Counted(d), Reader(file, count - d.empty + d.empty, here))
      BY <1>1, <1>4, CountedReads
    <3> QED
      BY <1>1, <3>1
  <2>3. ParseFenToken(Reader(file, count, here), Piece(p)) = Reader(file, count + 1, next)
    <3>1. ParseFenToken(Reader(file, count, here), Piece(p)) =
              Reader(file, count + 1, [here EXCEPT ![<<file, count>>] = p])
      BY <1>1, <1>2, PieceDoes
    <3> QED
      BY <1>3, <3>1
  <2>4. Piece(p) \in Tokens
    BY <1>2, TokensAre
  <2>5. /\ Append(Counted(d), Piece(p)) \in Seq(Tokens)
        /\ Reads(first, Append(Counted(d), Piece(p)), Reader(file, count + 1, next))
    <3>1. /\ Append(Counted(d), Piece(p)) \in Seq(Tokens)
          /\ Reads(first, Append(Counted(d), Piece(p)), ParseFenToken(Reader(file, count, here), Piece(p)))
      BY <2>2, <2>4, ReadsToken
    <3> QED
      BY <2>3, <3>1
  <2> DEFINE more == FenHex(d, p)
  <2>6. /\ more.text = Append(Counted(d), Piece(p)) /\ more.empty = 0
        /\ more \in [text : Seq(Tokens), empty : Nat]
    BY <2>1, <2>5
  <2> HIDE DEF more
  <2>7. more.empty <= count + 1 /\ count + 1 - more.empty = count + 1
    BY <1>1, <2>6
  <2>8. Halfway(more, b, file, count + 1)
    BY <2>5, <2>6, <2>7 DEF Halfway, first, next
  <2> QED
    BY <2>8 DEF more, p
<1> QED
  BY <1>5, <1>6

LEMMA WritesFile ==
    ASSUME NEW b \in Boards, NEW file \in Files
    PROVE  \E done : /\ Writes(done, b, file, RanksPerFile(file))
                     /\ Halfway(done[RanksPerFile(file)], b, file, RanksPerFile(file))
<1> DEFINE count == RanksPerFile(file)
           S == {n \in 0 .. count : \E done : Writes(done, b, file, n) /\ Halfway(done[n], b, file, n)}
<1>1. count \in Nat
  BY FileOfRanks
<1>2. 0 \in S
  <2> DEFINE d == [text |-> <<>>, empty |-> 0]
             none == [n \in 0 .. 0 |-> d]
  <2>1. none[0] = d /\ Writes(none, b, file, 0)
    BY DEF Writes
  <2>2. /\ d.text = <<>> /\ d.empty = 0 /\ 0 - d.empty = 0 /\ d.empty <= 0
        /\ d \in [text : Seq(Tokens), empty : Nat]
    OBVIOUS
  <2>3. Reads(Reader(file, 0, Before(b, file, 0)), <<>>, Reader(file, 0, Before(b, file, 0)))
    BY ReadsNothing
  <2> HIDE DEF d
  <2>4. Halfway(d, b, file, 0)
    BY <2>2, <2>3 DEF Halfway
  <2> HIDE DEF none
  <2> QED
    BY <1>1, <2>1, <2>4
<1>3. ASSUME NEW n \in 1 .. count, n - 1 \in S  PROVE n \in S
  <2>1. n - 1 \in 0 .. count - 1 /\ n \in 0 .. count /\ n - 1 + 1 = n /\ n \in Nat
    BY <1>1
  <2>2. PICK done : Writes(done, b, file, n - 1) /\ Halfway(done[n - 1], b, file, n - 1)
    BY <1>3
  <2> DEFINE d == FenHex(done[n - 1], b[<<file, n - 1>>])
             more == [k \in 0 .. n |-> IF k = n THEN d ELSE done[k]]
  <2>3. Halfway(d, b, file, n)
    <3>1. Halfway(d, b, file, n - 1 + 1)
      BY <2>1, <2>2, WritesHex
    <3> QED
      BY <2>1, <3>1
  <2>4. more[n] = d /\ \A k \in 0 .. n - 1 : more[k] = done[k]
    BY <2>1
  <2>5. Writes(more, b, file, n)
    <3> HIDE DEF more, d
    <3>1. more[0] = [text |-> <<>>, empty |-> 0]
      BY <2>1, <2>2, <2>4 DEF Writes
    <3>2. ASSUME NEW k \in 1 .. n  PROVE more[k] = FenHex(more[k - 1], b[<<file, k - 1>>])
      <4>1. CASE k = n
        <5>1. more[k - 1] = done[n - 1]
          BY <2>1, <2>4, <4>1
        <5> QED
          BY <2>4, <4>1, <5>1 DEF d
      <4>2. CASE k # n
        <5>1. k \in 1 .. n - 1 /\ k \in 0 .. n - 1 /\ k - 1 \in 0 .. n - 1
          BY <2>1, <4>2
        <5> QED
          BY <2>2, <2>4, <5>1 DEF Writes
      <4> QED
        BY <4>1, <4>2
    <3> QED
      BY <3>1, <3>2 DEF Writes
  <2> HIDE DEF d, more
  <2> QED
    BY <2>1, <2>3, <2>4, <2>5
<1>4. count \in S
  <2> HIDE DEF count
  <2>1. S \in SUBSET (0 .. count)
    OBVIOUS
  <2>2. S = 0 .. count
    <3> HIDE DEF S
    <3> QED
      BY <1>1, <1>2, <1>3, <2>1, UpTo
  <2> QED
    BY <1>1, <2>2
<1> QED
  BY <1>4

LEMMA FenFileIsWritten ==
    ASSUME NEW b, NEW file \in Files, NEW chain, Writes(chain, b, file, RanksPerFile(file))
    PROVE  FenFile(b, file) = Counted(chain[RanksPerFile(file)]) \o (IF file = 10 THEN <<>> ELSE <<Slash>>)
<1> DEFINE count == RanksPerFile(file)
           Next1(f) == [n \in 0 .. RanksPerFile(file) |-> IF n = 0 THEN [text |-> <<>>, empty |-> 0]
                                            ELSE FenHex(f[n - 1], b[<<file, n - 1>>])]
           done == CHOOSE f : f = Next1(f)
           states == [n \in 0 .. count |-> chain[n]]
           Apart == {n \in 0 .. count : done[n] # chain[n]}
<1>0. count \in Nat
  BY FileOfRanks
<1>1. states = Next1(states)
  <2>1. ASSUME NEW n \in 0 .. count
        PROVE  states[n] = IF n = 0 THEN [text |-> <<>>, empty |-> 0]
                           ELSE FenHex(states[n - 1], b[<<file, n - 1>>])
    <3> HIDE DEF count
    <3>1. CASE n = 0
      BY <1>0, <3>1 DEF Writes
    <3>2. CASE n # 0
      <4>1. n \in 1 .. count /\ n - 1 \in 0 .. count
        BY <1>0, <3>2
      <4>2. chain[n] = FenHex(chain[n - 1], b[<<file, n - 1>>])
        BY <4>1 DEF Writes, count
      <4>3. states[n - 1] = chain[n - 1] /\ states[n] = chain[n]
        BY <4>1
      <4> QED
        BY <3>2, <4>2, <4>3, Zenon
    <3> QED
      BY <3>1, <3>2
  <2> QED
    BY <2>1
<1>2. done = Next1(done)
  BY <1>1, Zenon
<1>3. ASSUME NEW n \in 0 .. count
      PROVE  done[n] = IF n = 0 THEN [text |-> <<>>, empty |-> 0]
                       ELSE FenHex(done[n - 1], b[<<file, n - 1>>])
  <2> HIDE DEF done
  <2> QED
    BY <1>2
<1>4. done[count] = chain[count]
  <2> HIDE DEF done
  <2>1. SUFFICES ASSUME Apart # {} PROVE FALSE
    BY <1>0
  <2>2. Apart \in SUBSET Nat
    OBVIOUS
  <2>3. PICK n \in Apart : \A m \in Apart : n <= m
    BY <2>1, <2>2, Least, Zenon
  <2>4. n # 0
    BY <1>3, <2>3 DEF Writes
  <2>5. n \in 1 .. count /\ n - 1 \in 0 .. count /\ ~(n <= n - 1)
    BY <1>0, <2>3, <2>4
  <2>6. done[n - 1] = chain[n - 1]
    BY <2>3, <2>5
  <2>7. done[n] = FenHex(chain[n - 1], b[<<file, n - 1>>])
    BY <1>3, <2>5, <2>6
  <2>8. chain[n] = FenHex(chain[n - 1], b[<<file, n - 1>>])
    BY <2>5 DEF Writes
  <2> QED
    BY <2>3, <2>7, <2>8
<1>5. FenFile(b, file) = Counted(done[count]) \o (IF file = 10 THEN <<>> ELSE <<Slash>>)
  BY Zenon DEF FenFile
<1> QED
  BY <1>4, <1>5, Zenon

\* A file is read as it was written.
LEMMA FenFileReads ==
    ASSUME NEW b \in Boards, NEW file \in Files
    PROVE  /\ FenFile(b, file) \in Seq(Tokens)
           /\ Reads(Reader(file, 0, Before(b, file, 0)), FenFile(b, file), FileRead(b, file))
<1> DEFINE first == Reader(file, 0, Before(b, file, 0))
           count == RanksPerFile(file)
           board == Before(b, file, count)
<1>1. PICK done : Writes(done, b, file, count) /\ Halfway(done[count], b, file, count)
  BY WritesFile
<1> DEFINE text == Counted(done[count])
<1>2. FenFile(b, file) = text \o (IF file = 10 THEN <<>> ELSE <<Slash>>)
  BY <1>1, FenFileIsWritten
<1>3. count \in Nat /\ file \in 0 .. 10 /\ (file = 10 => count = 6)
  BY FileOfRanks DEF Files
<1>4. text \in Seq(Tokens) /\ Reads(first, text, Reader(file, count, board))
  <2> DEFINE d == done[count]
  <2>1. /\ d \in [text : Seq(Tokens), empty : Nat] /\ d.empty \in Nat /\ d.empty <= count
        /\ Reads(first, d.text, Reader(file, count - d.empty, board))
    BY <1>1 DEF Halfway
  <2> HIDE DEF d, first, count, board
  <2>2. count - d.empty \in Nat /\ count - d.empty + d.empty = count
    BY <1>3, <2>1
  <2>3. Counted(d) \in Seq(Tokens) /\ Reads(first, Counted(d), Reader(file, count - d.empty + d.empty, board))
    BY <2>1, <2>2, CountedReads
  <2> QED
    BY <2>2, <2>3 DEF d
<1>5. board = IF file < 10 THEN Before(b, file + 1, 0) ELSE b
  BY BeforeFile
<1> HIDE DEF text, first, count, board
<1>6. CASE file = 10
  <2>1. text \o <<>> = text
    BY <1>4
  <2>2. FileRead(b, file) = Reader(file, count, board)
    BY <1>3, <1>5, <1>6 DEF FileRead
  <2> QED
    BY <1>2, <1>4, <1>6, <2>1, <2>2 DEF first
<1>7. CASE file # 10
  <2>1. text \o <<Slash>> = Append(text, Slash)
    BY <1>4
  <2>2. ParseFenToken(Reader(file, count, board), Slash) = Reader(file + 1, 0, board)
    BY SlashDoes DEF count
  <2>3. FileRead(b, file) = Reader(file + 1, 0, board)
    BY <1>3, <1>5, <1>7 DEF FileRead
  <2>4. /\ Append(text, Slash) \in Seq(Tokens)
        /\ Reads(first, Append(text, Slash), ParseFenToken(Reader(file, count, board), Slash))
    BY <1>4, TokensAre, ReadsToken
  <2> QED
    BY <1>2, <1>7, <2>1, <2>2, <2>3, <2>4 DEF first
<1> QED
  BY <1>6, <1>7

\* The text of the files of a board, one after the other.
Joins(files, b, count) ==
    /\ files[0] = <<>>
    /\ \A n \in 1 .. count : files[n] = files[n - 1] \o FenFile(b, n - 1)

\* Where the reader is after so many files.
FilesRead(b, count) == IF count = 0 THEN Reader(0, 0, [h \in Hexes |-> Empty]) ELSE FileRead(b, count - 1)

\* All of them are written, and read.
Joined(text, b, count) ==
    text \in Seq(Tokens) /\ Reads(FilesRead(b, 0), text, FilesRead(b, count))

LEMMA NextFile ==
    ASSUME NEW b \in Boards, NEW file \in Files
    PROVE  FilesRead(b, file) = Reader(file, 0, Before(b, file, 0)) /\ FilesRead(b, file + 1) = FileRead(b, file)
<1>1. file \in 0 .. 10
  BY DEF Files
<1>2. CASE file = 0
  <2>1. \A h \in Hexes : ~(h[1] < 0 \/ (h[1] = 0 /\ h[2] < 0))
    BY HexIs DEF Files
  <2>2. Before(b, 0, 0) = [h \in Hexes |-> Empty]
    BY <2>1 DEF Before
  <2> QED
    BY <1>2, <2>2 DEF FilesRead
<1>3. CASE file # 0
  <2>1. \A n : n # 0 => FilesRead(b, n) = FileRead(b, n - 1)
    BY Zenon DEF FilesRead
  <2> DEFINE next == file + 1
  <2>2. next # 0 /\ next - 1 = file /\ file - 1 < 10 /\ file - 1 + 1 = file
    BY <1>1, <1>3
  <2> HIDE DEF next
  <2>3. FilesRead(b, next) = FileRead(b, next - 1)
    BY <2>1, <2>2
  <2>4. FilesRead(b, file) = FileRead(b, file - 1)
    BY <1>3, <2>1
  <2>5. FileRead(b, file - 1) = Reader(file - 1 + 1, 0, Before(b, file - 1 + 1, 0))
    BY <2>2 DEF FileRead
  <2> QED
    BY <2>2, <2>3, <2>4, <2>5 DEF next
<1> QED
  BY <1>2, <1>3

LEMMA JoinsFiles ==
    ASSUME NEW b \in Boards
    PROVE  \E files : Joins(files, b, 11) /\ Joined(files[11], b, 11)
<1> DEFINE S == {n \in 0 .. 11 : \E files : Joins(files, b, n) /\ Joined(files[n], b, n)}
<1>1. 0 \in S
  <2> DEFINE none == [n \in 0 .. 0 |-> <<>>]
  <2>1. none[0] = <<>> /\ Joins(none, b, 0)
    BY DEF Joins
  <2>2. Joined(<<>>, b, 0)
    BY ReadsNothing DEF Joined
  <2> HIDE DEF none
  <2> QED
    BY <2>1, <2>2
<1>2. ASSUME NEW n \in 1 .. 11, n - 1 \in S  PROVE n \in S
  <2>1. n - 1 \in Files /\ n - 1 + 1 = n /\ n \in 0 .. 11
    BY DEF Files
  <2>2. PICK files : Joins(files, b, n - 1) /\ Joined(files[n - 1], b, n - 1)
    BY <1>2
  <2> DEFINE text == files[n - 1]
             rest == FenFile(b, n - 1)
             more == [k \in 0 .. n |-> IF k = n THEN text \o rest ELSE files[k]]
  <2>3. text \in Seq(Tokens) /\ Reads(FilesRead(b, 0), text, FilesRead(b, n - 1))
    BY <2>2 DEF Joined
  <2>4. /\ FilesRead(b, n - 1) = Reader(n - 1, 0, Before(b, n - 1, 0))
        /\ FilesRead(b, n) = FileRead(b, n - 1)
    <3>1. FilesRead(b, n - 1 + 1) = FileRead(b, n - 1)
      BY <2>1, NextFile
    <3>2. FilesRead(b, n - 1) = Reader(n - 1, 0, Before(b, n - 1, 0))
      BY <2>1, NextFile
    <3> QED
      BY <2>1, <3>1, <3>2
  <2>5. rest \in Seq(Tokens) /\ Reads(FilesRead(b, n - 1), rest, FilesRead(b, n))
    <3>1. rest \in Seq(Tokens) /\ Reads(Reader(n - 1, 0, Before(b, n - 1, 0)), rest, FileRead(b, n - 1))
      BY <2>1, FenFileReads
    <3> QED
      BY <2>4, <3>1
  <2>6. more[n] = text \o rest /\ \A k \in 0 .. n - 1 : more[k] = files[k]
    BY <2>1
  <2> HIDE DEF text, rest, more
  <2>7. Joined(text \o rest, b, n)
    BY <2>3, <2>5, ReadsBoth DEF Joined
  <2>8. Joins(more, b, n)
    <3>1. more[0] = <<>>
      BY <2>2, <2>6 DEF Joins
    <3>2. ASSUME NEW k \in 1 .. n  PROVE more[k] = more[k - 1] \o FenFile(b, k - 1)
      <4>1. CASE k = n
        <5>1. more[k - 1] = text
          BY <2>1, <2>6, <4>1 DEF text
        <5> QED
          BY <2>6, <4>1, <5>1 DEF rest
      <4>2. CASE k # n
        <5>1. k \in 1 .. n - 1 /\ k \in 0 .. n - 1 /\ k - 1 \in 0 .. n - 1
          BY <4>2
        <5> QED
          BY <2>2, <2>6, <5>1 DEF Joins
      <4> QED
        BY <4>1, <4>2
    <3> QED
      BY <3>1, <3>2 DEF Joins
  <2> QED
    BY <2>1, <2>6, <2>7, <2>8
<1>3. S = 0 .. 11
  <2>1. S \in SUBSET (0 .. 11)
    OBVIOUS
  <2> HIDE DEF S
  <2> QED
    BY <1>1, <1>2, <2>1, UpTo
<1>4. 11 \in S
  <2> HIDE DEF S
  <2> QED
    BY <1>3
<1> QED
  BY <1>4

LEMMA FenIsWritten ==
    ASSUME NEW position, NEW chain, Joins(chain, position.board, 11)
    PROVE  Fen(position) = Append(chain[11], Turn(position.whiteTurn))
<1> DEFINE b == position.board
           Next1(f) == [n \in 0 .. 11 |-> IF n = 0 THEN <<>> ELSE f[n - 1] \o FenFile(position.board, n - 1)]
           files == CHOOSE f : f = Next1(f)
           states == [n \in 0 .. 11 |-> chain[n]]
           Apart == {n \in 0 .. 11 : files[n] # chain[n]}
<1>1. states = Next1(states)
  <2>1. ASSUME NEW n \in 0 .. 11
        PROVE  states[n] = IF n = 0 THEN <<>> ELSE states[n - 1] \o FenFile(b, n - 1)
    <3>1. CASE n = 0
      BY <3>1 DEF Joins
    <3>2. CASE n # 0
      <4>1. n \in 1 .. 11 /\ n - 1 \in 0 .. 11
        BY <3>2
      <4>2. chain[n] = chain[n - 1] \o FenFile(b, n - 1)
        BY <4>1 DEF Joins
      <4>3. states[n - 1] = chain[n - 1] /\ states[n] = chain[n]
        BY <4>1
      <4> QED
        BY <3>2, <4>2, <4>3, Zenon
    <3> QED
      BY <3>1, <3>2
  <2> QED
    BY <2>1
<1>2. files = Next1(files)
  BY <1>1, Zenon
<1>3. ASSUME NEW n \in 0 .. 11
      PROVE  files[n] = IF n = 0 THEN <<>> ELSE files[n - 1] \o FenFile(b, n - 1)
  <2> HIDE DEF files
  <2> QED
    BY <1>2
<1>4. files[11] = chain[11]
  <2> HIDE DEF files
  <2>1. SUFFICES ASSUME Apart # {} PROVE FALSE
    OBVIOUS
  <2>2. Apart \in SUBSET Nat
    OBVIOUS
  <2>3. PICK n \in Apart : \A m \in Apart : n <= m
    BY <2>1, <2>2, Least, Zenon
  <2>4. n # 0
    BY <1>3, <2>3 DEF Joins
  <2>5. n \in 1 .. 11 /\ n - 1 \in 0 .. 11 /\ ~(n <= n - 1)
    BY <2>3, <2>4
  <2>6. files[n - 1] = chain[n - 1]
    BY <2>3, <2>5
  <2>7. files[n] = chain[n - 1] \o FenFile(b, n - 1)
    <3>1. files[n] = files[n - 1] \o FenFile(b, n - 1)
      <4>1. n \in 0 .. 11 /\ n # 0
        BY <2>5
      <4> QED
        BY <1>3, <4>1, Zenon
    <3> QED
      BY <2>6, <3>1, Zenon
  <2>8. chain[n] = chain[n - 1] \o FenFile(b, n - 1)
    BY <2>5 DEF Joins
  <2> QED
    BY <2>3, <2>7, <2>8
<1>5. Fen(position) = Append(files[11], Turn(position.whiteTurn))
  BY Zenon DEF Fen
<1> QED
  BY <1>4, <1>5, Zenon

\* What is written of a position is read as it was.
LEMMA FenIsRead ==
    ASSUME NEW position, position.board \in Boards, position.whiteTurn \in BOOLEAN
    PROVE  LET parsed == ParseFen(Fen(position))
           IN  parsed.ok /\ parsed.board = position.board /\ parsed.whiteTurn = position.whiteTurn
<1> DEFINE b == position.board
           white == position.whiteTurn
           first == Reader(0, 0, [h \in Hexes |-> Empty])
           last == Reader(10, 6, b)
           over == Finished(last, white)
<1>1. PICK files : Joins(files, b, 11) /\ Joined(files[11], b, 11)
  BY JoinsFiles
<1> DEFINE text == files[11]
<1>2. Fen(position) = Append(text, Turn(white))
  BY <1>1, FenIsWritten
<1>3. FilesRead(b, 0) = first /\ FilesRead(b, 11) = last
  BY DEF FilesRead, FileRead
<1>4. text \in Seq(Tokens) /\ Reads(first, text, last)
  BY <1>1, <1>3 DEF Joined
<1>5. ParseFenToken(last, Turn(white)) = over
  <2>1. \A file \in Files : ParseFenToken(Reader(file, 6, b), Turn(white)) =
                                 Finished(Reader(file, 6, b), white)
    <3> HIDE DEF white, b
    <3> QED
      BY TurnDoes, Zenon
  <2>2. 10 \in Files
    BY DEF Files
  <2> HIDE DEF white, b
  <2> QED
    BY <2>1, <2>2
<1>6. Turn(white) \in Tokens
  BY TokensAre
<1>7. over.ok /\ over.file = 10 /\ over.over /\ over.board = b /\ over.whiteTurn = white
  BY DEF Reader, Finished
<1> HIDE DEF text, last, over, white, b
<1>8. Append(text, Turn(white)) \in Seq(Tokens) /\ Reads(first, Append(text, Turn(white)), over)
  BY <1>4, <1>5, <1>6, ReadsToken
<1>9. ParseFen(Fen(position)) = [over EXCEPT !.ok = @ /\ over.file = 10 /\ over.over]
  BY <1>2, <1>8, ParseIsReading
<1>10. over = Finished(Reader(10, 6, b), white)
  BY DEF over, last
<1>11. /\ ParseFen(Fen(position)).ok /\ ParseFen(Fen(position)).board = over.board
       /\ ParseFen(Fen(position)).whiteTurn = over.whiteTurn
  BY <1>7, <1>9, <1>10 DEF Reader, Finished
<1> QED
  BY <1>7, <1>11 DEF b, white

(***************************************************************************)
(* Every position of a game is read back from its notation as it was       *)
(* written: the pieces, the gaps between them in files of any length, and  *)
(* the side on the move (Board.Fen, ParseFen).                             *)
(***************************************************************************)
THEOREM PositionIsReadBack == Spec => []FenRoundTrip
<1>1. HexInv => FenRoundTrip
  <2> SUFFICES ASSUME HexInv PROVE FenRoundTrip
    OBVIOUS
  <2>1. game.board \in Boards /\ game.whiteTurn \in BOOLEAN
    BY DEF HexInv, Sound
  <2> QED
    BY <2>1, FenIsRead, Zenon DEF FenRoundTrip
<1> QED
  BY HexInvariant, <1>1, PTL
=============================================================================
