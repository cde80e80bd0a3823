---------------------------- MODULE Tournament_proofs -------------------------
(***************************************************************************)
(* Proofs about tournaments of any size: what the pairings of the three    *)
(* rulesets are, that rounds follow each other and are played by the right *)
(* players, that no committed match is forgotten, who wins, and that a     *)
(* knockout does not end.                                                  *)
(***************************************************************************)
EXTENDS Tournament, TLAPS, FiniteSetTheorems, SequenceTheorems, WellFoundedInduction

-----------------------------------------------------------------------------
(* Natural numbers: the least one of a set, and induction from it.           *)

LEMMA Least ==
    ASSUME NEW S \in SUBSET Nat, S # {}
    PROVE  \E n \in S : \A m \in S : n <= m
<1> DEFINE Segments == {0 .. n : n \in S}
<1>1. Segments # {}
  OBVIOUS
<1>2. Segments \subseteq FiniteSubsetsOf(Nat)
  <2>1. \A n \in S : IsFiniteSet(0 .. n) /\ 0 .. n \in SUBSET Nat
    BY FS_Interval
  <2> QED  BY <2>1 DEF FiniteSubsetsOf
<1>3. PICK T \in Segments : \A U \in Segments : ~(<<U, T>> \in StrictSubsetOrdering(Nat))
  BY <1>1, <1>2, FS_StrictSubsetOrderingWellFounded, WFMin, Zenon
<1>4. PICK n \in S : T = 0 .. n
  OBVIOUS
<1>5. ASSUME NEW m \in S  PROVE n <= m
  <2>1. SUFFICES ASSUME m < n PROVE FALSE
    OBVIOUS
  <2>2. 0 .. m \subseteq 0 .. n /\ 0 .. m # 0 .. n
    BY <2>1
  <2>3. <<0 .. m, 0 .. n>> \in StrictSubsetOrdering(Nat)
    BY <2>2 DEF StrictSubsetOrdering
  <2> QED  BY <1>3, <1>4, <2>3
<1> QED  BY <1>5

LEMMA LeastIsMin ==
    ASSUME NEW S \in SUBSET Nat, S # {}
    PROVE  Min(S) \in S /\ \A m \in S : Min(S) <= m
BY Least DEF Min

LEMMA Induct ==
    ASSUME NEW S \in SUBSET Nat, 0 \in S, \A n \in S : n + 1 \in S
    PROVE  S = Nat
<1>1. SUFFICES ASSUME Nat \ S # {} PROVE FALSE
  OBVIOUS
<1>2. PICK n \in Nat \ S : \A m \in Nat \ S : n <= m
  BY <1>1, Least
<1>3. n - 1 \in S
  BY <1>2
<1> QED  BY <1>2, <1>3

-----------------------------------------------------------------------------
(* Powers of two.                                                            *)

LEMMA PowerIsCardinality ==
    ASSUME NEW n \in Nat
    PROVE  /\ IsFiniteSet(SUBSET (1 .. n))
           /\ Cardinality(SUBSET (1 .. n)) = 2 ^ n
           /\ 2 ^ n \in Nat
<1>1. IsFiniteSet(1 .. n) /\ Cardinality(1 .. n) = n
  BY FS_Interval
<1>2. IsFiniteSet(SUBSET (1 .. n)) /\ Cardinality(SUBSET (1 .. n)) = 2 ^ n
  BY <1>1, FS_SUBSET
<1> QED  BY <1>2, FS_CardinalityType

LEMMA PowerDoubles ==
    ASSUME NEW n \in Nat
    PROVE  2 ^ (n + 1) = 2 * 2 ^ n
<1> DEFINE Without == SUBSET (1 .. n)
           With == {T \in SUBSET (1 .. n + 1) : n + 1 \in T}
           Add == [T \in Without |-> T \cup {n + 1}]
<1>1. IsFiniteSet(Without) /\ Cardinality(Without) = 2 ^ n
  BY PowerIsCardinality
<1>2. Cardinality(SUBSET (1 .. n + 1)) = 2 ^ (n + 1)
  BY PowerIsCardinality
<1>3. Add \in Bijection(Without, With)
  <2>1. \A T \in Without : T \cup {n + 1} \in With
    OBVIOUS
  <2>2. \A T, U \in Without : Add[T] = Add[U] => T = U
    <3>1. \A T \in Without : Add[T] \ {n + 1} = T
      OBVIOUS
    <3> QED  BY <3>1
  <2>3. \A T \in With : T \ {n + 1} \in Without /\ Add[T \ {n + 1}] = T
    OBVIOUS
  <2> QED  BY <2>1, <2>2, <2>3 DEF Bijection, Injection, Surjection, IsInjective
<1>4. IsFiniteSet(With) /\ Cardinality(With) = 2 ^ n
  BY <1>1, <1>3, FS_Bijection DEF ExistsBijection
<1>5. Without \cap With = {} /\ SUBSET (1 .. n + 1) = Without \cup With
  OBVIOUS
<1>6. Cardinality(SUBSET (1 .. n + 1)) = 2 ^ n + 2 ^ n - 0
  <2> HIDE DEF With, Without
  <2>1. Cardinality(Without \cup With) = Cardinality(Without) + Cardinality(With) - Cardinality(Without \cap With)
    BY <1>1, <1>4, FS_Union, Zenon
  <2>2. Cardinality(Without \cap With) = 0
    BY <1>5, FS_EmptySet
  <2> QED  BY <1>1, <1>4, <1>5, <2>1, <2>2
<1> QED  BY <1>2, <1>6, PowerIsCardinality

LEMMA PowerOfZero == 2 ^ 0 = 1
OBVIOUS

LEMMA PowerExceeds ==
    ASSUME NEW n \in Nat
    PROVE  n < 2 ^ n
<1> DEFINE S == {m \in Nat : m < 2 ^ m}
<1>1. 0 \in S
  BY PowerOfZero
<1>2. ASSUME NEW m \in S  PROVE m + 1 \in S
  <2>1. 2 ^ (m + 1) = 2 * 2 ^ m /\ 2 ^ m \in Nat /\ m < 2 ^ m
    BY PowerDoubles, PowerIsCardinality
  <2> QED  BY <2>1
<1>3. S = Nat
  <2> HIDE DEF S
  <2>1. S \in SUBSET Nat
    BY DEF S
  <2> QED  BY <1>1, <1>2, <2>1, Induct
<1> QED  BY <1>3

LEMMA SwissRoundsType ==
    ASSUME NEW n \in Nat
    PROVE  SwissRounds(n) \in Nat /\ (n >= 2 => SwissRounds(n) >= 1)
<1>1. CASE n = 0
  BY <1>1 DEF SwissRounds
<1>2. CASE n # 0
  <2> DEFINE S == {k \in Nat : n < 2 ^ (k + 1)}
  <2>1. n \in S
    BY PowerExceeds, PowerDoubles, PowerIsCardinality
  <2>2. PICK k \in S : \A m \in S : k <= m
    <3>1. S \in SUBSET Nat /\ S # {}
      BY <2>1
    <3> QED  BY <3>1, Least
  <2>3. k \in 0 .. n /\ n < 2 ^ (k + 1)
    BY <2>1, <2>2
  <2>4. 2 ^ k <= n
    <3>1. CASE k = 0
      BY <1>2, <3>1, PowerOfZero
    <3>2. CASE k # 0
      <4>1. k - 1 \in Nat /\ k - 1 \notin S /\ k - 1 + 1 = k
        BY <2>2, <3>2
      <4> QED  BY <4>1, PowerIsCardinality
    <3> QED  BY <3>1, <3>2
  <2>5. SwissRounds(n) \in 0 .. n /\ n < 2 ^ (SwissRounds(n) + 1)
    BY <1>2, <2>3, <2>4 DEF SwissRounds
  <2>6. n >= 2 => SwissRounds(n) # 0
    <3>1. SUFFICES ASSUME n >= 2, SwissRounds(n) = 0 PROVE FALSE
      OBVIOUS
    <3>2. 2 ^ (0 + 1) = 2 * 2 ^ 0
      BY PowerDoubles, Zenon
    <3>3. n < 2 ^ (0 + 1)
      BY <2>5, <3>1, Zenon
    <3> QED  BY <3>1, <3>2, <3>3, PowerOfZero
  <2> QED  BY <2>5, <2>6
<1> QED  BY <1>1, <1>2

-----------------------------------------------------------------------------
(* The pairings.                                                             *)

\* Ranked lists every user once.  The place of a user is the number of those
\* ahead of him: no two share one, so that every place is taken.
LEMMA RankedOrders ==
    ASSUME NEW users \in SUBSET Nat, IsFiniteSet(users),
           NEW score, \A u \in users : score[u] \in Nat
    PROVE  /\ Cardinality(users) \in Nat
           /\ Ranked(users, score) \in [1 .. Cardinality(users) -> users]
           /\ \A i, k \in 1 .. Cardinality(users) :
                 Ranked(users, score)[i] = Ranked(users, score)[k] => i = k
           /\ \A u \in users : \E k \in 1 .. Cardinality(users) : Ranked(users, score)[k] = u
<1> DEFINE n == Cardinality(users)
           A(u) == Ahead(u, users, score)
           place == [u \in users |-> Cardinality(A(u)) + 1]
           s == Ranked(users, score)
<1>1. n \in Nat
  BY FS_CardinalityType
<1>2. \A u \in users : A(u) \in SUBSET users /\ u \notin A(u)
  BY DEF Ahead, Before
<1>3. \A u \in users : IsFiniteSet(A(u)) /\ Cardinality(A(u)) \in Nat /\ Cardinality(A(u)) + 1 \in 1 .. n
  <2>1. TAKE u \in users
  <2>2. IsFiniteSet(A(u)) /\ Cardinality(A(u)) <= n /\ (n = Cardinality(A(u)) => users = A(u))
    BY <1>2, FS_Subset
  <2>3. Cardinality(A(u)) \in Nat /\ n # Cardinality(A(u))
    BY <1>2, <2>2, FS_CardinalityType
  <2> QED  BY <1>1, <2>2, <2>3
<1>4. ASSUME NEW u \in users, NEW v \in users, Before(u, v, score)
      PROVE  Cardinality(A(u)) # Cardinality(A(v))
  <2>1. A(u) \subseteq A(v) /\ u \in A(v)
    <3>1. \A w \in users : Before(w, u, score) => Before(w, v, score)
      <4>1. TAKE w \in users
      <4>2. u \in Nat /\ v \in Nat /\ w \in Nat
        OBVIOUS
      <4>3. score[u] \in Nat /\ score[v] \in Nat /\ score[w] \in Nat
        OBVIOUS
      <4> QED  BY <1>4, <4>2, <4>3 DEF Before
    <3> QED  BY <1>4, <3>1 DEF Ahead
  <2>2. A(u) # A(v)
    BY <1>2, <2>1
  <2> QED  BY <1>3, <2>1, <2>2, FS_Subset
<1>5. \A u, v \in users : u # v => Before(u, v, score) \/ Before(v, u, score)
  BY DEF Before
<1>6. place \in Injection(users, 1 .. n)
  <2>1. place \in [users -> 1 .. n]
    BY <1>3
  <2>2. \A u, v \in users : place[u] = place[v] => u = v
    BY <1>3, <1>4, <1>5
  <2> QED  BY <2>1, <2>2 DEF Injection, IsInjective
<1>7. place \in Surjection(users, 1 .. n)
  <2>1. IsFiniteSet(1 .. n) /\ Cardinality(1 .. n) = n
    BY <1>1, FS_Interval
  <2> QED  BY <1>6, <2>1, FS_Injection
<1>8. \A k \in 1 .. n : \E u \in users : Cardinality(A(u)) = k - 1
  <2>1. TAKE k \in 1 .. n
  <2>2. PICK u \in users : place[u] = k
    BY <1>7 DEF Surjection
  <2> QED  BY <1>1, <1>3, <2>2
<1>9. \A k \in 1 .. n : s[k] \in users /\ Cardinality(A(s[k])) = k - 1
  BY <1>8 DEF Ranked
<1>10. s \in [1 .. n -> users]
  BY <1>9 DEF Ranked
<1>11. \A i, k \in 1 .. n : s[i] = s[k] => i = k
  BY <1>1, <1>9
<1>12. \A u \in users : \E k \in 1 .. n : s[k] = u
  <2>1. TAKE u \in users
  <2>2. place[u] \in 1 .. n /\ Cardinality(A(s[place[u]])) = place[u] - 1
    BY <1>3, <1>9
  <2>3. s[place[u]] \in users /\ place[s[place[u]]] = place[u]
    BY <1>3, <1>9, <2>2
  <2>4. s[place[u]] = u
    BY <1>6, <2>3 DEF Injection, IsInjective
  <2> QED  BY <2>2, <2>4
<1> HIDE DEF n, s
<1> QED  BY <1>1, <1>10, <1>11, <1>12 DEF n, s

\* Nobody plays twice in a list of pairings or matches.
Disjoint(ps) ==
    \A i, k \in DOMAIN ps :
        /\ ps[i].white # ps[k].black
        /\ i # k => ps[i].white # ps[k].white /\ ps[i].black # ps[k].black

Plays(ps, u) == \E i \in DOMAIN ps : ps[i].white = u \/ ps[i].black = u

PairingSet == [white : Users, black : Users]

\* A list of pairings in which everybody of a set plays once.
Fits(ps, players) ==
    /\ ps \in Seq(PairingSet)
    /\ Disjoint(ps)
    /\ \A u : Plays(ps, u) <=> u \in players

LEMMA FunctionIsSeq ==
    ASSUME NEW S, NEW n \in Nat, NEW s \in [1 .. n -> S]
    PROVE  s \in Seq(S) /\ Len(s) = n /\ DOMAIN s = 1 .. n
BY SeqDef

\* Neighbours meet: everybody of an even number plays once.
LEMMA LinearlyFits ==
    ASSUME NEW ps \in Seq(Users), IsInjective(ps), Len(ps) % 2 = 0
    PROVE  Fits(Linearly(ps), ToSet(ps)) /\ Len(Linearly(ps)) = Len(ps) \div 2
<1> DEFINE n == Len(ps) \div 2
           qs == Linearly(ps)
<1>1. n \in Nat /\ Len(ps) = 2 * n /\ DOMAIN ps = 1 .. Len(ps)
  OBVIOUS
<1>2. \A i \in 1 .. n : 2 * i - 1 \in 1 .. Len(ps) /\ 2 * i \in 1 .. Len(ps)
  BY <1>1
<1>3. qs \in [1 .. n -> PairingSet]
  BY <1>2 DEF Linearly, Pairing, PairingSet
<1>4. qs \in Seq(PairingSet) /\ Len(qs) = n /\ DOMAIN qs = 1 .. n
  BY <1>1, <1>3, FunctionIsSeq
<1>5. \A i \in 1 .. n : qs[i].white = ps[2 * i - 1] /\ qs[i].black = ps[2 * i]
  BY DEF Linearly, Pairing
<1>6. \A i, k \in 1 .. Len(ps) : ps[i] = ps[k] => i = k
  BY <1>1 DEF IsInjective
<1>7. Disjoint(qs)
  <2>1. SUFFICES ASSUME NEW i \in 1 .. n, NEW k \in 1 .. n
                 PROVE  /\ ps[2 * i - 1] # ps[2 * k]
                        /\ i # k => ps[2 * i - 1] # ps[2 * k - 1] /\ ps[2 * i] # ps[2 * k]
    BY <1>4, <1>5 DEF Disjoint
  <2>2. /\ 2 * i - 1 \in 1 .. Len(ps) /\ 2 * i \in 1 .. Len(ps)
        /\ 2 * k - 1 \in 1 .. Len(ps) /\ 2 * k \in 1 .. Len(ps)
    BY <1>2
  <2>3. 2 * i - 1 # 2 * k /\ (i # k => 2 * i - 1 # 2 * k - 1 /\ 2 * i # 2 * k)
    BY <1>1
  <2> QED  BY <1>6, <2>2, <2>3
<1>8. \A u : Plays(qs, u) <=> u \in ToSet(ps)
  <2>1. \A j \in 1 .. Len(ps) : \E i \in 1 .. n : j = 2 * i - 1 \/ j = 2 * i
    <3>1. TAKE j \in 1 .. Len(ps)
    <3>2. (j + 1) \div 2 \in 1 .. n
          /\ (j = 2 * ((j + 1) \div 2) - 1 \/ j = 2 * ((j + 1) \div 2))
      BY <1>1
    <3> QED  BY <3>2
  <2>2. \A i \in 1 .. n : qs[i].white \in ToSet(ps) /\ qs[i].black \in ToSet(ps)
    BY <1>1, <1>2, <1>5 DEF ToSet
  <2>3. ASSUME NEW u \in ToSet(ps)  PROVE Plays(qs, u)
    <3>1. PICK j \in 1 .. Len(ps) : ps[j] = u
      BY <1>1 DEF ToSet
    <3>2. PICK i \in 1 .. n : j = 2 * i - 1 \/ j = 2 * i
      BY <2>1
    <3> QED  BY <1>4, <1>5, <3>1, <3>2 DEF Plays
  <2> QED  BY <1>4, <2>2, <2>3 DEF Plays
<1> QED  BY <1>4, <1>7, <1>8 DEF Fits

LEMMA InjectiveCount ==
    ASSUME NEW ps \in Seq(Users), IsInjective(ps)
    PROVE  IsFiniteSet(ToSet(ps)) /\ Cardinality(ToSet(ps)) = Len(ps)
<1>1. Len(ps) \in Nat /\ DOMAIN ps = 1 .. Len(ps)
  OBVIOUS
<1>2. IsFiniteSet(1 .. Len(ps)) /\ Cardinality(1 .. Len(ps)) = Len(ps)
  BY <1>1, FS_Interval
<1>3. ps \in Bijection(1 .. Len(ps), ToSet(ps))
  BY <1>1 DEF Bijection, Injection, Surjection, IsInjective, ToSet
<1> QED  BY <1>2, <1>3, FS_Bijection DEF ExistsBijection

\* The best meet the worst: everybody of an even number plays once.
LEMMA CrissCrossFits ==
    ASSUME NEW ps \in Seq(Users), IsInjective(ps), Len(ps) % 2 = 0
    PROVE  Fits(CrissCross(ps), ToSet(ps)) /\ Len(CrissCross(ps)) = Len(ps) \div 2
<1> DEFINE users == ToSet(ps)
           n == Len(ps)
           s == Ranked(users, Elo)
           qs == CrissCross(ps)
<1>1. users \in SUBSET Users /\ users \in SUBSET Nat /\ \A u \in users : Elo[u] \in Nat
  <2>1. users \in SUBSET Users
    BY DEF ToSet
  <2> QED  BY <2>1, RatingsAssumption
<1>2. IsFiniteSet(users) /\ Cardinality(users) = n
  BY InjectiveCount
<1>3. /\ s \in [1 .. n -> users]
      /\ \A i, k \in 1 .. n : s[i] = s[k] => i = k
      /\ \A u \in users : \E k \in 1 .. n : s[k] = u
  BY <1>1, <1>2, RankedOrders
<1>4. s \in Seq(Users) /\ Len(s) = n /\ n \in Nat
  <2>1. s \in [1 .. n -> Users]
    BY <1>1, <1>3
  <2> QED  BY <2>1, FunctionIsSeq
<1>5. qs = [i \in 1 .. n \div 2 |-> Pairing(s[i], s[n + 1 - i])]
  BY <1>4 DEF CrissCross
<1> HIDE DEF s, users, qs
<1>6. \A i \in 1 .. n \div 2 : i \in 1 .. n /\ n + 1 - i \in 1 .. n
  BY <1>4
<1>7. qs \in [1 .. n \div 2 -> PairingSet]
  BY <1>1, <1>3, <1>5, <1>6 DEF Pairing, PairingSet
<1>8. qs \in Seq(PairingSet) /\ Len(qs) = n \div 2 /\ DOMAIN qs = 1 .. n \div 2
  BY <1>4, <1>7, FunctionIsSeq
<1>9. \A i \in 1 .. n \div 2 : qs[i].white = s[i] /\ qs[i].black = s[n + 1 - i]
  BY <1>5 DEF Pairing
<1>10. Disjoint(qs)
  BY <1>3, <1>4, <1>6, <1>8, <1>9 DEF Disjoint
<1>11. \A u : Plays(qs, u) <=> u \in users
  <2>1. \A j \in 1 .. n : \E i \in 1 .. n \div 2 : j = i \/ j = n + 1 - i
    <3>1. TAKE j \in 1 .. n
    <3>2. CASE j <= n \div 2
      BY <3>2
    <3>3. CASE j > n \div 2
      <4>1. n + 1 - j \in 1 .. n \div 2 /\ j = n + 1 - (n + 1 - j)
        BY <1>4, <3>3
      <4> QED  BY <4>1
    <3> QED  BY <3>2, <3>3, <1>4
  <2>2. \A i \in 1 .. n \div 2 : qs[i].white \in users /\ qs[i].black \in users
    BY <1>3, <1>6, <1>9
  <2>3. ASSUME NEW u \in users  PROVE Plays(qs, u)
    <3>1. PICK k \in 1 .. n : s[k] = u
      BY <1>3
    <3>2. PICK i \in 1 .. n \div 2 : k = i \/ k = n + 1 - i
      BY <2>1
    <3> QED  BY <1>8, <1>9, <3>1, <3>2 DEF Plays
  <2> QED  BY <1>8, <2>2, <2>3 DEF Plays
<1> QED  BY <1>8, <1>10, <1>11 DEF Fits, users, qs

MatchSet == [round : Nat \ {0}, white : Users, black : Users,
             result : {"WhiteWin", "BlackWin", "None"}]

Sorted(ms) == \A i, k \in DOMAIN ms : i <= k => ms[i].round <= ms[k].round

\* The last round is what is left of the matches from its first one on.
LEMMA PrevRoundIs ==
    ASSUME NEW ms \in Seq(MatchSet), ms # <<>>, Sorted(ms)
    PROVE  /\ PrevRound(ms) \in Seq(MatchSet)
           /\ PrevRound(ms) # <<>>
           /\ \E f \in 1 .. Len(ms) :
                 /\ Len(PrevRound(ms)) = Len(ms) - f + 1
                 /\ \A i \in 1 .. Len(ms) - f + 1 : PrevRound(ms)[i] = ms[f + i - 1]
                 /\ \A i \in 1 .. Len(ms) : ms[i].round = Last(ms).round <=> f <= i
<1> DEFINE L == Len(ms)
           S == {i \in DOMAIN ms : ms[i].round = Last(ms).round}
           f == Min(S)
           prev == PrevRound(ms)
<1>1. L \in Nat \ {0} /\ DOMAIN ms = 1 .. L /\ \A i \in 1 .. L : ms[i] \in MatchSet
  OBVIOUS
<1>2. L \in S
  BY <1>1 DEF Last
<1>3. f \in S /\ \A i \in S : f <= i
  <2> HIDE DEF S
  <2>1. S \in SUBSET Nat /\ S # {}
    BY <1>1, <1>2 DEF S
  <2> QED  BY <2>1, LeastIsMin
<1>4. f \in 1 .. L
  BY <1>1, <1>3
<1>5. \A i \in 1 .. L : ms[i].round \in Nat
  BY <1>1 DEF MatchSet
<1>6. \A i \in 1 .. L : ms[i].round = Last(ms).round <=> f <= i
  <2>1. TAKE i \in 1 .. L
  <2>2. CASE f <= i
    <3>1. ms[f].round <= ms[i].round /\ ms[i].round <= ms[L].round /\ ms[f].round = ms[L].round
      BY <1>1, <1>3, <1>4, <2>2 DEF Sorted, Last
    <3> QED  BY <1>1, <1>4, <1>5, <2>2, <3>1 DEF Last
  <2>3. CASE ~ (f <= i)
    BY <1>1, <1>3, <2>3
  <2> QED  BY <2>2, <2>3
<1> HIDE DEF f
<1>7. prev = SubSeq(ms, f, L)
  BY DEF PrevRound, f
<1>8. /\ prev \in Seq(MatchSet)
      /\ Len(prev) = L - f + 1
      /\ \A i \in 1 .. L - f + 1 : prev[i] = ms[f + i - 1]
  <2>1. f \in Int /\ L \in Int /\ f <= L /\ \A i \in f .. L : ms[i] \in MatchSet
    BY <1>1, <1>4
  <2> QED  BY <1>7, <2>1, SubSeqProperties
<1>9. prev # <<>>
  BY <1>1, <1>4, <1>8
<1> QED  BY <1>4, <1>6, <1>8, <1>9

\* The rotation keeps the players, and everybody still plays once.
LEMMA RoundRobinFits ==
    ASSUME NEW ms, PrevRound(ms) \in Seq(MatchSet), PrevRound(ms) # <<>>,
           Disjoint(PrevRound(ms)),
           NEW players, \A u : Plays(PrevRound(ms), u) <=> u \in players
    PROVE  Fits(DoRoundRobinMatchmaking(ms), players) /\ DoRoundRobinMatchmaking(ms) # <<>>
<1> DEFINE prev == PrevRound(ms)
           n == Len(prev)
           qs == DoRoundRobinMatchmaking(ms)
<1> HIDE DEF prev, qs
<1>1. prev \in Seq(MatchSet) /\ prev # <<>> /\ Disjoint(prev) /\ \A u : Plays(prev, u) <=> u \in players
  BY DEF prev
<1>2. n \in Nat \ {0} /\ DOMAIN prev = 1 .. n
  BY <1>1
<1>3. \A i \in 1 .. n : prev[i].white \in Users /\ prev[i].black \in Users
  <2>1. \A i \in 1 .. n : prev[i] \in MatchSet
    BY <1>1, <1>2
  <2> QED  BY <2>1 DEF MatchSet
<1>4. qs = [i \in 1 .. n |->
              IF i = 1 THEN Pairing(prev[1].white, prev[n].black)
              ELSE Pairing(prev[i - 1].black, prev[i].white)]
  BY DEF qs, prev, DoRoundRobinMatchmaking, Last
<1>5. \A i \in 1 .. n : i # 1 => i - 1 \in 1 .. n
  BY <1>2
<1>6. \A i \in 1 .. n :
         /\ qs[i].white = IF i = 1 THEN prev[1].white ELSE prev[i - 1].black
         /\ qs[i].black = IF i = 1 THEN prev[n].black ELSE prev[i].white
  BY <1>4 DEF Pairing
<1>7. qs \in Seq(PairingSet) /\ Len(qs) = n /\ DOMAIN qs = 1 .. n
  <2>1. \A i \in 1 .. n : qs[i] \in PairingSet
    BY <1>2, <1>3, <1>4, <1>5 DEF Pairing, PairingSet
  <2>2. qs \in [1 .. n -> PairingSet]
    BY <1>4, <2>1
  <2> QED  BY <1>2, <2>2, FunctionIsSeq
<1>8. Disjoint(qs)
  <2>1. SUFFICES ASSUME NEW i \in 1 .. n, NEW k \in 1 .. n
                 PROVE  /\ qs[i].white # qs[k].black
                        /\ i # k => qs[i].white # qs[k].white /\ qs[i].black # qs[k].black
    BY <1>7 DEF Disjoint
  <2>2. \A a, b \in 1 .. n :
           /\ prev[a].white # prev[b].black
           /\ a # b => prev[a].white # prev[b].white /\ prev[a].black # prev[b].black
    BY <1>1, <1>2 DEF Disjoint
  <2>3. 1 \in 1 .. n /\ n \in 1 .. n
    BY <1>2
  <2>4. CASE i = 1 /\ k = 1
    BY <1>6, <2>2, <2>3, <2>4
  <2>5. CASE i = 1 /\ k # 1
    BY <1>2, <1>5, <1>6, <2>2, <2>3, <2>5
  <2>6. CASE i # 1 /\ k = 1
    BY <1>2, <1>5, <1>6, <2>2, <2>3, <2>6
  <2>7. CASE i # 1 /\ k # 1
    BY <1>2, <1>5, <1>6, <2>2, <2>7
  <2> QED  BY <2>4, <2>5, <2>6, <2>7
<1> HIDE DEF n
<1>9. \A u : Plays(qs, u) <=> Plays(prev, u)
  <2>1. ASSUME NEW u, Plays(qs, u)  PROVE Plays(prev, u)
    <3>1. PICK i \in 1 .. n : qs[i].white = u \/ qs[i].black = u
      BY <1>7, <2>1 DEF Plays
    <3>2. 1 \in 1 .. n /\ n \in 1 .. n
      BY <1>2
    <3>3. CASE i = 1
      BY <1>2, <1>6, <3>1, <3>2, <3>3 DEF Plays
    <3>4. CASE i # 1
      <4>1. i - 1 \in DOMAIN prev /\ i \in DOMAIN prev
        BY <1>2, <1>5, <3>4
      <4>2. prev[i - 1].black = u \/ prev[i].white = u
        BY <1>6, <3>1, <3>4
      <4> QED  BY <4>1, <4>2 DEF Plays
    <3> QED  BY <3>3, <3>4
  <2>2. ASSUME NEW i \in 1 .. n
        PROVE  Plays(qs, prev[i].white) /\ Plays(qs, prev[i].black)
    <3>1. Plays(qs, prev[i].white)
      BY <1>6, <1>7 DEF Plays
    <3>2. Plays(qs, prev[i].black)
      <4>1. CASE i = n
        <5>1. 1 \in 1 .. n /\ qs[1].black = prev[i].black
          BY <1>2, <1>6, <4>1
        <5> QED  BY <1>7, <5>1 DEF Plays
      <4>2. CASE i # n
        <5>1. i + 1 \in 1 .. n /\ i + 1 # 1 /\ i + 1 - 1 = i
          BY <1>2, <4>2
        <5>2. qs[i + 1].white = prev[i].black
          BY <1>6, <5>1
        <5> QED  BY <1>7, <5>1, <5>2 DEF Plays
      <4> QED  BY <4>1, <4>2
    <3> QED  BY <3>1, <3>2
  <2>3. ASSUME NEW u, Plays(prev, u)  PROVE Plays(qs, u)
    <3>1. PICK i \in 1 .. n : prev[i].white = u \/ prev[i].black = u
      BY <1>2, <2>3 DEF Plays
    <3> QED  BY <2>2, <3>1
  <2> QED  BY <2>1, <2>3
<1>10. qs # <<>>
  BY <1>2, <1>7
<1> QED  BY <1>1, <1>7, <1>8, <1>9, <1>10 DEF Fits, qs

\* The winners of the last round play on, half as many matches.
LEMMA KnockoutFits ==
    ASSUME NEW ms, PrevRound(ms) \in Seq(MatchSet), Disjoint(PrevRound(ms)),
           Len(PrevRound(ms)) % 2 = 0,
           NEW winners,
           \A u : (\E i \in DOMAIN PrevRound(ms) : KnockoutWinner(PrevRound(ms)[i]) = u)
                     <=> u \in winners
    PROVE  /\ Fits(DoKnockoutMatchmaking(ms), winners)
           /\ Len(DoKnockoutMatchmaking(ms)) = Len(PrevRound(ms)) \div 2
<1> DEFINE prev == PrevRound(ms)
           w == [i \in DOMAIN prev |-> KnockoutWinner(prev[i])]
<1>1. prev \in Seq(MatchSet) /\ Disjoint(prev) /\ Len(prev) \in Nat /\ DOMAIN prev = 1 .. Len(prev)
  OBVIOUS
<1>2. \A i \in DOMAIN prev : prev[i].white \in Users /\ prev[i].black \in Users
  <2>1. \A i \in DOMAIN prev : prev[i] \in MatchSet
    BY <1>1
  <2> QED  BY <2>1 DEF MatchSet
<1>3. \A i \in DOMAIN prev : w[i] = prev[i].white \/ w[i] = prev[i].black
  BY DEF KnockoutWinner
<1>4. w \in Seq(Users) /\ Len(w) = Len(prev)
  <2>1. w \in [1 .. Len(prev) -> Users]
    BY <1>1, <1>2, <1>3
  <2> QED  BY <1>1, <2>1, FunctionIsSeq
<1>5. IsInjective(w)
  <2>1. SUFFICES ASSUME NEW i \in DOMAIN prev, NEW k \in DOMAIN prev, i # k
                 PROVE  w[i] # w[k]
    BY DEF IsInjective
  <2>2. /\ prev[i].white # prev[k].white /\ prev[i].black # prev[k].black
        /\ prev[i].white # prev[k].black /\ prev[k].white # prev[i].black
    BY <1>1, <2>1 DEF Disjoint
  <2>3. (w[i] = prev[i].white \/ w[i] = prev[i].black) /\ (w[k] = prev[k].white \/ w[k] = prev[k].black)
    BY <1>3
  <2> HIDE DEF w
  <2> QED  BY <2>2, <2>3
<1>6. ToSet(w) = winners
  <2>1. \A u : u \in ToSet(w) <=> \E i \in DOMAIN prev : KnockoutWinner(prev[i]) = u
    BY DEF ToSet
  <2> QED  BY <2>1
<1>7. DoKnockoutMatchmaking(ms) = Linearly(w)
  <2>1. \A i \in 1 .. Len(prev) \div 2 : 2 * i - 1 \in DOMAIN prev /\ 2 * i \in DOMAIN prev
    BY <1>1
  <2>2. \A i \in 1 .. Len(prev) \div 2 :
           w[2 * i - 1] = KnockoutWinner(prev[2 * i - 1]) /\ w[2 * i] = KnockoutWinner(prev[2 * i])
    BY <2>1
  <2>3. DoKnockoutMatchmaking(ms) = [i \in 1 .. Len(prev) \div 2 |->
                 Pairing(KnockoutWinner(prev[2 * i - 1]), KnockoutWinner(prev[2 * i]))]
    BY DEF DoKnockoutMatchmaking
  <2> HIDE DEF w, prev
  <2> QED  BY <1>4, <2>2, <2>3 DEF Linearly
<1> HIDE DEF w
<1> QED  BY <1>4, <1>5, <1>6, <1>7, LinearlyFits

LEMMA PlayersOfPlay ==
    ASSUME NEW ms, NEW u
    PROVE  u \in PlayersOf(ms) <=> Plays(ms, u)
BY DEF PlayersOf, Plays

LEMMA PointsType ==
    ASSUME NEW ms \in Seq(MatchSet), NEW u, NEW white, NEW black
    PROVE  Points(ms, u, white, black) \in Nat
<1> DEFINE S == {i \in DOMAIN ms :
                    \/ ms[i].white = u /\ ms[i].result = white
                    \/ ms[i].black = u /\ ms[i].result = black}
<1>1. IsFiniteSet(DOMAIN ms)
  <2>1. Len(ms) \in Nat /\ DOMAIN ms = 1 .. Len(ms)
    OBVIOUS
  <2> QED  BY <2>1, FS_Interval
<1>2. S \in SUBSET DOMAIN ms
  OBVIOUS
<1>3. Cardinality(S) \in Nat
  <2> HIDE DEF S
  <2> QED  BY <1>1, <1>2, FS_Subset, FS_CardinalityType
<1>4. Points(ms, u, white, black) = Cardinality(S)
  BY DEF Points
<1> QED  BY <1>3, <1>4, Zenon

\* No game of a tournament is drawn here: the score of a player is in his wins.
LEMMA SwissScoreIsWins ==
    ASSUME NEW ms \in Seq(MatchSet), NEW u
    PROVE  SwissScore(ms, u) = 2 * Wins(ms, u) /\ Wins(ms, u) \in Nat
<1>1. \A i \in DOMAIN ms : ms[i].result # "Draw"
  <2>1. \A i \in DOMAIN ms : ms[i] \in MatchSet
    OBVIOUS
  <2> QED  BY <2>1 DEF MatchSet
<1>2. Points(ms, u, "Draw", "Draw") = 0
  <2>1. {i \in DOMAIN ms :
            \/ ms[i].white = u /\ ms[i].result = "Draw"
            \/ ms[i].black = u /\ ms[i].result = "Draw"} = {}
    BY <1>1
  <2> QED  BY <2>1, FS_EmptySet DEF Points
<1>3. Wins(ms, u) \in Nat
  BY PointsType DEF Wins
<1> QED  BY <1>2, <1>3 DEF SwissScore

\* Whoever has played is paired with a neighbour of the table.
LEMMA SwissFits ==
    ASSUME NEW ms \in Seq(MatchSet), NEW ps \in Seq(Users), IsInjective(ps), Len(ps) % 2 = 0,
           PlayersOf(ms) = ToSet(ps)
    PROVE  /\ Fits(DoSwissMatchmaking(ms), ToSet(ps))
           /\ Len(DoSwissMatchmaking(ms)) = Len(ps) \div 2
<1> DEFINE users == PlayersOf(ms)
           score == [u \in users |-> SwissScore(ms, u)]
           n == Len(ps)
           s == Ranked(users, score)
<1>1. users \in SUBSET Users /\ users \in SUBSET Nat
  <2>1. users \in SUBSET Users
    BY DEF ToSet
  <2> QED  BY <2>1, RatingsAssumption
<1>2. \A u \in users : score[u] \in Nat
  BY SwissScoreIsWins
<1>3. IsFiniteSet(users) /\ Cardinality(users) = n
  BY InjectiveCount
<1>4. /\ s \in [1 .. n -> users]
      /\ \A i, k \in 1 .. n : s[i] = s[k] => i = k
      /\ \A u \in users : \E k \in 1 .. n : s[k] = u
  <2> HIDE DEF score, users
  <2> QED  BY <1>1, <1>2, <1>3, RankedOrders
<1>5. s \in Seq(Users) /\ Len(s) = n /\ DOMAIN s = 1 .. n
  <2>1. s \in [1 .. n -> Users] /\ n \in Nat
    BY <1>1, <1>4
  <2> HIDE DEF s, n
  <2> QED  BY <2>1, FunctionIsSeq
<1>6. DoSwissMatchmaking(ms) = Linearly(s)
  BY DEF DoSwissMatchmaking, Linearly
<1> HIDE DEF s
<1>7. IsInjective(s)
  BY <1>4, <1>5 DEF IsInjective
<1>8. ToSet(s) = users
  <2>1. \A u \in users : u \in ToSet(s)
    BY <1>4, <1>5 DEF ToSet
  <2>2. \A u \in ToSet(s) : u \in users
    BY <1>4, <1>5 DEF ToSet
  <2> HIDE DEF users
  <2> QED  BY <2>1, <2>2
<1>9. Len(s) % 2 = 0
  BY <1>5
<1> QED  BY <1>5, <1>6, <1>7, <1>8, <1>9, LinearlyFits

LEMMA FirstMatchesFit ==
    ASSUME NEW kind \in {"Knockout", "RoundRobin", "Swiss"},
           NEW ps \in Seq(Users), IsInjective(ps), Len(ps) % 2 = 0
    PROVE  /\ Fits(NewFirstMatches(kind, ps), ToSet(ps))
           /\ Len(NewFirstMatches(kind, ps)) = Len(ps) \div 2
BY LinearlyFits, CrissCrossFits DEF NewFirstMatches

\* With the best score nobody has won more often.
LEMMA WinnersHaveMost ==
    ASSUME NEW kind \in {"RoundRobin", "Swiss"}, NEW ms \in Seq(MatchSet),
           NEW best \in TournamentWinners(kind, ms)
    PROVE  /\ best \in PlayersOf(ms)
           /\ \A u \in PlayersOf(ms) : Wins(ms, u) <= Wins(ms, best)
<1>1. best \in PlayersOf(ms) /\ \A u \in PlayersOf(ms) : Score(kind, ms, best) >= Score(kind, ms, u)
  BY DEF TournamentWinners
<1>2. \A u : Wins(ms, u) \in Nat /\ SwissScore(ms, u) = 2 * Wins(ms, u)
  BY SwissScoreIsWins
<1>3. \A u : Score(kind, ms, u) = Wins(ms, u) \/ Score(kind, ms, u) = 2 * Wins(ms, u)
  BY <1>2 DEF Score
<1>4. CASE kind = "RoundRobin"
  BY <1>1, <1>4 DEF Score
<1>5. CASE kind = "Swiss"
  <2>1. \A u : Score(kind, ms, u) = 2 * Wins(ms, u)
    BY <1>2, <1>5 DEF Score
  <2> QED  BY <1>1, <1>2, <2>1
<1> QED  BY <1>4, <1>5

-----------------------------------------------------------------------------
(* The inductive invariant.                                                  *)

PlaysIn(ms, r, u) ==
    \E i \in DOMAIN ms : ms[i].round = r /\ (ms[i].white = u \/ ms[i].black = u)

WinsIn(ms, r, u) == \E i \in DOMAIN ms : ms[i].round = r /\ KnockoutWinner(ms[i]) = u

OncePerRound(ms) ==
    \A i, k \in DOMAIN ms : ms[i].round = ms[k].round =>
        /\ ms[i].white # ms[k].black
        /\ i # k => ms[i].white # ms[k].white /\ ms[i].black # ms[k].black

\* The matches of the lobby, and how many may play.
LobbyInv ==
    /\ status \in {"LOBBY", "SCHEDULED"} => matches = <<>>
    /\ matches # <<>> => Len(participants) % 2 = 0

\* The number of rounds.
TotalInv ==
    /\ ruleset = "Knockout" => rounds = course.rounds /\ status # "FINISHED"
    /\ status = "IN_PROGRESS" => LastRound <= rounds

\* One round after the other, and who plays in each.
RoundsInv ==
    /\ Sorted(matches)
    /\ OncePerRound(matches)
    /\ RoundsInOrder

\* The first round is the participants'; so is every other one, or the winners'.
FieldInv ==
    matches # <<>> =>
        /\ \A u \in Users : PlaysIn(matches, 1, u) <=> u \in ToSet(participants)
        /\ \A r \in 2 .. LastRound : \A u \in Users :
              PlaysIn(matches, r, u) <=>
                  IF ruleset = "Knockout" THEN WinsIn(matches, r - 1, u) ELSE u \in ToSet(participants)

\* Every round of a knockout has half of the matches of the one before.
HalvesInv ==
    ruleset = "Knockout" /\ matches # <<>> =>
        /\ Len(matches) = 2 ^ rounds - 2 ^ (rounds - LastRound)
        /\ Len(matches) >= 2 ^ (rounds - LastRound)
        /\ \A i \in DOMAIN matches :
              matches[i].round = LastRound <=> i > Len(matches) - 2 ^ (rounds - LastRound)

\* What has been decided does not move with the round that is drawn too many.
EndInv ==
    status = "FINISHED" =>
        /\ WinnerHasMost
        /\ \A i \in DOMAIN matches : matches[i].round <= rounds => matches[i].result # "None"

\* What a job knows of its event key, its attempts and its games.
JobsInv ==
    \A j \in Jobs :
        /\ ~ keys[j].consumed => keys[j].creations = {}
        /\ jobs[j].attempt <= failures
        /\ jobs[j].state \in {"Available", "SetUp"} => jobs[j].attempt < MaxAttempts
        /\ jobs[j].state = "Discarded" => jobs[j].attempt = MaxAttempts
        /\ \A m \in jobs[j].setUp : games[m] # "None"

\* A match without a game has a job, which at worst has been given up.
NoGameForgotten ==
    \A m \in DOMAIN games : games[m] = "None" =>
        \E j \in Jobs : m \in Created(j) /\ jobs[j].state \in {"Available", "SetUp", "Discarded"}

RoundPart == LobbyInv /\ TotalInv /\ RoundsInv /\ FieldInv /\ HalvesInv /\ EndInv

JobPart == JobsInv /\ NoGameForgotten

(***************************************************************************)
(* RoundPart is about Postgres, JobPart about the queue and Redis: a step  *)
(* on one of them leaves the other part alone, but for the one that        *)
(* inserts matches.                                                        *)
(***************************************************************************)
Inv == TypeOK /\ RoundPart /\ JobPart

-----------------------------------------------------------------------------
(* Types.                                                                    *)

LEMMA CourseType ==
    ASSUME course \in Courses
    PROVE  /\ ruleset \in {"Knockout", "RoundRobin", "Swiss"} /\ course.rounds \in Nat
           /\ ruleset = "Knockout" => course.rounds > 0
           /\ course.movers \subseteq Users /\ course.results \subseteq {"WhiteWin", "BlackWin"}
           /\ course.slots \subseteq Jobs
           /\ course.failures \in Nat /\ course.lost \in Nat /\ course.repeats \in Nat
<1>1. course \in Course /\ (course.ruleset = "Knockout" => course.rounds > 0)
  BY TournamentAssumption
<1> QED  BY <1>1 DEF Course, ruleset

LEMMA MatchesType ==
    ASSUME TypeOK
    PROVE  /\ matches \in Seq(MatchSet) /\ Len(matches) \in Nat /\ DOMAIN matches = 1 .. Len(matches)
           /\ \A i \in DOMAIN matches :
                 /\ matches[i] \in MatchSet
                 /\ matches[i].round \in Nat \ {0}
                 /\ matches[i].white \in Users /\ matches[i].black \in Users
                 /\ matches[i].result \in course.results \cup {"None"}
           /\ DOMAIN games = DOMAIN matches
<1> DEFINE M == [round : Nat \ {0}, white : Users, black : Users, result : course.results \cup {"None"}]
<1>1. matches \in Seq(M) /\ games \in Seq({"None", "Playing", "Ended"}) /\ Len(games) = Len(matches)
  BY DEF TypeOK
<1>2. M \subseteq MatchSet
  BY CourseType DEF TypeOK, MatchSet
<1>3. \A i \in DOMAIN matches : matches[i] \in M
  <2> HIDE DEF M
  <2> QED  BY <1>1, ElementOfSeq
<1>4. \A i \in DOMAIN matches :
         /\ matches[i].round \in Nat \ {0}
         /\ matches[i].white \in Users /\ matches[i].black \in Users
         /\ matches[i].result \in course.results \cup {"None"}
  BY <1>3
<1> HIDE DEF M
<1>5. matches \in Seq(MatchSet)
  BY <1>1, <1>2, SeqMonotonic
<1> QED  BY <1>1, <1>2, <1>3, <1>4, <1>5

LEMMA InsertJobIs ==
    ASSUME TypeOK, InsertJob
    PROVE  \E j \in Jobs : /\ jobs[j].state = "Free"
                           /\ jobs' = [jobs EXCEPT ![j] = [state |-> "Available", attempt |-> 0, setUp |-> {}]]
<1> DEFINE free == {j \in course.slots : jobs[j].state = "Free"}
<1>1. free \in SUBSET Nat /\ free # {} /\ free \subseteq Jobs
  BY CourseType, TournamentAssumption DEF TypeOK, InsertJob
<1>2. Min(free) \in free
  <2> HIDE DEF free
  <2> QED  BY <1>1, LeastIsMin
<1>3. jobs' = [jobs EXCEPT ![Min(free)] = [state |-> "Available", attempt |-> 0, setUp |-> {}]]
  <2>1. [NoJob EXCEPT !.state = "Available"] = [state |-> "Available", attempt |-> 0, setUp |-> {}]
    BY DEF NoJob
  <2> QED  BY <2>1 DEF InsertJob
<1> QED  BY <1>1, <1>2, <1>3

LEMMA JobsType ==
    ASSUME TypeOK, NEW j \in Jobs
    PROVE  /\ jobs[j] \in [state : JobStates, attempt : 0 .. MaxAttempts, setUp : SUBSET DOMAIN matches]
           /\ keys[j] \in [consumed : BOOLEAN, creations : SUBSET DOMAIN matches]
BY DEF TypeOK

LEMMA InitType == Init => TypeOK
<1>1. SUFFICES ASSUME Init PROVE TypeOK
  OBVIOUS
<1>2. /\ course \in Courses /\ course.rounds \in Nat /\ course.failures \in Nat
      /\ course.lost \in Nat /\ course.repeats \in Nat
  BY <1>1, CourseType DEF Init
<1>3. status \in Statuses /\ rounds \in Nat /\ winner \in Users \cup {NoWinner}
  BY <1>1, <1>2 DEF Init, Statuses
<1>4. participants \in Seq(Users) /\ IsInjective(participants)
  BY <1>1, TournamentAssumption DEF Init
<1>5. /\ keys \in [Jobs -> [consumed : BOOLEAN, creations : SUBSET DOMAIN matches]]
      /\ jobs \in [Jobs -> [state : JobStates, attempt : 0 .. MaxAttempts, setUp : SUBSET DOMAIN matches]]
  BY <1>1, TournamentAssumption DEF Init, NoKey, NoJob, JobStates
<1>6. matches = <<>> /\ games = <<>> /\ events = {} /\ failures = 0 /\ lost = 0 /\ repeats = 0
  BY <1>1 DEF Init
<1>7. failures \in 0 .. course.failures /\ lost \in 0 .. course.lost /\ repeats \in 0 .. course.repeats
  BY <1>2, <1>6
<1>8. /\ matches \in Seq([round : Nat \ {0}, white : Users, black : Users,
                        result : course.results \cup {"None"}])
      /\ games \in Seq({"None", "Playing", "Ended"}) /\ Len(games) = Len(matches)
  BY <1>6
<1> QED  BY <1>2, <1>3, <1>4, <1>5, <1>6, <1>7, <1>8 DEF TypeOK

LEMMA LobbyType ==
    ASSUME TypeOK, NEW u \in Users, JoinTournament(u) \/ LeaveTournament(u)
    PROVE  TypeOK'
<1>1. participants' \in Seq(Users) /\ IsInjective(participants')
  <2>1. participants \in Seq(Users) /\ \A i, k \in 1 .. Len(participants) : participants[i] = participants[k] => i = k
    BY DEF TypeOK, IsInjective
  <2>2. CASE JoinTournament(u)
    <3>1. participants' = Append(participants, u) /\ u \notin ToSet(participants)
      BY <2>2 DEF JoinTournament
    <3>2. \A i \in 1 .. Len(participants) : participants[i] # u
      BY <3>1 DEF ToSet
    <3> QED  BY <2>1, <3>1, <3>2 DEF IsInjective
  <2>3. CASE LeaveTournament(u)
    <3>1. PICK i \in 1 .. Len(participants) : participants' = RemoveAt(participants, i)
      BY <2>1, <2>3 DEF LeaveTournament
    <3> DEFINE front == SubSeq(participants, 1, i - 1)
               back == SubSeq(participants, i + 1, Len(participants))
    <3>2. /\ front \in Seq(Users) /\ Len(front) = i - 1
          /\ \A k \in 1 .. i - 1 : front[k] = participants[k]
      BY <2>1
    <3>3. /\ back \in Seq(Users) /\ Len(back) = Len(participants) - i
          /\ \A k \in 1 .. Len(participants) - i : back[k] = participants[i + k]
      BY <2>1
    <3>4. participants' = front \o back
      BY <3>1 DEF RemoveAt
    <3> HIDE DEF front, back
    <3>5. /\ participants' \in Seq(Users) /\ Len(participants') = Len(participants) - 1
          /\ \A k \in 1 .. Len(participants) - 1 :
                participants'[k] = IF k < i THEN participants[k] ELSE participants[k + 1]
      <4>1. /\ front \o back \in Seq(Users) /\ Len(front \o back) = Len(front) + Len(back)
            /\ \A k \in 1 .. Len(front) + Len(back) :
                  (front \o back)[k] = IF k <= Len(front) THEN front[k] ELSE back[k - Len(front)]
        BY <3>2, <3>3, ConcatProperties
      <4>2. ASSUME NEW k \in 1 .. Len(participants) - 1
            PROVE  (front \o back)[k] = IF k < i THEN participants[k] ELSE participants[k + 1]
        <5>1. CASE k < i
          BY <2>1, <3>2, <3>3, <4>1, <5>1
        <5>2. CASE ~ (k < i)
          <6>1. k - Len(front) \in 1 .. Len(participants) - i /\ i + (k - Len(front)) = k + 1
            BY <2>1, <3>2, <5>2
          <6>2. back[k - Len(front)] = participants[k + 1]
            BY <3>3, <6>1
          <6>3. k \in 1 .. Len(front) + Len(back) /\ ~ (k <= Len(front))
            BY <2>1, <3>2, <3>3, <5>2
          <6> QED  BY <4>1, <5>2, <6>2, <6>3
        <5> QED  BY <5>1, <5>2
      <4> QED  BY <2>1, <3>2, <3>3, <3>4, <4>1, <4>2
    <3> QED  BY <2>1, <3>5 DEF IsInjective
  <2> QED  BY <2>2, <2>3
<1>2. UNCHANGED <<row, matches, keys, jobs, games, events, faults>>
  BY DEF JoinTournament, LeaveTournament
<1> QED  BY <1>1, <1>2 DEF TypeOK, row, faults

LEMMA InsertJobType ==
    ASSUME TypeOK, InsertJob
    PROVE  jobs' \in [Jobs -> [state : JobStates, attempt : 0 .. MaxAttempts, setUp : SUBSET DOMAIN matches]]
<1>1. PICK j \in Jobs : jobs' = [jobs EXCEPT ![j] = [state |-> "Available", attempt |-> 0, setUp |-> {}]]
  BY InsertJobIs
<1>2. [state |-> "Available", attempt |-> 0, setUp |-> {}]
         \in [state : JobStates, attempt : 0 .. MaxAttempts, setUp : SUBSET DOMAIN matches]
  BY TournamentAssumption DEF JobStates
<1> QED  BY <1>1, <1>2 DEF TypeOK

\* What a job may leave behind, and an event.
LEMMA QueueType ==
    ASSUME TypeOK, JobsInv,
           \/ \E u \in Users : BeginTournamentCountdown(u)
           \/ \E j \in Jobs : TakeUpAgain(j) \/ CancelJob(j) \/ CompleteJob(j) \/ FailJob(j)
           \/ \E j \in Jobs : \E m \in DOMAIN games : SetupGame(j, m)
           \/ \E m \in DOMAIN matches : RepeatEvent(m)
           \/ \E e \in events : PublishTournamentEvent(e) \/ LoseEvent(e)
    PROVE  TypeOK'
<1> DEFINE J == [state : JobStates, attempt : 0 .. MaxAttempts, setUp : SUBSET DOMAIN matches]
           K == [consumed : BOOLEAN, creations : SUBSET DOMAIN matches]
<1>1. jobs \in [Jobs -> J] /\ keys \in [Jobs -> K] /\ MaxAttempts \in Nat \ {0}
  BY TournamentAssumption DEF TypeOK
<1>2. /\ course \in Courses /\ course.failures \in Nat /\ course.lost \in Nat /\ course.repeats \in Nat
      /\ failures \in 0 .. course.failures /\ lost \in 0 .. course.lost /\ repeats \in 0 .. course.repeats
  BY CourseType DEF TypeOK
<1>3. NoJob \in J /\ NoKey \in K
  BY <1>1 DEF NoJob, NoKey, JobStates
<1>4. InsertJob => jobs' \in [Jobs -> J]
  BY InsertJobType
<1>5. ASSUME NEW u \in Users, BeginTournamentCountdown(u)  PROVE TypeOK'
  <2>1. jobs' \in [Jobs -> J]
    BY <1>4, <1>5 DEF BeginTournamentCountdown
  <2> QED  BY <1>5, <2>1 DEF BeginTournamentCountdown, TypeOK, Statuses, faults
<1>6. ASSUME NEW j \in Jobs, TakeUpAgain(j)  PROVE TypeOK'
  <2>1. jobs' \in [Jobs -> J]
    BY <1>1, <1>6 DEF TakeUpAgain, SetJob, JobStates
  <2> QED  BY <1>6, <2>1 DEF TakeUpAgain, TypeOK, row, faults
<1>7. ASSUME NEW j \in Jobs, CancelJob(j) \/ CompleteJob(j)  PROVE TypeOK'
  <2>1. jobs' \in [Jobs -> J] /\ keys' \in [Jobs -> K]
    <3>1. jobs' = [jobs EXCEPT ![j] = NoJob] /\ keys' = [keys EXCEPT ![j] = NoKey]
      BY <1>7 DEF CancelJob, CompleteJob, EndJob
    <3> HIDE DEF J, K
    <3> QED  BY <1>1, <1>3, <3>1
  <2>2. UNCHANGED <<row, participants, matches, games, events, faults>>
    BY <1>7 DEF CancelJob, CompleteJob
  <2> QED  BY <2>1, <2>2 DEF TypeOK, row, faults
<1>8. ASSUME NEW j \in Jobs, FailJob(j)  PROVE TypeOK'
  <2>0. jobs[j].attempt < MaxAttempts
    BY <1>8 DEF JobsInv, FailJob
  <2>1. jobs' \in [Jobs -> J]
    <3> DEFINE next == [jobs[j] EXCEPT
                   !.state = IF jobs[j].attempt + 1 < MaxAttempts THEN "Available" ELSE "Discarded",
                   !.attempt = @ + 1, !.setUp = {}]
    <3>1. jobs' = [jobs EXCEPT ![j] = next]
      BY <1>1, <1>8 DEF FailJob
    <3>2. jobs[j] \in J /\ jobs[j].attempt + 1 \in 0 .. MaxAttempts
      BY <1>1, <2>0
    <3>3. next \in J
      BY <3>2 DEF JobStates
    <3> HIDE DEF next, J
    <3> QED  BY <1>1, <3>1, <3>3
  <2>2. failures' \in 0 .. course.failures
    <3>1. failures < course.failures /\ failures' = failures + 1
      BY <1>8 DEF FailJob
    <3> QED  BY <1>2, <3>1
  <2> QED  BY <1>8, <2>1, <2>2 DEF FailJob, TypeOK, row
<1>9. ASSUME NEW j \in Jobs, NEW m \in DOMAIN games, SetupGame(j, m)  PROVE TypeOK'
  <2>1. jobs' \in [Jobs -> J]
    BY <1>1, <1>9 DEF SetupGame, SetJob, Created
  <2>2. games' \in Seq({"None", "Playing", "Ended"}) /\ Len(games') = Len(games)
    BY <1>9, ExceptSeq DEF SetupGame, TypeOK
  <2> QED  BY <1>9, <2>1, <2>2 DEF SetupGame, TypeOK, row, faults
<1>10. ASSUME NEW m \in DOMAIN matches, RepeatEvent(m)  PROVE TypeOK'
  <2>1. jobs' \in [Jobs -> J]
    BY <1>4, <1>10 DEF RepeatEvent
  <2>2. repeats' \in 0 .. course.repeats
    <3>1. repeats < course.repeats /\ repeats' = repeats + 1
      BY <1>10 DEF RepeatEvent
    <3> QED  BY <1>2, <3>1
  <2> QED  BY <1>10, <2>1, <2>2 DEF RepeatEvent, TypeOK, row
<1>11. ASSUME NEW e \in events, PublishTournamentEvent(e)  PROVE TypeOK'
  BY <1>4, <1>11 DEF PublishTournamentEvent, TypeOK, row, faults
<1>12. ASSUME NEW e \in events, LoseEvent(e)  PROVE TypeOK'
  <2>1. lost' \in 0 .. course.lost
    <3>1. lost < course.lost /\ lost' = lost + 1
      BY <1>12 DEF LoseEvent
    <3> QED  BY <1>2, <3>1
  <2> QED  BY <1>12, <2>1 DEF LoseEvent, TypeOK, row
<1> QED  BY <1>5, <1>6, <1>7, <1>8, <1>9, <1>10, <1>11, <1>12

\* The batch of matches.
Batch(pairings, round) ==
    [i \in 1 .. Len(pairings) |-> [round |-> round, white |-> pairings[i].white,
                                  black |-> pairings[i].black, result |-> "None"]]

LEMMA InsertMatches ==
    ASSUME TypeOK, NEW j \in Jobs, NEW pairings \in Seq(PairingSet), NEW round \in Nat \ {0},
           NEW total, NEW next, NEW best,
           InsertTournamentMatches(j, pairings, round, total, next, best)
    PROVE  /\ Len(matches') = Len(matches) + Len(pairings)
           /\ DOMAIN matches' = 1 .. Len(matches) + Len(pairings)
           /\ \A i \in 1 .. Len(matches) : matches'[i] = matches[i]
           /\ \A i \in 1 .. Len(pairings) :
                 /\ Len(matches) + i \in DOMAIN matches'
                 /\ matches'[Len(matches) + i] = [round |-> round, white |-> pairings[i].white,
                                                 black |-> pairings[i].black, result |-> "None"]
           /\ \A i \in DOMAIN matches' : 
                 \/ i \in DOMAIN matches
                 \/ /\ i > Len(matches) /\ i - Len(matches) \in 1 .. Len(pairings)
                    /\ Len(matches) + (i - Len(matches)) = i
           /\ matches' \in Seq([round : Nat \ {0}, white : Users, black : Users,
                                result : course.results \cup {"None"}])
           /\ games' \in Seq({"None", "Playing", "Ended"}) /\ Len(games') = Len(matches')
           /\ \A i \in DOMAIN matches : games'[i] = games[i]
           /\ \A i \in DOMAIN matches' \ DOMAIN matches : games'[i] = "None"
<1> DEFINE M == [round : Nat \ {0}, white : Users, black : Users, result : course.results \cup {"None"}]
           n == Len(matches)
           count == Len(pairings)
           batch == Batch(pairings, round)
           none == [i \in 1 .. count |-> "None"]
<1>1. matches' = matches \o batch /\ games' = games \o none
  BY DEF InsertTournamentMatches, Batch
<1>2. n \in Nat /\ count \in Nat /\ \A i \in 1 .. count : pairings[i] \in PairingSet
  BY MatchesType
<1>3. batch \in Seq(M) /\ Len(batch) = count
  <2>1. \A i \in 1 .. count : batch[i] \in M
    BY <1>2 DEF Batch, PairingSet
  <2>2. batch \in [1 .. count -> M]
    BY <2>1 DEF Batch
  <2> HIDE DEF batch, M
  <2> QED  BY <1>2, <2>2, FunctionIsSeq
<1>4. none \in Seq({"None", "Playing", "Ended"}) /\ Len(none) = count
  <2>1. none \in [1 .. count -> {"None", "Playing", "Ended"}]
    OBVIOUS
  <2> HIDE DEF none
  <2> QED  BY <1>2, <2>1, FunctionIsSeq
<1>5. matches \in Seq(M) /\ games \in Seq({"None", "Playing", "Ended"}) /\ Len(games) = n
  BY DEF TypeOK
<1>6. \A i \in 1 .. count : batch[i] = [round |-> round, white |-> pairings[i].white,
                                       black |-> pairings[i].black, result |-> "None"]
  BY DEF Batch
<1>7. \A i \in 1 .. count : none[i] = "None"
  OBVIOUS
<1> HIDE DEF M, batch, none
<1>8. /\ matches' \in Seq(M) /\ Len(matches') = n + count /\ DOMAIN matches' = 1 .. n + count
      /\ \A i \in 1 .. n + count : matches'[i] = IF i <= n THEN matches[i] ELSE batch[i - n]
  BY <1>1, <1>2, <1>3, <1>5, ConcatProperties
<1>9. /\ games' \in Seq({"None", "Playing", "Ended"}) /\ Len(games') = n + count
      /\ \A i \in 1 .. n + count : games'[i] = IF i <= n THEN games[i] ELSE none[i - n]
  <2>1. /\ games \o none \in Seq({"None", "Playing", "Ended"})
        /\ Len(games \o none) = Len(games) + Len(none)
        /\ \A i \in 1 .. Len(games) + Len(none) :
              (games \o none)[i] = IF i <= Len(games) THEN games[i] ELSE none[i - Len(games)]
    BY <1>4, <1>5, ConcatProperties
  <2> QED  BY <1>1, <1>4, <1>5, <2>1
<1>10. DOMAIN matches = 1 .. n
  BY <1>5
<1>11. \A i \in 1 .. count : n + i \in 1 .. n + count /\ ~ (n + i <= n) /\ n + i - n = i
  BY <1>2
<1>12. \A i \in 1 .. count : matches'[n + i] = batch[i]
  BY <1>8, <1>11
<1>13. \A i \in 1 .. n + count : i \in 1 .. n \/ (i > n /\ i - n \in 1 .. count /\ n + (i - n) = i)
  BY <1>2
<1>14. \A i \in 1 .. n : i \in 1 .. n + count /\ i <= n
  BY <1>2
<1>15. \A i \in 1 .. n + count : i \notin 1 .. n => ~ (i <= n) /\ i - n \in 1 .. count
  BY <1>2
<1> HIDE DEF n, count
<1>16. \A i \in 1 .. n : matches'[i] = matches[i] /\ games'[i] = games[i]
  BY <1>8, <1>9, <1>14
<1>17. \A i \in (1 .. n + count) \ (1 .. n) : games'[i] = "None"
  BY <1>7, <1>9, <1>15
<1> QED  BY <1>6, <1>8, <1>9, <1>10, <1>11, <1>12, <1>13, <1>16, <1>17 DEF n, count, M

LEMMA InsertType ==
    ASSUME TypeOK, NEW j \in Jobs, NEW pairings \in Seq(PairingSet), NEW round \in Nat \ {0},
           NEW total \in Nat, NEW next \in Statuses, NEW best \in Users \cup {NoWinner},
           InsertTournamentMatches(j, pairings, round, total, next, best)
    PROVE  TypeOK'
<1> DEFINE J == [state : JobStates, attempt : 0 .. MaxAttempts, setUp : SUBSET DOMAIN matches]
           JN == [state : JobStates, attempt : 0 .. MaxAttempts, setUp : SUBSET DOMAIN matches']
           K == [consumed : BOOLEAN, creations : SUBSET DOMAIN matches]
           KN == [consumed : BOOLEAN, creations : SUBSET DOMAIN matches']
           new == Len(matches) + 1 .. Len(matches) + Len(pairings)
<1>1. /\ matches' \in Seq([round : Nat \ {0}, white : Users, black : Users,
                          result : course.results \cup {"None"}])
      /\ games' \in Seq({"None", "Playing", "Ended"}) /\ Len(games') = Len(matches')
      /\ DOMAIN matches' = 1 .. Len(matches) + Len(pairings)
  BY InsertMatches
<1>2. DOMAIN matches = 1 .. Len(matches) /\ Len(matches) \in Nat /\ Len(pairings) \in Nat
  BY MatchesType
<1>3. DOMAIN matches \subseteq DOMAIN matches' /\ new \subseteq DOMAIN matches'
  BY <1>1, <1>2
<1>4. /\ jobs' = [jobs EXCEPT ![j]["state"] = "SetUp"]
      /\ keys' = [keys EXCEPT ![j] = [consumed |-> TRUE, creations |-> new]]
      /\ status' = next /\ rounds' = total /\ winner' = best
      /\ UNCHANGED <<course, participants, events, faults>>
  <2>1. Len(matches) + 1 .. Len(matches) + 1 + Len(pairings) - 1 = new
    BY <1>2
  <2> QED  BY <2>1 DEF InsertTournamentMatches, SetJob
<1>5. jobs' \in [Jobs -> JN]
  <2>1. jobs \in [Jobs -> J]
    BY DEF TypeOK
  <2>2. J \subseteq JN
    BY <1>3
  <2>3. [jobs[j] EXCEPT !["state"] = "SetUp"] \in JN
    BY <2>1, <2>2 DEF JobStates
  <2>4. jobs' = [jobs EXCEPT ![j] = [jobs[j] EXCEPT !["state"] = "SetUp"]]
    BY <1>4, <2>1
  <2> HIDE DEF J, JN
  <2> QED  BY <2>1, <2>2, <2>3, <2>4
<1>6. keys' \in [Jobs -> KN]
  <2>1. keys \in [Jobs -> K]
    BY DEF TypeOK
  <2>2. K \subseteq KN
    BY <1>3
  <2>3. [consumed |-> TRUE, creations |-> new] \in KN
    BY <1>3
  <2> HIDE DEF K, KN, new
  <2> QED  BY <1>4, <2>1, <2>2, <2>3
<1>7. events' \subseteq [match : DOMAIN matches', result : course.results, step : {"Record", "Publish"}]
  <2>1. events \subseteq [match : DOMAIN matches, result : course.results, step : {"Record", "Publish"}]
    BY DEF TypeOK
  <2> QED  BY <1>3, <1>4, <2>1
<1> HIDE DEF new
<1> QED  BY <1>1, <1>4, <1>5, <1>6, <1>7 DEF TypeOK, faults

LEMMA FinishGameType ==
    ASSUME TypeOK, NEW m \in DOMAIN matches, FinishGame(m)
    PROVE  TypeOK'
<1>1. PICK result \in course.results :
         events' = events \cup {[match |-> m, result |-> result, step |-> "Record"]}
  BY DEF FinishGame
<1>2. games' \in Seq({"None", "Playing", "Ended"}) /\ Len(games') = Len(games)
  <2>1. m \in 1 .. Len(games) /\ games \in Seq({"None", "Playing", "Ended"})
    BY MatchesType DEF TypeOK
  <2> QED  BY <2>1, ExceptSeq DEF FinishGame
<1> QED  BY <1>1, <1>2 DEF FinishGame, TypeOK, row, faults

\* What recording a result does to the matches.
LEMMA RecordMatches ==
    ASSUME TypeOK, NEW e \in events, RecordResult(e)
    PROVE  /\ e.match \in DOMAIN matches /\ e.result \in course.results
           /\ Len(matches') = Len(matches) /\ DOMAIN matches' = DOMAIN matches
           /\ \A i \in DOMAIN matches :
                 /\ matches'[i] \in [round : Nat \ {0}, white : Users, black : Users,
                                     result : course.results \cup {"None"}]
                 /\ matches'[i].round = matches[i].round
                 /\ matches'[i].white = matches[i].white
                 /\ matches'[i].black = matches[i].black
                 /\ matches[i].result # "None" => matches'[i] = matches[i]
           /\ matches' \in Seq([round : Nat \ {0}, white : Users, black : Users,
                                result : course.results \cup {"None"}])
<1> DEFINE M == [round : Nat \ {0}, white : Users, black : Users, result : course.results \cup {"None"}]
           m == matches[e.match]
           after == [m EXCEPT !.result = IF @ = "None" THEN e.result ELSE @]
<1>1. e.match \in DOMAIN matches /\ e.result \in course.results
  BY DEF TypeOK
<1>2. matches \in Seq(M) /\ DOMAIN matches = 1 .. Len(matches) /\ Len(matches) \in Nat
  BY DEF TypeOK
<1>3. \A i \in DOMAIN matches : matches[i] \in M
  <2> HIDE DEF M
  <2> QED  BY <1>2, ElementOfSeq
<1>4. /\ after \in M
      /\ after.round = m.round /\ after.white = m.white /\ after.black = m.black
      /\ m.result # "None" => after = m
  <2>1. m \in M
    BY <1>1, <1>3
  <2> QED  BY <1>1, <2>1
<1>5. matches' = [matches EXCEPT ![e.match] = after]
  BY <1>1, <1>2 DEF RecordResult
<1>6. /\ matches' \in Seq(M) /\ Len(matches') = Len(matches)
      /\ \A i \in 1 .. Len(matches) : matches'[i] = IF i = e.match THEN after ELSE matches[i]
  <2> HIDE DEF M, after
  <2> QED  BY <1>1, <1>2, <1>4, <1>5, ExceptSeq
<1>7. DOMAIN matches' = DOMAIN matches
  BY <1>2, <1>6
<1>8. \A i \in DOMAIN matches :
         /\ matches'[i] \in M
         /\ matches'[i].round = matches[i].round
         /\ matches'[i].white = matches[i].white
         /\ matches'[i].black = matches[i].black
         /\ matches[i].result # "None" => matches'[i] = matches[i]
  <2>1. TAKE i \in DOMAIN matches
  <2> HIDE DEF M, after
  <2>2. CASE i = e.match
    BY <1>2, <1>4, <1>6, <2>2
  <2>3. CASE i # e.match
    BY <1>2, <1>3, <1>6, <2>3
  <2> QED  BY <2>2, <2>3
<1> QED  BY <1>1, <1>6, <1>7, <1>8

LEMMA RecordResultType ==
    ASSUME TypeOK, NEW e \in events, RecordResult(e)
    PROVE  TypeOK'
<1>1. /\ matches' \in Seq([round : Nat \ {0}, white : Users, black : Users,
                                result : course.results \cup {"None"}])
      /\ Len(matches') = Len(matches) /\ DOMAIN matches' = DOMAIN matches
  BY RecordMatches
<1>2. events' \subseteq [match : DOMAIN matches, result : course.results, step : {"Record", "Publish"}]
  <2>1. events \subseteq [match : DOMAIN matches, result : course.results, step : {"Record", "Publish"}]
    BY DEF TypeOK
  <2>2. [e EXCEPT !.step = "Publish"] \in [match : DOMAIN matches, result : course.results, step : {"Record", "Publish"}]
    BY <2>1
  <2> QED  BY <2>1, <2>2 DEF RecordResult
<1> QED  BY <1>1, <1>2 DEF RecordResult, TypeOK, row, faults

-----------------------------------------------------------------------------
(* What a step does to the rounds.                                           *)

LEMMA RoundFrame ==
    ASSUME RoundPart, UNCHANGED <<row, participants, matches>>
    PROVE  RoundPart'
<1>1. UNCHANGED <<course, status, rounds, winner, participants, matches>>
  BY DEF row
<1>2. LobbyInv' /\ TotalInv' /\ RoundsInv' /\ HalvesInv'
  BY <1>1 DEF RoundPart, LobbyInv, TotalInv, RoundsInv, RoundsInOrder, HalvesInv, LastRound, ruleset
<1>3. FieldInv'
  BY <1>1 DEF RoundPart, FieldInv, LastRound, ruleset
<1>4. EndInv'
  BY <1>1 DEF RoundPart, EndInv, WinnerHasMost, Matches
<1> QED  BY <1>2, <1>3, <1>4 DEF RoundPart

LEMMA LastRoundIs ==
    ASSUME TypeOK, matches # <<>>
    PROVE  /\ LastRound = matches[Len(matches)].round /\ LastRound \in Nat \ {0}
           /\ Len(matches) \in DOMAIN matches
           /\ RoundsInv => \A i \in DOMAIN matches : matches[i].round <= LastRound
<1>1. Len(matches) \in DOMAIN matches
  BY MatchesType
<1>2. LastRound = matches[Len(matches)].round
  BY DEF LastRound, Last
<1>3. RoundsInv => \A i \in DOMAIN matches : matches[i].round <= LastRound
  <2>1. \A i \in DOMAIN matches : i <= Len(matches)
    BY MatchesType
  <2> QED  BY <1>1, <1>2, <2>1 DEF RoundsInv, Sorted
<1> QED  BY <1>1, <1>2, <1>3, MatchesType

LEMMA LobbyRounds ==
    ASSUME TypeOK, RoundPart, status = "LOBBY", UNCHANGED <<course, rounds, winner, matches>>,
           UNCHANGED status \/ status' = "SCHEDULED"
    PROVE  RoundPart'
<1>1. matches = <<>> /\ matches' = <<>> /\ status' # "FINISHED" /\ status' # "IN_PROGRESS"
  BY DEF RoundPart, LobbyInv
<1>2. DOMAIN matches' = {}
  BY <1>1
<1> QED  BY <1>1, <1>2 DEF RoundPart, LobbyInv, TotalInv, RoundsInv, RoundsInOrder, FieldInv,
             HalvesInv, EndInv, ruleset, Sorted, OncePerRound

LEMMA RecordRounds ==
    ASSUME TypeOK, RoundPart, NEW e \in events, RecordResult(e)
    PROVE  RoundPart'
<1>1. UNCHANGED <<course, status, rounds, winner, participants>>
  BY DEF RecordResult, row
<1>2. /\ DOMAIN matches' = DOMAIN matches /\ Len(matches') = Len(matches)
      /\ \A i \in DOMAIN matches :
            /\ matches'[i].round = matches[i].round
            /\ matches'[i].white = matches[i].white
            /\ matches'[i].black = matches[i].black
            /\ matches[i].result # "None" => matches'[i] = matches[i]
  BY RecordMatches
<1>3. matches # <<>> /\ matches' # <<>>
  <2>1. DOMAIN matches # {}
    BY RecordMatches
  <2> QED  BY <1>2, <2>1
<1>4. LastRound' = LastRound
  BY <1>2, <1>3, LastRoundIs DEF LastRound, Last
<1>5. LobbyInv' /\ TotalInv'
  BY <1>1, <1>3, <1>4 DEF RoundPart, LobbyInv, TotalInv, ruleset
<1>6. RoundsInv'
  BY <1>2 DEF RoundPart, RoundsInv, Sorted, OncePerRound, RoundsInOrder
<1>7. FieldInv'
  <2>1. \A r, u : PlaysIn(matches', r, u) <=> PlaysIn(matches, r, u)
    BY <1>2 DEF PlaysIn
  <2>2. ASSUME NEW r \in 2 .. LastRound, NEW u
        PROVE  WinsIn(matches', r - 1, u) <=> WinsIn(matches, r - 1, u)
    <3>1. ASSUME NEW i \in DOMAIN matches, matches[i].round = r - 1
          PROVE  matches'[i] = matches[i]
      <4>1. matches[i].round < matches[Len(matches)].round /\ Len(matches) \in DOMAIN matches
        BY <1>3, <3>1, LastRoundIs
      <4>2. matches[i].result # "None"
        BY <4>1 DEF RoundPart, RoundsInv, RoundsInOrder
      <4> QED  BY <1>2, <4>2
    <3> QED  BY <1>2, <3>1 DEF WinsIn
  <2> QED  BY <1>1, <1>3, <1>4, <2>1, <2>2 DEF RoundPart, FieldInv, ruleset
<1>8. HalvesInv'
  BY <1>1, <1>2, <1>3, <1>4 DEF RoundPart, HalvesInv, ruleset
<1>9. EndInv'
  <2>1. SUFFICES ASSUME status = "FINISHED" PROVE EndInv'
    BY <1>1 DEF EndInv
  <2>2. \A i \in DOMAIN matches : matches[i].round <= rounds => matches[i].result # "None"
    BY <2>1 DEF RoundPart, EndInv
  <2>3. \A i \in DOMAIN matches : matches'[i].round <= rounds => matches'[i].result # "None"
    BY <1>2, <2>2
  <2>4. Matches(1 .. rounds)' = Matches(1 .. rounds)
    <3>1. \A i \in DOMAIN matches : matches[i].round \in 1 .. rounds => matches'[i] = matches[i]
      BY <1>2, <2>2, MatchesType DEF TypeOK
    <3>2. {i \in DOMAIN matches' : matches'[i].round \in 1 .. rounds'} =
             {i \in DOMAIN matches : matches[i].round \in 1 .. rounds}
      BY <1>1, <1>2
    <3> QED  BY <1>1, <3>1, <3>2 DEF Matches, Restrict
  <2>5. WinnerHasMost'
    BY <1>1, <2>1, <2>4 DEF RoundPart, EndInv, WinnerHasMost
  <2> QED  BY <1>1, <1>2, <2>3, <2>5 DEF EndInv
<1> QED  BY <1>5, <1>6, <1>7, <1>8, <1>9 DEF RoundPart

\* What a batch of a new round does to the rounds.
LEMMA InsertRounds ==
    ASSUME TypeOK, RoundsInv, AllCompleted(matches), NEW players,
           NEW j \in Jobs, NEW pairings, Fits(pairings, players), pairings # <<>>,
           NEW total, NEW next, NEW best,
           InsertTournamentMatches(j, pairings, LastRound + 1, total, next, best)
    PROVE  /\ RoundsInv'
           /\ matches' # <<>> /\ LastRound' = LastRound + 1 /\ LastRound \in Nat
           /\ \A i \in 1 .. Len(matches) : matches'[i].round <= LastRound
           /\ \A u : PlaysIn(matches', LastRound + 1, u) <=> u \in players
           /\ \A r \in 1 .. LastRound : \A u :
                 /\ PlaysIn(matches', r, u) <=> PlaysIn(matches, r, u)
                 /\ WinsIn(matches', r, u) <=> WinsIn(matches, r, u)
<1> DEFINE n == Len(matches)
           count == Len(pairings)
           old == 1 .. n
           new == {i \in 1 .. n + count : i > n}
<1>1. LastRound \in Nat /\ \A i \in DOMAIN matches : matches[i].round <= LastRound
  <2>1. CASE matches = <<>>
    BY <2>1 DEF LastRound
  <2>2. CASE matches # <<>>
    BY <2>2, LastRoundIs
  <2> QED  BY <2>1, <2>2
<1>2. pairings \in Seq(PairingSet) /\ count \in Nat \ {0} /\ DOMAIN pairings = 1 .. count
  BY DEF Fits
<1>3. n \in Nat /\ DOMAIN matches = old /\ \A i \in old : matches[i].round \in Nat \ {0}
  BY MatchesType
<1>4. /\ Len(matches') = n + count /\ DOMAIN matches' = 1 .. n + count
      /\ \A i \in old : matches'[i] = matches[i]
      /\ \A i \in 1 .. count :
            /\ n + i \in DOMAIN matches'
            /\ matches'[n + i] = [round |-> LastRound + 1, white |-> pairings[i].white,
                                  black |-> pairings[i].black, result |-> "None"]
      /\ \A i \in DOMAIN matches' :
            \/ i \in DOMAIN matches
            \/ i > n /\ i - n \in 1 .. count /\ n + (i - n) = i
  BY <1>1, <1>2, InsertMatches
<1>5. \A i \in old : i \in DOMAIN matches' /\ matches'[i].round <= LastRound
  BY <1>1, <1>2, <1>3, <1>4
<1>6. \A i \in new : /\ i - n \in 1 .. count
                     /\ matches'[i].round = LastRound + 1
                     /\ matches'[i].white = pairings[i - n].white
                     /\ matches'[i].black = pairings[i - n].black
  <2>1. TAKE i \in new
  <2>2. i - n \in 1 .. count /\ n + (i - n) = i
    BY <1>2, <1>3
  <2>3. matches'[n + (i - n)] = [round |-> LastRound + 1, white |-> pairings[i - n].white,
                                 black |-> pairings[i - n].black, result |-> "None"]
    BY <1>4, <2>2
  <2> QED  BY <2>2, <2>3
<1>7. DOMAIN matches' = old \cup new
  BY <1>2, <1>3, <1>4
<1>8. \A i \in 1 .. count : n + i \in new /\ n + i - n = i
  BY <1>2, <1>3
<1>9. \A i \in old, k \in new : i < k /\ ~ (k <= i)
  BY <1>2, <1>3
<1>10. \A i, k \in new : i # k => i - n # k - n
  BY <1>2, <1>3
<1>11. n + count \in new /\ n + count # 0
  BY <1>2, <1>3
<1> HIDE DEF n, count, old, new
<1>12. \A i \in old : matches'[i].round # LastRound + 1 /\ matches'[i].round \in Nat
  BY <1>1, <1>3, <1>4, <1>5
<1>13. Sorted(matches')
  <2>1. SUFFICES ASSUME NEW i \in DOMAIN matches', NEW k \in DOMAIN matches', i <= k
                 PROVE  matches'[i].round <= matches'[k].round
    BY DEF Sorted
  <2>2. CASE i \in old /\ k \in old
    BY <1>3, <1>4, <2>1, <2>2 DEF RoundsInv, Sorted
  <2>3. CASE i \in old /\ k \in new
    BY <1>1, <1>5, <1>6, <1>12, <2>3
  <2>4. CASE i \in new /\ k \in old
    BY <1>9, <2>1, <2>4
  <2>5. CASE i \in new /\ k \in new
    BY <1>1, <1>6, <2>5
  <2> QED  BY <1>7, <2>2, <2>3, <2>4, <2>5
<1>14. OncePerRound(matches')
  <2>1. SUFFICES ASSUME NEW i \in DOMAIN matches', NEW k \in DOMAIN matches',
                        matches'[i].round = matches'[k].round
                 PROVE  /\ matches'[i].white # matches'[k].black
                        /\ i # k => matches'[i].white # matches'[k].white /\ matches'[i].black # matches'[k].black
    BY DEF OncePerRound
  <2>2. CASE i \in old /\ k \in old
    BY <1>3, <1>4, <2>1, <2>2 DEF RoundsInv, OncePerRound
  <2>3. CASE i \in new /\ k \in new
    <3>1. /\ pairings[i - n].white # pairings[k - n].black
          /\ i - n # k - n => /\ pairings[i - n].white # pairings[k - n].white
                              /\ pairings[i - n].black # pairings[k - n].black
      BY <1>2, <1>6, <2>3 DEF Fits, Disjoint
    <3> QED  BY <1>6, <1>10, <2>3, <3>1
  <2> QED  BY <1>6, <1>7, <1>12, <2>1, <2>2, <2>3
<1>15. RoundsInOrder'
  <2>1. SUFFICES ASSUME NEW i \in DOMAIN matches', NEW k \in DOMAIN matches',
                        matches'[i].round < matches'[k].round
                 PROVE  matches'[i].result # "None"
    BY DEF RoundsInOrder
  <2>2. CASE i \in old
    BY <1>3, <1>4, <2>2 DEF AllCompleted
  <2>3. CASE i \in new
    <3>1. k \in old \/ k \in new
      BY <1>7
    <3> QED  BY <1>1, <1>5, <1>6, <1>12, <2>1, <2>3, <3>1
  <2> QED  BY <1>7, <2>2, <2>3
<1>16. matches' # <<>> /\ LastRound' = LastRound + 1
  <2>1. matches' # <<>>
    BY <1>7, <1>11
  <2>2. LastRound' = matches'[Len(matches')].round
    BY <2>1 DEF LastRound, Last
  <2> QED  BY <1>4, <1>6, <1>11, <2>1, <2>2
<1>17. \A u : PlaysIn(matches', LastRound + 1, u) <=> u \in players
  <2>1. \A u : Plays(pairings, u) <=> u \in players
    BY DEF Fits
  <2>2. ASSUME NEW u, Plays(pairings, u)  PROVE PlaysIn(matches', LastRound + 1, u)
    <3>1. PICK i \in 1 .. count : pairings[i].white = u \/ pairings[i].black = u
      BY <1>2, <2>2 DEF Plays
    <3>2. n + i \in DOMAIN matches' /\ n + i \in new /\ n + i - n = i
      BY <1>7, <1>8
    <3>3. /\ matches'[n + i].round = LastRound + 1
          /\ matches'[n + i].white = pairings[i].white
          /\ matches'[n + i].black = pairings[i].black
      <4>1. matches'[n + i] = [round |-> LastRound + 1, white |-> pairings[i].white,
                               black |-> pairings[i].black, result |-> "None"]
        BY <1>4, Zenon
      <4> QED  BY <4>1
    <3> QED  BY <3>1, <3>2, <3>3 DEF PlaysIn
  <2>3. ASSUME NEW u, PlaysIn(matches', LastRound + 1, u)  PROVE Plays(pairings, u)
    <3>1. PICK i \in DOMAIN matches' : /\ matches'[i].round = LastRound + 1
                                       /\ matches'[i].white = u \/ matches'[i].black = u
      BY <2>3 DEF PlaysIn
    <3>2. i \in new
      BY <1>7, <1>12, <3>1
    <3> QED  BY <1>2, <1>6, <3>1, <3>2 DEF Plays
  <2> QED  BY <2>1, <2>2, <2>3
<1>18. ASSUME NEW r \in 1 .. LastRound, NEW u
       PROVE  /\ PlaysIn(matches', r, u) <=> PlaysIn(matches, r, u)
              /\ WinsIn(matches', r, u) <=> WinsIn(matches, r, u)
  <2>1. \A i \in DOMAIN matches' : matches'[i].round = r => i \in old
    BY <1>1, <1>6, <1>7
  <2> QED  BY <1>3, <1>4, <1>5, <2>1 DEF PlaysIn, WinsIn
<1>19. RoundsInv'
  BY <1>13, <1>14, <1>15 DEF RoundsInv
<1> QED  BY <1>1, <1>5, <1>16, <1>17, <1>18, <1>19 DEF old, n

-----------------------------------------------------------------------------
(* What a step does to the jobs and their games.                             *)

LEMMA JobFrame ==
    ASSUME JobPart, UNCHANGED <<keys, jobs, games, failures>>
    PROVE  JobPart'
BY DEF JobPart, JobsInv, NoGameForgotten, Created

LEMMA InsertJobPart ==
    ASSUME TypeOK, JobPart, InsertJob, UNCHANGED <<keys, games, failures>>
    PROVE  JobPart'
<1>1. PICK j \in Jobs : /\ jobs[j].state = "Free"
                        /\ jobs' = [jobs EXCEPT ![j] = [state |-> "Available", attempt |-> 0, setUp |-> {}]]
  BY InsertJobIs
<1>2. \A k \in Jobs : jobs'[k] = IF k = j THEN [state |-> "Available", attempt |-> 0, setUp |-> {}] ELSE jobs[k]
  BY <1>1 DEF TypeOK
<1>3. failures \in Nat /\ MaxAttempts \in Nat \ {0}
  BY TournamentAssumption, CourseType DEF TypeOK
<1>4. JobsInv'
  BY <1>2, <1>3 DEF JobPart, JobsInv
<1>5. NoGameForgotten'
  BY <1>1, <1>2 DEF JobPart, NoGameForgotten, Created
<1> QED  BY <1>4, <1>5 DEF JobPart

LEMMA TakeUpAgainPart ==
    ASSUME TypeOK, JobPart, NEW j \in Jobs, TakeUpAgain(j)
    PROVE  JobPart'
<1>1. /\ jobs' = [jobs EXCEPT ![j]["state"] = "SetUp"]
      /\ jobs[j].state = "Available" /\ UNCHANGED <<keys, games, failures>>
  BY DEF TakeUpAgain, SetJob, faults
<1>2. \A k \in Jobs : /\ jobs'[k].state = IF k = j THEN "SetUp" ELSE jobs[k].state
                      /\ jobs'[k].attempt = jobs[k].attempt /\ jobs'[k].setUp = jobs[k].setUp
  BY <1>1 DEF TypeOK
<1> QED  BY <1>1, <1>2 DEF JobPart, JobsInv, NoGameForgotten, Created

LEMMA EndJobPart ==
    ASSUME TypeOK, JobPart, NEW j \in Jobs, CancelJob(j) \/ CompleteJob(j)
    PROVE  JobPart'
<1>1. /\ jobs' = [jobs EXCEPT ![j] = NoJob] /\ keys' = [keys EXCEPT ![j] = NoKey]
      /\ UNCHANGED <<games, failures>>
  BY DEF CancelJob, CompleteJob, EndJob, faults
<1>2. \A m \in Created(j) : games[m] # "None"
  <2>1. CASE CancelJob(j)
    BY <2>1 DEF CancelJob, IsConsumed, JobPart, JobsInv, Created
  <2>2. CASE CompleteJob(j)
    BY <2>2 DEF CompleteJob, JobPart, JobsInv
  <2> QED  BY <2>1, <2>2
<1>3. \A k \in Jobs : /\ jobs'[k] = IF k = j THEN NoJob ELSE jobs[k]
                      /\ keys'[k] = IF k = j THEN NoKey ELSE keys[k]
  BY <1>1 DEF TypeOK
<1>4. failures \in Nat
  BY CourseType DEF TypeOK
<1>5. JobsInv'
  BY <1>1, <1>3, <1>4 DEF JobPart, JobsInv, NoJob, NoKey
<1>6. NoGameForgotten'
  BY <1>1, <1>2, <1>3 DEF JobPart, NoGameForgotten, Created
<1> QED  BY <1>5, <1>6 DEF JobPart

LEMMA FailJobPart ==
    ASSUME TypeOK, JobPart, NEW j \in Jobs, FailJob(j)
    PROVE  JobPart'
<1>1. /\ failures' = failures + 1 /\ failures \in Nat /\ MaxAttempts \in Nat \ {0}
      /\ jobs[j].attempt \in Nat /\ jobs[j].attempt < MaxAttempts /\ jobs[j].attempt <= failures
      /\ UNCHANGED <<keys, games>>
  BY CourseType, TournamentAssumption, JobsType DEF FailJob, JobPart, JobsInv, TypeOK
<1>2. \A k \in Jobs :
         /\ k # j => jobs'[k] = jobs[k]
         /\ k = j => /\ jobs'[k].state = IF jobs[j].attempt + 1 < MaxAttempts THEN "Available" ELSE "Discarded"
                     /\ jobs'[k].attempt = jobs[j].attempt + 1
                     /\ jobs'[k].setUp = {}
  BY DEF FailJob, TypeOK
<1>3. JobsInv'
  <2>1. \A k \in Jobs : jobs[k].attempt \in Nat
    BY JobsType
  <2> QED  BY <1>1, <1>2, <2>1 DEF JobPart, JobsInv
<1>4. NoGameForgotten'
  BY <1>1, <1>2 DEF JobPart, NoGameForgotten, Created
<1> QED  BY <1>3, <1>4 DEF JobPart

LEMMA SetupGamePart ==
    ASSUME TypeOK, JobPart, NEW j \in Jobs, NEW m \in DOMAIN games, SetupGame(j, m)
    PROVE  JobPart'
<1>1. /\ jobs' = [jobs EXCEPT ![j]["setUp"] = jobs[j].setUp \cup {m}]
      /\ games' = [games EXCEPT ![m] = "Playing"] /\ UNCHANGED <<keys, failures>>
  BY DEF SetupGame, SetJob, faults
<1>2. \A k \in Jobs : /\ jobs'[k].setUp = IF k = j THEN jobs[k].setUp \cup {m} ELSE jobs[k].setUp
                      /\ jobs'[k].attempt = jobs[k].attempt /\ jobs'[k].state = jobs[k].state
  BY <1>1 DEF TypeOK
<1>3. /\ DOMAIN games' = DOMAIN games
      /\ \A i \in DOMAIN games : games'[i] = IF i = m THEN "Playing" ELSE games[i]
  BY <1>1 DEF TypeOK
<1>4. \A k \in Jobs : jobs[k].setUp \subseteq DOMAIN games
  BY JobsType, MatchesType
<1> QED  BY <1>1, <1>2, <1>3, <1>4 DEF JobPart, JobsInv, NoGameForgotten, Created

LEMMA FinishGamePart ==
    ASSUME TypeOK, JobPart, NEW m \in DOMAIN matches, FinishGame(m)
    PROVE  JobPart'
<1>1. games' = [games EXCEPT ![m] = "Ended"] /\ m \in DOMAIN games /\ UNCHANGED <<keys, jobs, failures>>
  BY MatchesType DEF FinishGame, faults
<1>2. /\ DOMAIN games' = DOMAIN games
      /\ \A i \in DOMAIN games : games'[i] = IF i = m THEN "Ended" ELSE games[i]
  BY <1>1 DEF TypeOK
<1>3. \A k \in Jobs : jobs[k].setUp \subseteq DOMAIN games
  BY JobsType, MatchesType
<1> QED  BY <1>1, <1>2, <1>3 DEF JobPart, JobsInv, NoGameForgotten, Created

LEMMA InsertMatchesPart ==
    ASSUME TypeOK, JobPart, NEW j \in Jobs, jobs[j].state = "Available", ~ IsConsumed(j),
           NEW pairings \in Seq(PairingSet), NEW round \in Nat \ {0},
           NEW total, NEW next, NEW best,
           InsertTournamentMatches(j, pairings, round, total, next, best)
    PROVE  JobPart'
<1> DEFINE n == Len(matches)
           count == Len(pairings)
           new == n + 1 .. n + 1 + count - 1
<1>1. /\ jobs' = [jobs EXCEPT ![j]["state"] = "SetUp"]
      /\ keys' = [keys EXCEPT ![j] = [consumed |-> TRUE, creations |-> new]]
      /\ UNCHANGED failures
  BY DEF InsertTournamentMatches, SetJob, faults
<1>2. \A k \in Jobs : /\ jobs'[k].state = IF k = j THEN "SetUp" ELSE jobs[k].state
                      /\ jobs'[k].attempt = jobs[k].attempt /\ jobs'[k].setUp = jobs[k].setUp
                      /\ keys'[k] = IF k = j THEN [consumed |-> TRUE, creations |-> new] ELSE keys[k]
  BY <1>1 DEF TypeOK
<1>3. /\ Len(matches') = n + count /\ DOMAIN matches' = 1 .. n + count
      /\ games' \in Seq({"None", "Playing", "Ended"}) /\ Len(games') = Len(matches')
      /\ \A i \in DOMAIN matches : games'[i] = games[i]
  BY InsertMatches
<1>4. DOMAIN matches = 1 .. n /\ n \in Nat /\ count \in Nat /\ DOMAIN games = DOMAIN matches
  BY MatchesType
<1>5. DOMAIN games' = 1 .. n + count
  BY <1>3
<1>6. \A i \in 1 .. n + count : i \in 1 .. n \/ i \in new
  BY <1>4
<1>7. \A k \in Jobs : jobs[k].setUp \subseteq DOMAIN matches
  BY JobsType
<1>8. keys[j].creations = {}
  BY DEF IsConsumed, JobPart, JobsInv
<1> HIDE DEF n, count, new
<1>9. JobsInv'
  BY <1>1, <1>2, <1>3, <1>7 DEF JobPart, JobsInv
<1>10. NoGameForgotten'
  <2>1. SUFFICES ASSUME NEW m \in DOMAIN games', games'[m] = "None"
                 PROVE  \E k \in Jobs : /\ m \in keys'[k].creations
                                        /\ jobs'[k].state \in {"Available", "SetUp", "Discarded"}
    BY DEF NoGameForgotten, Created
  <2>2. CASE m \in 1 .. n
    <3>1. m \in DOMAIN games /\ games[m] = "None"
      BY <1>3, <1>4, <2>1, <2>2
    <3>2. PICK k \in Jobs : m \in keys[k].creations /\ jobs[k].state \in {"Available", "SetUp", "Discarded"}
      BY <3>1 DEF JobPart, NoGameForgotten, Created
    <3> QED  BY <1>2, <1>8, <3>2
  <2>3. CASE m \in new
    BY <1>2, <2>3
  <2> QED  BY <1>5, <1>6, <2>1, <2>2, <2>3
<1> QED  BY <1>9, <1>10 DEF JobPart

-----------------------------------------------------------------------------
(* The steps that draw a round.                                              *)

LEMMA EvenHalf ==
    ASSUME NEW n \in Nat \ {0}
    PROVE  2 ^ n \in Nat /\ 2 ^ (n - 1) \in Nat \ {0} /\ 2 ^ n = 2 * 2 ^ (n - 1) /\ 2 ^ n % 2 = 0 /\ 2 ^ n \div 2 = 2 ^ (n - 1)
<1>1. n - 1 \in Nat /\ n - 1 + 1 = n
  OBVIOUS
<1>2. 2 ^ n = 2 * 2 ^ (n - 1) /\ 2 ^ n \in Nat /\ 2 ^ (n - 1) \in Nat
  BY <1>1, PowerDoubles, PowerIsCardinality
<1>3. 2 ^ (n - 1) # 0
  BY <1>1, PowerExceeds, PowerIsCardinality
<1> QED  BY <1>2, <1>3

LEMMA TotalType ==
    ASSUME NEW kind \in {"Knockout", "RoundRobin", "Swiss"}, NEW n \in Nat, NEW r \in Nat
    PROVE  /\ TotalRounds(kind, n, r) \in Nat
           /\ kind = "Knockout" => TotalRounds(kind, n, r) = r
           /\ kind # "Knockout" /\ n >= 2 => TotalRounds(kind, n, r) >= 1
<1>1. CASE kind = "Knockout"
  BY <1>1 DEF TotalRounds
<1>2. CASE kind = "Swiss"
  BY <1>2, SwissRoundsType DEF TotalRounds
<1>3. CASE kind = "RoundRobin"
  <2>1. n * (n - 1) \in Nat /\ (n >= 2 => n * (n - 1) >= 2)
    OBVIOUS
  <2>2. TotalRounds(kind, n, r) = (n * (n - 1)) \div 2
    BY <1>3 DEF TotalRounds
  <2> DEFINE p == n * (n - 1)
  <2> HIDE DEF p
  <2>3. p \in Nat => p \div 2 \in Nat /\ (p >= 2 => p \div 2 >= 1)
    OBVIOUS
  <2> QED  BY <1>3, <2>1, <2>2, <2>3 DEF p
<1> QED  BY <1>1, <1>2, <1>3

LEMMA StartRounds ==
    ASSUME TypeOK, RoundPart, JobPart, NEW j \in Jobs, AdvanceScheduledTournament(j)
    PROVE  TypeOK' /\ RoundPart' /\ JobPart'
<1> DEFINE ps == participants
           n == Len(ps)
           pairings == NewFirstMatches(ruleset, ps)
           total == TotalRounds(ruleset, n, rounds)
<1>1. /\ status = "SCHEDULED" /\ CanStart(ruleset, ps, rounds)
      /\ InsertTournamentMatches(j, pairings, 1, total, "IN_PROGRESS", winner)
  BY DEF AdvanceScheduledTournament
<1>2. matches = <<>> /\ LastRound = 0 /\ AllCompleted(matches)
  BY <1>1 DEF RoundPart, LobbyInv, LastRound, AllCompleted
<1>3. /\ ruleset \in {"Knockout", "RoundRobin", "Swiss"}
      /\ ps \in Seq(Users) /\ IsInjective(ps) /\ n \in Nat /\ rounds \in Nat
      /\ ruleset = "Knockout" => rounds \in Nat \ {0} /\ rounds = course.rounds /\ n = 2 ^ rounds
  BY <1>1, CourseType DEF TypeOK, RoundPart, TotalInv, CanStart, KnockoutParticipants, ruleset
<1>4. n % 2 = 0
  <2>1. CASE ruleset = "Knockout"
    BY <1>3, <2>1, EvenHalf
  <2>2. CASE ruleset # "Knockout"
    BY <1>1, <2>2 DEF CanStart
  <2> QED  BY <2>1, <2>2
<1>5. Fits(pairings, ToSet(ps)) /\ Len(pairings) = n \div 2
  BY <1>3, <1>4, FirstMatchesFit
<1>6. /\ total \in Nat /\ (ruleset = "Knockout" => total = rounds)
      /\ ruleset # "Knockout" /\ n >= 2 => total >= 1
  BY <1>3, TotalType
<1> HIDE DEF pairings, total
<1>7. TypeOK'
  <2>1. pairings \in Seq(PairingSet) /\ 1 \in Nat \ {0} /\ "IN_PROGRESS" \in Statuses
    BY <1>5 DEF Fits, Statuses
  <2>2. winner \in Users \cup {NoWinner}
    BY DEF TypeOK
  <2> QED  BY <1>1, <1>6, <2>1, <2>2, InsertType
<1>12. JobPart'
  <2>1. pairings \in Seq(PairingSet) /\ 1 \in Nat \ {0} /\ jobs[j].state = "Available" /\ ~ IsConsumed(j)
    BY <1>5 DEF Fits, AdvanceScheduledTournament
  <2> QED  BY <1>1, <2>1, InsertMatchesPart
<1>8. UNCHANGED <<course, participants, winner>> /\ status' = "IN_PROGRESS" /\ rounds' = total
  BY <1>1 DEF InsertTournamentMatches
<1>11. /\ Len(matches') = Len(pairings) /\ DOMAIN matches' = 1 .. Len(pairings)
       /\ \A i \in DOMAIN matches' : matches'[i].round = 1
       /\ \E S : matches' \in Seq(S)
  <2>1. pairings \in Seq(PairingSet) /\ 1 \in Nat \ {0} /\ Len(matches) = 0 /\ DOMAIN matches = {}
    BY <1>2, <1>5 DEF Fits
  <2>2. /\ Len(matches') = Len(matches) + Len(pairings)
        /\ DOMAIN matches' = 1 .. Len(matches) + Len(pairings)
        /\ \A i \in 1 .. Len(pairings) :
              matches'[Len(matches) + i] = [round |-> 1, white |-> pairings[i].white,
                                            black |-> pairings[i].black, result |-> "None"]
        /\ \E S : matches' \in Seq(S)
    BY <1>1, <2>1, InsertMatches
  <2>3. Len(pairings) \in Nat
    BY <2>1
  <2> QED  BY <2>1, <2>2, <2>3
<1>9. CASE pairings = <<>>
  <2>1. Len(pairings) = 0
    BY <1>9
  <2>2. Len(matches') = 0 /\ DOMAIN matches' = {}
    BY <1>11, <2>1
  <2>3. matches' = <<>> /\ DOMAIN matches' = {}
    BY <1>11, <2>2
  <2>4. LobbyInv' /\ RoundsInv' /\ FieldInv' /\ HalvesInv' /\ EndInv'
    BY <1>8, <2>3 DEF LobbyInv, RoundsInv, RoundsInOrder, FieldInv, HalvesInv, EndInv, Sorted, OncePerRound
  <2>5. TotalInv'
    BY <1>3, <1>6, <1>8, <2>3 DEF TotalInv, LastRound, ruleset
  <2> QED  BY <1>7, <1>12, <2>4, <2>5 DEF RoundPart
<1>10. CASE pairings # <<>>
  <2>1. /\ RoundsInv' /\ matches' # <<>> /\ LastRound' = 1
        /\ \A u : PlaysIn(matches', 1, u) <=> u \in ToSet(ps)
    <3>1. RoundsInv /\ LastRound + 1 = 1
      BY <1>2 DEF RoundPart
    <3>2. InsertTournamentMatches(j, pairings, LastRound + 1, total, "IN_PROGRESS", winner)
      BY <1>1, <3>1
    <3> QED  BY <1>2, <1>5, <1>10, <3>1, <3>2, InsertRounds
  <2>2. n >= 2
    <3>1. Len(pairings) # 0
      BY <1>5, <1>10 DEF Fits
    <3> QED  BY <1>3, <1>5, <3>1
  <2>3. LobbyInv'
    BY <1>4, <1>8 DEF LobbyInv
  <2>4. TotalInv'
    BY <1>3, <1>6, <1>8, <2>1, <2>2 DEF TotalInv, ruleset
  <2>5. FieldInv'
    BY <1>8, <2>1 DEF FieldInv
  <2>6. HalvesInv'
    <3>1. SUFFICES ASSUME ruleset = "Knockout" PROVE HalvesInv'
      BY <1>8 DEF HalvesInv, ruleset
    <3>2. /\ n = 2 ^ rounds /\ rounds' = rounds /\ rounds \in Nat \ {0}
          /\ 2 ^ (rounds - 1) \in Nat \ {0} /\ n = 2 * 2 ^ (rounds - 1)
      BY <1>3, <1>6, <1>8, <3>1, EvenHalf
    <3>3. Len(matches') = 2 ^ (rounds - 1)
      BY <1>3, <1>5, <1>11, <3>2
    <3>4. \A i \in DOMAIN matches' : matches'[i].round = 1 /\ i > 0
      BY <1>11
    <3> QED  BY <2>1, <3>2, <3>3, <3>4 DEF HalvesInv
  <2>7. EndInv'
    BY <1>8 DEF EndInv
  <2> QED  BY <1>7, <1>12, <2>1, <2>3, <2>4, <2>5, <2>6, <2>7 DEF RoundPart
<1> QED  BY <1>7, <1>9, <1>10, <1>12

LEMMA PrevRoundPlays ==
    ASSUME TypeOK, RoundsInv, matches # <<>>
    PROVE  /\ PrevRound(matches) \in Seq(MatchSet) /\ PrevRound(matches) # <<>>
           /\ Disjoint(PrevRound(matches))
           /\ \A u : Plays(PrevRound(matches), u) <=> PlaysIn(matches, LastRound, u)
           /\ \A u : (\E i \in DOMAIN PrevRound(matches) : KnockoutWinner(PrevRound(matches)[i]) = u)
                        <=> WinsIn(matches, LastRound, u)
           /\ \E f \in 1 .. Len(matches) :
                 /\ Len(PrevRound(matches)) = Len(matches) - f + 1
                 /\ \A i \in 1 .. Len(matches) : matches[i].round = LastRound <=> f <= i
<1> DEFINE n == Len(matches)
           prev == PrevRound(matches)
<1>1. n \in Nat /\ DOMAIN matches = 1 .. n /\ LastRound = Last(matches).round
  BY MatchesType DEF LastRound
<1>2. PICK f \in 1 .. n :
         /\ Len(prev) = n - f + 1
         /\ \A i \in 1 .. n - f + 1 : prev[i] = matches[f + i - 1]
         /\ \A i \in 1 .. n : matches[i].round = LastRound <=> f <= i
  BY <1>1, MatchesType, PrevRoundIs DEF RoundsInv
<1>3. prev \in Seq(MatchSet) /\ prev # <<>>
  BY MatchesType, PrevRoundIs DEF RoundsInv
<1>4. DOMAIN prev = 1 .. n - f + 1
  BY <1>2, <1>3
<1> HIDE DEF prev, n
<1>5. \A i \in DOMAIN prev : /\ f + i - 1 \in DOMAIN matches
                             /\ prev[i] = matches[f + i - 1]
                             /\ matches[f + i - 1].round = LastRound
  <2>1. \A i \in 1 .. n - f + 1 : f + i - 1 \in 1 .. n /\ f <= f + i - 1
    BY <1>1
  <2> QED  BY <1>1, <1>2, <1>4, <2>1
<1>6. \A i \in DOMAIN matches : matches[i].round = LastRound =>
         /\ i - f + 1 \in DOMAIN prev
         /\ prev[i - f + 1] = matches[i]
  <2>1. \A i \in 1 .. n : f <= i => i - f + 1 \in 1 .. n - f + 1 /\ f + (i - f + 1) - 1 = i
    BY <1>1
  <2> QED  BY <1>1, <1>2, <1>4, <2>1
<1>7. Disjoint(prev)
  <2>1. SUFFICES ASSUME NEW i \in DOMAIN prev, NEW k \in DOMAIN prev
                 PROVE  /\ prev[i].white # prev[k].black
                        /\ i # k => prev[i].white # prev[k].white /\ prev[i].black # prev[k].black
    BY DEF Disjoint
  <2>2. i # k => f + i - 1 # f + k - 1
    BY <1>1, <1>4
  <2> QED  BY <1>5, <2>2 DEF RoundsInv, OncePerRound
<1>8. \A u : Plays(prev, u) <=> PlaysIn(matches, LastRound, u)
  BY <1>5, <1>6 DEF Plays, PlaysIn
<1>9. \A u : (\E i \in DOMAIN prev : KnockoutWinner(prev[i]) = u) <=> WinsIn(matches, LastRound, u)
  BY <1>5, <1>6 DEF WinsIn
<1> QED  BY <1>2, <1>3, <1>7, <1>8, <1>9 DEF prev, n

\* Unless it is a knockout, everybody plays in every round.
LEMMA EverybodyPlays ==
    ASSUME TypeOK, RoundPart, matches # <<>>, ruleset # "Knockout"
    PROVE  /\ \A r \in 1 .. LastRound : \A u : PlaysIn(matches, r, u) <=> u \in ToSet(participants)
           /\ PlayersOf(matches) = ToSet(participants)
<1>1. \A r, u : PlaysIn(matches, r, u) => u \in Users
  BY MatchesType DEF PlaysIn
<1>2. ToSet(participants) \subseteq Users
  BY DEF TypeOK, ToSet
<1>3. LastRound \in Nat \ {0}
  BY LastRoundIs
<1>4. \A r \in 1 .. LastRound : \A u \in Users : PlaysIn(matches, r, u) <=> u \in ToSet(participants)
  <2>1. \A r \in 1 .. LastRound : r = 1 \/ r \in 2 .. LastRound
    BY <1>3
  <2> QED  BY <2>1 DEF RoundPart, FieldInv
<1>5. \A r \in 1 .. LastRound : \A u : PlaysIn(matches, r, u) <=> u \in ToSet(participants)
  BY <1>1, <1>2, <1>4
<1>6. PlayersOf(matches) = ToSet(participants)
  <2>1. ASSUME NEW u, Plays(matches, u)  PROVE u \in ToSet(participants)
    <3>1. PICK i \in DOMAIN matches : matches[i].white = u \/ matches[i].black = u
      BY <2>1 DEF Plays
    <3>2. matches[i].round \in 1 .. LastRound /\ PlaysIn(matches, matches[i].round, u)
      BY <1>3, <3>1, LastRoundIs, MatchesType DEF PlaysIn, RoundPart
    <3> QED  BY <1>5, <3>2
  <2>2. ASSUME NEW u \in ToSet(participants)  PROVE Plays(matches, u)
    <3>1. PlaysIn(matches, LastRound, u)
      BY <1>3, <1>5
    <3> QED  BY <3>1 DEF PlaysIn, Plays
  <2> QED  BY <2>1, <2>2, PlayersOfPlay
<1> QED  BY <1>5, <1>6

\* The last round of a knockout: there is another one if it has more than one match.
LEMMA KnockoutHalves ==
    ASSUME TypeOK, RoundPart, matches # <<>>, ruleset = "Knockout", status = "IN_PROGRESS"
    PROVE  /\ Len(PrevRound(matches)) = 2 ^ (rounds - LastRound)
           /\ LastRound \in 1 .. rounds /\ rounds \in Nat
           /\ CanGoOn(ruleset, matches) =>
                 /\ rounds - LastRound \in Nat \ {0}
                 /\ 2 ^ (rounds - LastRound) = 2 * 2 ^ (rounds - LastRound - 1)
                 /\ 2 ^ (rounds - LastRound - 1) \in Nat \ {0}
<1> DEFINE k == rounds - LastRound
<1>1. LastRound \in Nat \ {0} /\ LastRound <= rounds /\ rounds \in Nat
  BY LastRoundIs DEF RoundPart, TotalInv, TypeOK
<1>2. /\ Len(matches) = 2 ^ rounds - 2 ^ k
      /\ Len(matches) >= 2 ^ k
      /\ \A i \in DOMAIN matches : matches[i].round = LastRound <=> i > Len(matches) - 2 ^ k
  BY DEF RoundPart, HalvesInv
<1>3. k \in Nat /\ 2 ^ k \in Nat /\ 2 ^ k # 0
  <2>1. k \in Nat
    BY <1>1
  <2> HIDE DEF k
  <2> QED  BY <2>1, PowerExceeds, PowerIsCardinality
<1>4. PICK f \in 1 .. Len(matches) :
         /\ Len(PrevRound(matches)) = Len(matches) - f + 1
         /\ \A i \in 1 .. Len(matches) : matches[i].round = LastRound <=> f <= i
  BY PrevRoundPlays DEF RoundPart
<1>5. Len(matches) \in Nat /\ DOMAIN matches = 1 .. Len(matches)
  BY MatchesType
<1>6. Len(PrevRound(matches)) = 2 ^ k
  <2> DEFINE K == 2 ^ k
             n == Len(matches)
  <2>1. n - K + 1 \in 1 .. n /\ n \in Nat /\ K \in Nat
    BY <1>2, <1>3, <1>5
  <2>2. \A i \in 1 .. n : f <= i <=> i > n - K
    BY <1>2, <1>4, <1>5
  <2> HIDE DEF K, n
  <2>3. f <= n - K + 1 /\ f > n - K
    <3>1. n - K + 1 > n - K /\ f <= f /\ f \in 1 .. n
      BY <1>4, <2>1 DEF n
    <3> QED  BY <2>1, <2>2, <3>1
  <2> QED  BY <1>4, <2>1, <2>3 DEF K, n
<1>7. ASSUME CanGoOn(ruleset, matches)  PROVE k # 0
  <2>1. SUFFICES ASSUME k = 0 PROVE FALSE
    OBVIOUS
  <2>2. 2 ^ k = 1
    BY <2>1, PowerOfZero
  <2>3. rounds \in Nat \ {0}
    BY <1>1
  <2>4. 2 ^ rounds \in Nat /\ 2 ^ rounds % 2 = 0
    BY <2>3, EvenHalf
  <2>5. Len(matches) % 2 = 0
    BY <1>7 DEF CanGoOn
  <2> QED  BY <1>2, <2>2, <2>4, <2>5
<1>8. k # 0 => 2 ^ k = 2 * 2 ^ (k - 1) /\ 2 ^ (k - 1) \in Nat \ {0}
  <2> HIDE DEF k
  <2> QED  BY <1>3, EvenHalf
<1> QED  BY <1>1, <1>3, <1>6, <1>7, <1>8

\* Who plays in the round that is drawn.
NextPlayers ==
    IF ruleset = "Knockout" THEN {u \in Users : WinsIn(matches, LastRound, u)} ELSE ToSet(participants)

LEMMA NextMatchesFit ==
    ASSUME TypeOK, RoundPart, CanGoOn(ruleset, matches), status = "IN_PROGRESS"
    PROVE  /\ Fits(DoMatchmaking(ruleset, matches), NextPlayers)
           /\ DoMatchmaking(ruleset, matches) # <<>>
           /\ ruleset = "Knockout" =>
                 Len(DoMatchmaking(ruleset, matches)) = 2 ^ (rounds - LastRound - 1)
<1> DEFINE prev == PrevRound(matches)
<1>1. matches # <<>> /\ matches \in Seq(MatchSet) /\ RoundsInv /\ LastRound \in Nat \ {0}
  BY MatchesType, LastRoundIs DEF CanGoOn, RoundPart
<1>2. /\ prev \in Seq(MatchSet) /\ prev # <<>> /\ Disjoint(prev)
      /\ \A u : Plays(prev, u) <=> PlaysIn(matches, LastRound, u)
      /\ \A u : (\E i \in DOMAIN prev : KnockoutWinner(prev[i]) = u) <=> WinsIn(matches, LastRound, u)
  BY <1>1, PrevRoundPlays
<1>3. ruleset \in {"Knockout", "RoundRobin", "Swiss"}
  BY CourseType DEF TypeOK
<1>4. CASE ruleset = "Knockout"
  <2>1. \A u : WinsIn(matches, LastRound, u) => u \in Users
    BY MatchesType DEF WinsIn, KnockoutWinner
  <2>2. \A u : (\E i \in DOMAIN prev : KnockoutWinner(prev[i]) = u) <=> u \in NextPlayers
    BY <1>2, <1>4, <2>1 DEF NextPlayers
  <2>3. /\ Len(prev) = 2 ^ (rounds - LastRound)
        /\ 2 ^ (rounds - LastRound) = 2 * 2 ^ (rounds - LastRound - 1)
        /\ 2 ^ (rounds - LastRound - 1) \in Nat \ {0}
    BY <1>1, <1>4, KnockoutHalves
  <2>4. Len(prev) % 2 = 0 /\ Len(prev) \div 2 = 2 ^ (rounds - LastRound - 1)
    BY <2>3
  <2>5. /\ Fits(DoKnockoutMatchmaking(matches), NextPlayers)
        /\ Len(DoKnockoutMatchmaking(matches)) = 2 ^ (rounds - LastRound - 1)
    BY <1>2, <2>2, <2>4, KnockoutFits
  <2>6. DoMatchmaking(ruleset, matches) = DoKnockoutMatchmaking(matches)
    BY <1>4 DEF DoMatchmaking
  <2>7. DoKnockoutMatchmaking(matches) # <<>>
    BY <2>3, <2>5
  <2> QED  BY <2>5, <2>6, <2>7
<1>5. CASE ruleset # "Knockout"
  <2>1. /\ \A u : Plays(prev, u) <=> u \in ToSet(participants)
        /\ PlayersOf(matches) = ToSet(participants) /\ NextPlayers = ToSet(participants)
    BY <1>1, <1>2, <1>5, EverybodyPlays DEF NextPlayers
  <2>2. CASE ruleset = "RoundRobin"
    <3>1. DoMatchmaking(ruleset, matches) = DoRoundRobinMatchmaking(matches)
      BY <2>2 DEF DoMatchmaking
    <3>2. Fits(DoRoundRobinMatchmaking(matches), NextPlayers) /\ DoRoundRobinMatchmaking(matches) # <<>>
      BY <1>2, <2>1, RoundRobinFits
    <3> QED  BY <1>5, <3>1, <3>2
  <2>3. CASE ruleset = "Swiss"
    <3>1. DoMatchmaking(ruleset, matches) = DoSwissMatchmaking(matches)
      BY <2>3 DEF DoMatchmaking
    <3>2. participants \in Seq(Users) /\ IsInjective(participants) /\ Len(participants) % 2 = 0
      BY <1>1 DEF TypeOK, RoundPart, LobbyInv
    <3>3. Fits(DoSwissMatchmaking(matches), ToSet(participants))
      BY <1>1, <2>1, <3>2, SwissFits
    <3>4. DoSwissMatchmaking(matches) # <<>>
      <4>1. PICK i \in DOMAIN prev : TRUE
        BY <1>2
      <4>2. prev[i].white \in ToSet(participants)
        BY <2>1 DEF Plays
      <4>3. Plays(DoSwissMatchmaking(matches), prev[i].white)
        BY <3>3, <4>2 DEF Fits
      <4> QED  BY <4>3 DEF Plays
    <3> QED  BY <1>5, <2>1, <3>1, <3>3, <3>4
  <2> QED  BY <1>3, <1>5, <2>2, <2>3
<1> QED  BY <1>4, <1>5

LEMMA GoOnRounds ==
    ASSUME TypeOK, RoundPart, JobPart, NEW j \in Jobs, AdvanceInProgressTournament(j)
    PROVE  TypeOK' /\ RoundPart' /\ JobPart'
<1> DEFINE pairings == DoMatchmaking(ruleset, matches)
           n == Len(matches)
           count == Len(pairings)
<1>1. /\ status = "IN_PROGRESS" /\ AllCompleted(matches) /\ CanGoOn(ruleset, matches)
      /\ matches # <<>> /\ RoundsInv
  BY DEF AdvanceInProgressTournament, CanGoOn, RoundPart
<1>2. /\ LastRound = Last(matches).round /\ LastRound \in Nat \ {0} /\ rounds \in Nat /\ LastRound <= rounds
      /\ n \in Nat /\ DOMAIN matches = 1 .. n /\ \A i \in 1 .. n : matches[i].round \in Nat \ {0}
      /\ ruleset \in {"Knockout", "RoundRobin", "Swiss"}
  BY <1>1, LastRoundIs, MatchesType, CourseType DEF LastRound, TypeOK, RoundPart, TotalInv
<1>3. Fits(pairings, NextPlayers) /\ pairings # <<>> /\ pairings \in Seq(PairingSet)
  BY <1>1, NextMatchesFit DEF Fits
<1>4. ruleset = "Knockout" => LastRound + 1 <= rounds
  BY <1>1, <1>2, KnockoutHalves
<1>5. PICK next \in Statuses, best \in Users \cup {NoWinner} :
         /\ InsertTournamentMatches(j, pairings, LastRound + 1, rounds, next, best)
         /\ LastRound + 1 > rounds => next = "FINISHED" /\ best \in TournamentWinners(ruleset, matches)
         /\ ~ (LastRound + 1 > rounds) => next = "IN_PROGRESS"
  <2> HIDE DEF pairings
  <2>1. IF LastRound + 1 > rounds
        THEN \E best \in TournamentWinners(ruleset, matches) :
                InsertTournamentMatches(j, pairings, LastRound + 1, rounds, "FINISHED", best)
        ELSE InsertTournamentMatches(j, pairings, LastRound + 1, rounds, "IN_PROGRESS", winner)
    BY <1>2 DEF AdvanceInProgressTournament, pairings
  <2>2. "FINISHED" \in Statuses /\ "IN_PROGRESS" \in Statuses /\ winner \in Users \cup {NoWinner}
    BY DEF TypeOK, Statuses
  <2>3. TournamentWinners(ruleset, matches) \subseteq Users
    <3>1. PlayersOf(matches) \subseteq Users /\ \A i \in DOMAIN matches : KnockoutWinner(matches[i]) \in Users
      BY MatchesType DEF PlayersOf, KnockoutWinner
    <3>2. KnockoutWinner(Last(matches)) \in Users
      BY <1>1, <3>1, LastRoundIs DEF Last
    <3> QED  BY <3>1, <3>2 DEF TournamentWinners
  <2>4. CASE LastRound + 1 > rounds
    BY <2>1, <2>2, <2>3, <2>4
  <2>5. CASE ~ (LastRound + 1 > rounds)
    BY <2>1, <2>2, <2>5
  <2> QED  BY <2>4, <2>5
<1> HIDE DEF pairings
<1>6. TypeOK'
  BY <1>2, <1>3, <1>5, InsertType
<1>15. JobPart'
  <2>1. LastRound + 1 \in Nat \ {0} /\ jobs[j].state = "Available" /\ ~ IsConsumed(j)
    BY <1>2 DEF AdvanceInProgressTournament
  <2> QED  BY <1>3, <1>5, <2>1, InsertMatchesPart
<1>7. UNCHANGED <<course, participants, rounds>> /\ status' = next /\ winner' = best
  BY <1>5 DEF InsertTournamentMatches
<1>8. /\ RoundsInv'
      /\ matches' # <<>> /\ LastRound' = LastRound + 1
      /\ \A i \in 1 .. n : matches'[i].round <= LastRound
      /\ \A u : PlaysIn(matches', LastRound + 1, u) <=> u \in NextPlayers
      /\ \A r \in 1 .. LastRound : \A u :
            /\ PlaysIn(matches', r, u) <=> PlaysIn(matches, r, u)
            /\ WinsIn(matches', r, u) <=> WinsIn(matches, r, u)
  BY <1>1, <1>3, <1>5, InsertRounds
<1>9. /\ Len(matches') = n + count /\ DOMAIN matches' = 1 .. n + count
      /\ \A i \in 1 .. n : i \in DOMAIN matches' /\ matches'[i] = matches[i]
      /\ \A i \in DOMAIN matches' : i > n => matches'[i].round = LastRound + 1
      /\ count \in Nat
  <2>1. LastRound + 1 \in Nat \ {0} /\ count \in Nat
    BY <1>2, <1>3
  <2>2. /\ Len(matches') = n + count /\ DOMAIN matches' = 1 .. n + count
        /\ \A i \in 1 .. n : matches'[i] = matches[i]
        /\ \A i \in 1 .. count :
              matches'[n + i] = [round |-> LastRound + 1, white |-> pairings[i].white,
                                 black |-> pairings[i].black, result |-> "None"]
        /\ \A i \in DOMAIN matches' : \/ i \in DOMAIN matches
                                      \/ i > n /\ i - n \in 1 .. count /\ n + (i - n) = i
    BY <1>3, <1>5, <2>1, InsertMatches
  <2>3. ASSUME NEW i \in DOMAIN matches', i > n  PROVE matches'[i].round = LastRound + 1
    <3>1. i - n \in 1 .. count /\ n + (i - n) = i
      BY <1>2, <2>2, <2>3
    <3>2. matches'[n + (i - n)] = [round |-> LastRound + 1, white |-> pairings[i - n].white,
                                   black |-> pairings[i - n].black, result |-> "None"]
      BY <2>2, <3>1, Zenon
    <3> QED  BY <3>1, <3>2
  <2>4. \A i \in 1 .. n : i \in 1 .. n + count
    BY <1>2, <2>1
  <2> QED  BY <2>1, <2>2, <2>3, <2>4
<1>10. LobbyInv'
  BY <1>1, <1>5, <1>7 DEF LobbyInv, RoundPart, Statuses
<1>11. TotalInv'
  BY <1>2, <1>4, <1>5, <1>7, <1>8 DEF TotalInv, RoundPart, ruleset
<1>12. FieldInv'
  <2>1. \A u \in Users : PlaysIn(matches', 1, u) <=> u \in ToSet(participants)
    <3>1. 1 \in 1 .. LastRound
      BY <1>2
    <3> QED  BY <1>1, <1>8, <3>1 DEF RoundPart, FieldInv
  <2>2. ASSUME NEW r \in 2 .. LastRound + 1, NEW u \in Users
        PROVE  PlaysIn(matches', r, u) <=>
                  IF ruleset = "Knockout" THEN WinsIn(matches', r - 1, u) ELSE u \in ToSet(participants)
    <3>1. CASE r \in 2 .. LastRound
      <4>1. r \in 1 .. LastRound /\ r - 1 \in 1 .. LastRound
        BY <1>2, <3>1
      <4> QED  BY <1>1, <1>8, <3>1, <4>1 DEF RoundPart, FieldInv
    <3>2. CASE r = LastRound + 1
      <4>1. LastRound \in 1 .. LastRound /\ r - 1 = LastRound
        BY <1>2, <3>2
      <4> QED  BY <1>8, <3>2, <4>1 DEF NextPlayers
    <3> QED  BY <1>2, <3>1, <3>2
  <2> QED  BY <1>7, <1>8, <2>1, <2>2 DEF FieldInv, ruleset
<1>13. HalvesInv'
  <2>1. SUFFICES ASSUME ruleset = "Knockout" PROVE HalvesInv'
    BY <1>7 DEF HalvesInv, ruleset
  <2> DEFINE K == 2 ^ (rounds - LastRound - 1)
  <2>2. count = K
    BY <1>1, <2>1, NextMatchesFit DEF pairings
  <2>3. 2 ^ (rounds - LastRound) = 2 * K /\ K \in Nat \ {0}
    BY <1>1, <2>1, KnockoutHalves
  <2>4. n = 2 ^ rounds - 2 ^ (rounds - LastRound) /\ 2 ^ rounds \in Nat
    BY <1>1, <1>2, <2>1, PowerIsCardinality DEF RoundPart, HalvesInv
  <2>5. rounds' - LastRound' = rounds - LastRound - 1
    BY <1>2, <1>7, <1>8
  <2>6. 2 ^ (rounds' - LastRound') = K
    BY <2>5
  <2> HIDE DEF K
  <2>7. Len(matches') = 2 ^ rounds - K /\ Len(matches') >= K /\ Len(matches') - K = n
    <3> DEFINE P == 2 ^ rounds
               Q == 2 ^ (rounds - LastRound)
               L == Len(matches')
    <3>1. n \in Nat /\ L = n + K /\ n = P - Q /\ Q = 2 * K /\ K \in Nat /\ P \in Nat
      BY <1>2, <1>9, <2>2, <2>3, <2>4
    <3> HIDE DEF P, Q, L, n
    <3>2. L = P - K /\ L >= K /\ L - K = n
      BY <3>1
    <3> QED  BY <3>2 DEF P, L, n
  <2>8. ASSUME NEW i \in DOMAIN matches'  PROVE matches'[i].round = LastRound + 1 <=> i > n
    <3>1. CASE i \in 1 .. n
      BY <1>2, <1>8, <1>9, <3>1
    <3>2. CASE i \notin 1 .. n
      BY <1>2, <1>9, <3>2
    <3> QED  BY <3>1, <3>2
  <2> QED  BY <1>7, <1>8, <2>6, <2>7, <2>8 DEF HalvesInv
<1>14. EndInv'
  <2>1. SUFFICES ASSUME next = "FINISHED" PROVE EndInv'
    BY <1>7 DEF EndInv
  <2>2. rounds < LastRound + 1 /\ best \in TournamentWinners(ruleset, matches) /\ ruleset # "Knockout"
    BY <1>2, <1>4, <1>5, <2>1
  <2>3. \A i \in DOMAIN matches' : matches'[i].round <= rounds <=> i \in 1 .. n
    <3>1. TAKE i \in DOMAIN matches'
    <3>2. CASE i \in 1 .. n
      BY <1>2, <1>8, <1>9, <3>2
    <3>3. CASE i \notin 1 .. n
      BY <1>2, <1>9, <2>2, <3>3
    <3> QED  BY <3>2, <3>3
  <2>4. \A i \in DOMAIN matches' : matches'[i].round <= rounds => matches'[i].result # "None"
    BY <1>1, <1>2, <1>9, <2>3 DEF AllCompleted
  <2>5. Matches(1 .. rounds)' = matches
    <3>1. {i \in DOMAIN matches' : matches'[i].round \in 1 .. rounds} = 1 .. n
      <4>1. \A i \in DOMAIN matches' : i \in 1 .. n => matches'[i].round \in 1 .. rounds
        BY <1>2, <1>9, <2>3
      <4>2. \A i \in DOMAIN matches' : matches'[i].round \in 1 .. rounds => i \in 1 .. n
        BY <1>2, <2>3
      <4> QED  BY <1>9, <4>1, <4>2
    <3>2. Matches(1 .. rounds)' = [i \in 1 .. n |-> matches'[i]]
      BY <1>7, <3>1 DEF Matches, Restrict
    <3>3. matches = [i \in 1 .. n |-> matches[i]]
      BY <1>2, MatchesType
    <3> QED  BY <1>9, <3>2, <3>3
  <2>6. /\ best \in ToSet(participants)
        /\ \A u \in ToSet(participants) : Wins(matches, u) <= Wins(matches, best)
    <3>1. PlayersOf(matches) = ToSet(participants)
      BY <1>1, <2>2, EverybodyPlays
    <3> QED  BY <1>2, <2>2, <3>1, WinnersHaveMost, MatchesType
  <2>7. WinnerHasMost'
    BY <1>7, <2>5, <2>6 DEF WinnerHasMost
  <2> QED  BY <1>7, <2>4, <2>7 DEF EndInv
<1> QED  BY <1>6, <1>8, <1>10, <1>11, <1>12, <1>13, <1>14, <1>15 DEF RoundPart

-----------------------------------------------------------------------------
(* The theorems.                                                             *)

LEMMA InitInv == Init => Inv
<1>1. SUFFICES ASSUME Init PROVE Inv
  OBVIOUS
<1>2. TypeOK
  BY <1>1, InitType
<1>3. matches = <<>> /\ games = <<>> /\ DOMAIN matches = {} /\ DOMAIN games = {} /\ status = "LOBBY"
  BY <1>1 DEF Init
<1>4. RoundPart
  <2>1. ruleset = "Knockout" => rounds = course.rounds
    BY <1>1 DEF Init
  <2> QED  BY <1>3, <2>1 DEF RoundPart, LobbyInv, TotalInv, RoundsInv, RoundsInOrder, FieldInv, HalvesInv,
              EndInv, Sorted, OncePerRound
<1>5. JobPart
  <2>1. \A j \in Jobs : keys[j] = NoKey /\ jobs[j] = NoJob
    BY <1>1 DEF Init
  <2>2. failures = 0
    BY <1>1 DEF Init
  <2> QED  BY <1>3, <2>1, <2>2 DEF JobPart, JobsInv, NoGameForgotten, NoKey, NoJob
<1> QED  BY <1>2, <1>4, <1>5 DEF Inv

LEMMA NextInv == Inv /\ [Next]_vars => Inv'
<1>1. SUFFICES ASSUME TypeOK, RoundPart, JobPart, [Next]_vars PROVE Inv'
  BY DEF Inv
<1>2. CASE UNCHANGED vars
  <2>1. TypeOK'
    BY <1>1, <1>2 DEF vars, TypeOK
  <2> QED  BY <1>1, <1>2, <2>1, RoundFrame, JobFrame DEF vars, row, Inv
<1>3. ASSUME NEW u \in Users, JoinTournament(u) \/ LeaveTournament(u)  PROVE Inv'
  <2>1. TypeOK'
    BY <1>1, <1>3, LobbyType
  <2>2. status = "LOBBY" /\ UNCHANGED <<course, status, rounds, winner, matches, keys, jobs, games, failures>>
    BY <1>3 DEF JoinTournament, LeaveTournament, row, faults
  <2> QED  BY <1>1, <2>1, <2>2, LobbyRounds, JobFrame DEF Inv
<1>4. ASSUME NEW u \in Users, BeginTournamentCountdown(u)  PROVE Inv'
  <2>1. TypeOK'
    BY <1>1, <1>4, QueueType DEF JobPart
  <2>2. /\ status = "LOBBY" /\ status' = "SCHEDULED" /\ InsertJob
        /\ UNCHANGED <<course, rounds, winner, matches, keys, games, failures>>
    BY <1>4 DEF BeginTournamentCountdown, faults
  <2> QED  BY <1>1, <2>1, <2>2, LobbyRounds, InsertJobPart DEF Inv
<1>5. ASSUME NEW j \in Jobs, TakeUpAgain(j) \/ CancelJob(j) \/ CompleteJob(j) \/ FailJob(j)  PROVE Inv'
  <2>1. TypeOK'
    BY <1>1, <1>5, QueueType DEF JobPart
  <2>2. UNCHANGED <<row, participants, matches>>
    BY <1>5 DEF TakeUpAgain, CancelJob, CompleteJob, FailJob
  <2>3. JobPart'
    BY <1>1, <1>5, TakeUpAgainPart, EndJobPart, FailJobPart
  <2> QED  BY <1>1, <2>1, <2>2, <2>3, RoundFrame DEF Inv
<1>6. ASSUME NEW j \in Jobs, NEW m \in DOMAIN games, SetupGame(j, m)  PROVE Inv'
  <2>1. TypeOK'
    BY <1>1, <1>6, QueueType DEF JobPart
  <2>2. UNCHANGED <<row, participants, matches>>
    BY <1>6 DEF SetupGame
  <2> QED  BY <1>1, <1>6, <2>1, <2>2, RoundFrame, SetupGamePart DEF Inv
<1>7. ASSUME NEW j \in Jobs, AdvanceScheduledTournament(j)  PROVE Inv'
  BY <1>1, <1>7, StartRounds DEF Inv
<1>8. ASSUME NEW j \in Jobs, AdvanceInProgressTournament(j)  PROVE Inv'
  BY <1>1, <1>8, GoOnRounds DEF Inv
<1>9. ASSUME NEW m \in DOMAIN matches, FinishGame(m)  PROVE Inv'
  <2>1. UNCHANGED <<row, participants, matches>>
    BY <1>9 DEF FinishGame
  <2> QED  BY <1>1, <1>9, <2>1, FinishGameType, RoundFrame, FinishGamePart DEF Inv
<1>10. ASSUME NEW m \in DOMAIN matches, RepeatEvent(m)  PROVE Inv'
  <2>1. TypeOK'
    BY <1>1, <1>10, QueueType DEF JobPart
  <2>2. InsertJob /\ UNCHANGED <<row, participants, matches>> /\ UNCHANGED <<keys, games, failures>>
    BY <1>10 DEF RepeatEvent
  <2> QED  BY <1>1, <2>1, <2>2, RoundFrame, InsertJobPart DEF Inv
<1>11. ASSUME NEW e \in events, RecordResult(e)  PROVE Inv'
  <2>1. UNCHANGED <<keys, jobs, games, failures>>
    BY <1>11 DEF RecordResult, faults
  <2> QED  BY <1>1, <1>11, <2>1, RecordResultType, RecordRounds, JobFrame DEF Inv
<1>12. ASSUME NEW e \in events, PublishTournamentEvent(e)  PROVE Inv'
  <2>1. TypeOK'
    BY <1>1, <1>12, QueueType DEF JobPart
  <2>2. InsertJob /\ UNCHANGED <<row, participants, matches>> /\ UNCHANGED <<keys, games, failures>>
    BY <1>12 DEF PublishTournamentEvent, faults
  <2> QED  BY <1>1, <2>1, <2>2, RoundFrame, InsertJobPart DEF Inv
<1>13. ASSUME NEW e \in events, LoseEvent(e)  PROVE Inv'
  <2>1. TypeOK'
    BY <1>1, <1>13, QueueType DEF JobPart
  <2>2. UNCHANGED <<row, participants, matches>> /\ UNCHANGED <<keys, jobs, games, failures>>
    BY <1>13 DEF LoseEvent
  <2> QED  BY <1>1, <2>1, <2>2, RoundFrame, JobFrame DEF Inv
<1>14. course.movers \subseteq Users
  BY <1>1, CourseType DEF TypeOK
<1> QED  BY <1>1, <1>2, <1>3, <1>4, <1>5, <1>6, <1>7, <1>8, <1>9, <1>10, <1>11, <1>12, <1>13, <1>14
         DEF Next, WorkJob, AdvanceTournament, HandleFinishedGame

(***************************************************************************)
(* The invariant is inductive, whatever the users, their ratings, the      *)
(* lobby, the jobs and the bounds of what may go wrong.                    *)
(***************************************************************************)
THEOREM Invariance == Spec => []Inv
BY InitInv, NextInv, PTL DEF Spec

(***************************************************************************)
(* Every state of a tournament is one of the tables, the queue and Redis:  *)
(* its event keys and jobs only name matches that exist.                   *)
(***************************************************************************)
THEOREM TypeCorrect == Spec => []TypeOK
<1>1. Inv => TypeOK
  BY DEF Inv
<1> QED  BY <1>1, Invariance, PTL

(***************************************************************************)
(* No job, new, repeated or tried again, draws a round before all results  *)
(* of the one before are recorded.                                         *)
(***************************************************************************)
THEOREM OneRoundAfterTheOther == Spec => []RoundsInOrder
<1>1. Inv => RoundsInOrder
  BY DEF Inv, RoundPart, RoundsInv
<1> QED  BY <1>1, Invariance, PTL

LEMMA RoundPlays ==
    ASSUME NEW r, NEW u
    PROVE  /\ u \in PlayersOf(Round(r)) <=> PlaysIn(matches, r, u)
           /\ u \in {KnockoutWinner(m) : m \in Range(Round(r))} <=> WinsIn(matches, r, u)
<1>1. /\ \A i : i \in DOMAIN Round(r) <=> i \in DOMAIN matches /\ matches[i].round = r
      /\ \A i \in DOMAIN Round(r) : Round(r)[i] = matches[i]
  BY DEF Round, Matches, Restrict
<1>2. u \in PlayersOf(Round(r)) <=> PlaysIn(matches, r, u)
  BY <1>1, PlayersOfPlay DEF Plays, PlaysIn
<1>3. u \in {KnockoutWinner(m) : m \in Range(Round(r))} <=>
         \E i \in DOMAIN Round(r) : u = KnockoutWinner(Round(r)[i])
  BY DEF Range
<1>4. u \in {KnockoutWinner(m) : m \in Range(Round(r))} <=> WinsIn(matches, r, u)
  BY <1>1, <1>3 DEF WinsIn
<1> QED  BY <1>2, <1>4

(***************************************************************************)
(* Nobody plays twice in a round or against himself, and the players go    *)
(* on as the ruleset says, for any number of players and rounds.           *)
(***************************************************************************)
THEOREM RoundsArePlayedOn == Spec => []PlayersGoOn
<1>1. ASSUME Inv  PROVE PlayersGoOn
  <2>1. TypeOK /\ RoundPart /\ OncePerRound(matches)
    BY <1>1 DEF Inv, RoundPart, RoundsInv
  <2>2. \A i, k \in DOMAIN matches :
          i # k /\ matches[i].round = matches[k].round =>
              {matches[i].white, matches[i].black} \cap {matches[k].white, matches[k].black} = {}
    BY <2>1 DEF OncePerRound
  <2>3. \A i \in DOMAIN matches : matches[i].white # matches[i].black
    BY <2>1 DEF OncePerRound
  <2>4. ASSUME NEW r \in 2 .. LastRound
        PROVE  PlayersOf(Round(r)) =
                  IF ruleset = "Knockout"
                  THEN {KnockoutWinner(m) : m \in Range(Round(r - 1))}
                  ELSE PlayersOf(Round(r - 1))
    <3>1. matches # <<>>
      BY DEF LastRound
    <3>2. LastRound \in Nat /\ r \in 1 .. LastRound /\ r - 1 \in 1 .. LastRound
      BY <2>1, <3>1, LastRoundIs
    <3>3. CASE ruleset = "Knockout"
      <4>1. \A u : PlaysIn(matches, r, u) \/ WinsIn(matches, r - 1, u) => u \in Users
        BY <2>1, MatchesType DEF PlaysIn, WinsIn, KnockoutWinner
      <4>2. \A u \in Users : PlaysIn(matches, r, u) <=> WinsIn(matches, r - 1, u)
        BY <2>1, <3>1, <3>3 DEF RoundPart, FieldInv
      <4>3. \A u : u \in PlayersOf(Round(r)) <=> u \in {KnockoutWinner(m) : m \in Range(Round(r - 1))}
        BY <4>1, <4>2, RoundPlays
      <4>4. PlayersOf(Round(r)) = {KnockoutWinner(m) : m \in Range(Round(r - 1))}
        BY <4>3
      <4> QED  BY <3>3, <4>4
    <3>4. CASE ruleset # "Knockout"
      <4>1. \A u : PlaysIn(matches, r, u) <=> PlaysIn(matches, r - 1, u)
        BY <2>1, <3>1, <3>2, <3>4, EverybodyPlays
      <4>2. \A u : u \in PlayersOf(Round(r)) <=> u \in PlayersOf(Round(r - 1))
        BY <4>1, RoundPlays
      <4>3. PlayersOf(Round(r)) = PlayersOf(Round(r - 1))
        BY <4>2
      <4> QED  BY <3>4, <4>3
    <3> QED  BY <3>3, <3>4
  <2> QED  BY <2>2, <2>3, <2>4 DEF PlayersGoOn
<1> QED  BY <1>1, Invariance, PTL

(***************************************************************************)
(* The first round is drawn for exactly the participants, who no longer    *)
(* change: a player who leaves while the tournament starts is not paired.  *)
(***************************************************************************)
THEOREM ParticipantsAreDrawn == Spec => []ParticipantsPlay
<1>1. ASSUME Inv  PROVE ParticipantsPlay
  <2>1. SUFFICES ASSUME matches # <<>> PROVE PlayersOf(Round(1)) = ToSet(participants)
    BY DEF ParticipantsPlay
  <2>2. \A u : PlaysIn(matches, 1, u) => u \in Users
    BY <1>1, MatchesType DEF PlaysIn, Inv
  <2>3. ToSet(participants) \subseteq Users
    BY <1>1 DEF Inv, TypeOK, ToSet
  <2>4. \A u \in Users : PlaysIn(matches, 1, u) <=> u \in ToSet(participants)
    BY <1>1, <2>1 DEF Inv, RoundPart, FieldInv
  <2>5. \A u : u \in PlayersOf(Round(1)) <=> u \in ToSet(participants)
    BY <2>2, <2>3, <2>4, RoundPlays
  <2> QED  BY <2>5
<1> QED  BY <1>1, Invariance, PTL

(***************************************************************************)
(* While fewer failures happen than a job has attempts, every committed    *)
(* match that has no game yet has a job that will set it up.               *)
(***************************************************************************)
THEOREM NoGameIsForgotten == Spec => [](course.failures < MaxAttempts => GamesAreSetUp)
<1>1. ASSUME Inv, course.failures < MaxAttempts  PROVE GamesAreSetUp
  <2>1. \A j \in Jobs : jobs[j].state # "Discarded"
    <3>1. failures <= course.failures /\ failures \in Nat /\ course.failures \in Nat /\ MaxAttempts \in Nat
      BY <1>1, CourseType, TournamentAssumption DEF Inv, TypeOK
    <3>2. \A j \in Jobs : jobs[j].attempt <= failures /\ (jobs[j].state = "Discarded" => jobs[j].attempt = MaxAttempts)
      BY <1>1 DEF Inv, JobPart, JobsInv
    <3> QED  BY <1>1, <3>1, <3>2
  <2> QED  BY <1>1, <2>1 DEF Inv, JobPart, NoGameForgotten, GamesAreSetUp
<1> QED  BY <1>1, Invariance, PTL

(***************************************************************************)
(* The winner took part and nobody has won more often in the rounds that   *)
(* count, although one more round is drawn and may be played.              *)
(***************************************************************************)
THEOREM BestPlayerWins == Spec => []WinnerHasMost
<1>1. Inv => WinnerHasMost
  BY DEF Inv, RoundPart, EndInv, WinnerHasMost
<1> QED  BY <1>1, Invariance, PTL

(***************************************************************************)
(* A knockout of any size never finishes: the rounds halve until one       *)
(* match is left, of an odd number in all, which is then refused; so the   *)
(* run that finds this for one round is no accident of its bounds.         *)
(***************************************************************************)
THEOREM KnockoutStops ==
    Spec => [](ruleset = "Knockout" => status # "FINISHED" /\ LastRound <= rounds /\ HalvesInv)
<1>1. ASSUME Inv, ruleset = "Knockout"  PROVE status # "FINISHED" /\ LastRound <= rounds /\ HalvesInv
  <2>1. status # "FINISHED" /\ HalvesInv /\ TypeOK /\ TotalInv /\ LobbyInv
    BY <1>1 DEF Inv, RoundPart, TotalInv
  <2>2. CASE status = "IN_PROGRESS"
    BY <2>1, <2>2 DEF TotalInv
  <2>3. CASE status # "IN_PROGRESS"
    <3>1. matches = <<>> /\ rounds \in Nat
      BY <2>1, <2>3 DEF LobbyInv, TypeOK, Statuses
    <3> QED  BY <2>1, <3>1 DEF LastRound
  <2> QED  BY <2>1, <2>2, <2>3
<1> QED  BY <1>1, Invariance, PTL

(***************************************************************************)
(* The status goes through lobby, schedule and play to the end, never      *)
(* back, and a finished tournament keeps its winner.                       *)
(***************************************************************************)
THEOREM StatusMovesForward == Spec => StatusForward
<1> DEFINE Forward ==
        /\ status' # status => <<status, status'>> \in
             {<<"LOBBY", "SCHEDULED">>, <<"SCHEDULED", "IN_PROGRESS">>, <<"IN_PROGRESS", "FINISHED">>}
        /\ status = "FINISHED" => winner' = winner
<1>1. ASSUME [Next]_vars  PROVE [Forward]_vars
  <2>1. CASE UNCHANGED <<status, winner>>
    BY <2>1
  <2>2. ASSUME NEW u \in Users, BeginTournamentCountdown(u)  PROVE Forward
    BY <2>2 DEF BeginTournamentCountdown
  <2>3. ASSUME NEW j \in Jobs, AdvanceScheduledTournament(j)  PROVE Forward
    BY <2>3 DEF AdvanceScheduledTournament, InsertTournamentMatches
  <2>4. ASSUME NEW j \in Jobs, AdvanceInProgressTournament(j)  PROVE Forward
    BY <2>4 DEF AdvanceInProgressTournament, InsertTournamentMatches
  <2>5. ASSUME Next, ~ UNCHANGED <<status, winner>>
        PROVE  \/ \E u \in Users : BeginTournamentCountdown(u)
               \/ \E j \in Jobs : AdvanceScheduledTournament(j) \/ AdvanceInProgressTournament(j)
    BY <2>5 DEF Next, WorkJob, AdvanceTournament, HandleFinishedGame, JoinTournament, LeaveTournament, TakeUpAgain,
         CancelJob, CompleteJob, FailJob, SetupGame, FinishGame, RepeatEvent, RecordResult, PublishTournamentEvent,
         LoseEvent, row
  <2>6. CASE UNCHANGED vars
    BY <2>6 DEF vars
  <2> QED  BY <1>1, <2>1, <2>2, <2>3, <2>4, <2>5, <2>6
<1> QED  BY <1>1, PTL DEF Spec, StatusForward
=============================================================================
