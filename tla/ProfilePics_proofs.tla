--------------------------- MODULE ProfilePics_proofs ---------------------------
(***************************************************************************)
(* The newest picture of a user is never deleted, by a goroutine of        *)
(* whichever user or by the job, all others are in the end, and the job    *)
(* removes every orphan and no picture of an account: for any users,       *)
(* prefixes and pages.                                                     *)
(***************************************************************************)
EXTENDS ProfilePics, TLAPS, FiniteSetTheorems, WellFoundedInduction

-----------------------------------------------------------------------------
(* Texts: their prefixes and their order.                                    *)

LEMMA PrefixAgrees ==
    ASSUME NEW s \in Seq(Int), NEW t \in Seq(Int)
    PROVE  IsPrefix(s, t) <=> Len(s) <= Len(t) /\ \A i \in 1 .. Len(s) : s[i] = t[i]
<1>1. CASE Len(s) <= Len(t)
  <2>1. /\ SubSeq(s, 1, Len(s)) = [i \in 1 .. Len(s) |-> s[i]]
        /\ SubSeq(t, 1, Len(s)) = [i \in 1 .. Len(s) |-> t[i]]
    BY <1>1
  <2>2. [i \in 1 .. Len(s) |-> s[i]] = [i \in 1 .. Len(s) |-> t[i]]
            <=> \A i \in 1 .. Len(s) : s[i] = t[i]
    OBVIOUS
  <2> QED  BY <1>1, <2>1, <2>2 DEF IsPrefix
<1>2. CASE ~(Len(s) <= Len(t))
  BY <1>2 DEF IsPrefix
<1> QED  BY <1>1, <1>2

\* Of two prefixes of a text one is a prefix of the other.
LEMMA PrefixesCompare ==
    ASSUME NEW s \in Seq(Int), NEW t \in Seq(Int), NEW text \in Seq(Int),
           IsPrefix(s, text), IsPrefix(t, text)
    PROVE  IsPrefix(s, t) \/ IsPrefix(t, s)
<1>1. /\ \A i \in 1 .. Len(s) : s[i] = text[i]
      /\ \A i \in 1 .. Len(t) : t[i] = text[i]
  BY PrefixAgrees
<1>2. CASE Len(s) <= Len(t)
  BY <1>1, <1>2, PrefixAgrees
<1>3. CASE Len(t) <= Len(s)
  BY <1>1, <1>3, PrefixAgrees
<1> QED  BY <1>2, <1>3

LEMMA PrefixTransitive ==
    ASSUME NEW s \in Seq(Int), NEW t \in Seq(Int), NEW text \in Seq(Int),
           IsPrefix(s, t), IsPrefix(t, text)
    PROVE  IsPrefix(s, text)
<1>1. /\ Len(s) <= Len(t) /\ Len(t) <= Len(text)
      /\ \A i \in 1 .. Len(s) : s[i] = t[i]
      /\ \A i \in 1 .. Len(t) : t[i] = text[i]
  BY PrefixAgrees
<1>2. Len(s) <= Len(text) /\ \A i \in 1 .. Len(s) : s[i] = text[i]
  BY <1>1
<1> QED  BY <1>2, PrefixAgrees

LEMMA Least ==
    ASSUME NEW S \in SUBSET Nat, S # {}
    PROVE  \E n \in S : \A m \in S : n <= m
<1> DEFINE Segments == {0 .. n : n \in S}
<1>1. Segments # {}
  OBVIOUS
<1>2. Segments \subseteq FiniteSubsetsOf(Nat)
  <2>1. \A n \in S : IsFiniteSet(0 .. n) /\ 0 .. n \in SUBSET Nat
    BY FS_Interval
  <2> QED  BY <2>1 DEF FiniteSubsetsOf
<1>3. PICK T \in Segments : \A U \in Segments : ~(<<U, T>> \in StrictSubsetOrdering(Nat))
  BY <1>1, <1>2, FS_StrictSubsetOrderingWellFounded, WFMin, Zenon
<1>4. PICK n \in S : T = 0 .. n
  OBVIOUS
<1>5. ASSUME NEW m \in S, m < n  PROVE FALSE
  <2>1. 0 .. m \subseteq 0 .. n /\ 0 .. m # 0 .. n
    BY <1>5
  <2>2. <<0 .. m, 0 .. n>> \in StrictSubsetOrdering(Nat)
    BY <2>1 DEF StrictSubsetOrdering
  <2> QED  BY <1>3, <1>4, <2>2
<1> QED  BY <1>5

\* The texts agree before i, and there s has the lesser character or ends.
Differ(s, t, i) ==
    /\ i \in 1 .. Len(t)
    /\ i <= Len(s) + 1
    /\ \A j \in 1 .. i - 1 : s[j] = t[j]
    /\ i <= Len(s) => s[i] < t[i]

LEMMA TextBeforeDiffers ==
    ASSUME NEW s \in Seq(Int), NEW t \in Seq(Int)
    PROVE  TextBefore(s, t) <=> \E i \in Nat : Differ(s, t, i)
<1>1. IsStrictPrefix(s, t) <=> Differ(s, t, Len(s) + 1)
  <2>1. Len(s) = Len(t) /\ (\A i \in 1 .. Len(s) : s[i] = t[i]) => s = t
    OBVIOUS
  <2> QED  BY <2>1, PrefixAgrees DEF IsStrictPrefix, Differ
<1>2. ASSUME NEW i \in 1 .. Len(s), i <= Len(t)
      PROVE  SubSeq(s, 1, i - 1) = SubSeq(t, 1, i - 1) <=> \A j \in 1 .. i - 1 : s[j] = t[j]
  <2>1. /\ SubSeq(s, 1, i - 1) = [j \in 1 .. i - 1 |-> s[j]]
        /\ SubSeq(t, 1, i - 1) = [j \in 1 .. i - 1 |-> t[j]]
    BY <1>2
  <2>2. [j \in 1 .. i - 1 |-> s[j]] = [j \in 1 .. i - 1 |-> t[j]]
            <=> \A j \in 1 .. i - 1 : s[j] = t[j]
    OBVIOUS
  <2> QED  BY <2>1, <2>2
<1>3. ASSUME NEW i \in Nat, Differ(s, t, i)
      PROVE  TextBefore(s, t)
  BY <1>1, <1>2, <1>3 DEF TextBefore, Differ
<1>4. ASSUME TextBefore(s, t)
      PROVE  \E i \in Nat : Differ(s, t, i)
  <2>1. CASE IsStrictPrefix(s, t)
    BY <1>1, <2>1
  <2>2. ASSUME NEW i \in 1 .. Len(s), i <= Len(t), s[i] < t[i],
               SubSeq(s, 1, i - 1) = SubSeq(t, 1, i - 1)
        PROVE  Differ(s, t, i)
    BY <1>2, <2>2 DEF Differ
  <2> QED  BY <1>4, <2>1, <2>2 DEF TextBefore
<1> QED  BY <1>3, <1>4

LEMMA TextsAreOrdered ==
    ASSUME NEW s \in Seq(Int), NEW t \in Seq(Int), NEW u \in Seq(Int)
    PROVE  /\ ~TextBefore(s, s)
           /\ TextBefore(s, t) /\ TextBefore(t, u) => TextBefore(s, u)
           /\ TextBefore(s, t) \/ TextBefore(t, s) \/ s = t
<1>0. /\ \A i \in 1 .. Len(s) : s[i] \in Int
      /\ \A i \in 1 .. Len(t) : t[i] \in Int
      /\ \A i \in 1 .. Len(u) : u[i] \in Int
      /\ Len(s) \in Nat /\ Len(t) \in Nat /\ Len(u) \in Nat
  OBVIOUS
<1>1. ~TextBefore(s, s)
  <2>1. ASSUME NEW i \in Nat, Differ(s, s, i) PROVE FALSE
    <3>1. i \in 1 .. Len(s) /\ s[i] < s[i]
      BY <1>0, <2>1 DEF Differ
    <3> QED  BY <1>0, <3>1
  <2> QED  BY <2>1, TextBeforeDiffers
<1>2. ASSUME NEW i \in Nat, NEW j \in Nat, Differ(s, t, i), Differ(t, u, j)
      PROVE  \E k \in Nat : Differ(s, u, k)
  <2>0. /\ i \in 1 .. Len(t) /\ i <= Len(s) + 1
        /\ \A k \in 1 .. i - 1 : s[k] = t[k]
        /\ i <= Len(s) => s[i] < t[i]
        /\ j \in 1 .. Len(u) /\ j <= Len(t) + 1
        /\ \A k \in 1 .. j - 1 : t[k] = u[k]
        /\ j <= Len(t) => t[j] < u[j]
    BY <1>2 DEF Differ
  <2>1. CASE i <= j
    <3>1. i \in 1 .. Len(u) /\ \A k \in 1 .. i - 1 : s[k] = u[k]
      BY <1>0, <2>0, <2>1
    <3>2. i = j \/ t[i] = u[i]
      BY <1>0, <2>0, <2>1
    <3>3. ASSUME i <= Len(s) PROVE s[i] < u[i]
      <4>1. s[i] \in Int /\ t[i] \in Int /\ u[i] \in Int
        BY <1>0, <2>0, <3>1, <3>3
      <4>2. s[i] < t[i] /\ (t[i] = u[i] \/ t[i] < u[i])
        BY <2>0, <3>2, <3>3
      <4> QED  BY <4>1, <4>2
    <3>4. Differ(s, u, i)
      BY <2>0, <3>1, <3>3 DEF Differ
    <3> QED  BY <3>4
  <2>2. CASE j < i
    <3>1. j <= Len(s) /\ s[j] = t[j] /\ \A k \in 1 .. j - 1 : s[k] = u[k]
      BY <1>0, <2>0, <2>2
    <3>2. t[j] < u[j]
      BY <1>0, <2>0, <2>2
    <3>3. s[j] < u[j]
      BY <3>1, <3>2
    <3>4. Differ(s, u, j)
      <4>1. j \in 1 .. Len(u) /\ j <= Len(s) + 1
        BY <1>0, <2>0, <3>1
      <4> QED  BY <3>1, <3>3, <4>1 DEF Differ
    <3> QED  BY <3>4
  <2> QED  BY <2>1, <2>2
<1>3. ASSUME s # t
      PROVE  \E i \in Nat : Differ(s, t, i) \/ Differ(t, s, i)
  <2> DEFINE D == {i \in 1 .. Len(s) : i <= Len(t) /\ s[i] # t[i]}
  <2>1. CASE D # {}
    <3>0. D \in SUBSET Nat
      OBVIOUS
    <3>1. PICK i \in D : \A j \in D : i <= j
      <4> HIDE DEF D
      <4> QED  BY <2>1, <3>0, Least
    <3>2. ASSUME NEW j \in 1 .. i - 1 PROVE s[j] = t[j]
      <4>1. j \in 1 .. Len(s) /\ j <= Len(t) /\ j < i
        BY <1>0
      <4>2. j \notin D
        BY <1>0, <3>1, <4>1
      <4> QED  BY <4>1, <4>2
    <3>3. s[i] \in Int /\ t[i] \in Int /\ s[i] # t[i]
      OBVIOUS
    <3>4. Differ(s, t, i) \/ Differ(t, s, i)
      BY <3>2, <3>3 DEF Differ
    <3> QED  BY <3>4
  <2>2. CASE D = {}
    <3>1. \A i \in 1 .. Len(s) : i <= Len(t) => s[i] = t[i]
      BY <2>2
    <3>2. CASE Len(s) < Len(t)
      <4>1. Differ(s, t, Len(s) + 1)
        BY <3>1, <3>2 DEF Differ
      <4> QED  BY <4>1
    <3>3. CASE Len(t) < Len(s)
      <4>1. Differ(t, s, Len(t) + 1)
        BY <3>1, <3>3 DEF Differ
      <4> QED  BY <4>1
    <3>4. CASE Len(t) = Len(s)
      <4>1. Len(s) = Len(t) /\ (\A i \in 1 .. Len(s) : s[i] = t[i]) => s = t
        OBVIOUS
      <4> QED  BY <1>0, <1>3, <3>1, <3>4, <4>1
    <3> QED  BY <3>2, <3>3, <3>4
  <2> QED  BY <2>1, <2>2
<1> QED  BY <1>1, <1>2, <1>3, TextBeforeDiffers

-----------------------------------------------------------------------------
(* The inductive invariant.                                                  *)

USE PicsAssumption

\* What is in the bucket and in the listings was uploaded, by an account or a
\* guest.
Uploads ==
    /\ pics \subseteq uploaded
    /\ \A c \in cleanups : c.listed \subseteq Under(uploaded, c.user)
    /\ job.page \subseteq uploaded
    /\ \A p \in uploaded : p.owner \in accounts \cup Guests

\* The job knows of every account whose pictures are on its page.
AccountsAreValid ==
    job.at = "Delete" => \A p \in job.page : p.owner \in Accounts => p.owner \in job.valid

Inv == TypeOK /\ Uploads /\ AccountsAreValid /\ NewestKept

-----------------------------------------------------------------------------
(* Keys: under prefixes, and in order.                                       *)

\* Whoever's prefix a picture under a root's is also under, all of that
\* prefix is under the root's.
LEMMA RootCovers ==
    ASSUME NEW objs \in SUBSET Pics, NEW u \in Owners, NEW v \in Owners, IsRoot(u),
           NEW p \in Under(objs, u), p \in Under(objs, v)
    PROVE  Under(objs, v) \subseteq Under(objs, u)
<1>1. p.owner \in Owners /\ \A w \in Owners : Text[w] \in Seq(Int)
  BY DEF Under, Pics
<1>2. IsPrefix(Text[u], Text[v]) \/ IsPrefix(Text[v], Text[u])
  BY <1>1, PrefixesCompare DEF Under
<1>3. CASE IsPrefix(Text[v], Text[u])
  BY <1>3 DEF IsRoot
<1>4. CASE IsPrefix(Text[u], Text[v])
  <2>1. ASSUME NEW q \in Under(objs, v)
        PROVE  q \in Under(objs, u)
    <3>1. q.owner \in Owners /\ q \in objs /\ IsPrefix(Text[v], Text[q.owner])
      BY DEF Under, Pics
    <3>2. IsPrefix(Text[u], Text[q.owner])
      BY <1>1, <1>4, <3>1, PrefixTransitive
    <3> QED  BY <3>1, <3>2 DEF Under
  <2> QED  BY <2>1
<1> QED  BY <1>2, <1>3, <1>4

\* No two objects have the same key.
Distinct(objs) ==
    \A p, q \in objs : p.owner = q.owner /\ p.uuid = q.uuid => p = q

LEMMA KeysAreOrdered ==
    ASSUME NEW p \in Pics, NEW q \in Pics, NEW r \in Pics
    PROVE  /\ ~Before(p, p)
           /\ Before(p, q) /\ Before(q, r) => Before(p, r)
           /\ Before(p, q) \/ Before(q, p) \/ (p.owner = q.owner /\ p.uuid = q.uuid)
<1>1. /\ p.owner \in Owners /\ q.owner \in Owners /\ r.owner \in Owners
      /\ p.uuid \in Nat /\ q.uuid \in Nat /\ r.uuid \in Nat
  BY DEF Pics
<1>2. Text[p.owner] \in Seq(Int) /\ Text[q.owner] \in Seq(Int) /\ Text[r.owner] \in Seq(Int)
  BY <1>1
<1> QED  BY <1>1, <1>2, TextsAreOrdered DEF Before

-----------------------------------------------------------------------------
(* The invariant is inductive.                                               *)

LEMMA InitInv == Init => Inv
<1> SUFFICES ASSUME Init
             PROVE  Inv
  OBVIOUS
<1>1. NoJob \in Runs
  BY DEF NoJob, Runs
<1>2. TypeOK
  <2>1. clock \in 0 .. MaxClock
    BY DEF Init
  <2>2. failed \in BOOLEAN /\ job \in Runs
    BY <1>1 DEF Init
  <2>3. accounts = {} /\ pics = {} /\ uploaded = {} /\ cleanups = {}
    BY DEF Init
  <2> QED  BY <2>1, <2>2, <2>3 DEF TypeOK
<1>3. Uploads /\ AccountsAreValid
  BY DEF Init, Uploads, AccountsAreValid, NoJob
<1>4. NewestKept
  BY DEF Init, NewestKept, Under
<1> QED  BY <1>2, <1>3, <1>4 DEF Inv

LEMMA StutterInv == Inv /\ UNCHANGED vars => Inv'
BY DEF Inv, vars, TypeOK, Uploads, AccountsAreValid, NewestKept, Under, IsMostRecent, Newer, Before

\* What is listed is in the bucket.
LEMMA ListedIsThere ==
    ASSUME NEW n, NEW objs
    PROVE  FirstKeys(n, objs) \subseteq objs
BY DEF FirstKeys

LEMMA UploadInv ==
    ASSUME Inv, NEW u \in Owners, NEW id \in UUIDs, UploadProfilePic(u, id)
    PROVE  Inv'
<1> DEFINE x == [owner |-> u, uuid |-> id, at |-> clock]
           c == [id |-> id, user |-> u, at |-> "List", listed |-> {}]
<1>1. /\ pics' = pics \cup {x} /\ uploaded' = uploaded \cup {x}
      /\ cleanups' = cleanups \cup {c}
      /\ UNCHANGED <<accounts, clock, failed, job>> /\ u \in accounts \cup Guests
  BY DEF UploadProfilePic, Cleanup, LastModified
<1>2. x \in Pics /\ c \in Cleanups
  BY DEF Inv, TypeOK, Pics, Cleanups
<1>3. TypeOK'
  BY <1>1, <1>2 DEF Inv, TypeOK
<1>4. Uploads'
  <2>1. \A d \in cleanups' : d.listed \subseteq Under(uploaded', d.user)
    BY <1>1 DEF Inv, Uploads, Under
  <2>2. \A p \in uploaded' : p.owner \in accounts' \cup Guests
    BY <1>1 DEF Inv, Uploads
  <2> QED  BY <1>1, <2>1, <2>2 DEF Inv, Uploads
<1>5. AccountsAreValid'
  BY <1>1 DEF Inv, AccountsAreValid
<1>6. NewestKept'
  <2> SUFFICES ASSUME NEW v \in Accounts, IsRoot(v), NEW p \in Under(uploaded', v),
                      IsMostRecent(p, Under(uploaded', v)), p.owner \in Accounts
               PROVE  p \in pics'
    BY DEF NewestKept, IsMostRecent, Newer, Before
  <2>1. CASE p = x
    BY <1>1, <2>1
  <2>2. CASE p # x
    <3>1. p \in Under(uploaded, v) /\ Under(uploaded, v) \subseteq Under(uploaded', v)
      BY <1>1, <2>2 DEF Under
    <3>2. IsMostRecent(p, Under(uploaded, v))
      BY <3>1 DEF IsMostRecent
    <3> QED  BY <1>1, <3>1, <3>2 DEF Inv, NewestKept
  <2> QED  BY <2>1, <2>2
<1> QED  BY <1>3, <1>4, <1>5, <1>6 DEF Inv

LEMMA CleanupInv ==
    ASSUME Inv, NEW c \in cleanups,
           ListProfilePics(c) \/ DeleteExpiredPics(c) \/ CleanupFails(c)
    PROVE  Inv'
<1>1. c \in Cleanups
  BY DEF Inv, TypeOK
<1>2. CASE ListProfilePics(c)
  <2> DEFINE d == [c EXCEPT !.at = "Delete", !.listed = ListObjects(c.user)]
  <2>1. cleanups' = (cleanups \ {c}) \cup {d} /\ UNCHANGED <<accounts, clock, pics, uploaded, failed, job>>
    BY <1>2 DEF ListProfilePics
  <2>2. d \in Cleanups /\ d.user = c.user /\ d.listed \subseteq Under(uploaded, c.user)
    <3>1. ListObjects(c.user) \subseteq Under(pics, c.user)
      BY ListedIsThere DEF ListObjects
    <3>2. Under(pics, c.user) \subseteq Under(uploaded, c.user) /\ Under(pics, c.user) \subseteq Pics
      BY DEF Inv, Uploads, TypeOK, Under
    <3> QED  BY <1>1, <3>1, <3>2 DEF Cleanups
  <2>3. TypeOK'
    BY <2>1, <2>2 DEF Inv, TypeOK
  <2>4. Uploads'
    BY <2>1, <2>2 DEF Inv, Uploads, Under
  <2>5. AccountsAreValid' /\ NewestKept'
    BY <2>1 DEF Inv, AccountsAreValid, NewestKept, Under, IsMostRecent, Newer, Before
  <2> QED  BY <2>3, <2>4, <2>5 DEF Inv
<1>3. CASE DeleteExpiredPics(c)
  <2>1. /\ pics' = pics \ LeastRecentKeys(c) /\ cleanups' = cleanups \ {c}
        /\ UNCHANGED <<accounts, clock, uploaded, failed, job>>
    BY <1>3 DEF DeleteExpiredPics
  <2>2. TypeOK' /\ Uploads' /\ AccountsAreValid'
    BY <2>1 DEF Inv, TypeOK, Uploads, AccountsAreValid, Under
  <2>3. NewestKept'
    <3> SUFFICES ASSUME NEW u \in Accounts, IsRoot(u), NEW p \in Under(uploaded, u),
                        IsMostRecent(p, Under(uploaded, u)), p.owner \in Accounts,
                        p \in LeastRecentKeys(c)
                 PROVE  FALSE
      BY <2>1 DEF Inv, NewestKept, Under, IsMostRecent, Newer, Before
    <3>1. p \in c.listed /\ c.listed \subseteq Under(uploaded, c.user) /\ c.user \in Owners
      BY <1>1 DEF LeastRecentKeys, Inv, Uploads, Cleanups
    <3>2. c.listed \subseteq Under(uploaded, u)
      BY <3>1, RootCovers DEF Inv, TypeOK, Owners
    <3>3. IsMostRecent(p, c.listed)
      BY <3>1, <3>2 DEF IsMostRecent
    <3> QED  BY <3>3 DEF LeastRecentKeys
  <2> QED  BY <2>2, <2>3 DEF Inv
<1>4. CASE CleanupFails(c)
  <2>1. /\ cleanups' = cleanups \ {c} /\ failed' = TRUE
        /\ UNCHANGED <<accounts, clock, pics, uploaded, job>>
    BY <1>4 DEF CleanupFails
  <2>2. TypeOK' /\ Uploads' /\ AccountsAreValid'
    BY <2>1 DEF Inv, TypeOK, Uploads, AccountsAreValid, Under
  <2>3. NewestKept'
    BY <2>1 DEF Inv, NewestKept, Under, IsMostRecent, Newer, Before
  <2> QED  BY <2>2, <2>3 DEF Inv
<1> QED  BY <1>2, <1>3, <1>4

LEMMA RegisterInv ==
    ASSUME Inv, NEW u \in Accounts, Register(u)
    PROVE  Inv'
<1>1. /\ accounts' = accounts \cup {u}
      /\ UNCHANGED <<clock, pics, uploaded, cleanups, failed, job>>
  BY DEF Register
<1>2. TypeOK' /\ Uploads' /\ AccountsAreValid'
  BY <1>1 DEF Inv, TypeOK, Uploads, AccountsAreValid, Under
<1>3. NewestKept'
  BY <1>1 DEF Inv, NewestKept, Under, IsMostRecent, Newer, Before
<1> QED  BY <1>2, <1>3 DEF Inv

LEMMA TickInv ==
    ASSUME Inv, Tick
    PROVE  Inv'
<1>1. clock' \in 0 .. MaxClock /\ UNCHANGED <<accounts, pics, uploaded, cleanups, failed, job>>
  BY DEF Tick, Inv, TypeOK
<1>2. TypeOK' /\ Uploads' /\ AccountsAreValid'
  BY <1>1 DEF Inv, TypeOK, Uploads, AccountsAreValid, Under
<1>3. NewestKept'
  BY <1>1 DEF Inv, NewestKept, Under, IsMostRecent, Newer, Before
<1> QED  BY <1>2, <1>3 DEF Inv

\* What the job is about to delete belongs to no account.
LEMMA OrphansAreOrphans ==
    ASSUME Inv, job.at = "Delete", NEW p \in OrphanedKeys
    PROVE  p.owner \notin Accounts
BY DEF Inv, AccountsAreValid, OrphanedKeys

\* Steps of the job that leave the bucket alone.
LEMMA JobStepInv ==
    ASSUME Inv, UNCHANGED <<accounts, clock, pics, uploaded, cleanups, failed>>,
           job' \in Runs, job'.page \subseteq uploaded, AccountsAreValid'
    PROVE  Inv'
<1>1. TypeOK' /\ Uploads'
  BY DEF Inv, TypeOK, Uploads, Under
<1>2. NewestKept'
  BY DEF Inv, NewestKept, Under, IsMostRecent, Newer, Before
<1> QED  BY <1>1, <1>2 DEF Inv

LEMMA JobInv ==
    ASSUME Inv,
           \/ BeginJob \/ NextPage \/ SelectExistsUsersByIDs
           \/ DeleteOrphanedKeys \/ DeleteFails \/ EndJob
    PROVE  Inv'
<1>1. job \in Runs /\ NoJob \in Runs
  BY DEF Inv, TypeOK, Runs, NoJob
<1>2. CASE BeginJob
  <2>1. job' \in Runs /\ job'.page = {} /\ job'.at = "List"
    BY <1>2 DEF BeginJob, NoJob, Runs, Inv, TypeOK
  <2> QED  BY <1>2, <2>1, JobStepInv DEF BeginJob, AccountsAreValid
<1>3. CASE NextPage
  <2> DEFINE page == FirstKeys(PageLength, AfterPage)
  <2>1. page \subseteq pics /\ LastKey(page) \subseteq pics
    BY ListedIsThere DEF AfterPage, LastKey
  <2>2. page \subseteq uploaded /\ page \subseteq Pics /\ LastKey(page) \subseteq Pics
    BY <2>1 DEF Inv, Uploads, TypeOK
  <2>3. job' = [job EXCEPT !.at = "Select", !.page = page, !.token = LastKey(page),
                           !.more = page # AfterPage]
    BY <1>3 DEF NextPage
  <2> HIDE DEF page
  <2>4. job' \in Runs /\ job'.page = page /\ job'.at = "Select"
    BY <1>1, <2>2, <2>3 DEF Runs
  <2> QED  BY <1>3, <2>2, <2>4, JobStepInv DEF NextPage, AccountsAreValid
<1>4. CASE SelectExistsUsersByIDs
  <2> DEFINE valid == {p.owner : p \in job.page} \cap accounts
  <2>1. job' = [job EXCEPT !.at = "Delete", !.valid = valid] /\ valid \subseteq Owners
    BY <1>4 DEF SelectExistsUsersByIDs, Inv, TypeOK, Owners
  <2>2. \A p \in job.page : p.owner \in Accounts => p.owner \in valid
    BY DEF Inv, Uploads
  <2> HIDE DEF valid
  <2>3. job' \in Runs /\ job'.page = job.page /\ job'.valid = valid
    BY <1>1, <2>1 DEF Runs
  <2>4. AccountsAreValid'
    BY <2>2, <2>3 DEF AccountsAreValid
  <2> QED  BY <1>4, <2>3, <2>4, JobStepInv DEF SelectExistsUsersByIDs, Inv, Uploads
<1>5. CASE DeleteOrphanedKeys
  <2>1. /\ pics' = pics \ OrphanedKeys
        /\ UNCHANGED <<accounts, clock, uploaded, cleanups, failed>>
    BY <1>5 DEF DeleteOrphanedKeys
  <2>2. job' \in Runs /\ job'.page = {}
    BY <1>1, <1>5 DEF DeleteOrphanedKeys, AfterDelete, Runs
  <2>3. TypeOK' /\ Uploads' /\ AccountsAreValid'
    BY <2>1, <2>2 DEF Inv, TypeOK, Uploads, AccountsAreValid, Under
  <2>4. NewestKept'
    <3> SUFFICES ASSUME NEW u \in Accounts, IsRoot(u), NEW p \in Under(uploaded, u),
                        IsMostRecent(p, Under(uploaded, u)), p.owner \in Accounts,
                        p \in OrphanedKeys
                 PROVE  FALSE
      BY <2>1 DEF Inv, NewestKept, Under, IsMostRecent, Newer, Before
    <3> QED  BY <1>5, OrphansAreOrphans DEF DeleteOrphanedKeys
  <2> QED  BY <2>3, <2>4 DEF Inv
<1>6. CASE DeleteFails
  <2>1. job' \in Runs /\ job'.page = {}
    BY <1>1, <1>6 DEF DeleteFails, AfterDelete, Runs
  <2> QED  BY <1>6, <2>1, JobStepInv DEF DeleteFails, AccountsAreValid
<1>7. CASE EndJob
  BY <1>1, <1>7, JobStepInv DEF EndJob, NoJob, AccountsAreValid
<1> QED  BY <1>2, <1>3, <1>4, <1>5, <1>6, <1>7

LEMMA NextInv ==
    ASSUME Inv, [Next]_vars
    PROVE  Inv'
<1>1. CASE UNCHANGED vars
  BY <1>1, StutterInv
<1>2. CASE Next
  BY <1>2, UploadInv, CleanupInv, RegisterInv, TickInv, JobInv DEF Next
<1> QED  BY <1>1, <1>2

\* The invariant holds in every state.
THEOREM Invariance == Spec => []Inv
<1>1. Inv /\ [Next]_vars => Inv'
  BY NextInv
<1> QED  BY <1>1, InitInv, PTL DEF Spec

-----------------------------------------------------------------------------
\* The bucket, the goroutines and the job always have their types.
THEOREM TypeCorrect == Spec => []TypeOK
<1>1. Inv => TypeOK
  BY DEF Inv
<1> QED  BY <1>1, Invariance, PTL

(***************************************************************************)
(* The newest picture under a prefix that nobody else's cuts into is never *)
(* deleted, however many goroutines, uploads and runs of the job overlap   *)
(* (deleteExpiredProfilePics, ClearOrphanFiles).                           *)
(***************************************************************************)
THEOREM NewestIsKept == Spec => []NewestKept
<1>1. Inv => NewestKept
  BY DEF Inv
<1> QED  BY <1>1, Invariance, PTL

(***************************************************************************)
(* What the clear-s3-orphans job deletes belongs to nobody who is          *)
(* registered at that moment (clearOrphanPage).                            *)
(***************************************************************************)
THEOREM AccountsAreSpared == Spec => JobSparesAccounts
<1>1. Inv /\ [Next]_vars => [DeleteOrphanedKeys => \A p \in pics \ pics' : IsOrphan(p)]_vars
  <2> SUFFICES ASSUME Inv, DeleteOrphanedKeys, NEW p \in pics \ pics'
               PROVE  IsOrphan(p)
    OBVIOUS
  <2>1. job.at = "Delete" /\ p \in OrphanedKeys
    BY DEF DeleteOrphanedKeys
  <2> QED  BY <2>1, OrphansAreOrphans DEF IsOrphan, Inv, TypeOK
<1> QED  BY <1>1, Invariance, PTL DEF Spec, JobSparesAccounts


-----------------------------------------------------------------------------
(* What is removed in the end.                                               *)

Files == IsFiniteSet(uploaded) /\ Distinct(uploaded)

AfterToken(p) == \A q \in job.token : Before(q, p)

\* Of the orphans the job began with, those that are left are on its page or
\* behind its token; none of them becomes the picture of an account.
BeforePart ==
    /\ job.before \subseteq uploaded
    /\ \A p \in job.before : p.owner \notin Accounts
    /\ job.valid \subseteq accounts

ListPart == job.at = "List" => \A p \in job.before \cap pics : AfterToken(p)

PagePart ==
    job.at \in {"Select", "Delete"} =>
        \A p \in job.before \cap pics : p \in job.page \/ (job.more /\ AfterToken(p))

RunPart == BeforePart /\ ListPart /\ PagePart /\ RunIsComplete

\* Two pictures of a user are not left alone: some goroutine of his is yet to
\* list them, or has listed both.
Covered(u, p, q) ==
    \E c \in cleanups :
        c.user = u /\ (c.at = "List" \/ (p \in c.listed /\ q \in c.listed))

FitsPage(u) == Cardinality(Under(uploaded, u)) <= ListLength

PairPart ==
    ~failed =>
        \A u \in Owners : FitsPage(u) =>
            \A p, q \in pics : p.owner = u /\ q.owner = u /\ p # q => Covered(u, p, q)

IInv == Inv /\ Files /\ RunPart /\ PairPart

LEMMA InitIInv == Init => IInv
<1> SUFFICES ASSUME Init
             PROVE  IInv
  OBVIOUS
<1>1. Files
  BY FS_EmptySet DEF Init, Files, Distinct
<1>2. RunPart
  BY DEF Init, RunPart, BeforePart, ListPart, PagePart, RunIsComplete, NoJob
<1>3. PairPart
  BY DEF Init, PairPart
<1> QED  BY <1>1, <1>2, <1>3, InitInv DEF IInv

\* A step that is none of the job's keeps its part, if it brings back nothing
\* of what the job began with.
LEMMA RunKept ==
    ASSUME RunPart, job' = job, job.before \cap pics' \subseteq pics,
           uploaded \subseteq uploaded', accounts \subseteq accounts'
    PROVE  RunPart'
<1>1. job.before \cap pics' \subseteq job.before \cap pics
  OBVIOUS
<1>2. \A p : AfterToken(p)' <=> AfterToken(p)
  BY DEF AfterToken, Before, TextBefore
<1>3. RunIsComplete'
  BY <1>1 DEF RunPart, RunIsComplete
<1>4. BeforePart' /\ ListPart' /\ PagePart'
  BY <1>1, <1>2 DEF RunPart, BeforePart, ListPart, PagePart
<1> QED  BY <1>3, <1>4 DEF RunPart

\* A step that uploads nothing and keeps the goroutines keeps their part.
LEMMA PairsKept ==
    ASSUME PairPart, pics' \subseteq pics, cleanups' = cleanups, uploaded' = uploaded,
           failed' = failed
    PROVE  PairPart'
BY DEF PairPart, FitsPage, Under, Covered

LEMMA FilesKept ==
    ASSUME Files, uploaded' = uploaded
    PROVE  Files'
BY DEF Files, Distinct

LEMMA UnderIsFinite ==
    ASSUME Files, NEW objs \in SUBSET uploaded, NEW u
    PROVE  /\ IsFiniteSet(Under(objs, u)) /\ Cardinality(Under(objs, u)) \in Nat
           /\ Cardinality(Under(objs, u)) <= Cardinality(Under(uploaded, u))
<1>1. Under(objs, u) \in SUBSET Under(uploaded, u) /\ Under(uploaded, u) \in SUBSET uploaded
  BY DEF Under
<1>2. IsFiniteSet(Under(uploaded, u))
  BY <1>1, FS_Subset DEF Files
<1> QED  BY <1>1, <1>2, FS_Subset, FS_CardinalityType

\* The first n keys of no more than n are all of them.
LEMMA FirstKeysAreAll ==
    ASSUME NEW objs \in SUBSET Pics, IsFiniteSet(objs), NEW n \in Nat, Cardinality(objs) <= n
    PROVE  FirstKeys(n, objs) = objs
<1>1. ASSUME NEW p \in objs
      PROVE  Cardinality({q \in objs : Before(q, p)}) < n
  <2> DEFINE B == {q \in objs : Before(q, p)}
  <2>1. ~Before(p, p)
    BY KeysAreOrdered
  <2>2. B \in SUBSET (objs \ {p})
    BY <2>1
  <2> HIDE DEF B
  <2>3. IsFiniteSet(objs \ {p}) /\ Cardinality(objs \ {p}) = Cardinality(objs) - 1
    BY FS_RemoveElement
  <2>4. /\ Cardinality(B) <= Cardinality(objs \ {p})
        /\ IsFiniteSet(B)
    BY <2>2, <2>3, FS_Subset
  <2>5. Cardinality(B) \in Nat /\ Cardinality(objs) \in Nat
    BY <2>4, FS_CardinalityType
  <2>6. Cardinality(B) < n
    BY <2>3, <2>4, <2>5
  <2> QED  BY <2>6 DEF B
<1> QED  BY <1>1 DEF FirstKeys

\* What is not among the first keys is behind each of them.
LEMMA OthersAreBehind ==
    ASSUME NEW objs \in SUBSET Pics, IsFiniteSet(objs), Distinct(objs), NEW n \in Nat,
           NEW p \in objs, p \notin FirstKeys(n, objs), NEW q \in FirstKeys(n, objs)
    PROVE  Before(q, p)
<1> DEFINE B(r) == {o \in objs : Before(o, r)}
<1>1. q \in objs /\ Cardinality(B(q)) < n /\ ~(Cardinality(B(p)) < n) /\ p # q
  BY DEF FirstKeys
<1>2. SUFFICES ASSUME ~Before(q, p) PROVE FALSE
  OBVIOUS
<1>3. Before(p, q)
  BY <1>1, <1>2, KeysAreOrdered DEF Distinct
<1>4. B(p) \subseteq B(q)
  BY <1>1, <1>3, KeysAreOrdered
<1>5. B(p) \in SUBSET objs /\ B(q) \in SUBSET objs
  OBVIOUS
<1> HIDE DEF B
<1>6. IsFiniteSet(B(p)) /\ IsFiniteSet(B(q)) /\ Cardinality(B(p)) <= Cardinality(B(q))
  BY <1>4, <1>5, FS_Subset
<1>7. Cardinality(B(p)) \in Nat /\ Cardinality(B(q)) \in Nat
  BY <1>6, FS_CardinalityType
<1> QED  BY <1>1, <1>6, <1>7

\* One object is the most recent.
LEMMA OneMostRecent ==
    ASSUME NEW objs \in SUBSET Pics, NEW p, NEW q, IsMostRecent(p, objs), IsMostRecent(q, objs)
    PROVE  p = q
<1>1. SUFFICES ASSUME p # q PROVE FALSE
  OBVIOUS
<1>2. p \in Pics /\ q \in Pics /\ Newer(p, q) /\ Newer(q, p)
  BY <1>1 DEF IsMostRecent
<1>3. p.at \in Int /\ q.at \in Int
  BY <1>2 DEF Pics
<1>4. Before(p, q) /\ Before(q, p)
  BY <1>2, <1>3 DEF Newer
<1> QED  BY <1>2, <1>4, KeysAreOrdered

LEMMA UploadIInv ==
    ASSUME IInv, NEW u \in Owners, NEW id \in UUIDs, UploadProfilePic(u, id)
    PROVE  Files' /\ RunPart' /\ PairPart'
<1> DEFINE x == [owner |-> u, uuid |-> id, at |-> clock]
           c == [id |-> id, user |-> u, at |-> "List", listed |-> {}]
<1>1. /\ pics' = pics \cup {x} /\ uploaded' = uploaded \cup {x}
      /\ cleanups' = cleanups \cup {c}
      /\ UNCHANGED <<accounts, clock, failed, job>>
      /\ \A p \in uploaded : p.owner = u => p.uuid # id
  BY DEF UploadProfilePic, Cleanup, LastModified
<1>2. x.owner = u /\ x.uuid = id /\ x \notin uploaded
  BY <1>1
<1>3. Files'
  <2>1. IsFiniteSet(uploaded')
    BY <1>1, FS_AddElement DEF IInv, Files
  <2>2. Distinct(uploaded)'
    BY <1>1, <1>2 DEF IInv, Files, Distinct
  <2> QED  BY <2>1, <2>2 DEF Files
<1>4. RunPart'
  <2>1. job.before \cap pics' \subseteq pics
    BY <1>1, <1>2 DEF IInv, RunPart, BeforePart
  <2> QED  BY <1>1, <2>1, RunKept DEF IInv
<1>5. PairPart'
  <2> SUFFICES ASSUME ~failed, NEW v \in Owners, FitsPage(v)', NEW p \in pics', NEW q \in pics',
                      p.owner = v, q.owner = v, p # q
               PROVE  Covered(v, p, q)'
    BY <1>1 DEF PairPart
  <2>1. FitsPage(v)
    <3>1. Under(uploaded, v) \in SUBSET Under(uploaded', v)
      BY <1>1 DEF Under
    <3>2. Under(uploaded', v) \in SUBSET uploaded'
      BY DEF Under
    <3>3. IsFiniteSet(Under(uploaded', v))
      BY <1>3, <3>2, FS_Subset DEF Files
    <3>4. Cardinality(Under(uploaded, v)) <= Cardinality(Under(uploaded', v))
      BY <3>1, <3>3, FS_Subset
    <3>5. Cardinality(Under(uploaded, v)) \in Nat /\ Cardinality(Under(uploaded', v)) \in Nat
      BY <3>1, <3>3, FS_Subset, FS_CardinalityType
    <3> QED  BY <3>4, <3>5 DEF FitsPage, Under
  <2>2. CASE v = u
    <3>1. c \in cleanups' /\ c.user = v /\ c.at = "List"
      BY <1>1, <2>2
    <3> QED  BY <3>1 DEF Covered
  <2>3. CASE v # u
    BY <1>1, <1>2, <2>1, <2>3 DEF IInv, PairPart, Covered
  <2> QED  BY <2>2, <2>3
<1> QED  BY <1>3, <1>4, <1>5

LEMMA CleanupIInv ==
    ASSUME IInv, NEW c \in cleanups,
           ListProfilePics(c) \/ DeleteExpiredPics(c) \/ CleanupFails(c)
    PROVE  Files' /\ RunPart' /\ PairPart'
<1>1. c \in Cleanups /\ pics \subseteq uploaded /\ uploaded \subseteq Pics
  BY DEF IInv, Inv, TypeOK, Uploads
<1>2. /\ uploaded' = uploaded /\ job' = job /\ accounts' = accounts /\ pics' \subseteq pics
  BY DEF ListProfilePics, DeleteExpiredPics, CleanupFails
<1>3. Files' /\ RunPart'
  BY <1>2, FilesKept, RunKept DEF IInv
<1>4. ASSUME ~failed', NEW u \in Owners, FitsPage(u)', NEW p \in pics', NEW q \in pics',
             p.owner = u, q.owner = u, p # q
      PROVE  Covered(u, p, q)'
  <2>1. ~failed
    BY <1>4 DEF ListProfilePics, DeleteExpiredPics, CleanupFails, IInv, Inv, TypeOK
  <2>2. FitsPage(u) /\ p \in pics /\ q \in pics
    BY <1>2, <1>4 DEF FitsPage, Under
  <2>3. Covered(u, p, q)
    BY <1>4, <2>1, <2>2 DEF IInv, PairPart
  <2>4. CASE ListProfilePics(c)
    <3> DEFINE d == [c EXCEPT !.at = "Delete", !.listed = ListObjects(c.user)]
    <3>1. cleanups' = (cleanups \ {c}) \cup {d} /\ d.user = c.user /\ d.listed = ListObjects(c.user)
      BY <1>1, <2>4 DEF ListProfilePics, Cleanups
    <3>2. CASE c.user = u
      <4>1. Under(pics, u) \in SUBSET Pics
        BY <1>1 DEF Under
      <4>2. /\ IsFiniteSet(Under(pics, u))
            /\ Cardinality(Under(pics, u)) \in Nat /\ Cardinality(Under(uploaded, u)) \in Nat
            /\ Cardinality(Under(pics, u)) <= Cardinality(Under(uploaded, u))
        BY <1>1, UnderIsFinite DEF IInv
      <4>3. Cardinality(Under(pics, u)) <= ListLength
        BY <2>2, <4>2 DEF FitsPage
      <4>4. ListObjects(u) = Under(pics, u)
        BY <4>1, <4>2, <4>3, FirstKeysAreAll DEF ListObjects
      <4>5. IsPrefix(Text[u], Text[u])
        BY PrefixAgrees
      <4>6. p \in d.listed /\ q \in d.listed
        BY <1>4, <2>2, <3>1, <3>2, <4>4, <4>5 DEF Under
      <4> QED  BY <3>1, <3>2, <4>6 DEF Covered
    <3>3. CASE c.user # u
      BY <2>3, <3>1, <3>3 DEF Covered
    <3> QED  BY <3>2, <3>3
  <2>5. CASE DeleteExpiredPics(c)
    <3>1. cleanups' = cleanups \ {c} /\ pics' = pics \ LeastRecentKeys(c) /\ c.at = "Delete"
      BY <2>5 DEF DeleteExpiredPics
    <3>2. ~(p \in c.listed /\ q \in c.listed)
      <4>1. SUFFICES ASSUME p \in c.listed, q \in c.listed PROVE FALSE
        OBVIOUS
      <4>2. IsMostRecent(p, c.listed) /\ IsMostRecent(q, c.listed)
        BY <1>4, <3>1, <4>1 DEF LeastRecentKeys
      <4>3. c.listed \in SUBSET Pics
        BY <1>1 DEF Cleanups
      <4> QED  BY <1>4, <4>2, <4>3, OneMostRecent
    <3> QED  BY <2>3, <3>1, <3>2 DEF Covered
  <2>6. CASE CleanupFails(c)
    BY <1>4, <2>6 DEF CleanupFails
  <2> QED  BY <2>4, <2>5, <2>6
<1>5. PairPart'
  BY <1>4 DEF PairPart
<1> QED  BY <1>3, <1>5

\* Registrations and the clock.
LEMMA OthersIInv ==
    ASSUME IInv, (\E u \in Accounts : Register(u)) \/ Tick \/ UNCHANGED vars
    PROVE  Files' /\ RunPart' /\ PairPart'
<1>1. /\ accounts \subseteq accounts'
      /\ UNCHANGED <<pics, uploaded, cleanups, failed, job>>
  BY DEF Register, Tick, vars
<1> QED  BY <1>1, FilesKept, RunKept, PairsKept DEF IInv

LEMMA JobIInv ==
    ASSUME IInv,
           \/ BeginJob \/ NextPage \/ SelectExistsUsersByIDs
           \/ DeleteOrphanedKeys \/ DeleteFails \/ EndJob
    PROVE  Files' /\ RunPart' /\ PairPart'
<1>1. /\ UNCHANGED <<accounts, clock, uploaded, cleanups, failed>> /\ pics' \subseteq pics
  BY DEF BeginJob, NextPage, SelectExistsUsersByIDs, DeleteOrphanedKeys, DeleteFails, EndJob
<1>2. Files' /\ PairPart'
  BY <1>1, FilesKept, PairsKept DEF IInv
<1>3. job \in Runs /\ RunPart /\ pics \subseteq uploaded /\ uploaded \subseteq Pics
  BY DEF IInv, Inv, TypeOK, Uploads
<1> SUFFICES RunPart'
  BY <1>2
<1>4. CASE BeginJob
  <2>1. /\ job'.before = {p \in pics : p.owner \notin accounts} /\ job'.token = {}
        /\ job'.valid = {} /\ job'.at = "List"
    BY <1>4 DEF BeginJob, NoJob, IsOrphan
  <2>2. \A p \in job'.before : p.owner \notin Accounts
    BY <1>3, <2>1 DEF IInv, Inv, Uploads
  <2>3. BeforePart'
    BY <1>1, <1>3, <2>1, <2>2 DEF BeforePart
  <2>4. ListPart' /\ PagePart' /\ RunIsComplete'
    BY <2>1 DEF ListPart, PagePart, RunIsComplete, AfterToken
  <2> QED  BY <2>3, <2>4 DEF RunPart
<1>5. CASE NextPage
  <2> DEFINE page == FirstKeys(PageLength, AfterPage)
  <2>1. /\ job'.at = "Select" /\ job'.page = page /\ job'.token = LastKey(page)
        /\ job'.more = (page # AfterPage) /\ job'.before = job.before /\ job'.valid = job.valid
        /\ pics' = pics /\ job.at = "List"
    BY <1>3, <1>5 DEF NextPage, Runs
  <2>2. ASSUME NEW p \in job.before \cap pics, p \notin page
        PROVE  page # AfterPage /\ \A q \in LastKey(page) : Before(q, p)
    <3>1. p \in AfterPage
      BY <1>3, <2>1 DEF RunPart, ListPart, AfterPage, AfterToken
    <3>2. AfterPage \in SUBSET Pics /\ IsFiniteSet(AfterPage) /\ Distinct(AfterPage)
      <4>1. AfterPage \in SUBSET uploaded
        BY <1>3 DEF AfterPage
      <4> HIDE DEF page
      <4> QED  BY <1>3, <4>1, FS_Subset DEF IInv, Files, Distinct
    <3>3. \A q \in page : Before(q, p)
      BY <2>2, <3>1, <3>2, OthersAreBehind
    <3> QED  BY <2>2, <3>1, <3>3 DEF LastKey
  <2> HIDE DEF page
  <2>3. RunIsComplete'
    BY <2>1 DEF RunIsComplete
  <2>4. \A p : AfterToken(p)' <=> \A q \in LastKey(page) : Before(q, p)
    BY <2>1 DEF AfterToken, Before, TextBefore
  <2>5. BeforePart'
    BY <1>1, <1>3, <2>1 DEF RunPart, BeforePart
  <2>6. ListPart' /\ PagePart'
    BY <2>1, <2>2, <2>4 DEF ListPart, PagePart
  <2> QED  BY <2>3, <2>5, <2>6 DEF RunPart
<1>6. CASE SelectExistsUsersByIDs
  <2>1. /\ job'.at = "Delete" /\ job'.page = job.page /\ job'.token = job.token
        /\ job'.more = job.more /\ job'.before = job.before /\ job'.valid \subseteq accounts
        /\ pics' = pics /\ job.at = "Select"
    BY <1>3, <1>6 DEF SelectExistsUsersByIDs, Runs
  <2>2. \A p : AfterToken(p)' <=> AfterToken(p)
    BY <2>1 DEF AfterToken, Before, TextBefore
  <2>3. RunIsComplete'
    BY <2>1 DEF RunIsComplete
  <2>4. BeforePart'
    BY <1>1, <1>3, <2>1 DEF RunPart, BeforePart
  <2>5. ListPart' /\ PagePart'
    BY <1>3, <2>1, <2>2 DEF RunPart, ListPart, PagePart
  <2> QED  BY <2>3, <2>4, <2>5 DEF RunPart
<1>7. CASE DeleteOrphanedKeys
  <2>1. /\ job'.at = (IF job.more THEN "List" ELSE "Done") /\ job'.token = job.token
        /\ job'.before = job.before /\ job'.valid = {}
        /\ pics' = pics \ OrphanedKeys /\ job.at = "Delete"
    BY <1>3, <1>7 DEF DeleteOrphanedKeys, AfterDelete, Runs
  <2>2. ASSUME NEW p \in job.before \cap pics'
        PROVE  job.more /\ AfterToken(p)
    <3>1. p.owner \notin job.valid
      BY <1>3 DEF RunPart, BeforePart, IInv, Inv, TypeOK
    <3>2. p \notin job.page
      BY <2>1, <3>1 DEF OrphanedKeys
    <3> QED  BY <1>3, <2>1, <3>2 DEF RunPart, PagePart
  <2>3. \A p : AfterToken(p)' <=> AfterToken(p)
    BY <2>1 DEF AfterToken, Before, TextBefore
  <2>4. BeforePart'
    BY <1>1, <1>3, <2>1 DEF RunPart, BeforePart
  <2>5. ListPart' /\ PagePart'
    BY <2>1, <2>2, <2>3 DEF ListPart, PagePart
  <2>6. RunIsComplete'
    BY <2>1, <2>2 DEF RunIsComplete
  <2> QED  BY <2>4, <2>5, <2>6 DEF RunPart
<1>8. CASE DeleteFails
  <2>1. job'.at \in {"List", "Done"} /\ job'.before = {} /\ job'.valid = {}
    BY <1>3, <1>8 DEF DeleteFails, AfterDelete, Runs
  <2> QED  BY <2>1 DEF RunPart, BeforePart, ListPart, PagePart, RunIsComplete
<1>9. CASE EndJob
  <2>1. job'.at = "Idle" /\ job'.before = {} /\ job'.valid = {}
    BY <1>9 DEF EndJob, NoJob
  <2> QED  BY <2>1 DEF RunPart, BeforePart, ListPart, PagePart, RunIsComplete
<1> QED  BY <1>4, <1>5, <1>6, <1>7, <1>8, <1>9

LEMMA IInvariance == Spec => []IInv
<1>1. IInv /\ [Next]_vars => IInv'
  <2> SUFFICES ASSUME IInv, [Next]_vars
               PROVE  IInv'
    OBVIOUS
  <2>1. Inv'
    BY NextInv DEF IInv
  <2>2. Files' /\ RunPart' /\ PairPart'
    BY UploadIInv, CleanupIInv, OthersIInv, JobIInv DEF Next
  <2> QED  BY <2>1, <2>2 DEF IInv
<1> QED  BY <1>1, InitIInv, PTL DEF Spec

(***************************************************************************)
(* When all goroutines have ended and none has failed, a user who has not  *)
(* filled a page has one picture, in whatever order the goroutines listed  *)
(* and deleted (RemoveExpiredProfilePics).                                 *)
(***************************************************************************)
THEOREM OldOnesGo == Spec => []OneIsLeft
<1>1. IInv => OneIsLeft
  <2> SUFFICES ASSUME IInv, cleanups = {}, ~failed, NEW u \in Owners,
                      Cardinality(Under(uploaded, u)) <= ListLength
               PROVE  Cardinality({p \in pics : p.owner = u}) <= 1
    BY DEF OneIsLeft
  <2> DEFINE own == {p \in pics : p.owner = u}
  <2>1. \A p, q \in own : p = q
    BY DEF IInv, PairPart, FitsPage, Covered
  <2>2. own = {} \/ \E p : own = {p}
    <3>1. ASSUME NEW p \in own PROVE own = {p}
      <4> HIDE DEF own
      <4> QED  BY <2>1, <3>1
    <3> QED  BY <3>1
  <2>3. Cardinality(own) \in {0, 1}
    <3> HIDE DEF own
    <3> QED  BY <2>2, FS_EmptySet, FS_Singleton
  <2> QED  BY <2>3
<1> QED  BY <1>1, IInvariance, PTL

(***************************************************************************)
(* A run of the job that ends without an error has removed every orphan    *)
(* there was when it began, whatever is put and removed while it goes      *)
(* from page to page (ClearOrphanFiles).                                   *)
(***************************************************************************)
THEOREM OrphansGo == Spec => []RunIsComplete
<1>1. IInv => RunIsComplete
  BY DEF IInv, RunPart
<1> QED  BY <1>1, IInvariance, PTL
=============================================================================
