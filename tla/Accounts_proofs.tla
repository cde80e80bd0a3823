----------------------------- MODULE Accounts_proofs -----------------------------
(***************************************************************************)
(* For any clients, requests, names and passwords: attempts at an account  *)
(* take effect one by one, none on a locked account, and there is one      *)
(* account per Google account.                                             *)
(***************************************************************************)
EXTENDS Accounts, FiniteSetTheorems, TLAPS

USE AccountsAssumption

\* Ids are given out in order.
Numbered == \E k \in 0 .. MaxUsers : Registered = 1 .. k

\* A handler is about an account there is.  The account whose password it
\* compares is not locked, unless its transaction is bound to fail.
Sound(w) ==
    /\ w.at = "LogsIn" => w.id \in Registered
    /\ w.at \in {"Comparing", "ChangesPassword"} => w.user \in Registered
    /\ w.at = "Comparing" /\ ~w.stale => ~Logins!Locked(w.user)

SessionsExist == \A c \in Clients : sessions[c] # NoSession => sessions[c].id \in Registered

\* The replica has no account that there is not.
ReplicaIsOld ==
    \A u \in Users : replica[u] # Unseen => u \in Registered /\ replica[u].name \in Names

JobsNameUsers == \A j \in Jobs : jobs[j].at # "None" => jobs[j].user \in Users

HandlersAreSound == \A c \in Clients : Sound(work[c])

OneGoogle == \A u, v \in Users : users[u].google /\ users[v].google => u = v

Inv ==
    /\ TypeOK /\ Numbered /\ OneGoogle
    /\ SessionsExist /\ ReplicaIsOld /\ JobsNameUsers /\ HandlersAreSound

-----------------------------------------------------------------------------
(* What steps do to the table.                                               *)

\* The row of u becomes row.
Writes(u, row) ==
    /\ u \in Users /\ row \in Rows
    /\ users' = [users EXCEPT ![u] = row]

Inserts(u, row) ==
    /\ Writes(u, row) /\ u = NextId
    /\ row.attempts = 0 /\ row.recent = FALSE
    /\ row.google => GoogleFree

Updates(u, row) ==
    Writes(u, row) /\ u \in Registered /\ row.google = users[u].google

LEMMA RegisteredRows ==
    ASSUME TypeOK, NEW u \in Users
    PROVE  u \in Registered <=> users[u] \in Rows
<1>1. users[u] \in Rows \cup {NoUser} /\ NoUser \notin Rows
  BY DEF TypeOK, Rows, NoUser
<1> QED  BY <1>1 DEF Registered

LEMMA NextIdIsFree ==
    ASSUME TypeOK, Numbered, NextId \in Users
    PROVE  /\ users[NextId] = NoUser
           /\ Registered \cup {NextId} = 1 .. NextId /\ NextId \in 0 .. MaxUsers
<1>1. PICK k \in 0 .. MaxUsers : Registered = 1 .. k
  BY DEF Numbered
<1>2. Cardinality(1 .. k) = k
  <2>1. k >= 1 => Cardinality(1 .. k) = k - 1 + 1
    BY FS_Interval
  <2>2. k = 0 => 1 .. k = {}
    OBVIOUS
  <2> QED  BY <2>1, <2>2, FS_EmptySet
<1>3. NextId = k + 1
  BY <1>1, <1>2 DEF NextId
<1> QED  BY <1>1, <1>3 DEF Registered, Users

LEMMA InsertKeeps ==
    ASSUME Inv, NEW u, NEW row, Inserts(u, row)
    PROVE  /\ users' \in [Users -> Rows \cup {NoUser}]
           /\ Registered' = Registered \cup {u}
           /\ Numbered' /\ OneGoogle'
           /\ \A v \in Users : Logins!Locked(v)' => Logins!Locked(v)
<1>1. TypeOK /\ Numbered /\ u \in Users /\ u = NextId /\ users[u] = NoUser
  BY NextIdIsFree DEF Inserts, Writes, Inv
<1>2. users' \in [Users -> Rows \cup {NoUser}]
  BY <1>1 DEF Inserts, Writes, TypeOK
<1>3. users'[u] = row /\ \A v \in Users \ {u} : users'[v] = users[v]
  BY <1>1 DEF Inserts, Writes, TypeOK
<1>4. row # NoUser
  BY DEF Inserts, Writes, Rows, NoUser
<1>5. Registered' = Registered \cup {u}
  BY <1>1, <1>3, <1>4 DEF Registered
<1>6. Numbered'
  BY <1>1, <1>5, NextIdIsFree DEF Numbered
<1>7. OneGoogle'
  BY <1>1, <1>3 DEF Inserts, GoogleFree, OneGoogle, NoUser, Inv
<1>8. \A v \in Users : Logins!Locked(v)' => Logins!Locked(v)
  BY <1>1, <1>3 DEF Inserts, Logins!Locked
<1> QED  BY <1>2, <1>5, <1>6, <1>7, <1>8

LEMMA UpdateKeeps ==
    ASSUME Inv, NEW u, NEW row, Updates(u, row)
    PROVE  /\ users' \in [Users -> Rows \cup {NoUser}]
           /\ Registered' = Registered
           /\ Numbered' /\ OneGoogle'
           /\ \A v \in Users \ {u} : Logins!Locked(v)' = Logins!Locked(v)
<1>1. u \in Users /\ users' \in [Users -> Rows \cup {NoUser}]
  BY DEF Updates, Writes, Inv, TypeOK
<1>2. users'[u] = row /\ \A v \in Users \ {u} : users'[v] = users[v]
  BY <1>1 DEF Updates, Writes, Inv, TypeOK
<1>3. row # NoUser
  BY DEF Updates, Writes, Rows, NoUser
<1>4. Registered' = Registered
  BY <1>1, <1>2, <1>3 DEF Updates, Registered
<1>5. Numbered'
  BY <1>4 DEF Inv, Numbered
<1>6. OneGoogle'
  BY <1>1, <1>2 DEF Updates, OneGoogle, Inv
<1>7. \A v \in Users \ {u} : Logins!Locked(v)' = Logins!Locked(v)
  BY <1>2 DEF Logins!Locked
<1> QED  BY <1>1, <1>4, <1>5, <1>6, <1>7

LEMMA SameUsersKeep ==
    ASSUME Inv, users' = users
    PROVE  /\ users' \in [Users -> Rows \cup {NoUser}]
           /\ Registered' = Registered /\ Numbered' /\ OneGoogle'
           /\ \A v \in Users : Logins!Locked(v)' = Logins!Locked(v)
BY DEF Inv, TypeOK, Registered, Numbered, OneGoogle, Logins!Locked

-----------------------------------------------------------------------------
(* What steps do to the handlers.                                            *)

\* What is said of replica, jobs and index.
StoresOK ==
    /\ replica \in [Users -> [name : Names \cup {NoName}, google : BOOLEAN]]
    /\ jobs \in [Jobs -> [at : {"None", "Available", "Read"},
                          user : Users \cup {0}, name : Names \cup {NoName}]]
    /\ index \in [Users -> Names \cup {NoName}]

LEMMA ComparingWork ==
    ASSUME NEW w \in Works, w.at = "Comparing"
    PROVE  w \in [at : {"Comparing"}, user : Users, request : Requests, stale : BOOLEAN]
BY DEF Works, Idle

LEMMA OtherWork ==
    ASSUME NEW w \in Works
    PROVE  /\ w.at = "ChangesPassword" => w.user \in Users /\ w.request \in Requests
           /\ w.at = "Inserting" => w.request \in Requests
           /\ w.at = "LogsIn" => w.id \in Users /\ w.name \in Names
BY DEF Works, Idle

LEMMA OthersSound ==
    ASSUME Inv, NEW u, NEW c \in Clients, NEW next \in Works, Wrote(u, c, next),
           Registered \subseteq Registered',
           \A v \in Users \ {u} : Logins!Locked(v)' => Logins!Locked(v)
    PROVE  /\ work' \in [Clients -> Works] /\ work'[c] = next
           /\ \A d \in Clients \ {c} : Sound(work[d])'
<1>1. work'[c] = next
  BY DEF Wrote
<1>2. ASSUME NEW d \in Clients \ {c}
      PROVE  work'[d] \in Works /\ Sound(work[d])'
  <2>1. work[d] \in Works /\ Sound(work[d])
    BY DEF Inv, TypeOK, HandlersAreSound
  <2>2. CASE Verifying(d, u)
    <3>1. work'[d] = [work[d] EXCEPT !.stale = TRUE]
      BY <2>2 DEF Wrote, Conflicting
    <3>2. work[d] \in [at : {"Comparing"}, user : Users, request : Requests, stale : BOOLEAN]
      BY <2>1, <2>2, ComparingWork DEF Verifying
    <3>3. /\ work'[d] \in [at : {"Comparing"}, user : Users, request : Requests, stale : BOOLEAN]
          /\ work'[d].stale /\ work'[d].user = work[d].user
      BY <3>1, <3>2
    <3> QED  BY <2>1, <2>2, <3>3 DEF Works, Sound, Verifying
  <2>3. CASE ~Verifying(d, u)
    <3>1. work'[d] = work[d]
      BY <2>3 DEF Wrote, Conflicting
    <3>2. work[d].at = "Comparing" => work[d].user \in Users \ {u}
      BY <2>1, <2>3, ComparingWork DEF Verifying
    <3> QED  BY <2>1, <3>1, <3>2 DEF Sound
  <2> QED  BY <2>2, <2>3
<1>3. work' \in [Clients -> Works]
  BY <1>1, <1>2 DEF Wrote
<1> QED  BY <1>1, <1>2, <1>3

LEMMA StaySound ==
    ASSUME Inv, NEW d \in Clients, work'[d] = work[d],
           Registered \subseteq Registered',
           \A v \in Users : Logins!Locked(v)' => Logins!Locked(v)
    PROVE  Sound(work[d])'
<1>1. work[d] \in Works /\ Sound(work[d])
  BY DEF Inv, TypeOK, HandlersAreSound
<1>2. work[d].at = "Comparing" => work[d].user \in Users
  BY <1>1, ComparingWork
<1> QED  BY <1>1, <1>2 DEF Sound

\* A handler that goes on while nobody's row is written, or a new one is.
LEMMA OneGoesOn ==
    ASSUME Inv, NEW c \in Clients, NEW next \in Works, work' = [work EXCEPT ![c] = next],
           Registered \subseteq Registered',
           \A v \in Users : Logins!Locked(v)' => Logins!Locked(v),
           Sound(work[c])'
    PROVE  work' \in [Clients -> Works] /\ HandlersAreSound'
<1>1. work' \in [Clients -> Works] /\ work'[c] = next
  BY DEF Inv, TypeOK
<1>2. \A d \in Clients \ {c} : work'[d] = work[d]
  BY DEF Inv, TypeOK
<1>3. \A d \in Clients \ {c} : Sound(work[d])'
  BY <1>2, StaySound
<1> QED  BY <1>1, <1>3 DEF HandlersAreSound

\* What does not speak of rows and handlers, before a step and after it.
Rest == StoresOK /\ ReplicaIsOld /\ JobsNameUsers /\ SessionsExist
            /\ sessions \in [Clients -> [id : Users, name : Names] \cup {NoSession}]

LEMMA RestStays ==
    ASSUME Inv, UNCHANGED <<replica, sessions, jobs, index>>, Registered \subseteq Registered'
    PROVE  Rest'
BY DEF Inv, TypeOK, StoresOK, Rest, ReplicaIsOld, JobsNameUsers, SessionsExist

LEMMA JobQueued ==
    ASSUME Inv, NEW u \in Users, ProduceUpdateUser(u), UNCHANGED <<replica, sessions, index>>,
           Registered \subseteq Registered'
    PROVE  Rest'
<1>1. StoresOK' /\ JobsNameUsers'
  BY DEF Inv, TypeOK, StoresOK, JobsNameUsers, ProduceUpdateUser
<1> QED  BY <1>1 DEF Inv, TypeOK, Rest, ReplicaIsOld, SessionsExist

\* The parts of the invariant after a step.
LEMMA Parts ==
    ASSUME users' \in [Users -> Rows \cup {NoUser}], work' \in [Clients -> Works],
           Numbered', OneGoogle', HandlersAreSound', Rest'
    PROVE  Inv'
BY DEF Inv, TypeOK, StoresOK, Rest

-----------------------------------------------------------------------------
(* Each action.                                                              *)

LEMMA RegisterStep ==
    ASSUME Inv, NEW r \in Requests, HandleRegister(r)
    PROVE  Inv' /\ Inserts(NextId, Row(r.name, r.password, FALSE))
<1> DEFINE u == NextId
           row == Row(r.name, r.password, FALSE)
<1>1. r.client \in Clients /\ row \in Rows /\ u \in Users /\ row.name \in Names
  BY DEF HandleRegister, Row, Rows
<1>2. Inserts(u, row)
  BY <1>1 DEF HandleRegister, InsertUser, Inserts, Writes, Row
<1>3. users'[u].name \in Names
  BY <1>1, <1>2 DEF Inserts, Writes, Inv, TypeOK
<1>4. work' = [work EXCEPT ![r.client] = LogsIn(u)] /\ LogsIn(u) \in Works
  BY <1>1, <1>3 DEF HandleRegister, LogsIn, Works
<1>5. work'[r.client] = LogsIn(u)
  BY <1>1, <1>4 DEF Inv, TypeOK
<1>6. Sound(work[r.client])'
  <2>1. work'[r.client].at = "LogsIn" /\ work'[r.client].id = u
    BY <1>5 DEF LogsIn
  <2>2. Registered' = Registered \cup {u}
    BY <1>2, InsertKeeps
  <2> QED  BY <2>1, <2>2 DEF Sound
<1>7. work' \in [Clients -> Works] /\ HandlersAreSound'
  BY <1>1, <1>2, <1>4, <1>6, InsertKeeps, OneGoesOn
<1>8. Rest'
  BY <1>1, <1>2, InsertKeeps, JobQueued DEF HandleRegister, InsertUser
<1> QED  BY <1>2, <1>7, <1>8, InsertKeeps, Parts

LEMMA UpdateUserStep ==
    ASSUME Inv, NEW r \in Requests, HandleUpdateUser(r)
    PROVE  /\ Inv'
           /\ \E u \in Users : Updates(u, [users[u] EXCEPT !.name = r.name])
<1> DEFINE c == r.client
           u == sessions[c].id
           row == [users[u] EXCEPT !.name = r.name]
<1>1. c \in Clients /\ u \in Registered /\ r.name \in Names /\ u \in Users
  BY DEF HandleUpdateUser, Inv, SessionsExist, Registered
<1>2. users[u] \in Rows
  BY <1>1, RegisteredRows DEF Inv
<1>3. row \in Rows /\ row.google = users[u].google
  BY <1>1, <1>2 DEF Rows
<1>4. Updates(u, row) /\ Wrote(u, c, Idle)
  BY <1>1, <1>3 DEF HandleUpdateUser, UpdateUser, Updates, Writes
<1>5. Idle \in Works
  BY DEF Works
<1>6. work' \in [Clients -> Works] /\ work'[c] = Idle /\ \A d \in Clients \ {c} : Sound(work[d])'
  BY <1>1, <1>4, <1>5, UpdateKeeps, OthersSound
<1>7. HandlersAreSound'
  BY <1>6 DEF HandlersAreSound, Sound, Idle
<1>8. Rest'
  BY <1>1, <1>4, UpdateKeeps, JobQueued DEF HandleUpdateUser, UpdateUser
<1> QED  BY <1>1, <1>4, <1>6, <1>7, <1>8, UpdateKeeps, Parts

LEMMA VerifyUserStep ==
    ASSUME Inv, NEW r \in Requests, VerifyUser(r)
    PROVE  Inv'
<1> DEFINE c == r.client
<1>1. PICK u \in Registered :
         /\ ~Logins!Locked(u)
         /\ work' = [work EXCEPT ![c] = [at |-> "Comparing", user |-> u, request |-> r, stale |-> FALSE]]
  BY DEF VerifyUser
<1> DEFINE next == [at |-> "Comparing", user |-> u, request |-> r, stale |-> FALSE]
<1>2. c \in Clients /\ u \in Users /\ next \in Works
  BY DEF Registered, Works
<1>3. users' = users /\ UNCHANGED <<replica, sessions, jobs, index>>
  BY DEF VerifyUser
<1>4. work'[c] = next
  BY <1>1, <1>2 DEF Inv, TypeOK
<1>5. Sound(work[c])'
  BY <1>1, <1>2, <1>3, <1>4, SameUsersKeep DEF Sound
<1>6. work' \in [Clients -> Works] /\ HandlersAreSound'
  BY <1>1, <1>2, <1>3, <1>5, SameUsersKeep, OneGoesOn
<1> QED  BY <1>3, <1>6, SameUsersKeep, RestStays, Parts

\* A right password is the row's, and what is written then.
Right(c) == work[c].request.password = users[work[c].user].password

Counted(c) ==
    LET row == users[work[c].user] IN
    IF Right(c) THEN [row EXCEPT !.attempts = 0, !.recent = FALSE]
                ELSE [row EXCEPT !.attempts = @ + 1, !.recent = TRUE]

LEMMA CountedRow ==
    ASSUME NEW c, users[work[c].user] \in Rows, MaxAttempts \in Nat,
           ~Right(c) => users[work[c].user].attempts < MaxAttempts
    PROVE  Counted(c) \in Rows /\ Counted(c).google = users[work[c].user].google
<1> DEFINE row == users[work[c].user]
<1>1. CASE Right(c)
  <2>1. PICK n \in 0 .. MaxAttempts : n = 0
    OBVIOUS
  <2>2. Counted(c) = [row EXCEPT !.attempts = n, !.recent = FALSE]
    BY <1>1, <2>1 DEF Counted
  <2> HIDE DEF row
  <2>3. row \in Rows
    BY DEF row
  <2>4. Counted(c) \in Rows /\ Counted(c).google = row.google
    BY <2>2, <2>3 DEF Rows
  <2> QED  BY <2>4 DEF row
<1>2. CASE ~Right(c)
  <2>1. Counted(c) = [row EXCEPT !.attempts = row.attempts + 1, !.recent = TRUE]
    BY <1>2 DEF Counted
  <2>2. row.attempts < MaxAttempts
    BY <1>2
  <2> HIDE DEF row
  <2>3. row \in Rows
    BY DEF row
  <2>4. row.attempts + 1 \in 0 .. MaxAttempts
    BY <2>2, <2>3 DEF Rows
  <2>5. Counted(c) \in Rows /\ Counted(c).google = row.google
    BY <2>1, <2>3, <2>4 DEF Rows
  <2> QED  BY <2>5 DEF row
<1> QED  BY <1>1, <1>2

LEMMA CompareStep ==
    ASSUME Inv, NEW c \in Clients, CompareHashAndPassword(c)
    PROVE  /\ Inv' /\ Updates(work[c].user, Counted(c))
           /\ ~Logins!Locked(work[c].user) /\ work[c].request \in Requests
<1> DEFINE u == work[c].user
<1>1. work[c] \in [at : {"Comparing"}, user : Users, request : Requests, stale : BOOLEAN]
  BY ComparingWork DEF CompareHashAndPassword, Inv, TypeOK
<1>2. u \in Registered /\ u \in Users /\ work[c].request \in Requests /\ ~Logins!Locked(u)
  BY <1>1 DEF CompareHashAndPassword, Inv, HandlersAreSound, Sound
<1>3. users[u] \in Rows
  BY <1>2, RegisteredRows DEF Inv
<1>4. PICK next \in Works :
         /\ Updates(u, Counted(c)) /\ Wrote(u, c, next) /\ next.at # "Comparing"
         /\ next.at = "LogsIn" => next.id = u
         /\ next.at = "ChangesPassword" => next.user = u
  <2>1. CASE Right(c)
    <3>1. Counted(c) \in Rows /\ Counted(c).google = users[u].google
      BY <1>3, <2>1, CountedRow
    <3>2. users' = [users EXCEPT ![u] = Counted(c)] /\ Wrote(u, c, Verified(c))
      BY <1>2, <2>1 DEF CompareHashAndPassword, ResetLoginAttempts, Counted, Right, Inv, TypeOK
    <3>3. Updates(u, Counted(c))
      BY <1>2, <3>1, <3>2 DEF Updates, Writes
    <3>4. users'[u].name \in Names
      BY <1>2, <3>1, <3>2 DEF Inv, TypeOK, Rows
    <3>5. Verified(c) \in Works
      BY <1>2, <3>4 DEF Verified, LogsIn, Works
    <3>6. /\ Verified(c).at # "Comparing"
          /\ Verified(c).at = "LogsIn" => Verified(c).id = u
          /\ Verified(c).at = "ChangesPassword" => Verified(c).user = u
      BY DEF Verified, LogsIn
    <3> HIDE DEF u
    <3> QED  BY <3>2, <3>3, <3>5, <3>6
  <2>2. CASE ~Right(c)
    <3>1. users[u].attempts < MaxAttempts
      BY <2>2 DEF CompareHashAndPassword, Right
    <3>2. Counted(c) \in Rows /\ Counted(c).google = users[u].google
      BY <1>3, <2>2, <3>1, CountedRow
    <3>3. users' = [users EXCEPT ![u] = Counted(c)] /\ Wrote(u, c, Idle)
      BY <1>2, <2>2 DEF CompareHashAndPassword, IncrLoginAttempts, Counted, Right, Inv, TypeOK
    <3>4. Updates(u, Counted(c)) /\ Idle \in Works /\ Idle.at = "Idle"
      BY <1>2, <3>2, <3>3 DEF Updates, Writes, Works, Idle
    <3> QED  BY <3>3, <3>4
  <2> QED  BY <2>1, <2>2
<1>5. work' \in [Clients -> Works] /\ work'[c] = next /\ \A d \in Clients \ {c} : Sound(work[d])'
  BY <1>4, UpdateKeeps, OthersSound
<1>6. Registered' = Registered
  BY <1>4, UpdateKeeps
<1>7. HandlersAreSound'
  BY <1>2, <1>4, <1>5, <1>6 DEF HandlersAreSound, Sound
<1>8. Rest'
  BY <1>6, RestStays DEF CompareHashAndPassword
<1> QED  BY <1>2, <1>4, <1>5, <1>7, <1>8, UpdateKeeps, Parts

LEMMA SerializationFailureStep ==
    ASSUME Inv, NEW c \in Clients, SerializationFailure(c) \/ HandlerFails(c)
    PROVE  Inv'
<1>1. work' = [work EXCEPT ![c] = Idle] /\ UNCHANGED <<users, replica, sessions, jobs, index>>
  BY DEF SerializationFailure, HandlerFails
<1>2. Idle \in Works /\ work'[c] = Idle
  BY <1>1 DEF Works, Inv, TypeOK
<1>3. Sound(work[c])'
  BY <1>2 DEF Sound, Idle
<1>4. work' \in [Clients -> Works] /\ HandlersAreSound'
  BY <1>1, <1>2, <1>3, SameUsersKeep, OneGoesOn
<1> QED  BY <1>1, <1>4, SameUsersKeep, RestStays, Parts

LEMMA UpdatePasswordStep ==
    ASSUME Inv, NEW c \in Clients, UpdateUserPassword(c)
    PROVE  /\ Inv'
           /\ work[c].request.newPassword \in Passwords
           /\ Updates(work[c].user, [users[work[c].user] EXCEPT !.password = work[c].request.newPassword])
<1> DEFINE u == work[c].user
           p == work[c].request.newPassword
           row == [users[u] EXCEPT !.password = p]
<1>1. work[c] \in Works /\ work[c].at = "ChangesPassword" /\ Sound(work[c])
  BY DEF UpdateUserPassword, Inv, TypeOK, HandlersAreSound
<1>2. u \in Registered /\ u \in Users /\ p \in Passwords
  BY <1>1, OtherWork DEF Sound
<1>3. users[u] \in Rows
  BY <1>2, RegisteredRows DEF Inv
<1>4. row \in Rows /\ row.google = users[u].google
  BY <1>2, <1>3 DEF Rows
<1>5. Updates(u, row) /\ Wrote(u, c, Idle)
  BY <1>2, <1>4 DEF UpdateUserPassword, Updates, Writes
<1>6. Idle \in Works
  BY DEF Works
<1>7. work' \in [Clients -> Works] /\ work'[c] = Idle /\ \A d \in Clients \ {c} : Sound(work[d])'
  BY <1>5, <1>6, UpdateKeeps, OthersSound
<1>8. HandlersAreSound'
  BY <1>7 DEF HandlersAreSound, Sound, Idle
<1>9. Rest'
  BY <1>5, UpdateKeeps, RestStays DEF UpdateUserPassword
<1> QED  BY <1>2, <1>5, <1>7, <1>8, <1>9, UpdateKeeps, Parts

LEMMA SelectGoogleStep ==
    ASSUME Inv, NEW r \in Requests, SelectGoogleUser(r)
    PROVE  Inv'
<1> DEFINE c == r.client
<1>1. users' = users /\ UNCHANGED <<replica, sessions, jobs, index>> /\ c \in Clients
  BY DEF SelectGoogleUser
<1>2. PICK next \in Works :
         /\ work' = [work EXCEPT ![c] = next]
         /\ next.at \in {"LogsIn", "Inserting"}
         /\ next.at = "LogsIn" => next.id \in Registered
  <2>1. ASSUME NEW u \in Users, replica[u].google,
               work' = [work EXCEPT ![c] = [at |-> "LogsIn", id |-> u, name |-> replica[u].name]]
        PROVE  \E next \in Works :
                  /\ work' = [work EXCEPT ![c] = next]
                  /\ next.at \in {"LogsIn", "Inserting"}
                  /\ next.at = "LogsIn" => next.id \in Registered
    <3>1. u \in Registered /\ replica[u].name \in Names
      BY <2>1 DEF Inv, ReplicaIsOld, Unseen
    <3>2. [at |-> "LogsIn", id |-> u, name |-> replica[u].name] \in Works
      BY <3>1 DEF Works
    <3> QED  BY <2>1, <3>1, <3>2
  <2>2. [at |-> "Inserting", request |-> r] \in Works
    BY DEF Works
  <2> QED  BY <2>1, <2>2 DEF SelectGoogleUser
<1>3. work'[c] = next
  BY <1>1, <1>2 DEF Inv, TypeOK
<1>4. Sound(work[c])'
  BY <1>1, <1>2, <1>3, SameUsersKeep DEF Sound
<1>5. work' \in [Clients -> Works] /\ HandlersAreSound'
  BY <1>1, <1>2, <1>4, SameUsersKeep, OneGoesOn
<1> QED  BY <1>1, <1>5, SameUsersKeep, RestStays, Parts

LEMMA InsertGoogleStep ==
    ASSUME Inv, NEW c \in Clients, InsertGoogleUser(c)
    PROVE  /\ Inv'
           /\ \/ users' = users
              \/ \E n \in Names : Inserts(NextId, Row(n, Unusable, TRUE))
<1> DEFINE n == work[c].request.name
           u == NextId
           row == Row(n, Unusable, TRUE)
<1>1. work[c].request \in Requests /\ n \in Names
  BY OtherWork DEF InsertGoogleUser, Inv, TypeOK
<1>2. UNCHANGED <<replica, sessions, jobs, index>>
  BY DEF InsertGoogleUser
<1>3. CASE GoogleFree /\ NameFreeFor(NextId, n) /\ NextId \in Users
  <2>1. row \in Rows
    BY <1>1 DEF Row, Rows
  <2>2. users' = [users EXCEPT ![u] = row] /\ work' = [work EXCEPT ![c] = LogsIn(u)]
    BY <1>3 DEF InsertGoogleUser
  <2>3. Inserts(u, row)
    BY <1>3, <2>1, <2>2 DEF Inserts, Writes, Row
  <2>4. users'[u].name \in Names
    BY <1>1, <1>3, <2>2 DEF Inv, TypeOK, Row
  <2>5. LogsIn(u) \in Works
    BY <1>3, <2>4 DEF LogsIn, Works
  <2>6. work'[c].at = "LogsIn" /\ work'[c].id = u
    BY <2>2 DEF LogsIn, Inv, TypeOK
  <2>7. Registered' = Registered \cup {u}
    BY <2>3, InsertKeeps
  <2>8. Sound(work[c])'
    BY <2>6, <2>7 DEF Sound
  <2>9. work' \in [Clients -> Works] /\ HandlersAreSound'
    BY <2>2, <2>3, <2>5, <2>8, InsertKeeps, OneGoesOn
  <2> QED  BY <1>1, <1>2, <2>3, <2>7, <2>9, InsertKeeps, RestStays, Parts
<1>4. CASE ~(GoogleFree /\ NameFreeFor(NextId, n) /\ NextId \in Users)
  <2>1. users' = users /\ work' = [work EXCEPT ![c] = Idle]
    BY <1>4 DEF InsertGoogleUser
  <2>2. Idle \in Works /\ work'[c] = Idle
    BY <2>1 DEF Works, Inv, TypeOK
  <2>3. Sound(work[c])'
    BY <2>2 DEF Sound, Idle
  <2>4. work' \in [Clients -> Works] /\ HandlersAreSound'
    BY <2>1, <2>2, <2>3, SameUsersKeep, OneGoesOn
  <2> QED  BY <1>2, <2>1, <2>4, SameUsersKeep, RestStays, Parts
<1> QED  BY <1>3, <1>4

LEMMA SessionStep ==
    ASSUME Inv, NEW c \in Clients, SetSessionPlayer(c) \/ DeleteSession(c)
    PROVE  Inv'
<1>1. users' = users /\ UNCHANGED <<replica, jobs, index>>
  BY DEF SetSessionPlayer, DeleteSession
<1>2. CASE SetSessionPlayer(c)
  <2> DEFINE session == [id |-> work[c].id, name |-> work[c].name]
  <2>1. work[c].id \in Registered /\ session \in [id : Users, name : Names]
    BY <1>2, OtherWork DEF SetSessionPlayer, Inv, TypeOK, HandlersAreSound, Sound
  <2>2. sessions' = [sessions EXCEPT ![c] = session] /\ work' = [work EXCEPT ![c] = Idle]
    BY <1>2 DEF SetSessionPlayer
  <2>3. Rest'
    BY <1>1, <2>1, <2>2, SameUsersKeep
       DEF Inv, TypeOK, Rest, StoresOK, ReplicaIsOld, JobsNameUsers, SessionsExist
  <2>4. Idle \in Works /\ work'[c] = Idle
    BY <2>2 DEF Works, Inv, TypeOK
  <2>5. Sound(work[c])'
    BY <2>4 DEF Sound, Idle
  <2>6. work' \in [Clients -> Works] /\ HandlersAreSound'
    BY <1>1, <2>2, <2>4, <2>5, SameUsersKeep, OneGoesOn
  <2> QED  BY <1>1, <2>3, <2>6, SameUsersKeep, Parts
<1>3. CASE DeleteSession(c)
  <2>1. sessions' = [sessions EXCEPT ![c] = NoSession] /\ work' = work
    BY <1>3 DEF DeleteSession
  <2>2. Rest'
    BY <1>1, <2>1, SameUsersKeep
       DEF Inv, TypeOK, Rest, StoresOK, ReplicaIsOld, JobsNameUsers, SessionsExist
  <2>3. work' \in [Clients -> Works] /\ HandlersAreSound'
    BY <1>1, <2>1, SameUsersKeep, StaySound DEF HandlersAreSound, Inv, TypeOK
  <2> QED  BY <1>1, <2>2, <2>3, SameUsersKeep, Parts
<1> QED  BY <1>2, <1>3

LEMMA LockoutEndsStep ==
    ASSUME Inv, NEW u \in Users, LockoutEnds(u)
    PROVE  Inv' /\ Updates(u, [users[u] EXCEPT !.recent = FALSE])
<1> DEFINE row == [users[u] EXCEPT !.recent = FALSE]
<1>1. u \in Registered
  BY DEF LockoutEnds, Registered, NoUser
<1>2. users[u] \in Rows
  BY <1>1, RegisteredRows DEF Inv
<1>3. row \in Rows /\ row.google = users[u].google /\ ~row.recent
  BY <1>2 DEF Rows
<1>4. Updates(u, row) /\ UNCHANGED <<replica, sessions, work, jobs, index>>
  BY <1>1, <1>3 DEF LockoutEnds, Updates, Writes
<1>5. users'[u] = row
  BY <1>4 DEF Updates, Writes, Inv, TypeOK
<1>6. ~Logins!Locked(u)'
  BY <1>3, <1>5 DEF Logins!Locked
<1>7. work' \in [Clients -> Works] /\ HandlersAreSound'
  <2>1. Registered \subseteq Registered' /\ \A v \in Users : Logins!Locked(v)' => Logins!Locked(v)
    BY <1>4, <1>6, UpdateKeeps
  <2>2. \A d \in Clients : Sound(work[d])'
    BY <1>4, <2>1, StaySound
  <2> QED  BY <1>4, <2>2 DEF HandlersAreSound, Inv, TypeOK
<1>8. Rest'
  BY <1>4, UpdateKeeps, RestStays
<1> QED  BY <1>4, <1>7, <1>8, UpdateKeeps, Parts

\* Steps of replica, jobs and index.
LEMMA StoresStep ==
    ASSUME Inv, \/ Replicate
                \/ \E j \in Jobs : SelectUserByID(j) \/ InsertSearchableUser(j) \/ JobFails(j)
    PROVE  Inv' /\ users' = users
<1>1. UNCHANGED <<users, sessions, work>>
  BY DEF Replicate, SelectUserByID, InsertSearchableUser, JobFails
<1>2. work' \in [Clients -> Works] /\ HandlersAreSound'
  <2>1. users' = users /\ work' = work
    BY <1>1
  <2>2. Registered \subseteq Registered' /\ \A v \in Users : Logins!Locked(v)' => Logins!Locked(v)
    BY <2>1, SameUsersKeep
  <2>3. \A d \in Clients : Sound(work[d])'
    BY <2>1, <2>2, StaySound
  <2> QED  BY <2>1, <2>3 DEF HandlersAreSound, Inv, TypeOK
<1>3. Rest'
  <2>1. CASE Replicate
    <3>1. \A u \in Users : replica'[u] = [name |-> users[u].name, google |-> users[u].google]
      BY <2>1 DEF Replicate
    <3>2. \A u \in Users : u \notin Registered => replica'[u] = Unseen
      <4>1. ASSUME NEW u \in Users, u \notin Registered
            PROVE  users[u].name = NoName /\ users[u].google = FALSE
        BY <4>1 DEF Registered, NoUser
      <4> QED  BY <3>1, <4>1 DEF Unseen
    <3>3. ASSUME NEW u \in Registered
          PROVE  replica'[u] \in [name : Names, google : BOOLEAN]
      <4>1. u \in Users /\ users[u].name \in Names /\ users[u].google \in BOOLEAN
        BY RegisteredRows DEF Registered, Rows, Inv
      <4>2. [name |-> users[u].name, google |-> users[u].google] \in [name : Names, google : BOOLEAN]
        BY <4>1
      <4> QED  BY <3>1, <4>1, <4>2
    <3>4. /\ ReplicaIsOld'
          /\ replica' \in [Users -> [name : Names \cup {NoName}, google : BOOLEAN]]
      BY <1>1, <2>1, <3>2, <3>3, SameUsersKeep DEF ReplicaIsOld, Replicate, Unseen
    <3> QED  BY <1>1, <2>1, <3>4, SameUsersKeep
             DEF Rest, StoresOK, JobsNameUsers, SessionsExist, Inv, TypeOK, Replicate
  <2>2. ASSUME NEW j \in Jobs, SelectUserByID(j) \/ InsertSearchableUser(j) \/ JobFails(j)
        PROVE  Rest'
    <3>1. replica' = replica
      BY <2>2 DEF SelectUserByID, InsertSearchableUser, JobFails
    <3>2. CASE SelectUserByID(j)
      <4>1. jobs[j].user \in Users /\ replica[jobs[j].user].name \in Names \cup {NoName}
        BY <3>2 DEF SelectUserByID, Inv, JobsNameUsers, TypeOK
      <4> QED  BY <1>1, <3>1, <3>2, <4>1, SameUsersKeep
               DEF SelectUserByID, Rest, StoresOK, SessionsExist, ReplicaIsOld, JobsNameUsers,
                   Inv, TypeOK
    <3>3. CASE InsertSearchableUser(j)
      BY <1>1, <3>1, <3>3, SameUsersKeep
         DEF InsertSearchableUser, NoJob, Rest, StoresOK, SessionsExist, ReplicaIsOld, JobsNameUsers,
                   Inv, TypeOK
    <3>4. CASE JobFails(j)
      BY <1>1, <3>1, <3>4, SameUsersKeep
         DEF JobFails, Rest, StoresOK, SessionsExist, ReplicaIsOld, JobsNameUsers,
                   Inv, TypeOK
    <3> QED  BY <2>2, <3>2, <3>3, <3>4
  <2> QED  BY <2>1, <2>2
<1> QED  BY <1>1, <1>2, <1>3, SameUsersKeep, Parts

\* The invariant holds in every state.
THEOREM Invariance == Spec => []Inv
<1>1. Init => Inv
  <2> SUFFICES ASSUME Init
               PROVE  Inv
    OBVIOUS
  <2>1. TypeOK
    BY DEF Init, TypeOK, Unseen, NoJob, Works
  <2>2. Registered = {}
    BY DEF Init, Registered
  <2>3. Numbered
    <3>1. 0 \in 0 .. MaxUsers /\ 1 .. 0 = {}
      OBVIOUS
    <3> QED  BY <2>2, <3>1 DEF Numbered
  <2>4. OneGoogle
    BY DEF Init, OneGoogle, NoUser
  <2>5. SessionsExist /\ ReplicaIsOld /\ JobsNameUsers /\ HandlersAreSound
    BY DEF Init, SessionsExist, ReplicaIsOld, JobsNameUsers, HandlersAreSound, Sound, NoJob, Idle
  <2> QED  BY <2>1, <2>3, <2>4, <2>5 DEF Inv
<1>2. Inv /\ [Next]_vars => Inv'
  <2> SUFFICES ASSUME Inv, [Next]_vars
               PROVE  Inv'
    OBVIOUS
  <2>1. CASE UNCHANGED vars
    <3>1. users' = users /\ UNCHANGED <<replica, sessions, work, jobs, index>>
      BY <2>1 DEF vars
    <3>2. \A d \in Clients : Sound(work[d])'
      BY <3>1, SameUsersKeep, StaySound
    <3>3. work' \in [Clients -> Works] /\ HandlersAreSound'
      BY <3>1, <3>2 DEF HandlersAreSound, Inv, TypeOK
    <3> QED  BY <3>1, <3>3, SameUsersKeep, RestStays, Parts
  <2>2. ASSUME NEW r \in Requests, Handle(r)
        PROVE  Inv'
    BY <2>2, RegisterStep, UpdateUserStep, VerifyUserStep, SelectGoogleStep DEF Handle
  <2>3. ASSUME NEW c \in Clients, Proceed(c)
        PROVE  Inv'
    BY <2>3, CompareStep, SerializationFailureStep, UpdatePasswordStep, InsertGoogleStep,
       SessionStep DEF Proceed
  <2>4. ASSUME NEW c \in Faulty, DeleteSession(c) \/ HandlerFails(c)
        PROVE  Inv'
    BY <2>4, SessionStep, SerializationFailureStep
  <2>5. ASSUME NEW u \in Users, LockoutEnds(u)
        PROVE  Inv'
    BY <2>5, LockoutEndsStep
  <2> QED  BY <2>1, <2>2, <2>3, <2>4, <2>5, StoresStep DEF Next
<1> QED  BY <1>1, <1>2, PTL DEF Spec

-----------------------------------------------------------------------------
\* Tables, sessions, handlers and jobs always have their types.
THEOREM TypeCorrect == Spec => []TypeOK
<1>1. Inv => TypeOK
  BY DEF Inv
<1> QED  BY <1>1, Invariance, PTL

(***************************************************************************)
(* Whoever logs in with the Google account at whatever time, and whatever  *)
(* the replica knows, there is one account of it (HandleGoogleLogin).      *)
(***************************************************************************)
THEOREM GoogleAccountIsOne == Spec => []OneGoogleAccount
<1>1. Inv => OneGoogleAccount
  <2> SUFFICES ASSUME Inv
               PROVE  OneGoogleAccount
    OBVIOUS
  <2> DEFINE G == {u \in Users : users[u].google}
  <2>1. CASE G = {}
    BY <2>1, FS_EmptySet DEF OneGoogleAccount
  <2>2. CASE G # {}
    <3>1. PICK u : u \in G
      BY <2>2
    <3>2. G = {u}
      BY <3>1 DEF Inv, OneGoogle
    <3>3. Cardinality(G) = 1
      BY <3>2, FS_Singleton
    <3> QED  BY <3>3 DEF OneGoogleAccount
  <2> QED  BY <2>1, <2>2
<1> QED  BY <1>1, Invariance, PTL

-----------------------------------------------------------------------------
(* The refinement.                                                           *)

LEMMA WritesRow ==
    ASSUME Inv, NEW u, NEW row, Writes(u, row)
    PROVE  u \in Users /\ users'[u] = row /\ \A v \in Users \ {u} : users'[v] = users[v]
BY DEF Inv, TypeOK, Writes

\* A row that is as before, for what concerns logins.
LEMMA SameLogins ==
    ASSUME Inv, NEW u, NEW row, Writes(u, row),
           row.password = users[u].password, row.attempts = users[u].attempts,
           row.recent = users[u].recent
    PROVE  UNCHANGED Logins!logins
BY WritesRow DEF Logins!logins

LEMMA SetsPassword ==
    ASSUME Inv, NEW u, NEW row, Writes(u, row),
           row.attempts = users[u].attempts, row.recent = users[u].recent
    PROVE  Logins!SetPassword(u, row.password)
BY WritesRow DEF Logins!SetPassword

LEMMA InsertRefines ==
    ASSUME Inv, NEW n, NEW p \in Passwords \cup {Unusable}, NEW google,
           Inserts(NextId, Row(n, p, google))
    PROVE  [Logins!Next]_(Logins!logins)
<1> DEFINE u == NextId
           row == Row(n, p, google)
<1>1. u \in Users /\ users[u] = NoUser /\ Writes(u, row)
  BY NextIdIsFree DEF Inserts, Writes, Inv
<1>2. /\ row.attempts = users[u].attempts /\ row.recent = users[u].recent
      /\ row.password = p /\ users[u].password = Unusable
  BY <1>1 DEF Row, NoUser
<1>3. CASE p \in Passwords
  BY <1>1, <1>2, <1>3, SetsPassword DEF Logins!Next
<1>4. CASE p = Unusable
  BY <1>1, <1>2, <1>4, SameLogins
<1> QED  BY <1>3, <1>4

LEMMA UpdateUserRefines ==
    ASSUME Inv, NEW u \in Users, NEW n, Updates(u, [users[u] EXCEPT !.name = n])
    PROVE  UNCHANGED Logins!logins
<1>1. users[u] \in Rows
  BY RegisteredRows DEF Updates, Inv
<1> DEFINE row == [users[u] EXCEPT !.name = n]
<1>2. /\ row.password = users[u].password /\ row.attempts = users[u].attempts
      /\ row.recent = users[u].recent
  BY <1>1 DEF Rows
<1> QED  BY <1>2, SameLogins DEF Updates

LEMMA UpdatePasswordRefines ==
    ASSUME Inv, NEW u \in Users, NEW p \in Passwords, Updates(u, [users[u] EXCEPT !.password = p])
    PROVE  Logins!Next
<1>1. users[u] \in Rows
  BY RegisteredRows DEF Updates, Inv
<1> DEFINE row == [users[u] EXCEPT !.password = p]
<1>2. row.password = p /\ row.attempts = users[u].attempts /\ row.recent = users[u].recent
  BY <1>1 DEF Rows
<1>3. users'[u] = row /\ \A v \in Users \ {u} : users'[v] = users[v]
  BY WritesRow DEF Updates
<1>4. Logins!SetPassword(u, p)
  BY <1>2, <1>3 DEF Logins!SetPassword
<1> QED  BY <1>4 DEF Logins!Next

LEMMA LockoutEndsRefines ==
    ASSUME Inv, NEW u \in Users, LockoutEnds(u), Updates(u, [users[u] EXCEPT !.recent = FALSE])
    PROVE  Logins!Next
<1>1. users[u] \in Rows /\ users[u].recent
  BY RegisteredRows DEF Updates, Inv, LockoutEnds
<1> DEFINE row == [users[u] EXCEPT !.recent = FALSE]
<1>2. /\ row.password = users[u].password /\ row.attempts = users[u].attempts
      /\ row.recent = FALSE
  BY <1>1 DEF Rows
<1>3. users'[u] = row /\ \A v \in Users \ {u} : users'[v] = users[v]
  BY WritesRow DEF Updates
<1>4. Logins!LockoutEnds(u)
  BY <1>1, <1>2, <1>3 DEF Logins!LockoutEnds
<1> QED  BY <1>4 DEF Logins!Next

LEMMA CompareRefines ==
    ASSUME Inv, NEW c \in Clients, CompareHashAndPassword(c),
           Updates(work[c].user, Counted(c)), ~Logins!Locked(work[c].user),
           work[c].request \in Requests
    PROVE  Logins!Next
<1>1. PICK u \in Users, p \in Passwords : u = work[c].user /\ p = work[c].request.password
  BY DEF Updates, Writes
<1>2. users[u] \in Rows /\ ~Logins!Locked(u)
  BY <1>1, RegisteredRows DEF Updates, Inv
<1>3. users'[u] = Counted(c) /\ \A v \in Users \ {u} : users'[v] = users[v]
  BY <1>1, WritesRow DEF Updates
<1>4. CASE Right(c)
  <2>1. /\ Counted(c).password = users[u].password /\ Counted(c).attempts = 0
        /\ Counted(c).recent = FALSE
    BY <1>1, <1>2, <1>4 DEF Counted, Rows
  <2>2. Logins!RightAttempt(u)
    BY <1>2, <1>3, <2>1 DEF Logins!RightAttempt
  <2>3. p = [v \in Users |-> users[v].password][u]
    BY <1>1, <1>4 DEF Right
  <2>4. Logins!Attempt(u, p)
    BY <2>2, <2>3 DEF Logins!Attempt
  <2> QED  BY <2>4 DEF Logins!Next
<1>5. CASE ~Right(c)
  <2>1. /\ Counted(c).password = users[u].password /\ Counted(c).recent = TRUE
        /\ Counted(c).attempts = users[u].attempts + 1
    BY <1>1, <1>2, <1>5 DEF Counted, Rows
  <2>2. users[u].attempts < MaxAttempts
    BY <1>1, <1>5 DEF CompareHashAndPassword, Right
  <2>3. Logins!WrongAttempt(u)
    BY <1>2, <1>3, <2>1, <2>2 DEF Logins!WrongAttempt
  <2>4. p # [v \in Users |-> users[v].password][u]
    BY <1>1, <1>5 DEF Right
  <2>5. Logins!Attempt(u, p)
    BY <2>3, <2>4 DEF Logins!Attempt
  <2> QED  BY <2>5 DEF Logins!Next
<1> QED  BY <1>4, <1>5

LEMMA StepRefines ==
    ASSUME Inv, [Next]_vars
    PROVE  [Logins!Next]_(Logins!logins)
<1>1. ASSUME users' = users
      PROVE  UNCHANGED Logins!logins
  BY <1>1 DEF Logins!logins
<1>2. CASE UNCHANGED vars
  BY <1>1, <1>2 DEF vars
<1>3. ASSUME NEW r \in Requests, Handle(r)
      PROVE  [Logins!Next]_(Logins!logins)
  <2>1. CASE HandleRegister(r)
    BY <2>1, RegisterStep, InsertRefines
  <2>2. CASE HandleUpdateUser(r)
    BY <2>2, UpdateUserStep, UpdateUserRefines
  <2>3. CASE VerifyUser(r) \/ SelectGoogleUser(r)
    BY <1>1, <2>3 DEF VerifyUser, SelectGoogleUser
  <2> QED  BY <1>3, <2>1, <2>2, <2>3 DEF Handle
<1>4. ASSUME NEW c \in Clients, Proceed(c)
      PROVE  [Logins!Next]_(Logins!logins)
  <2>1. CASE CompareHashAndPassword(c)
    BY <2>1, CompareStep, CompareRefines
  <2>2. CASE UpdateUserPassword(c)
    BY <2>2, UpdatePasswordStep, UpdatePasswordRefines DEF Updates, Writes
  <2>3. CASE InsertGoogleUser(c)
    BY <1>1, <2>3, InsertGoogleStep, InsertRefines
  <2>4. CASE SerializationFailure(c) \/ SetSessionPlayer(c)
    BY <1>1, <2>4 DEF SerializationFailure, SetSessionPlayer
  <2> QED  BY <1>4, <2>1, <2>2, <2>3, <2>4 DEF Proceed
<1>5. ASSUME NEW c \in Faulty, DeleteSession(c) \/ HandlerFails(c)
      PROVE  [Logins!Next]_(Logins!logins)
  BY <1>1, <1>5 DEF DeleteSession, HandlerFails
<1>6. ASSUME NEW u \in Users, LockoutEnds(u)
      PROVE  [Logins!Next]_(Logins!logins)
  BY <1>6, LockoutEndsStep, LockoutEndsRefines
<1> QED  BY <1>1, <1>2, <1>3, <1>4, <1>5, <1>6, StoresStep DEF Next

(***************************************************************************)
(* Concurrent logins, changes of password and changes of name implement    *)
(* LoginAttempts: every attempt that takes effect does so at one moment,   *)
(* at which the account was not locked (VerifyUser).                       *)
(***************************************************************************)
THEOREM LoginsAreAtomic == Spec => AttemptsAreAtomic
<1>1. Init => Logins!Init
  BY DEF Init, Logins!Init, NoUser
<1>2. Inv /\ [Next]_vars => [Logins!Next]_(Logins!logins)
  BY StepRefines
<1> QED  BY <1>1, <1>2, Invariance, PTL DEF Spec, AttemptsAreAtomic, Logins!Spec
=============================================================================
