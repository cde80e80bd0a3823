------------------------------- MODULE Accounts -------------------------------
(***************************************************************************)
(* Accounts, and the handlers that register, log in and change them.  A    *)
(* password is verified in a serializable transaction that reads the row,  *)
(* compares for long and writes the row: whoever wrote it in between makes *)
(* the transaction fail, and it is not tried again.  The Google login      *)
(* reads a replica and then inserts.  Registering and renaming queue, in   *)
(* the same transaction, a job that copies the row the replica has to the  *)
(* search index.                                                           *)
(*                                                                         *)
(* The abstract specification is LoginAttempts: PROPERTY Logins!Spec.      *)
(***************************************************************************)
EXTENDS FiniteSets, Integers

CONSTANTS
    MaxUsers,               \* bound on the accounts there are
    Names, NoName,
    Passwords, Unusable,
    LoginAttemptsDivisor,
    Clients,                \* each with one request at a time
    Faulty,                 \* clients whose handlers may fail and sessions end
    Requests,               \* what clients may ask for, again and again
    Jobs,                   \* bound on the jobs there are at a time
    MaxAttempts             \* bound on failed attempts

Operations == {"Register", "Login", "GoogleLogin", "UpdateUser", "UpdatePassword"}

ASSUME AccountsAssumption ==
    /\ MaxUsers \in Nat /\ MaxAttempts \in Nat
    /\ LoginAttemptsDivisor \in Nat \ {0}
    /\ Unusable \notin Passwords
    /\ NoName \notin Names /\ Faulty \subseteq Clients
    /\ Requests \subseteq [client : Clients, op : Operations, name : Names,
                           password : Passwords, newPassword : Passwords]

VARIABLES
    users,      \* the table
    replica,    \* what the read replica knows of it
    sessions,   \* the account each client is logged in to, under which name
    work,       \* the handler of each client
    jobs,       \* the update-user jobs
    index       \* the names in the search index

vars == <<users, replica, sessions, work, jobs, index>>

Users     == 1 .. MaxUsers  \* the ids accounts get
NoUser    == [name |-> NoName, password |-> Unusable, attempts |-> 0,
              recent |-> FALSE, google |-> FALSE]
Unseen    == [name |-> NoName, google |-> FALSE]
NoSession == [id |-> 0, name |-> NoName]
NoJob     == [at |-> "None", user |-> 0, name |-> NoName]
Idle      == [at |-> "Idle"]

Registered == {u \in Users : users[u] # NoUser}
NextId     == Cardinality(Registered) + 1

Logins == INSTANCE LoginAttempts WITH
    Users    <- Users,
    password <- [u \in Users |-> users[u].password],
    attempts <- [u \in Users |-> users[u].attempts],
    recent   <- [u \in Users |-> users[u].recent]

Init ==
    /\ users = [u \in Users |-> NoUser]
    /\ replica = [u \in Users |-> Unseen]
    /\ sessions = [c \in Clients |-> NoSession]
    /\ work = [c \in Clients |-> Idle]
    /\ jobs = [j \in Jobs |-> NoJob]
    /\ index = [u \in Users |-> NoName]

-----------------------------------------------------------------------------
(* Helpers.                                                                  *)

\* The unique index on the upper case of the names.
NameFreeFor(u, n) == \A v \in Users \ {u} : users[v].name # n

Verifying(c, u) == work[c].at = "Comparing" /\ work[c].user = u

\* Mutant: the isolation level is read committed.
MutConflicting(c, u) == FALSE

\* Is the transaction of c one that a write of the row of u makes fail?
Conflicting(c, u) == Verifying(c, u)

\* c goes on to its next step, and transactions that read the row of u fail.
Wrote(u, c, next) ==
    work' = [d \in Clients |->
        IF d = c THEN next
        ELSE IF Conflicting(d, u) THEN [work[d] EXCEPT !.stale = TRUE] ELSE work[d]]

ProduceUpdateUser(u) ==
    \E j \in Jobs :
        /\ jobs[j] = NoJob
        /\ jobs' = [jobs EXCEPT ![j] = [at |-> "Available", user |-> u, name |-> NoName]]

\* Mutant: the session is made of the row as it was before.
MutLogsIn(u) == [at |-> "LogsIn", id |-> u, name |-> users[u].name]

LogsIn(u) == [at |-> "LogsIn", id |-> u, name |-> users'[u].name]

\* Is r asked for by a client that is free to?
Asked(r, op) == r.op = op /\ work[r.client] = Idle

-----------------------------------------------------------------------------
(* Registration and changes of an account.                                   *)

Row(n, p, google) ==
    [name |-> n, password |-> p, attempts |-> 0, recent |-> FALSE, google |-> google]

\* A name that is taken leaves all as it is; row and job are one transaction.
InsertUser(u, r) ==
    /\ NameFreeFor(u, r.name)
    /\ users' = [users EXCEPT ![u] = Row(r.name, r.password, FALSE)]
    /\ ProduceUpdateUser(u)

UpdateUser(u, n) ==
    /\ NameFreeFor(u, n)
    /\ users' = [users EXCEPT ![u].name = n]
    /\ ProduceUpdateUser(u)

HandleRegister(r) ==
    /\ Asked(r, "Register")
    /\ NextId \in Users
    /\ InsertUser(NextId, r)
    /\ work' = [work EXCEPT ![r.client] = LogsIn(NextId)]
    /\ UNCHANGED <<replica, sessions, index>>

\* The session keeps the name it was opened under.
HandleUpdateUser(r) ==
    /\ Asked(r, "UpdateUser")
    /\ sessions[r.client] # NoSession
    /\ LET u == sessions[r.client].id IN UpdateUser(u, r.name) /\ Wrote(u, r.client, Idle)
    /\ UNCHANGED <<replica, sessions, index>>

-----------------------------------------------------------------------------
(* Verifying a password.                                                     *)

\* A password is changed under the name of the session.
LoginName(r) == IF r.op = "Login" THEN r.name ELSE sessions[r.client].name

\* The row is read; an account that is not found or locked is refused.
VerifyUser(r) ==
    /\ \/ Asked(r, "Login")
       \/ Asked(r, "UpdatePassword") /\ sessions[r.client] # NoSession
    /\ \E u \in Registered :
          /\ users[u].name = LoginName(r)
          /\ ~Logins!Locked(u)
          /\ work' = [work EXCEPT ![r.client] =
                [at |-> "Comparing", user |-> u, request |-> r, stale |-> FALSE]]
    /\ UNCHANGED <<users, replica, sessions, jobs, index>>

Verified(c) ==
    IF work[c].request.op = "Login" THEN LogsIn(work[c].user)
    ELSE [at |-> "ChangesPassword", user |-> work[c].user, request |-> work[c].request]

IncrLoginAttempts(u) ==
    users' = [users EXCEPT ![u].attempts = @ + 1, ![u].recent = TRUE]

ResetLoginAttempts(u) ==
    users' = [users EXCEPT ![u].attempts = 0, ![u].recent = FALSE]

\* Nothing else has written the row: the outcome is counted and committed.
CompareHashAndPassword(c) ==
    /\ work[c].at = "Comparing" /\ ~work[c].stale
    /\ LET u == work[c].user IN
       IF work[c].request.password = users[u].password
       THEN ResetLoginAttempts(u) /\ Wrote(u, c, Verified(c))
       ELSE /\ users[u].attempts < MaxAttempts
            /\ IncrLoginAttempts(u)
            /\ Wrote(u, c, Idle)
    /\ UNCHANGED <<replica, sessions, jobs, index>>

\* The transaction is not tried again, and the client is told that there is
\* no such user.
SerializationFailure(c) ==
    /\ work[c].at = "Comparing" /\ work[c].stale
    /\ work' = [work EXCEPT ![c] = Idle]
    /\ UNCHANGED <<users, replica, sessions, jobs, index>>

UpdateUserPassword(c) ==
    /\ work[c].at = "ChangesPassword"
    /\ LET u == work[c].user IN
       /\ users' = [users EXCEPT ![u].password = work[c].request.newPassword]
       /\ Wrote(u, c, Idle)
    /\ UNCHANGED <<replica, sessions, jobs, index>>

-----------------------------------------------------------------------------
(* The Google login, for the one Google account there is.                    *)

SelectGoogleUser(r) ==
    /\ Asked(r, "GoogleLogin")
    /\ \/ \E u \in Users :
            /\ replica[u].google
            /\ work' = [work EXCEPT ![r.client] =
                  [at |-> "LogsIn", id |-> u, name |-> replica[u].name]]
       \/ /\ \A u \in Users : ~replica[u].google
          /\ work' = [work EXCEPT ![r.client] = [at |-> "Inserting", request |-> r]]
    /\ UNCHANGED <<users, replica, sessions, jobs, index>>

\* Mutant: the table has no unique index on the Google account.
MutGoogleFree == TRUE

GoogleFree == \A u \in Users : ~users[u].google

\* No job is queued.  An account or a name that exists makes the login fail.
InsertGoogleUser(c) ==
    /\ work[c].at = "Inserting"
    /\ LET n == work[c].request.name IN
       IF GoogleFree /\ NameFreeFor(NextId, n) /\ NextId \in Users
       THEN /\ users' = [users EXCEPT ![NextId] = Row(n, Unusable, TRUE)]
            /\ work' = [work EXCEPT ![c] = LogsIn(NextId)]
       ELSE work' = [work EXCEPT ![c] = Idle] /\ UNCHANGED users
    /\ UNCHANGED <<replica, sessions, jobs, index>>

-----------------------------------------------------------------------------
(* Sessions, failures and time.                                              *)

SetSessionPlayer(c) ==
    /\ work[c].at = "LogsIn"
    /\ sessions' = [sessions EXCEPT ![c] = [id |-> work[c].id, name |-> work[c].name]]
    /\ work' = [work EXCEPT ![c] = Idle]
    /\ UNCHANGED <<users, replica, jobs, index>>

\* Logged out, or the session has expired.
DeleteSession(c) ==
    /\ sessions[c] # NoSession
    /\ sessions' = [sessions EXCEPT ![c] = NoSession]
    /\ UNCHANGED <<users, replica, work, jobs, index>>

\* A server dies or cannot reach its stores: what is open is rolled back.
HandlerFails(c) ==
    /\ work[c] # Idle
    /\ work' = [work EXCEPT ![c] = Idle]
    /\ UNCHANGED <<users, replica, sessions, jobs, index>>

\* LockoutDuration has passed since the last attempt, which was wrong.
LockoutEnds(u) ==
    /\ users[u].recent
    /\ users' = [users EXCEPT ![u].recent = FALSE]
    /\ UNCHANGED <<replica, sessions, work, jobs, index>>

Replicate ==
    /\ replica' = [u \in Users |-> [name |-> users[u].name, google |-> users[u].google]]
    /\ UNCHANGED <<users, sessions, work, jobs, index>>

-----------------------------------------------------------------------------
(* The update-user jobs, any number at a time.                               *)

\* Mutant: a job whose user the replica does not have yet is done.
MutSelectUserByID(j) ==
    /\ jobs[j].at = "Available"
    /\ jobs' = [jobs EXCEPT ![j] =
          IF replica[jobs[j].user] = Unseen THEN NoJob
          ELSE [at |-> "Read", user |-> jobs[j].user, name |-> replica[jobs[j].user].name]]
    /\ UNCHANGED <<users, replica, sessions, work, index>>

\* A user the replica does not have yet is an error: the job waits and is
\* tried again.
SelectUserByID(j) ==
    /\ jobs[j].at = "Available"
    /\ replica[jobs[j].user] # Unseen
    /\ jobs' = [jobs EXCEPT ![j].at = "Read", ![j].name = replica[jobs[j].user].name]
    /\ UNCHANGED <<users, replica, sessions, work, index>>

InsertSearchableUser(j) ==
    /\ jobs[j].at = "Read"
    /\ index' = [index EXCEPT ![jobs[j].user] = jobs[j].name]
    /\ jobs' = [jobs EXCEPT ![j] = NoJob]
    /\ UNCHANGED <<users, replica, sessions, work>>

\* The index cannot be reached: the job is tried again from its start.
JobFails(j) ==
    /\ jobs[j].at = "Read"
    /\ jobs' = [jobs EXCEPT ![j].at = "Available", ![j].name = NoName]
    /\ UNCHANGED <<users, replica, sessions, work, index>>

-----------------------------------------------------------------------------
Handle(r) ==
    HandleRegister(r) \/ HandleUpdateUser(r) \/ VerifyUser(r) \/ SelectGoogleUser(r)

Proceed(c) ==
    \/ CompareHashAndPassword(c) \/ SerializationFailure(c) \/ UpdateUserPassword(c)
    \/ InsertGoogleUser(c) \/ SetSessionPlayer(c)

Next ==
    \/ \E r \in Requests : Handle(r)
    \/ \E c \in Clients : Proceed(c)
    \/ \E c \in Faulty : DeleteSession(c) \/ HandlerFails(c)
    \/ \E u \in Users : LockoutEnds(u)
    \/ Replicate
    \/ \E j \in Jobs : SelectUserByID(j) \/ InsertSearchableUser(j) \/ JobFails(j)

Spec == Init /\ [][Next]_vars

\* The replica keeps up and River works its jobs; the index is not always
\* out of reach.
FairSpec ==
    /\ Spec
    /\ WF_vars(Replicate)
    /\ \A j \in Jobs : WF_vars(SelectUserByID(j)) /\ SF_vars(InsertSearchableUser(j))

-----------------------------------------------------------------------------
Rows == [name : Names, password : Passwords \cup {Unusable}, attempts : 0 .. MaxAttempts,
         recent : BOOLEAN, google : BOOLEAN]

Works ==
    {Idle} \cup [at : {"LogsIn"}, id : Users, name : Names]
    \cup [at : {"Comparing"}, user : Users, request : Requests, stale : BOOLEAN]
    \cup [at : {"ChangesPassword"}, user : Users, request : Requests]
    \cup [at : {"Inserting"}, request : Requests]

\* Type invariant of the table, its replica, sessions, handlers, jobs and index.
TypeOK ==
    /\ users \in [Users -> Rows \cup {NoUser}]
    /\ replica \in [Users -> [name : Names \cup {NoName}, google : BOOLEAN]]
    /\ sessions \in [Clients -> [id : Users, name : Names] \cup {NoSession}]
    /\ work \in [Clients -> Works]
    /\ jobs \in [Jobs -> [at : {"None", "Available", "Read"},
                          user : Users \cup {0}, name : Names \cup {NoName}]]
    /\ index \in [Users -> Names \cup {NoName}]

(***************************************************************************)
(* However logins race with each other, with a change of the password and  *)
(* with a change of the name: attempts take effect one by one, each counts *)
(* and none takes effect on a locked account (VerifyUser, cases 1 and 2).  *)
(***************************************************************************)
AttemptsAreAtomic == Logins!Spec

(***************************************************************************)
(* Two first Google logins at the same time, or one before the replica has *)
(* caught up, make one account.                                            *)
(***************************************************************************)
OneGoogleAccount == Cardinality({u \in Users : users[u].google}) <= 1

(***************************************************************************)
(* Whoever registers is found by the search in the end, although the job   *)
(* may run before the replica has the account and fail at any step.        *)
(***************************************************************************)
RegisteredIsFound ==
    \A u \in Users : users[u].password # Unusable ~> index[u] # NoName
=============================================================================
