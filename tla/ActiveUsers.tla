----------------------------- MODULE ActiveUsers -----------------------------
(***************************************************************************)
(* Who is active: a sorted set of user ids in Redis, each with the time    *)
(* its member was made.  A page opens two connections.  The handler of the *)
(* one adds its user to the set, the handler of the other removes it when  *)
(* that connection closes.  Adding, removing and opening the stream of     *)
(* counts all go on to count the members, after a purge of those that are  *)
(* older than ActiveUserMaxAge: three commands, with those of other        *)
(* handlers in between.                                                    *)
(*                                                                         *)
(* HandleActiveConn also hands RetainActiveUser to timeutil.Schedule, whose *)
(* deferred Stop stops the ticker as Schedule returns: it is never called, *)
(* and no step of this module stands for it.                               *)
(*                                                                         *)
(* The names of the specification are such that a module can extend this   *)
(* one and GameSocket, which has the other connections of a page.          *)
(***************************************************************************)
EXTENDS Integers

CONSTANTS
    Users,              \* ids of accounts
    Pages,              \* pages that are loaded in browsers
    UserOf,             \* whose page it is
    Viewers,            \* clients that open the stream of counts
    ActiveUserMaxAge,   \* in ticks of the clock
    CallTime,           \* time in which a command is sent, or fails
    MaxTime             \* bound on the clock

ASSUME ActiveUsersAssumption ==
    /\ UserOf \in [Pages -> Users]
    /\ ActiveUserMaxAge \in Nat \ {0}
    /\ CallTime \in Nat
    /\ MaxTime \in Nat

\* The handlers: two of each page, and that of a viewer.
ActiveConn(p) == <<"active", p>>
UserEvents(p) == <<"events", p>>
CountEvents(v) == <<"counts", v>>

ActiveConns == {ActiveConn(p) : p \in Pages}
EventConns  == {UserEvents(p) : p \in Pages}
Handlers    == ActiveConns \cup EventConns \cup {CountEvents(v) : v \in Viewers}

Absent == -1

VARIABLES
    clock,
    activeUsers,    \* the sorted set: the score of a member, or Absent
    stage,          \* of each handler: Idle, Open, Done or its next command
    since,          \* when it came to its stage, while a command is under way
    seen,           \* history: when a page of the user was last connected, or connecting
    arrived         \* history: when a page of the user first connected

activeVars == <<clock, activeUsers, stage, since, seen, arrived>>

ActiveInit ==
    /\ clock = 0
    /\ activeUsers = [u \in Users |-> Absent]
    /\ stage = [h \in Handlers |-> "Idle"]
    /\ since = [h \in Handlers |-> 0]
    /\ seen = [u \in Users |-> Absent]
    /\ arrived = [u \in Users |-> Absent]

-----------------------------------------------------------------------------
Members == {u \in Users : activeUsers[u] # Absent}

Commands == {"ZAddNX", "ZRem", "Purge", "ZCard"}

GoTo(h, s) ==
    /\ stage' = [stage EXCEPT ![h] = s]
    /\ since' = [since EXCEPT ![h] = IF s \in Commands THEN clock ELSE 0]

\* A handler reads the clock after it came to its stage, before its command.
TimesRead(h) == since[h] .. clock

HandleActiveConn(p) ==
    /\ stage[ActiveConn(p)] = "Idle"
    /\ GoTo(ActiveConn(p), "ZAddNX")
    /\ seen' = [seen EXCEPT ![UserOf[p]] = clock]
    /\ arrived' = [arrived EXCEPT ![UserOf[p]] = IF @ = Absent THEN clock ELSE @]
    /\ UNCHANGED <<clock, activeUsers>>

\* A member that is there keeps its score.
AddActiveUser(p) ==
    /\ stage[ActiveConn(p)] = "ZAddNX"
    /\ \E now \in TimesRead(ActiveConn(p)) :
          activeUsers' = [activeUsers EXCEPT ![UserOf[p]] = IF @ = Absent THEN now ELSE @]
    /\ GoTo(ActiveConn(p), "Purge")
    /\ UNCHANGED <<clock, seen, arrived>>

CloseActiveConn(p) ==
    /\ stage[ActiveConn(p)] = "Open"
    /\ GoTo(ActiveConn(p), "Done")
    /\ UNCHANGED <<clock, activeUsers, seen, arrived>>

HandleUserEvents(p) ==
    /\ stage[UserEvents(p)] = "Idle"
    /\ GoTo(UserEvents(p), "Open")
    /\ UNCHANGED <<clock, activeUsers, seen, arrived>>

\* The goroutine that waits for the end of the request.
CloseUserEvents(p) ==
    /\ stage[UserEvents(p)] = "Open"
    /\ GoTo(UserEvents(p), "ZRem")
    /\ UNCHANGED <<clock, activeUsers, seen, arrived>>

RemoveActiveUser(p) ==
    /\ stage[UserEvents(p)] = "ZRem"
    /\ activeUsers' = [activeUsers EXCEPT ![UserOf[p]] = Absent]
    /\ GoTo(UserEvents(p), "Purge")
    /\ UNCHANGED <<clock, seen, arrived>>

HandleCountEvents(v) ==
    /\ stage[CountEvents(v)] = "Idle"
    /\ GoTo(CountEvents(v), "Purge")
    /\ UNCHANGED <<clock, activeUsers, seen, arrived>>

\* Mutants: the cut-off is off by one, or members are never old enough.
MutExpired(now) == {u \in Members : activeUsers[u] <= now - ActiveUserMaxAge + 1}
MutNotExpired(now) == {}

Expired(now) == {u \in Members : activeUsers[u] <= now - ActiveUserMaxAge}

PurgeExpired(h) ==
    /\ stage[h] = "Purge"
    /\ \E now \in TimesRead(h) :
          activeUsers' = [u \in Users |-> IF u \in Expired(now) THEN Absent ELSE activeUsers[u]]
    /\ GoTo(h, "ZCard")
    /\ UNCHANGED <<clock, seen, arrived>>

AfterCount(h) == IF h \in ActiveConns THEN "Open" ELSE IF h \in EventConns THEN "Done" ELSE "Idle"

GetActiveCount(h) ==
    /\ stage[h] = "ZCard"
    /\ GoTo(h, AfterCount(h))
    /\ UNCHANGED <<clock, activeUsers, seen, arrived>>

\* A command fails, the client goes while it is under way, or the server stops.
HandlerFails(h) ==
    /\ stage[h] \notin {"Idle", "Done"}
    /\ GoTo(h, "Done")
    /\ UNCHANGED <<clock, activeUsers, seen, arrived>>

Connected(u) ==
    \E p \in Pages : UserOf[p] = u /\ stage[ActiveConn(p)] \notin {"Idle", "Done"}

Tick ==
    /\ clock < MaxTime
    /\ \A h \in Handlers : stage[h] \in Commands => clock - since[h] < CallTime
    /\ clock' = clock + 1
    /\ seen' = [u \in Users |-> IF Connected(u) THEN clock + 1 ELSE seen[u]]
    /\ UNCHANGED <<activeUsers, stage, since, arrived>>

ActiveNext ==
    \/ \E p \in Pages :
          \/ HandleActiveConn(p) \/ AddActiveUser(p) \/ CloseActiveConn(p)
          \/ HandleUserEvents(p) \/ CloseUserEvents(p) \/ RemoveActiveUser(p)
    \/ \E v \in Viewers : HandleCountEvents(v)
    \/ \E h \in Handlers : PurgeExpired(h) \/ GetActiveCount(h) \/ HandlerFails(h)
    \/ Tick

ActiveSpec == ActiveInit /\ [][ActiveNext]_activeVars

-----------------------------------------------------------------------------
(***************************************************************************)
(* A count, which every visitor is shown, is of users who had a page       *)
(* open within ActiveUserMaxAge and the time the two commands take: the    *)
(* age makes up for servers that stop before they remove their users, and  *)
(* for a removal that comes before the member it should remove.            *)
(***************************************************************************)
CountsAreRecent ==
    \A h \in Handlers, u \in Members :
        stage[h] = "ZCard" =>
            seen[u] # Absent /\ clock - seen[u] < ActiveUserMaxAge + 2 * CallTime

NoPageClosed(u) ==
    \A q \in Pages : UserOf[q] = u => stage[UserEvents(q)] \in {"Idle", "Open"}

Maintains(p) == stage[ActiveConn(p)] = "Open" /\ NoPageClosed(UserOf[p])

(***************************************************************************)
(* While the connection that maintains it is open, and none of the user's  *)
(* pages has closed, a user is active.                                     *)
(***************************************************************************)
MaintainedWhileConnected == \A p \in Pages : Maintains(p) => UserOf[p] \in Members

(***************************************************************************)
(* What is left of that: until ActiveUserMaxAge after a page of theirs     *)
(* first connected, whatever purges there are, with times read before or   *)
(* after the member was made, and whichever connections and servers fail.  *)
(***************************************************************************)
ActiveUntilAge ==
    \A p \in Pages :
        Maintains(p) /\ clock - arrived[UserOf[p]] < ActiveUserMaxAge => UserOf[p] \in Members
=============================================================================
