------------------------------ MODULE ProfilePics ------------------------------
(***************************************************************************)
(* Profile pictures in the bucket.  An upload puts a new object and leaves *)
(* the removal of older ones to a goroutine: it lists what is stored under *)
(* the prefix of the user, at most a page, and deletes all but the newest. *)
(* The clear-s3-orphans job goes through the bucket page by page and       *)
(* deletes what belongs to no account.  Uploads, goroutines, registrations *)
(* and the job interleave, and the last two may stop at any step.          *)
(*                                                                         *)
(* The prefix of a user has no slash at its end: the pictures of user 12   *)
(* are also under that of user 1.                                          *)
(***************************************************************************)
EXTENDS FiniteSets, Integers, SequencesExt

CONSTANTS
    Accounts,       \* ids that are or become accounts
    Guests,         \* ids of sessions without an account
    Text,           \* the characters of each id, as it stands in a key
    ListLength,     \* keys that a listing returns at most
    PageLength,     \* keys of a page of the job
    UUIDs,          \* numbers, in the order of keys
    MaxUploads,     \* bound on uploads
    MaxClock        \* bound on the seconds the bucket tells apart

Owners == Accounts \cup Guests

ASSUME PicsAssumption ==
    /\ Accounts \cap Guests = {}
    /\ Text \in [Owners -> Seq(Int)]
    /\ \A u, v \in Owners : Text[u] = Text[v] => u = v
    /\ ListLength \in Nat \ {0} /\ PageLength \in Nat \ {0}
    /\ UUIDs \subseteq Nat /\ MaxUploads \in Nat /\ MaxClock \in Nat

VARIABLES
    accounts,   \* who is registered
    clock,      \* of the bucket
    pics,       \* the objects in the bucket
    uploaded,   \* all that were ever put there
    cleanups,   \* goroutines that remove expired pictures
    failed,     \* has one of them failed or died
    job         \* the run of clear-s3-orphans

vars == <<accounts, clock, pics, uploaded, cleanups, failed, job>>

Pics == [owner : Owners, uuid : UUIDs, at : 0 .. MaxClock]

NoJob == [at |-> "Idle", token |-> {}, page |-> {}, more |-> FALSE, valid |-> {},
          before |-> {}]

Init ==
    /\ accounts = {}
    /\ clock = 0
    /\ pics = {}
    /\ uploaded = {}
    /\ cleanups = {}
    /\ failed = FALSE
    /\ job = NoJob

-----------------------------------------------------------------------------
(* Keys and listings.                                                        *)

TextBefore(s, t) ==
    \/ IsStrictPrefix(s, t)
    \/ \E i \in 1 .. Len(s) :
          /\ i <= Len(t)
          /\ s[i] < t[i]
          /\ SubSeq(s, 1, i - 1) = SubSeq(t, 1, i - 1)

\* The order of keys: a slash comes before the digits.
Before(p, q) ==
    IF p.owner = q.owner THEN p.uuid < q.uuid ELSE TextBefore(Text[p.owner], Text[q.owner])

\* The first n of objs.
FirstKeys(n, objs) == {p \in objs : Cardinality({q \in objs : Before(q, p)}) < n}

\* What of objs is under the prefix of u.
Under(objs, u) == {p \in objs : IsPrefix(Text[u], Text[p.owner])}

ListObjects(u) == FirstKeys(ListLength, Under(pics, u))

Newer(p, q) == p.at > q.at \/ (p.at = q.at /\ Before(p, q))

\* findMostRecentKey goes on to a later object only.
IsMostRecent(p, objs) == p \in objs /\ \A q \in objs \ {p} : Newer(p, q)

-----------------------------------------------------------------------------
(* Uploads and the removal of expired pictures.                              *)

\* Mutant: a goroutine of the user that is under way is left to do it.
MutCleanup(p) ==
    IF \E c \in cleanups : c.user = p.owner THEN {}
    ELSE {[id |-> p.uuid, user |-> p.owner, at |-> "List", listed |-> {}]}

Cleanup(p) == {[id |-> p.uuid, user |-> p.owner, at |-> "List", listed |-> {}]}

LastModified == clock

\* A UUID is anywhere in the order of the user's keys, and never used twice.
UploadProfilePic(u, id) ==
    /\ u \in accounts \cup Guests
    /\ Cardinality(uploaded) < MaxUploads
    /\ \A p \in uploaded : p.owner = u => p.uuid # id
    /\ LET p == [owner |-> u, uuid |-> id, at |-> LastModified] IN
       /\ pics' = pics \cup {p}
       /\ uploaded' = uploaded \cup {p}
       /\ cleanups' = cleanups \cup Cleanup(p)
    /\ UNCHANGED <<accounts, clock, failed, job>>

ListProfilePics(c) ==
    /\ c.at = "List"
    /\ cleanups' = (cleanups \ {c})
                       \cup {[c EXCEPT !.at = "Delete", !.listed = ListObjects(c.user)]}
    /\ UNCHANGED <<accounts, clock, pics, uploaded, failed, job>>

\* Mutant: the bucket is listed again, after the most recent was chosen.
MutLeastRecentKeys(c) == {p \in ListObjects(c.user) : ~IsMostRecent(p, c.listed)}

LeastRecentKeys(c) == {p \in c.listed : ~IsMostRecent(p, c.listed)}

DeleteExpiredPics(c) ==
    /\ c.at = "Delete"
    /\ pics' = pics \ LeastRecentKeys(c)
    /\ cleanups' = cleanups \ {c}
    /\ UNCHANGED <<accounts, clock, uploaded, failed, job>>

\* The bucket cannot be reached, or the server dies: it is not tried again.
CleanupFails(c) ==
    /\ cleanups' = cleanups \ {c}
    /\ failed' = TRUE
    /\ UNCHANGED <<accounts, clock, pics, uploaded, job>>

Register(u) ==
    /\ u \notin accounts
    /\ accounts' = accounts \cup {u}
    /\ UNCHANGED <<clock, pics, uploaded, cleanups, failed, job>>

Tick ==
    /\ clock < MaxClock
    /\ clock' = clock + 1
    /\ UNCHANGED <<accounts, pics, uploaded, cleanups, failed, job>>

-----------------------------------------------------------------------------
(* The job that removes orphans.                                             *)

IsOrphan(p) == p.owner \notin accounts

BeginJob ==
    /\ job.at = "Idle"
    /\ job' = [NoJob EXCEPT !.at = "List", !.before = {p \in pics : IsOrphan(p)}]
    /\ UNCHANGED <<accounts, clock, pics, uploaded, cleanups, failed>>

\* Mutant: the token is the first key of the next page, which is left out.
MutAfterPage ==
    {p \in pics : \A q \in job.token : \E r \in pics : Before(q, r) /\ Before(r, p)}

\* The keys behind the continuation token, the last of the page before.
AfterPage == {p \in pics : \A q \in job.token : Before(q, p)}

LastKey(page) == {p \in page : \A q \in page \ {p} : Before(q, p)}

NextPage ==
    /\ job.at = "List"
    /\ LET page == FirstKeys(PageLength, AfterPage) IN
       job' = [job EXCEPT !.at = "Select", !.page = page, !.token = LastKey(page),
                          !.more = page # AfterPage]
    /\ UNCHANGED <<accounts, clock, pics, uploaded, cleanups, failed>>

SelectExistsUsersByIDs ==
    /\ job.at = "Select"
    /\ job' = [job EXCEPT !.at = "Delete", !.valid = {p.owner : p \in job.page} \cap accounts]
    /\ UNCHANGED <<accounts, clock, pics, uploaded, cleanups, failed>>

OrphanedKeys == {p \in job.page : p.owner \notin job.valid}

\* HasMorePages says what the last listing said.
AfterDelete == IF job.more THEN "List" ELSE "Done"

DeleteOrphanedKeys ==
    /\ job.at = "Delete"
    /\ pics' = pics \ OrphanedKeys
    /\ job' = [job EXCEPT !.at = AfterDelete, !.page = {}, !.valid = {}]
    /\ UNCHANGED <<accounts, clock, uploaded, cleanups, failed>>

\* The error is logged and the job goes on to the next page: it owes nothing
\* any more.
DeleteFails ==
    /\ job.at = "Delete"
    /\ job' = [job EXCEPT !.at = AfterDelete, !.page = {}, !.valid = {}, !.before = {}]
    /\ UNCHANGED <<accounts, clock, pics, uploaded, cleanups, failed>>

\* It ends, runs out of its minute, or stops at an error.
EndJob ==
    /\ job.at # "Idle"
    /\ job' = NoJob
    /\ UNCHANGED <<accounts, clock, pics, uploaded, cleanups, failed>>

-----------------------------------------------------------------------------
Next ==
    \/ \E u \in Owners, id \in UUIDs : UploadProfilePic(u, id)
    \/ \E c \in cleanups : ListProfilePics(c) \/ DeleteExpiredPics(c) \/ CleanupFails(c)
    \/ \E u \in Accounts : Register(u)
    \/ Tick
    \/ BeginJob \/ NextPage \/ SelectExistsUsersByIDs
    \/ DeleteOrphanedKeys \/ DeleteFails \/ EndJob

Spec == Init /\ [][Next]_vars

-----------------------------------------------------------------------------
Runs == [at : {"Idle", "List", "Select", "Delete", "Done"}, token : SUBSET Pics,
         page : SUBSET Pics, more : BOOLEAN, valid : SUBSET Owners, before : SUBSET Pics]

Cleanups == [id : UUIDs, user : Owners, at : {"List", "Delete"}, listed : SUBSET Pics]

\* Type invariant of the bucket, the goroutines and the job.
TypeOK ==
    /\ accounts \subseteq Accounts
    /\ clock \in 0 .. MaxClock
    /\ pics \subseteq Pics
    /\ uploaded \subseteq Pics
    /\ cleanups \subseteq Cleanups
    /\ failed \in BOOLEAN
    /\ job \in Runs

\* Nobody's prefix is a prefix of that of u.
IsRoot(u) == \A v \in Owners : IsPrefix(Text[v], Text[u]) => v = u

(***************************************************************************)
(* However goroutines overlap with each other and with uploads, within the *)
(* same second and beyond a page, none deletes the newest of the pictures  *)
(* that were ever put under a prefix no other user's cuts into: this is    *)
(* what deleteExpiredProfilePics says of itself.                           *)
(***************************************************************************)
NewestKept ==
    \A u \in Accounts : IsRoot(u) =>
        \A p \in Under(uploaded, u) :
            IsMostRecent(p, Under(uploaded, u)) /\ p.owner \in Accounts => p \in pics

(***************************************************************************)
(* The last goroutine to list a user's pictures removes what the others    *)
(* could not see: when all have ended and none has failed, a user who has  *)
(* not filled a page has one picture.                                      *)
(***************************************************************************)
OneIsLeft ==
    cleanups = {} /\ ~failed =>
        \A u \in Owners :
            Cardinality(Under(uploaded, u)) <= ListLength =>
                Cardinality({p \in pics : p.owner = u}) <= 1

(***************************************************************************)
(* The job never deletes a picture of an account, also of one that is      *)
(* registered and used between its listing and its deletion.               *)
(***************************************************************************)
JobSparesAccounts ==
    [][DeleteOrphanedKeys => \A p \in pics \ pics' : IsOrphan(p)]_vars

(***************************************************************************)
(* A job that ends without an error has removed every orphan that was      *)
(* there when it began, although it deletes pages while it lists them.     *)
(***************************************************************************)
RunIsComplete ==
    job.at = "Done" => job.before \cap pics = {}
=============================================================================
