----------------------------- MODULE LoginAttempts ----------------------------
(***************************************************************************)
(* What logging in promises: the attempts at an account take effect one    *)
(* after the other.  A wrong one is counted, a right one starts the count  *)
(* again, and while an account is locked none takes effect.                *)
(* Accounts implements this with concurrent transactions.                  *)
(***************************************************************************)
EXTENDS Integers

CONSTANTS
    Users,                  \* account ids
    Passwords,
    Unusable,               \* the password of an account without one
    LoginAttemptsDivisor,
    MaxAttempts             \* bound on failed attempts

VARIABLES
    password,
    attempts,   \* failed ones since the last that was right
    recent      \* was the last one wrong, less than LockoutDuration ago

logins == <<password, attempts, recent>>

Locked(u) ==
    attempts[u] > 0 /\ attempts[u] % LoginAttemptsDivisor = 0 /\ recent[u]

Init ==
    /\ password = [u \in Users |-> Unusable]
    /\ attempts = [u \in Users |-> 0]
    /\ recent = [u \in Users |-> FALSE]

\* The account is registered, or its password is changed.
SetPassword(u, p) ==
    /\ password' = [password EXCEPT ![u] = p]
    /\ UNCHANGED <<attempts, recent>>

RightAttempt(u) ==
    /\ ~Locked(u)
    /\ attempts' = [attempts EXCEPT ![u] = 0]
    /\ recent' = [recent EXCEPT ![u] = FALSE]
    /\ UNCHANGED password

WrongAttempt(u) ==
    /\ ~Locked(u)
    /\ attempts[u] < MaxAttempts
    /\ attempts' = [attempts EXCEPT ![u] = @ + 1]
    /\ recent' = [recent EXCEPT ![u] = TRUE]
    /\ UNCHANGED password

Attempt(u, p) == IF p = password[u] THEN RightAttempt(u) ELSE WrongAttempt(u)

LockoutEnds(u) ==
    /\ recent[u]
    /\ recent' = [recent EXCEPT ![u] = FALSE]
    /\ UNCHANGED <<password, attempts>>

Next == \E u \in Users :
    \/ \E p \in Passwords : SetPassword(u, p) \/ Attempt(u, p)
    \/ LockoutEnds(u)

Spec == Init /\ [][Next]_logins
=============================================================================
