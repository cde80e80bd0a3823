------------------------------ MODULE MCAccounts ------------------------------
(***************************************************************************)
(* One client registers, guesses, renames and changes the password, the    *)
(* other guesses too and logs in with Google.                              *)
(***************************************************************************)
EXTENDS Accounts

CONSTANTS c1, c2, n1, n2, p1, p2

Ask(c, op, n, p, q) == [client |-> c, op |-> op, name |-> n, password |-> p, newPassword |-> q]

MCRequests ==
    {Ask(c1, "Register", n1, p1, p1), Ask(c1, "UpdateUser", n2, p1, p1),
     Ask(c1, "UpdatePassword", n1, p1, p2), Ask(c1, "GoogleLogin", n1, p1, p1),
     Ask(c2, "Login", n1, p2, p1), Ask(c2, "GoogleLogin", n2, p1, p1)}
===============================================================================
