----------------------------- MODULE MCProfilePics -----------------------------
(***************************************************************************)
(* Users 1, 12 and guest -7: the pictures of 12 are under the prefix of 1, *)
(* and those of the guest come first in the order of keys.                 *)
(***************************************************************************)
EXTENDS ProfilePics

MCAccounts == {1, 12}
MCGuests   == {-7}

Minus == -1     \* a minus sign comes before all digits

MCText == (1 :> <<1>>) @@ (12 :> <<1, 2>>) @@ (-7 :> <<Minus, 7>>)
===============================================================================
