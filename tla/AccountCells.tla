---------------------------- MODULE AccountCells ----------------------------
(***************************************************************************)
(* What the account store of src/src/oauth promises of the credential that *)
(* each account of a provider has.                                         *)
(*                                                                         *)
(* An account's cell holds a credential, or nothing.  It is replaced by a  *)
(* login of the same account, or by the credential that an exchange of     *)
(* this very credential brought; it is condemned, which asks the user to   *)
(* log in again, only when its own grant is dead; and it is removed.  That *)
(* is the promise where writes compare generations (checked).  Elsewhere a *)
(* cell may also take a credential of the same account that stems from an  *)
(* older one, and be condemned for what befell that one.                   *)
(***************************************************************************)
EXTENDS Naturals, Sequences

CONSTANTS Accounts, None

VARIABLES
  checked,  \* writes compare generations
  cell,     \* the credential of each account, and whether it is condemned
  issued,   \* the credentials issued so far: their account, and what they stem from
  alive     \* the credentials whose grant can be exchanged

vars == <<checked, cell, issued, alive>>

Init ==
  /\ checked \in BOOLEAN
  /\ cell = [a \in Accounts |-> None]
  /\ issued = <<>>
  /\ alive = {}

holds(c) == [cred |-> c, condemned |-> FALSE]

\* A credential of a that was issued by a login, or by an exchange.
isLogin(c, a)    == c \in DOMAIN issued /\ issued[c] = [owner |-> a, from |-> 0]
isOf(c, a)       == c \in DOMAIN issued /\ issued[c].owner = a

SignIn(a, c) == isLogin(c, a) /\ cell' = [cell EXCEPT ![a] = holds(c)]

Rotate(a, c) ==
  /\ cell[a] # None /\ isOf(c, a)
  /\ checked => issued[c].from = cell[a].cred
  /\ cell' = [cell EXCEPT ![a] = holds(c)]

Condemn(a) ==
  /\ cell[a] # None
  /\ checked => cell[a].cred \notin alive
  /\ cell' = [cell EXCEPT ![a] = [cred |-> cell[a].cred, condemned |-> TRUE]]

Remove(a) == cell[a] # None /\ cell' = [cell EXCEPT ![a] = None]

\* The provider issues credentials, and ends grants, as it likes.
Provider == UNCHANGED cell

Next ==
  /\ UNCHANGED checked
  /\ \/ \E a \in Accounts : \/ \E c \in DOMAIN issued : SignIn(a, c) \/ Rotate(a, c)
                            \/ Condemn(a)
                            \/ Remove(a)
     \/ Provider

Spec == Init /\ [][Next]_vars

=============================================================================
