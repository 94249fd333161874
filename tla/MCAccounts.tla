------------------------------ MODULE MCAccounts -------------------------------
(***************************************************************************)
(* TLC instance of the account service, its sessions and its accounts.     *)
(*                                                                         *)
(* Sessions: two threads, one account, four sessions: a session, both that *)
(* a double rotation of it can yield, and one to spare.  Accounts: the     *)
(* bootstrap administrator and another user name; both threads serve       *)
(* administrators, so that one PATCH may overtake another between any two  *)
(* of its steps.  The threads are interchangeable.                         *)
(***************************************************************************)
EXTENDS AuthSessions, UserAdmin, TLC

CONSTANTS w1, w2, admin, alice

VARIABLE part   \* which of the two a behavior looks at; the other rests

AccountsInit ==
    Init /\ AdminInit /\ part \in {"sessions", "accounts"}

AccountsNext ==
    /\ UNCHANGED part
    /\ \/ part = "sessions" /\ Next /\ UNCHANGED admin_vars
       \/ part = "accounts" /\ AdminNext /\ UNCHANGED vars

AccountsSpec == AccountsInit /\ [][AccountsNext]_<<vars, admin_vars, part>>

Threads == Permutations(Worker)
===============================================================================
