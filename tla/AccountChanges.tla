---------------------------- MODULE AccountChanges ----------------------------
(***************************************************************************)
(* The access database as pkg/auth sees it: the accounts its reads find,   *)
(* and how one request to user.Service can change them.  Sessions lets the *)
(* accounts change in these ways and in no other; AccessAccounts is about  *)
(* whether the database keeps to them.                                     *)
(***************************************************************************)
CONSTANTS
    Users,
    Account,  \* what an account may be: enabled, password and grants
    None      \* a name without an account

Accounts == [Users -> Account \cup {None}]

OnlyOf(u, before, after) == \A v \in Users \ {u} : after[v] = before[v]

Created(before, after) ==
    \E u \in Users :
        /\ before[u] = None
        /\ after[u] # None
        /\ OnlyOf(u, before, after)

\* UpdateUser, ChangePassword.
Updated(before, after) ==
    \E u \in Users :
        /\ before[u] # None
        /\ after[u] \notin {None, before[u]}
        /\ OnlyOf(u, before, after)

Deleted(before, after) ==
    \E u \in Users :
        /\ before[u] # None
        /\ after[u] = None
        /\ OnlyOf(u, before, after)

\* A role is changed, or cloned over: it is the same for all who have it, but what
\* becomes of their grants depends on the other roles they have.
Regranted(before, after) ==
    /\ after # before
    /\ \A u \in Users :
        /\ after[u] = None <=> before[u] = None
        /\ after[u] # None => /\ after[u].enabled = before[u].enabled
                              /\ after[u].password = before[u].password

AccountsChange(before, after) ==
    \/ Created(before, after)
    \/ Updated(before, after)
    \/ Deleted(before, after)
    \/ Regranted(before, after)
==============================================================================
