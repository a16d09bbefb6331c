---------------------------- MODULE AccessAccounts ----------------------------
(***************************************************************************)
(* The accounts that pkg/auth reads from user.Service (GetUser,            *)
(* GetPermissions), and that they change as Sessions lets them change.     *)
(***************************************************************************)
EXTENDS AccessDB

CONSTANTS
    EnabledProfiles,  \* the profiles of enabled users
    NoAccount         \* a name without a user

Account ==
    [enabled : BOOLEAN, password : Passwords, grants : SUBSET Permissions]

ASSUME AccountsAssumption == NoAccount \notin Account

Changes == INSTANCE AccountChanges WITH Users <- UserNames, None <- NoAccount

\* What a token request or a call learns about a name from a document.
AccountIn(doc, name) ==
    IF HasUser(doc, name)
    THEN [enabled |-> doc.users[name].profile \in EnabledProfiles,
          password |-> doc.users[name].password.hashOf,
          grants |-> GetPermissions(doc, name)]
    ELSE NoAccount

AccountsIn(doc) == [u \in UserNames |-> AccountIn(doc, u)]
Accounts == AccountsIn(Stored)

(***************************************************************************)
(* Properties.                                                             *)
(***************************************************************************)
\* What Sessions takes for granted: one account changes at a time, by a request of
\* its own, or the grants of those who share a role change together.  A failed
\* store and its rollback are no exception, nor is a crash: no account comes back
\* or changes along with another one.  Between the requests of a lone replica
\* readers find just these accounts in its cache.
AccountsChangeOnce ==
    [][Changes!AccountsChange(Accounts, Accounts')]_Accounts
==============================================================================
