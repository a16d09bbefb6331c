------------------------------ MODULE MCAccessDB ------------------------------
(***************************************************************************)
(* Small instances of AccessDB.                                            *)
(***************************************************************************)
EXTENDS AccessAccounts

CONSTANTS admin, user, administrator, custom, noName, secret, noPassword, tooLong,
         allowed, extra, unknown, profile, never, monday

MCSystemPermissions == [r \in {administrator} |-> {allowed}]

MCAdminRequest ==
    [kind |-> "CreateUser", user |-> admin, roles |-> {administrator},
     password |-> secret, profile |-> profile, expires |-> never]
==============================================================================
