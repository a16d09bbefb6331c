------------------------- MODULE AccessAccountsProofs -------------------------
(***************************************************************************)
(* Whatever its requests, stores, rollbacks and crashes, a lone replica    *)
(* changes the accounts as Sessions lets them change.                      *)
(***************************************************************************)
EXTENDS AccessAccounts, AccessDBProofs

LEMMA GrantsType ==
    ASSUME NEW doc \in Docs, NEW u \in UserNames
    PROVE  GetPermissions(doc, u) \in SUBSET Permissions
    <1>1. CASE HasUser(doc, u)
        <2>1. doc.users[u].roles \subseteq RoleNames
            BY <1>1 DEF HasUser, Docs, Users
        <2>2. ASSUME NEW r \in RoleNames
              PROVE  RoleGrants(doc, r) \subseteq Permissions
            <3>1. HasCustomRole(doc, r) => doc.roles[r].permissions \subseteq Permissions
                BY DEF HasCustomRole, Docs, Roles
            <3>2. r \in SystemRoles => SystemPermissions[r] \subseteq Permissions
                BY PermissionsAssumption
            <3> QED BY <3>1, <3>2 DEF RoleGrants
        <2> QED BY <1>1, <2>1, <2>2 DEF GetPermissions
    <1>2. CASE ~HasUser(doc, u)
        BY <1>2 DEF GetPermissions
    <1> QED BY <1>1, <1>2

\* A name has an account when it has a user, who gives it two of its three fields.
LEMMA AccountFacts ==
    ASSUME NEW doc \in Docs, NEW u \in UserNames
    PROVE  /\ AccountIn(doc, u) = NoAccount <=> ~HasUser(doc, u)
           /\ HasUser(doc, u) =>
                  /\ AccountIn(doc, u).enabled = (doc.users[u].profile \in EnabledProfiles)
                  /\ AccountIn(doc, u).password = doc.users[u].password.hashOf
    <1>1. ASSUME HasUser(doc, u) PROVE AccountIn(doc, u) \in Account
        <2>1. doc.users[u].password.hashOf \in Passwords
            BY <1>1 DEF HasUser, Docs, Users, Hashes
        <2>2. (doc.users[u].profile \in EnabledProfiles) \in BOOLEAN
            OBVIOUS
        <2> QED BY <1>1, <2>1, <2>2, GrantsType DEF AccountIn, Account
    <1> QED BY <1>1, AccountsAssumption DEF AccountIn

\* A user's account depends on that user and on the roles.
LEMMA SameUserSameAccount ==
    ASSUME NEW d, NEW e, NEW u, d.roles = e.roles, d.users[u] = e.users[u]
    PROVE  AccountIn(e, u) = AccountIn(d, u)
    <1>1. HasUser(d, u) <=> HasUser(e, u)
        BY DEF HasUser
    <1>2. \A r : RoleGrants(e, r) = RoleGrants(d, r)
        BY DEF RoleGrants, HasCustomRole
    <1>3. GetPermissions(e, u) = GetPermissions(d, u)
        BY <1>1, <1>2 DEF GetPermissions
    <1> QED BY <1>1, <1>3 DEF AccountIn

MayBecome(d, e) ==
    \/ AccountsIn(e) = AccountsIn(d)
    \/ Changes!AccountsChange(AccountsIn(d), AccountsIn(e))

\* A request about one user changes at most the account of that user.
LEMMA UserChangesAccounts ==
    ASSUME NEW d \in Docs, NEW e \in Docs, NEW name \in UserNames,
           Registry!OnlyUserChanges(name, d, e)
    PROVE  MayBecome(d, e)
    <1> DEFINE before == AccountsIn(d)
               after == AccountsIn(e)
    <1>1. Changes!OnlyOf(name, before, after)
        BY SameUserSameAccount
        DEF Registry!OnlyUserChanges, Changes!OnlyOf, AccountsIn
    <1>2. /\ before \in [UserNames -> {AccountIn(d, u) : u \in UserNames}]
          /\ after \in [UserNames -> {AccountIn(e, u) : u \in UserNames}]
        BY DEF AccountsIn
    <1> HIDE DEF before, after
    <1>3. CASE before[name] = after[name]
        <2>1. \A u \in UserNames : after[u] = before[u]
            BY <1>1, <1>3 DEF Changes!OnlyOf
        <2>2. after = before
            BY <1>2, <2>1
        <2> QED BY <2>2 DEF MayBecome, before, after
    <1>4. CASE before[name] # after[name]
        <2>1. CASE before[name] = NoAccount
            <3>1. Changes!Created(before, after)
                BY <1>1, <1>4, <2>1 DEF Changes!Created
            <3> QED BY <3>1 DEF MayBecome, Changes!AccountsChange, before, after
        <2>2. CASE before[name] # NoAccount /\ after[name] # NoAccount
            <3>1. Changes!Updated(before, after)
                BY <1>1, <1>4, <2>2 DEF Changes!Updated
            <3> QED BY <3>1 DEF MayBecome, Changes!AccountsChange, before, after
        <2>3. CASE before[name] # NoAccount /\ after[name] = NoAccount
            <3>1. Changes!Deleted(before, after)
                BY <1>1, <2>3 DEF Changes!Deleted
            <3> QED BY <3>1 DEF MayBecome, Changes!AccountsChange, before, after
        <2> QED BY <2>1, <2>2, <2>3
    <1> QED BY <1>3, <1>4

\* A request about a role changes grants, and no more of any account.
LEMMA RoleChangesGrants ==
    ASSUME NEW d \in Docs, NEW e \in Docs, e.users = d.users
    PROVE  MayBecome(d, e)
    <1>1. \A u \in UserNames : HasUser(d, u) <=> HasUser(e, u)
        BY DEF HasUser
    <1>2. ASSUME NEW u \in UserNames
          PROVE  /\ AccountIn(e, u) = NoAccount <=> AccountIn(d, u) = NoAccount
                 /\ AccountIn(e, u) # NoAccount =>
                        /\ AccountIn(e, u).enabled = AccountIn(d, u).enabled
                        /\ AccountIn(e, u).password = AccountIn(d, u).password
        BY <1>1, AccountFacts
    <1>3. CASE AccountsIn(e) = AccountsIn(d)
        BY <1>3 DEF MayBecome
    <1>4. CASE AccountsIn(e) # AccountsIn(d)
        <2>1. Changes!Regranted(AccountsIn(d), AccountsIn(e))
            <3>1. \A u \in UserNames : AccountsIn(d)[u] = AccountIn(d, u)
                                      /\ AccountsIn(e)[u] = AccountIn(e, u)
                BY DEF AccountsIn
            <3> QED BY <1>2, <1>4, <3>1 DEF Changes!Regranted
        <2> QED BY <2>1 DEF MayBecome, Changes!AccountsChange
    <1> QED BY <1>3, <1>4

\* What a contract of the registry allows, Sessions allows.
LEMMA ContractChangesAccounts ==
    ASSUME NEW d \in Docs, NEW e \in Docs, NEW req, Registry!Contract(req, d, e)
    PROVE  MayBecome(d, e)
    <1>1. \/ \E name \in UserNames : Registry!OnlyUserChanges(name, d, e)
          \/ e.users = d.users
        BY DEF Registry!Contract, Registry!CreateUserContract, Registry!UpdateUserContract,
               Registry!DeleteUserContract, Registry!ChangePasswordContract,
               Registry!CreateRoleContract, Registry!UpdateRoleContract,
               Registry!DeleteRoleContract, Registry!CloneRoleContract,
               Registry!OnlyRoleChanges, Registry!CreateUserRequests,
               Registry!UpdateUserRequests, Registry!DeleteUserRequests,
               Registry!ChangePasswordRequests
    <1> QED BY <1>1, UserChangesAccounts, RoleChangesGrants

\* With one replica whose rollbacks get through, the accounts that the rest of the
\* server reads change one at a time, or in what they share by a role, as Sessions
\* lets them change, for any users, roles and faults of stores and processes.  So
\* what is proved of Sessions holds with this database under it.
THEOREM AloneAccountsChangeOnce ==
    ASSUME Alone
    PROVE  Spec => AccountsChangeOnce
    <1>1. ASSUME TypeOK, TypeOK', Coherent, [Next]_vars
          PROVE  [Changes!AccountsChange(Accounts, Accounts')]_Accounts
        <2>1. Stored \in Docs /\ Stored' \in Docs
            BY <1>1, StoredFacts, EmptyDocFacts DEF TypeOK, Stored
        <2>2. [Registry!Next]_(Registry!vars)
            BY <1>1, RegistryStep
        <2>3. Stored' = Stored \/ \E req : Registry!Contract(req, Stored, Stored')
            BY <2>2 DEF Registry!Next, Registry!vars, Registry!Invoke, Registry!TakeEffect,
                        Registry!ReplyOk, Registry!ReplyError, Registry!Abandon
        <2>4. MayBecome(Stored, Stored')
            BY <2>1, <2>3, ContractChangesAccounts DEF MayBecome
        <2> QED BY <2>4 DEF MayBecome, Accounts
    <1> QED
        BY <1>1, TypeCorrect, AlwaysCoherent, PTL DEF Spec, AccountsChangeOnce
==============================================================================
