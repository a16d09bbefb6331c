---------------------------- MODULE AccessDBProofs ----------------------------
(***************************************************************************)
(* Proofs about AccessDB, for any number of replicas, users, roles and     *)
(* passwords and any faults unless a theorem says otherwise.               *)
(***************************************************************************)
EXTENDS AccessDB, TLAPS

(***************************************************************************)
(* The document operators.                                                 *)
(***************************************************************************)
\* Changing an entry of the users map yields a document with the same roles.
LEMMA SetUserFacts ==
    ASSUME NEW doc \in Docs, NEW name \in UserNames, NEW user \in Users \cup {NoUser}
    PROVE  /\ SetUser(doc, name, user) \in Docs
           /\ SetUser(doc, name, user).roles = doc.roles
           /\ SetUser(doc, name, user).users[name] = user
           /\ \A u \in UserNames \ {name} :
                  SetUser(doc, name, user).users[u] = doc.users[u]
    BY DEF SetUser, Docs

\* Changing an entry of the roles map yields a document with the same users.
LEMMA SetRoleFacts ==
    ASSUME NEW doc \in Docs, NEW name \in RoleNames, NEW role \in Roles \cup {NoRole}
    PROVE  /\ SetRole(doc, name, role) \in Docs
           /\ SetRole(doc, name, role).users = doc.users
           /\ SetRole(doc, name, role).roles[name] = role
           /\ \A r \in RoleNames \ {name} :
                  SetRole(doc, name, role).roles[r] = doc.roles[r]
    BY DEF SetRole, Docs

\* The document of two empty maps is a document, and fit for use.
LEMMA EmptyDocFacts == EmptyDoc \in Docs /\ WellFormed(EmptyDoc)
    BY DEF EmptyDoc, Docs, WellFormed, RolesResolve, RolesFiled, HasUser, HasCustomRole

\* A user with valid roles, or no user, keeps a document well formed.
LEMMA SetUserWellFormed ==
    ASSUME NEW doc \in Docs, WellFormed(doc), NEW name \in UserNames,
           NEW user \in Users \cup {NoUser},
           user # NoUser => ValidUseRoles(doc, user.roles)
    PROVE  WellFormed(SetUser(doc, name, user))
    <1> DEFINE new == SetUser(doc, name, user)
    <1>1. /\ new.roles = doc.roles
          /\ new.users[name] = user
          /\ \A u \in UserNames \ {name} : new.users[u] = doc.users[u]
        BY SetUserFacts
    <1> HIDE DEF new
    <1>2. RolesResolve(new)
        BY <1>1 DEF WellFormed, RolesResolve, ValidUseRoles, RoleExists, HasCustomRole, HasUser
    <1>3. RolesFiled(new)
        BY <1>1 DEF WellFormed, RolesFiled, HasCustomRole
    <1> QED BY <1>2, <1>3 DEF WellFormed, new

\* So does a role filed under its own name, and taking away a role nobody has.
LEMMA SetRoleWellFormed ==
    ASSUME NEW doc \in Docs, WellFormed(doc), NEW name \in RoleNames,
           NEW role \in Roles \cup {NoRole},
           role # NoRole => role.name = name /\ ~role.system,
           role = NoRole => ~RoleInUse(doc, name)
    PROVE  WellFormed(SetRole(doc, name, role))
    <1> DEFINE new == SetRole(doc, name, role)
    <1>1. /\ new.users = doc.users
          /\ new.roles[name] = role
          /\ \A r \in RoleNames \ {name} : new.roles[r] = doc.roles[r]
        BY SetRoleFacts
    <1> HIDE DEF new
    <1>2. RolesResolve(new)
        <2> SUFFICES ASSUME NEW u \in UserNames, HasUser(new, u),
                            NEW r \in new.users[u].roles
                     PROVE  RoleExists(new, r)
            BY DEF RolesResolve, ValidUseRoles
        <2>1. HasUser(doc, u) /\ r \in doc.users[u].roles /\ RoleExists(doc, r)
            BY <1>1 DEF HasUser, WellFormed, RolesResolve, ValidUseRoles
        <2>2. r \in RoleNames
            BY <2>1 DEF Docs, Users, HasUser
        <2>3. r = name => role # NoRole
            BY <2>1 DEF RoleInUse
        <2> QED BY <1>1, <2>1, <2>2, <2>3 DEF RoleExists, HasCustomRole
    <1>3. RolesFiled(new)
        BY <1>1 DEF WellFormed, RolesFiled, HasCustomRole
    <1> QED BY <1>2, <1>3 DEF WellFormed, new

(***************************************************************************)
(* Every accepted request turns a document into a document, and a well     *)
(* formed one into a well formed one.                                      *)
(***************************************************************************)
Preserves(doc, new) == new \in Docs /\ (WellFormed(doc) => WellFormed(new))

\* CreateUser stores a user with a hash, whose roles it has looked up.
LEMMA CreateUserPreserves ==
    ASSUME NEW doc \in Docs, NEW req \in CreateUserRequests, CanCreateUser(doc, req)
    PROVE  Preserves(doc, CreateUserDoc(doc, req))
    <1> DEFINE user == [roles |-> req.roles, password |-> Hash(req.password),
                        profile |-> req.profile, expires |-> req.expires]
    <1>1. user \in Users /\ req.user \in UserNames
        BY DEF CreateUserRequests, Users, Hashes, Hash
    <1>2. ValidUseRoles(doc, user.roles)
        BY DEF CanCreateUser
    <1> HIDE DEF user
    <1>3. CreateUserDoc(doc, req) = SetUser(doc, req.user, user)
        BY DEF CreateUserDoc, user
    <1> QED BY <1>1, <1>2, <1>3, SetUserFacts, SetUserWellFormed DEF Preserves

\* UpdateUser stores a hash, new or kept, and roles it has looked up.
LEMMA UpdateUserPreserves ==
    ASSUME NEW doc \in Docs, NEW req \in UpdateUserRequests, CanUpdateUser(doc, req)
    PROVE  Preserves(doc, UpdateUserDoc(doc, req))
    <1> DEFINE prev == doc.users[req.user]
               keep == req.password = EmptyPassword
               user == [roles |-> req.roles,
                        password |-> IF keep THEN prev.password ELSE Hash(req.password),
                        profile |-> req.profile,
                        expires |-> IF keep THEN prev.expires ELSE req.expires]
    <1>1. prev \in Users /\ req.user \in UserNames
        BY DEF CanUpdateUser, HasUser, Docs, UpdateUserRequests
    <1>2. user \in Users
        BY <1>1 DEF UpdateUserRequests, Users, Hashes, Hash
    <1>3. ValidUseRoles(doc, user.roles)
        BY DEF CanUpdateUser
    <1>4. UpdateUserDoc(doc, req) = SetUser(doc, req.user, user)
        BY DEF UpdateUserDoc
    <1> HIDE DEF user
    <1> QED BY <1>1, <1>2, <1>3, <1>4, SetUserFacts, SetUserWellFormed DEF Preserves

\* DeleteUser takes an entry away and leaves the others valid.
LEMMA DeleteUserPreserves ==
    ASSUME NEW doc \in Docs, NEW req \in DeleteUserRequests
    PROVE  Preserves(doc, DeleteUserDoc(doc, req))
    <1>1. req.user \in UserNames
        BY DEF DeleteUserRequests
    <1> QED
        BY <1>1, SetUserFacts, SetUserWellFormed DEF Preserves, DeleteUserDoc

\* ChangePassword stores a hash and keeps the roles.
LEMMA ChangePasswordPreserves ==
    ASSUME NEW doc \in Docs, NEW req \in ChangePasswordRequests,
           CanChangePassword(doc, req)
    PROVE  Preserves(doc, ChangePasswordDoc(doc, req))
    <1> DEFINE prev == doc.users[req.user]
               user == [prev EXCEPT !.password = Hash(req.new)]
    <1>1. prev \in Users /\ req.user \in UserNames
        BY DEF CanChangePassword, HasUser, Docs, ChangePasswordRequests
    <1>2. user \in Users /\ user.roles = prev.roles
        BY <1>1 DEF ChangePasswordRequests, Users, Hashes, Hash
    <1>3. WellFormed(doc) => ValidUseRoles(doc, user.roles)
        BY <1>1, <1>2 DEF WellFormed, RolesResolve, CanChangePassword
    <1>4. ChangePasswordDoc(doc, req) = SetUser(doc, req.user, user)
        BY DEF ChangePasswordDoc
    <1> HIDE DEF user
    <1> QED BY <1>1, <1>2, <1>3, <1>4, SetUserFacts, SetUserWellFormed DEF Preserves

\* CreateRole and UpdateRole compute the same document.
LEMMA RoleDocPreserves ==
    ASSUME NEW doc \in Docs, NEW req \in CreateRoleRequests \cup UpdateRoleRequests
    PROVE  Preserves(doc, RoleDoc(doc, req))
    <1> DEFINE role == [name |-> req.role, system |-> FALSE,
                        permissions |-> req.permissions]
    <1>1. role \in Roles /\ req.role \in RoleNames
        BY DEF CreateRoleRequests, UpdateRoleRequests, Roles
    <1>2. role.name = req.role /\ ~role.system /\ role # NoRole
        BY <1>1, MissingAssumption
    <1>3. RoleDoc(doc, req) = SetRole(doc, req.role, role)
        BY DEF RoleDoc
    <1> HIDE DEF role
    <1> QED BY <1>1, <1>2, <1>3, SetRoleFacts, SetRoleWellFormed DEF Preserves

\* DeleteRole takes away a role that no user has.
LEMMA DeleteRolePreserves ==
    ASSUME NEW doc \in Docs, NEW req \in DeleteRoleRequests, CanDeleteRole(doc, req)
    PROVE  Preserves(doc, DeleteRoleDoc(doc, req))
    <1>1. req.role \in RoleNames /\ ~RoleInUse(doc, req.role)
        BY DEF DeleteRoleRequests, CanDeleteRole
    <1> QED
        BY <1>1, SetRoleFacts, SetRoleWellFormed DEF Preserves, DeleteRoleDoc

\* CloneRole files its copy under the new name, never as a built-in role.
LEMMA CloneRolePreserves ==
    ASSUME NEW doc \in Docs, NEW req \in CloneRoleRequests, CanCloneRole(doc, req)
    PROVE  Preserves(doc, CloneRoleDoc(doc, req))
    <1> DEFINE source == CloneSource(doc, req.source)
               role == [source EXCEPT !.name = req.role]
    <1>1. req.role \in RoleNames /\ req.source \in RoleNames
        BY DEF CloneRoleRequests
    <1>2. source \in Roles /\ (WellFormed(doc) => ~source.system)
        <2>1. CASE HasCustomRole(doc, req.source)
            BY <1>1, <2>1 DEF CloneSource, HasCustomRole, Docs, WellFormed, RolesFiled
        <2>2. CASE ~HasCustomRole(doc, req.source)
            <3>1. req.source \in SystemRoles
                BY <2>2 DEF CanCloneRole, RoleExists
            <3>2. SystemPermissions[req.source] \in SUBSET Permissions
                BY <3>1, PermissionsAssumption
            <3> QED BY <1>1, <2>2, <3>2 DEF CloneSource, SystemRole, Roles
        <2> QED BY <2>1, <2>2
    <1> HIDE DEF source
    <1>3. role \in Roles /\ role.name = req.role /\ role.system = source.system
        BY <1>1, <1>2 DEF Roles
    <1>4. role # NoRole
        BY <1>3, MissingAssumption
    <1>5. CloneRoleDoc(doc, req) = SetRole(doc, req.role, role)
        BY DEF CloneRoleDoc, source
    <1> HIDE DEF role
    <1> QED
        BY <1>1, <1>2, <1>3, <1>4, <1>5, SetRoleFacts, SetRoleWellFormed DEF Preserves

\* new is what the service stores when it accepts req with doc in its cache.
Accepted(req, doc, new) ==
    \/ /\ req \in CreateUserRequests /\ CanCreateUser(doc, req)
       /\ new = CreateUserDoc(doc, req)
    \/ /\ req \in UpdateUserRequests /\ CanUpdateUser(doc, req)
       /\ new = UpdateUserDoc(doc, req)
    \/ /\ req \in DeleteUserRequests
       /\ new = DeleteUserDoc(doc, req)
    \/ /\ req \in ChangePasswordRequests /\ CanChangePassword(doc, req)
       /\ new = ChangePasswordDoc(doc, req)
    \/ /\ req \in CreateRoleRequests /\ CanCreateRole(doc, req)
       /\ new = RoleDoc(doc, req)
    \/ /\ req \in UpdateRoleRequests /\ CanUpdateRole(doc, req)
       /\ new = RoleDoc(doc, req)
    \/ /\ req \in DeleteRoleRequests /\ CanDeleteRole(doc, req)
       /\ new = DeleteRoleDoc(doc, req)
    \/ /\ req \in CloneRoleRequests /\ CanCloneRole(doc, req)
       /\ new = CloneRoleDoc(doc, req)

\* Whatever request the service accepts, it computes a document fit for use.
LEMMA AcceptedPreserves ==
    ASSUME NEW doc \in Docs, NEW req, NEW new, Accepted(req, doc, new)
    PROVE  Preserves(doc, new)
    BY CreateUserPreserves, UpdateUserPreserves, DeleteUserPreserves,
       ChangePasswordPreserves, RoleDocPreserves, DeleteRolePreserves,
       CloneRolePreserves DEF Accepted

(***************************************************************************)
(* The actions.  A handler, like the creation of the administrator at      *)
(* startup, submits a request that the service accepts with its cache.     *)
(***************************************************************************)
Submits(r) == Handle(r) \/ BootCreateAdmin(r) \/ BootUpdateAdmin(r)

\* Every step that begins a store submits an accepted request's document.
LEMMA SubmitsAccepted ==
    ASSUME NEW r \in Replicas, Submits(r)
    PROVE  \E req \in Requests :
               \E new : Submit(r, req, new) /\ Accepted(req, cache[r], new)
    <1>1. CASE CreateUser(r)
        BY <1>1 DEF CreateUser, Accepted, Requests
    <1>2. CASE UpdateUser(r)
        BY <1>2 DEF UpdateUser, Accepted, Requests
    <1>3. CASE DeleteUser(r)
        BY <1>3 DEF DeleteUser, Accepted, Requests
    <1>4. CASE ChangePassword(r)
        BY <1>4 DEF ChangePassword, Accepted, Requests
    <1>5. CASE CreateRole(r)
        BY <1>5 DEF CreateRole, Accepted, Requests
    <1>6. CASE UpdateRole(r)
        BY <1>6 DEF UpdateRole, Accepted, Requests
    <1>7. CASE DeleteRole(r)
        BY <1>7 DEF DeleteRole, Accepted, Requests
    <1>8. CASE CloneRole(r)
        BY <1>8 DEF CloneRole, Accepted, Requests
    <1>9. CASE BootCreateAdmin(r)
        BY <1>9, DBAssumption DEF BootCreateAdmin, Accepted, Requests
    <1>10. CASE BootUpdateAdmin(r)
        <2>1. AdminUpdate \in UpdateUserRequests
            BY DBAssumption DEF AdminUpdate, CreateUserRequests, UpdateUserRequests
        <2> QED BY <1>10, <2>1 DEF BootUpdateAdmin, Accepted, Requests
    <1> QED
        BY <1>1, <1>2, <1>3, <1>4, <1>5, <1>6, <1>7, <1>8, <1>9, <1>10
        DEF Submits, Handle

\* The steps of Next, each handler being a submission.
LEMMA NextSteps ==
    ASSUME Next
    PROVE  \/ \E r \in Replicas :
                  \/ Submits(r) \/ MonApply(r) \/ StoreOk(r) \/ StoreLost(r)
                  \/ StoreAckLost(r) \/ StoreTimeout(r) \/ RollbackOk(r)
                  \/ RollbackFail(r) \/ Load(r) \/ BootRefused(r) \/ Crash(r)
           \/ MonApplyLate
    BY DEF Next, Submits, StoreReply, Rollback, Boot

(***************************************************************************)
(* Types.                                                                  *)
(***************************************************************************)
\* A missing key reads as the empty document.
LEMMA StoredFacts ==
    ASSUME TypeOK
    PROVE  Stored \in Docs /\ (db # NoDoc => Stored = db)
    BY EmptyDocFacts DEF TypeOK, Stored

\* Every step keeps the types.
LEMMA TypeStep == TypeOK /\ [Next]_vars => TypeOK'
    <1> SUFFICES ASSUME TypeOK, [Next]_vars
                 PROVE  TypeOK'
        OBVIOUS
    <1> USE EmptyDocFacts DEF TypeOK, Phases
    <1>1. CASE UNCHANGED vars
        BY <1>1 DEF vars
    <1>2. ASSUME NEW r \in Replicas, Submits(r)
          PROVE  TypeOK'
        <2>0. PICK req \in Requests :
                  \E new : Submit(r, req, new) /\ Accepted(req, cache[r], new)
            BY <1>2, SubmitsAccepted
        <2>1. PICK new : Submit(r, req, new) /\ Accepted(req, cache[r], new)
            BY <2>0
        <2>2. new \in Docs
            BY <2>1, AcceptedPreserves DEF Preserves
        <2> QED BY <2>1, <2>2 DEF Submit
    <1>3. ASSUME NEW r \in Replicas, MonApply(r)
          PROVE  TypeOK'
        BY <1>3 DEF MonApply
    <1>4. ASSUME NEW r \in Replicas, StoreOk(r)
          PROVE  TypeOK'
        BY <1>4 DEF StoreOk
    <1>5. ASSUME NEW r \in Replicas,
                 StoreLost(r) \/ StoreAckLost(r) \/ StoreTimeout(r)
          PROVE  TypeOK'
        BY <1>5 DEF StoreLost, StoreAckLost, StoreTimeout, StoreError
    <1>6. ASSUME NEW r \in Replicas, RollbackOk(r) \/ RollbackFail(r)
          PROVE  TypeOK'
        BY <1>6, StoredFacts DEF RollbackOk, RollbackFail, Unlock
    <1>7. ASSUME NEW r \in Replicas, Load(r)
          PROVE  TypeOK'
        BY <1>7, StoredFacts DEF Load
    <1>8. ASSUME NEW r \in Replicas, BootRefused(r) \/ Crash(r)
          PROVE  TypeOK'
        <2>1. Stop(r)
            BY <1>8 DEF BootRefused, Crash
        <2>2. late' \subseteq Docs
            BY <1>8 DEF BootRefused, Crash
        <2> QED BY <2>1, <2>2 DEF Stop
    <1>9. CASE MonApplyLate
        BY <1>9 DEF MonApplyLate
    <1> QED
        BY <1>1, <1>2, <1>3, <1>4, <1>5, <1>6, <1>7, <1>8, <1>9, NextSteps

\* Every variable keeps its type: in particular a stored password is always a
\* hash, whoever stored it.
THEOREM TypeCorrect == Spec => []TypeOK
    <1>1. Init => TypeOK
        BY EmptyDocFacts, InitialAssumption DEF Init, TypeOK, Phases
    <1> QED BY <1>1, TypeStep, PTL DEF Spec

(***************************************************************************)
(* Well-formed documents.  DocsWellFormed is inductive given the types:    *)
(* whole documents travel, and each was computed from a well-formed one.   *)
(***************************************************************************)
\* A process that stops leaves the stored documents alone.
LEMMA StopWellFormed ==
    ASSUME TypeOK, DocsWellFormed, NEW r \in Replicas, Stop(r)
    PROVE  WellFormed(Stored)' /\ \A q \in Replicas : WellFormed(cache'[q])
    BY EmptyDocFacts DEF TypeOK, DocsWellFormed, Stop, Stored

\* A failed store empties the cache, and an empty document is fit for use.
LEMMA StoreErrorWellFormed ==
    ASSUME TypeOK, DocsWellFormed, NEW r \in Replicas, StoreError(r),
           \A doc \in late' : WellFormed(doc)
    PROVE  DocsWellFormed'
    BY EmptyDocFacts DEF TypeOK, DocsWellFormed, StoreError, Stored

\* Every step keeps every document fit for use.
LEMMA WellFormedStep == TypeOK /\ DocsWellFormed /\ [Next]_vars => DocsWellFormed'
    <1> SUFFICES ASSUME TypeOK, DocsWellFormed, [Next]_vars
                 PROVE  DocsWellFormed'
        OBVIOUS
    <1>1. CASE UNCHANGED vars
        BY <1>1 DEF vars, DocsWellFormed, Stored
    <1>2. ASSUME NEW r \in Replicas, Submits(r)
          PROVE  DocsWellFormed'
        <2>0. PICK req \in Requests :
                  \E new : Submit(r, req, new) /\ Accepted(req, cache[r], new)
            BY <1>2, SubmitsAccepted
        <2>1. PICK new : Submit(r, req, new) /\ Accepted(req, cache[r], new)
            BY <2>0
        <2>2. WellFormed(new)
            BY <2>1, AcceptedPreserves DEF Preserves, DocsWellFormed, TypeOK
        <2> QED BY <2>1, <2>2 DEF Submit, DocsWellFormed, TypeOK, Stored
    <1>3. ASSUME NEW r \in Replicas, MonApply(r)
          PROVE  DocsWellFormed'
        BY <1>3, EmptyDocFacts DEF MonApply, DocsWellFormed, TypeOK, Stored
    <1>4. ASSUME NEW r \in Replicas, StoreOk(r)
          PROVE  DocsWellFormed'
        BY <1>4 DEF StoreOk, DocsWellFormed, TypeOK, Stored
    <1>5. ASSUME NEW r \in Replicas,
                 StoreLost(r) \/ StoreAckLost(r) \/ StoreTimeout(r)
          PROVE  DocsWellFormed'
        BY <1>5, StoreErrorWellFormed
        DEF StoreLost, StoreAckLost, StoreTimeout, DocsWellFormed
    <1>6. ASSUME NEW r \in Replicas, RollbackOk(r) \/ RollbackFail(r)
          PROVE  DocsWellFormed'
        BY <1>6, EmptyDocFacts
        DEF RollbackOk, RollbackFail, Unlock, DocsWellFormed, TypeOK, Stored
    <1>7. ASSUME NEW r \in Replicas, Load(r)
          PROVE  DocsWellFormed'
        BY <1>7 DEF Load, DocsWellFormed, TypeOK, Stored
    <1>8. ASSUME NEW r \in Replicas, BootRefused(r) \/ Crash(r)
          PROVE  DocsWellFormed'
        <2>1. Stop(r)
            BY <1>8 DEF BootRefused, Crash
        <2>2. \A doc \in late' : WellFormed(doc)
            BY <1>8 DEF BootRefused, Crash, DocsWellFormed
        <2> QED BY <2>1, <2>2, StopWellFormed DEF DocsWellFormed
    <1>9. CASE MonApplyLate
        BY <1>9, EmptyDocFacts DEF MonApplyLate, DocsWellFormed, TypeOK, Stored
    <1> QED
        BY <1>1, <1>2, <1>3, <1>4, <1>5, <1>6, <1>7, <1>8, <1>9, NextSteps

\* With any number of replicas and any faults, no document the service stores,
\* caches or has on its way names a role that does not exist.
THEOREM AlwaysWellFormed == Spec => []DocsWellFormed
    <1>1. Init => DocsWellFormed
        BY EmptyDocFacts, InitialAssumption DEF Init, DocsWellFormed, Stored
    <1>2. TypeOK /\ DocsWellFormed /\ [Next]_vars => DocsWellFormed'
        BY WellFormedStep
    <1> QED BY <1>1, <1>2, TypeCorrect, PTL DEF Spec

(***************************************************************************)
(* One replica whose rollbacks get through.  The cache then follows the    *)
(* monitor: whenever the lock is free, or the monitor has applied the      *)
(* store, the two are equal; and while a store is on its way the cache is  *)
(* what the request under way makes of the stored document.                *)
(***************************************************************************)
Alone ==
    /\ \E r : Replicas = {r}
    /\ "late" \notin Faults
    /\ "getFail" \notin Faults

Coherent ==
    /\ late = {}
    /\ \A r \in Replicas :
           /\ phase[r] \in {"idle", "stored"} => cache[r] = Stored
           /\ phase[r] \in {"down", "idle", "rollback"} => op[r] = NoRequest
           /\ phase[r] \in {"store", "stored"} => op[r] \in Requests
           /\ phase[r] = "store" => Accepted(op[r], Stored, cache[r])

\* Every step of a lone replica keeps its cache in agreement with the monitor.
LEMMA CoherentStep ==
    ASSUME Alone
    PROVE  TypeOK /\ Coherent /\ [Next]_vars => Coherent'
    <1> SUFFICES ASSUME TypeOK, Coherent, [Next]_vars
                 PROVE  Coherent'
        OBVIOUS
    <1> PICK r0 : Replicas = {r0}
        BY DEF Alone
    <1>1. CASE UNCHANGED vars
        BY <1>1 DEF vars, Coherent, Stored
    <1>2. CASE Submits(r0)
        <2>0. PICK req \in Requests :
                  \E new : Submit(r0, req, new) /\ Accepted(req, cache[r0], new)
            BY <1>2, SubmitsAccepted
        <2>1. PICK new : Submit(r0, req, new) /\ Accepted(req, cache[r0], new)
            BY <2>0
        <2>2. cache[r0] = Stored /\ Stored' = Stored
            BY <2>1 DEF Submit, Coherent, Stored
        <2> QED BY <2>1, <2>2 DEF Submit, Coherent, TypeOK
    <1>3. CASE MonApply(r0)
        <2>1. Stored' = cache[r0]
            BY <1>3, DBAssumption DEF MonApply, Stored, TypeOK
        <2> QED BY <1>3, <2>1 DEF MonApply, Coherent, TypeOK
    <1>4. CASE StoreOk(r0)
        BY <1>4 DEF StoreOk, Coherent, TypeOK, Stored
    <1>5. CASE StoreLost(r0) \/ StoreAckLost(r0)
        BY <1>5 DEF StoreLost, StoreAckLost, StoreError, Coherent, TypeOK
    <1>6. CASE RollbackOk(r0)
        <2>1. Stored' = Stored
            BY <1>6 DEF RollbackOk, Unlock, Stored
        <2> QED BY <1>6, <2>1 DEF RollbackOk, Unlock, Coherent, TypeOK
    <1>7. CASE Load(r0)
        <2>1. Stored' = Stored
            BY <1>7 DEF Load, Stored
        <2> QED BY <1>7, <2>1 DEF Load, Coherent, TypeOK
    <1>8. CASE BootRefused(r0) \/ Crash(r0)
        <2>1. Stop(r0) /\ late' = {}
            BY <1>8 DEF BootRefused, Crash, Alone, Coherent
        <2> QED BY <2>1 DEF Stop, Coherent, TypeOK
    <1> QED
        BY <1>1, <1>2, <1>3, <1>4, <1>5, <1>6, <1>7, <1>8, NextSteps
        DEF Alone, Coherent, StoreTimeout, RollbackFail, MonApplyLate

\* A lone replica's cache agrees with the monitor at every point of a request.
LEMMA AlwaysCoherent ==
    ASSUME Alone
    PROVE  Spec => []Coherent
    <1>1. Init => Coherent
        BY DEF Init, Coherent
    <1>2. TypeOK /\ Coherent /\ [Next]_vars => Coherent'
        BY CoherentStep
    <1> QED BY <1>1, <1>2, TypeCorrect, PTL DEF Spec

\* A reader or writer of a lone replica always finds what the monitor stores,
\* though stores fail, acknowledgements get lost and the process dies.
THEOREM AloneCacheIsStored ==
    ASSUME Alone
    PROVE  Spec => []CacheIsStored
    <1>1. Coherent => CacheIsStored
        BY DEF Coherent, CacheIsStored
    <1> QED BY <1>1, AlwaysCoherent, PTL

(***************************************************************************)
(* The documents the service computes keep the contracts of the registry.  *)
(***************************************************************************)
\* Changing the entry of a user changes nothing else in the document.
LEMMA SetUserIsolated ==
    ASSUME NEW doc \in Docs, NEW name \in UserNames, NEW user \in Users \cup {NoUser}
    PROVE  Registry!OnlyUserChanges(name, doc, SetUser(doc, name, user))
    BY SetUserFacts DEF Registry!OnlyUserChanges

\* Changing the entry of a role changes nothing else in the document.
LEMMA SetRoleIsolated ==
    ASSUME NEW doc \in Docs, NEW name \in RoleNames, NEW role \in Roles \cup {NoRole}
    PROVE  Registry!OnlyRoleChanges(name, doc, SetRole(doc, name, role))
    BY SetRoleFacts DEF Registry!OnlyRoleChanges

\* What CreateUser computes keeps the contract of CreateUser.
LEMMA CreateUserKept ==
    ASSUME NEW doc \in Docs, NEW req \in CreateUserRequests, CanCreateUser(doc, req)
    PROVE  Registry!CreateUserContract(req, doc, CreateUserDoc(doc, req))
    <1> DEFINE user == [roles |-> req.roles, password |-> Hash(req.password),
                        profile |-> req.profile, expires |-> req.expires]
               new == SetUser(doc, req.user, user)
    <1>1. user \in Users /\ req.user \in UserNames
        BY DEF CreateUserRequests, Users, Hashes, Hash
    <1>2. /\ user.roles = req.roles
          /\ user.password = Hash(req.password)
          /\ user.profile = req.profile
          /\ user.expires = req.expires
        OBVIOUS
    <1>3. user # NoUser
        BY <1>1, MissingAssumption
    <1>4. CreateUserDoc(doc, req) = new
        BY DEF CreateUserDoc
    <1> HIDE DEF user
    <1>5. /\ Registry!OnlyUserChanges(req.user, doc, new)
          /\ new.users[req.user] = user
          /\ new.roles = doc.roles
        BY <1>1, SetUserIsolated, SetUserFacts
    <1> HIDE DEF new
    <1>6. \A p \in Passwords :
              Registry!Matches(new.users[req.user].password, p) <=> p = req.password
        BY <1>2, <1>5 DEF Registry!Matches, Hash
    <1>7. \A r \in req.roles : Registry!RoleExists(new, r)
        BY <1>5 DEF CanCreateUser, ValidUseRoles, RoleExists, HasCustomRole,
                    Registry!RoleExists, Registry!HasCustomRole
    <1> QED
        BY <1>2, <1>3, <1>4, <1>5, <1>6, <1>7
        DEF Registry!CreateUserContract, Registry!HasUser, CanCreateUser, HasUser

\* What UpdateUser computes keeps the contract of UpdateUser.
LEMMA UpdateUserKept ==
    ASSUME NEW doc \in Docs, NEW req \in UpdateUserRequests, CanUpdateUser(doc, req)
    PROVE  Registry!UpdateUserContract(req, doc, UpdateUserDoc(doc, req))
    <1> DEFINE prev == doc.users[req.user]
               keep == req.password = EmptyPassword
               user == [roles |-> req.roles,
                        password |-> IF keep THEN prev.password ELSE Hash(req.password),
                        profile |-> req.profile,
                        expires |-> IF keep THEN prev.expires ELSE req.expires]
               new == SetUser(doc, req.user, user)
    <1>1. prev \in Users /\ req.user \in UserNames
        BY DEF CanUpdateUser, HasUser, Docs, UpdateUserRequests
    <1>2. user \in Users
        BY <1>1 DEF UpdateUserRequests, Users, Hashes, Hash
    <1>3. /\ user.roles = req.roles
          /\ user.password = IF keep THEN prev.password ELSE Hash(req.password)
          /\ user.profile = req.profile
          /\ user.expires = IF keep THEN prev.expires ELSE req.expires
        OBVIOUS
    <1>4. user # NoUser
        BY <1>2, MissingAssumption
    <1>5. UpdateUserDoc(doc, req) = new
        BY DEF UpdateUserDoc
    <1> HIDE DEF user
    <1>6. /\ Registry!OnlyUserChanges(req.user, doc, new)
          /\ new.users[req.user] = user
          /\ new.roles = doc.roles
        BY <1>1, <1>2, SetUserIsolated, SetUserFacts
    <1> HIDE DEF new
    <1>7. \A p \in Passwords :
              Registry!Matches(new.users[req.user].password, p) <=>
                  IF keep THEN Registry!Matches(prev.password, p) ELSE p = req.password
        BY <1>3, <1>6 DEF Registry!Matches, Hash
    <1>8. \A r \in req.roles : Registry!RoleExists(new, r)
        BY <1>6 DEF CanUpdateUser, ValidUseRoles, RoleExists, HasCustomRole,
                    Registry!RoleExists, Registry!HasCustomRole
    <1> QED
        BY <1>3, <1>4, <1>5, <1>6, <1>7, <1>8
        DEF Registry!UpdateUserContract, Registry!HasUser, CanUpdateUser, HasUser

\* What DeleteUser computes keeps the contract of DeleteUser.
LEMMA DeleteUserKept ==
    ASSUME NEW doc \in Docs, NEW req \in DeleteUserRequests
    PROVE  Registry!DeleteUserContract(req, doc, DeleteUserDoc(doc, req))
    <1>1. req.user \in UserNames
        BY DEF DeleteUserRequests
    <1> QED
        BY <1>1, SetUserIsolated, SetUserFacts
        DEF DeleteUserDoc, Registry!DeleteUserContract, Registry!HasUser

\* What ChangePassword computes keeps the contract of ChangePassword.
LEMMA ChangePasswordKept ==
    ASSUME NEW doc \in Docs, NEW req \in ChangePasswordRequests,
           CanChangePassword(doc, req)
    PROVE  Registry!ChangePasswordContract(req, doc, ChangePasswordDoc(doc, req))
    <1> DEFINE prev == doc.users[req.user]
               user == [prev EXCEPT !.password = Hash(req.new)]
               new == SetUser(doc, req.user, user)
    <1>1. prev \in Users /\ req.user \in UserNames
        BY DEF CanChangePassword, HasUser, Docs, ChangePasswordRequests
    <1>2. /\ user \in Users
          /\ user.roles = prev.roles
          /\ user.password = Hash(req.new)
          /\ user.profile = prev.profile
          /\ user.expires = prev.expires
        BY <1>1 DEF ChangePasswordRequests, Users, Hashes, Hash
    <1>3. user # NoUser /\ prev # NoUser
        BY <1>1, <1>2, MissingAssumption
    <1>4. ChangePasswordDoc(doc, req) = new
        BY DEF ChangePasswordDoc
    <1> HIDE DEF user
    <1>5. /\ Registry!OnlyUserChanges(req.user, doc, new)
          /\ new.users[req.user] = user
        BY <1>1, <1>2, SetUserIsolated, SetUserFacts
    <1> HIDE DEF new
    <1>6. \A p \in Passwords :
              Registry!Matches(new.users[req.user].password, p) <=> p = req.new
        BY <1>2, <1>5 DEF Registry!Matches, Hash
    <1>7. Registry!Matches(prev.password, req.old)
        BY DEF CanChangePassword, Matches, Registry!Matches
    <1> QED
        BY <1>2, <1>3, <1>4, <1>5, <1>6, <1>7
        DEF Registry!ChangePasswordContract, Registry!HasUser

\* What CreateRole and UpdateRole compute keeps their contracts.
LEMMA RoleKept ==
    ASSUME NEW doc \in Docs,
           NEW req \in CreateRoleRequests \cup UpdateRoleRequests,
           req.role \notin SystemRoles
    PROVE  /\ Registry!OnlyRoleChanges(req.role, doc, RoleDoc(doc, req))
           /\ Registry!HasCustomRole(RoleDoc(doc, req), req.role)
           /\ Registry!GetRole(RoleDoc(doc, req), req.role).permissions =
                  req.permissions
    <1> DEFINE role == [name |-> req.role, system |-> FALSE,
                        permissions |-> req.permissions]
    <1>1. role \in Roles /\ req.role \in RoleNames
        BY DEF CreateRoleRequests, UpdateRoleRequests, Roles
    <1>2. role # NoRole /\ role.permissions = req.permissions
        BY <1>1, MissingAssumption
    <1>3. RoleDoc(doc, req) = SetRole(doc, req.role, role)
        BY DEF RoleDoc
    <1> HIDE DEF role
    <1> QED
        BY <1>1, <1>2, <1>3, SetRoleIsolated, SetRoleFacts
        DEF Registry!HasCustomRole, Registry!GetRole

\* What DeleteRole computes keeps the contract of DeleteRole.
LEMMA DeleteRoleKept ==
    ASSUME NEW doc \in Docs, NEW req \in DeleteRoleRequests, CanDeleteRole(doc, req)
    PROVE  Registry!DeleteRoleContract(req, doc, DeleteRoleDoc(doc, req))
    <1> DEFINE new == SetRole(doc, req.role, NoRole)
    <1>1. req.role \in RoleNames
        BY DEF DeleteRoleRequests
    <1>2. /\ Registry!OnlyRoleChanges(req.role, doc, new)
          /\ new.users = doc.users
          /\ new.roles[req.role] = NoRole
        BY <1>1, SetRoleIsolated, SetRoleFacts
    <1> HIDE DEF new
    <1>3. \A u \in UserNames :
              Registry!HasUser(new, u) => req.role \notin new.users[u].roles
        BY <1>2 DEF Registry!HasUser, CanDeleteRole, RoleInUse, HasUser
    <1>4. Registry!HasCustomRole(doc, req.role) /\ ~Registry!RoleExists(new, req.role)
        BY <1>2 DEF CanDeleteRole, HasCustomRole, Registry!HasCustomRole,
                    Registry!RoleExists
    <1>5. DeleteRoleDoc(doc, req) = new
        BY DEF DeleteRoleDoc, new
    <1> QED BY <1>2, <1>3, <1>4, <1>5 DEF Registry!DeleteRoleContract

\* What CloneRole computes keeps the contract of CloneRole.
LEMMA CloneRoleKept ==
    ASSUME NEW doc \in Docs, NEW req \in CloneRoleRequests, CanCloneRole(doc, req)
    PROVE  Registry!CloneRoleContract(req, doc, CloneRoleDoc(doc, req))
    <1> DEFINE source == CloneSource(doc, req.source)
               role == [source EXCEPT !.name = req.role]
               new == SetRole(doc, req.role, role)
    <1>1. req.role \in RoleNames /\ req.source \in RoleNames
        BY DEF CloneRoleRequests
    <1>2. /\ source \in Roles
          /\ source.permissions =
                 IF HasCustomRole(doc, req.source) THEN doc.roles[req.source].permissions
                                                   ELSE SystemPermissions[req.source]
        <2>1. CASE HasCustomRole(doc, req.source)
            BY <1>1, <2>1 DEF CloneSource, HasCustomRole, Docs
        <2>2. CASE ~HasCustomRole(doc, req.source)
            <3>1. req.source \in SystemRoles
                BY <2>2 DEF CanCloneRole, RoleExists
            <3>2. SystemPermissions[req.source] \in SUBSET Permissions
                BY <3>1, PermissionsAssumption
            <3> QED BY <1>1, <2>2, <3>2 DEF CloneSource, SystemRole, Roles
        <2> QED BY <2>1, <2>2
    <1> HIDE DEF source
    <1>3. role \in Roles /\ role.permissions = source.permissions
        BY <1>1, <1>2 DEF Roles
    <1>4. role # NoRole
        BY <1>3, MissingAssumption
    <1>5. CloneRoleDoc(doc, req) = new
        BY DEF CloneRoleDoc, source
    <1> HIDE DEF role
    <1>6. /\ Registry!OnlyRoleChanges(req.role, doc, new)
          /\ new.roles[req.role] = role
        BY <1>1, <1>3, SetRoleIsolated, SetRoleFacts
    <1> HIDE DEF new
    <1>7. Registry!HasCustomRole(new, req.role) /\ Registry!RoleExists(doc, req.source)
        BY <1>4, <1>6 DEF CanCloneRole, RoleExists, HasCustomRole,
                          Registry!HasCustomRole, Registry!RoleExists
    <1> QED
        BY <1>2, <1>3, <1>5, <1>6, <1>7
        DEF Registry!CloneRoleContract, HasCustomRole, Registry!HasCustomRole

\* Every accepted request's document keeps the contract of that request.
LEMMA AcceptedKept ==
    ASSUME NEW doc \in Docs, NEW req, NEW new, Accepted(req, doc, new)
    PROVE  Registry!Contract(req, doc, new)
    <1> USE DEF Registry!Contract
    <1>1. CASE req \in CreateUserRequests /\ CanCreateUser(doc, req)
               /\ new = CreateUserDoc(doc, req)
        BY <1>1, CreateUserKept DEF CreateUserRequests, Registry!CreateUserRequests
    <1>2. CASE req \in UpdateUserRequests /\ CanUpdateUser(doc, req)
               /\ new = UpdateUserDoc(doc, req)
        BY <1>2, UpdateUserKept DEF UpdateUserRequests, Registry!UpdateUserRequests
    <1>3. CASE req \in DeleteUserRequests /\ new = DeleteUserDoc(doc, req)
        BY <1>3, DeleteUserKept DEF DeleteUserRequests, Registry!DeleteUserRequests
    <1>4. CASE req \in ChangePasswordRequests /\ CanChangePassword(doc, req)
               /\ new = ChangePasswordDoc(doc, req)
        BY <1>4, ChangePasswordKept
        DEF ChangePasswordRequests, Registry!ChangePasswordRequests
    <1>5. CASE req \in CreateRoleRequests /\ CanCreateRole(doc, req)
               /\ new = RoleDoc(doc, req)
        <2>1. req.role \notin SystemRoles /\ ~Registry!RoleExists(doc, req.role)
            BY <1>5 DEF CanCreateRole, RoleExists, HasCustomRole,
                        Registry!RoleExists, Registry!HasCustomRole
        <2>2. req \in Registry!CreateRoleRequests
            BY <1>5 DEF CreateRoleRequests, Registry!CreateRoleRequests
        <2> QED BY <1>5, <2>1, <2>2, RoleKept DEF Registry!CreateRoleContract
    <1>6. CASE req \in UpdateRoleRequests /\ CanUpdateRole(doc, req)
               /\ new = RoleDoc(doc, req)
        <2>1. req.role \notin SystemRoles /\ Registry!HasCustomRole(doc, req.role)
            BY <1>6 DEF CanUpdateRole, HasCustomRole, Registry!HasCustomRole
        <2>2. req \in Registry!UpdateRoleRequests
            BY <1>6 DEF UpdateRoleRequests, Registry!UpdateRoleRequests
        <2> QED BY <1>6, <2>1, <2>2, RoleKept DEF Registry!UpdateRoleContract
    <1>7. CASE req \in DeleteRoleRequests /\ CanDeleteRole(doc, req)
               /\ new = DeleteRoleDoc(doc, req)
        BY <1>7, DeleteRoleKept DEF DeleteRoleRequests, Registry!DeleteRoleRequests
    <1>8. CASE req \in CloneRoleRequests /\ CanCloneRole(doc, req)
               /\ new = CloneRoleDoc(doc, req)
        BY <1>8, CloneRoleKept DEF CloneRoleRequests, Registry!CloneRoleRequests
    <1> QED
        BY <1>1, <1>2, <1>3, <1>4, <1>5, <1>6, <1>7, <1>8 DEF Accepted

(***************************************************************************)
(* The steps of a lone replica, as steps of the registry.                  *)
(***************************************************************************)
\* A step of a lone replica is a step of the registry or none at all.
LEMMA RegistryStep ==
    ASSUME Alone, TypeOK, Coherent, [Next]_vars
    PROVE  [Registry!Next]_(Registry!vars)
    <1> PICK r0 : Replicas = {r0}
        BY DEF Alone
    <1>0. TheReplica = r0 /\ r0 \in Replicas
        BY DEF TheReplica
    <1> USE <1>0 DEF Registry!Next, Registry!vars
    <1>1. CASE UNCHANGED vars
        BY <1>1 DEF vars, Stored
    <1>2. CASE Submits(r0)
        <2>0. PICK req \in Requests :
                  \E new : Submit(r0, req, new) /\ Accepted(req, cache[r0], new)
            BY <1>2, SubmitsAccepted
        <2>1. PICK new : Submit(r0, req, new) /\ Accepted(req, cache[r0], new)
            BY <2>0
        <2>2. op[r0] = NoRequest /\ op'[r0] = req /\ result'[r0] = "none"
              /\ phase'[r0] = "store" /\ Stored' = Stored
            BY <2>1 DEF Submit, Coherent, TypeOK, Stored
        <2>3. req \in Registry!Requests
            BY DEF Requests, Registry!Requests, CreateUserRequests, UpdateUserRequests,
                   DeleteUserRequests, ChangePasswordRequests, CreateRoleRequests,
                   UpdateRoleRequests, DeleteRoleRequests, CloneRoleRequests,
                   Registry!CreateUserRequests, Registry!UpdateUserRequests,
                   Registry!DeleteUserRequests, Registry!ChangePasswordRequests,
                   Registry!CreateRoleRequests, Registry!UpdateRoleRequests,
                   Registry!DeleteRoleRequests, Registry!CloneRoleRequests
        <2> QED BY <2>2, <2>3 DEF Registry!Invoke
    <1>3. CASE MonApply(r0)
        <2>1. /\ phase[r0] = "store" /\ phase'[r0] = "stored"
              /\ op'[r0] = op[r0] /\ result'[r0] = result[r0]
              /\ op[r0] \in Requests
            BY <1>3 DEF MonApply, Coherent, TypeOK
        <2>2. Stored' = cache[r0] /\ cache[r0] \in Docs
            BY <1>3, DBAssumption DEF MonApply, Stored, TypeOK
        <2>3. Registry!Contract(op[r0], Stored, cache[r0])
            BY <2>1, AcceptedKept, StoredFacts DEF Coherent
        <2>4. op[r0] # NoRequest
            BY <2>1, DBAssumption
        <2>5. cache[r0] \in Registry!Docs
            BY <2>2 DEF Docs, Users, Roles, Hashes, Registry!Docs, Registry!Users,
                        Registry!Roles, Registry!Hashes
        <2> QED BY <2>1, <2>2, <2>3, <2>4, <2>5 DEF Registry!TakeEffect
    <1>4. CASE StoreOk(r0)
        <2>1. /\ phase[r0] = "stored" /\ phase'[r0] = "idle"
              /\ op[r0] # NoRequest /\ op'[r0] = NoRequest
              /\ result'[r0] = "ok" /\ Stored' = Stored
            BY <1>4, DBAssumption DEF StoreOk, Coherent, TypeOK, Stored
        <2> QED BY <2>1 DEF Registry!ReplyOk
    <1>5. CASE StoreLost(r0) \/ StoreAckLost(r0)
        <2>1. /\ phase'[r0] = "rollback"
              /\ op[r0] # NoRequest /\ op'[r0] = NoRequest
              /\ result'[r0] = "error" /\ Stored' = Stored
            BY <1>5, DBAssumption
            DEF StoreLost, StoreAckLost, StoreError, Coherent, TypeOK, Stored
        <2> QED BY <2>1 DEF Registry!ReplyError
    <1>6. CASE RollbackOk(r0)
        <2>1. /\ phase[r0] = "rollback" /\ phase'[r0] \in {"idle", "down"}
              /\ op'[r0] = op[r0] /\ result'[r0] = result[r0] /\ Stored' = Stored
            BY <1>6 DEF RollbackOk, Unlock, TypeOK, Stored
        <2> QED BY <2>1
    <1>7. CASE Load(r0)
        <2>1. /\ phase[r0] = "down" /\ phase'[r0] = "idle"
              /\ op'[r0] = op[r0] /\ result'[r0] = result[r0] /\ Stored' = Stored
            BY <1>7 DEF Load, TypeOK, Stored
        <2> QED BY <2>1
    <1>8. CASE BootRefused(r0) \/ Crash(r0)
        <2>1. /\ phase'[r0] = "down" /\ op'[r0] = NoRequest
              /\ result'[r0] = result[r0] /\ Stored' = Stored
            BY <1>8 DEF BootRefused, Crash, Stop, TypeOK, Stored
        <2>2. CASE op[r0] = NoRequest
            <3>1. phase[r0] # "stored"
                BY <2>2, DBAssumption DEF Coherent
            <3> QED BY <2>1, <2>2, <3>1
        <2>3. CASE op[r0] # NoRequest
            BY <2>1, <2>3 DEF Registry!Abandon
        <2> QED BY <2>2, <2>3
    <1> QED
        BY <1>1, <1>2, <1>3, <1>4, <1>5, <1>6, <1>7, <1>8, NextSteps
        DEF Alone, Coherent, StoreTimeout, RollbackFail, MonApplyLate

\* A lone replica keeps the promise of AccessRegistry: each request takes effect
\* at most once, as its contract says, and an acknowledged one is stored.
THEOREM AloneImplementsRegistry ==
    ASSUME Alone
    PROVE  Spec => ImplementsRegistry
    <1>1. Init => Registry!Init
        <2> SUFFICES ASSUME Init PROVE Registry!Init
            OBVIOUS
        <2>1. TheReplica \in Replicas
            BY DEF Alone, TheReplica
        <2>2. Stored \in InitialDocs \cup {EmptyDoc}
            BY DEF Init, Stored
        <2>3. EmptyDoc = Registry!EmptyDoc
            BY DEF EmptyDoc, Registry!EmptyDoc
        <2> QED BY <2>1, <2>2, <2>3 DEF Init, Registry!Init
    <1>2. TypeOK /\ Coherent /\ [Next]_vars => [Registry!Next]_(Registry!vars)
        BY RegistryStep
    <1> QED
        BY <1>1, <1>2, TypeCorrect, AlwaysCoherent, PTL
        DEF Spec, ImplementsRegistry, Registry!Spec

(***************************************************************************)
(* Who leaves.  The run rollback_fails shows a request to create a user    *)
(* emptying the document of a lone replica whose rollback could not load   *)
(* it.  With that load ruled out it cannot happen.                         *)
(***************************************************************************)
\* Of all requests only DeleteUser takes a user away, and only the one it names.
LEMMA OnlyDeleteTakesAway ==
    ASSUME NEW doc \in Docs, NEW req, NEW new, Accepted(req, doc, new),
           NEW u \in UserNames, HasUser(doc, u), ~HasUser(new, u)
    PROVE  req \in DeleteUserRequests /\ req.user = u
    <1>1. Registry!Contract(req, doc, new)
        BY AcceptedKept
    <1>2. ASSUME NEW name, Registry!OnlyUserChanges(name, doc, new)
          PROVE  name = u
        BY <1>2 DEF Registry!OnlyUserChanges, HasUser
    <1>3. ASSUME NEW name PROVE ~Registry!OnlyRoleChanges(name, doc, new)
        BY DEF Registry!OnlyRoleChanges, HasUser
    <1>4. ~Registry!HasUser(new, u)
        BY DEF HasUser, Registry!HasUser
    <1>5. Registry!DeleteUserRequests = DeleteUserRequests
        BY DEF DeleteUserRequests, Registry!DeleteUserRequests
    <1> QED
        BY <1>1, <1>2, <1>3, <1>4, <1>5
        DEF Registry!Contract, Registry!CreateUserContract, Registry!UpdateUserContract,
            Registry!DeleteUserContract, Registry!ChangePasswordContract,
            Registry!CreateRoleContract, Registry!UpdateRoleContract,
            Registry!DeleteRoleContract, Registry!CloneRoleContract

\* From the document of a lone replica whose rollbacks get through, a user goes
\* only by a request to delete that user, whatever else fails, and however often
\* the process dies.
THEOREM AloneOnlyDeletedGo ==
    ASSUME Alone
    PROVE  Spec => OnlyDeletedUsersGo
    <1> DEFINE Goes == \A u \in UserNames :
                   HasUser(Stored, u) /\ ~HasUser(Stored', u) =>
                       \E r \in Replicas :
                           op[r] \in DeleteUserRequests /\ op[r].user = u
    <1>1. TypeOK /\ Coherent /\ [Next]_vars => [Goes]_vars
        <2> SUFFICES ASSUME TypeOK, Coherent, Next,
                            NEW u \in UserNames,
                            HasUser(Stored, u), ~HasUser(Stored', u)
                     PROVE  \E r \in Replicas :
                                op[r] \in DeleteUserRequests /\ op[r].user = u
            OBVIOUS
        <2>1. db' # db
            BY DEF Stored
        <2>2. ~MonApplyLate
            BY DEF MonApplyLate, Coherent
        <2>3. PICK r \in Replicas : MonApply(r)
            BY <2>1, <2>2, NextSteps, SubmitsAccepted
            DEF Submit, StoreOk, StoreLost, StoreAckLost, StoreTimeout, StoreError,
                RollbackOk, RollbackFail, Unlock, Load, BootRefused, Crash, Stop
        <2>4. Stored' = cache[r] /\ Accepted(op[r], Stored, cache[r]) /\ Stored \in Docs
            BY <2>3, DBAssumption, StoredFacts DEF MonApply, Coherent, TypeOK, Stored
        <2> QED BY <2>4, OnlyDeleteTakesAway
    <1> QED BY <1>1, TypeCorrect, AlwaysCoherent, PTL DEF Spec, OnlyDeletedUsersGo

(***************************************************************************)
(* The built-in roles.  The run clone_role shows a clone adding to one.    *)
(* There is no other way: while nobody clones onto a built-in name, what   *)
(* such a role grants stays as it is, with any replicas and any faults.    *)
(***************************************************************************)
NoneUnderBuiltIn(doc) == \A n \in SystemRoles : ~HasCustomRole(doc, n)

ClonesOntoBuiltIn(r) == op'[r] \in CloneRoleRequests /\ op'[r].role \in SystemRoles

BuiltInsAlone ==
    /\ NoneUnderBuiltIn(Stored)
    /\ \A doc \in late : NoneUnderBuiltIn(doc)
    /\ \A r \in Replicas : NoneUnderBuiltIn(cache[r])

\* No accepted request files a role under a built-in name, CloneRole excepted.
LEMMA OnlyCloneFilesBuiltIn ==
    ASSUME NEW doc \in Docs, NEW req, NEW new, Accepted(req, doc, new),
           NoneUnderBuiltIn(doc),
           ~(req \in CloneRoleRequests /\ req.role \in SystemRoles)
    PROVE  NoneUnderBuiltIn(new)
    <1>1. Registry!Contract(req, doc, new)
        BY AcceptedKept
    <1>2. SystemRoles \subseteq RoleNames
        BY NamesAssumption
    <1>3. ASSUME NEW name, Registry!OnlyUserChanges(name, doc, new)
          PROVE  NoneUnderBuiltIn(new)
        BY <1>3 DEF Registry!OnlyUserChanges, NoneUnderBuiltIn, HasCustomRole
    <1>4. ASSUME NEW name, Registry!OnlyRoleChanges(name, doc, new), name \notin SystemRoles
          PROVE  NoneUnderBuiltIn(new)
        BY <1>2, <1>4 DEF Registry!OnlyRoleChanges, NoneUnderBuiltIn, HasCustomRole
    <1>5. ASSUME NEW name \in SystemRoles PROVE Registry!RoleExists(doc, name)
        BY DEF Registry!RoleExists
    <1>6. ASSUME NEW name \in SystemRoles PROVE ~Registry!HasCustomRole(doc, name)
        BY DEF Registry!HasCustomRole, NoneUnderBuiltIn, HasCustomRole
    <1>7. Registry!CloneRoleRequests = CloneRoleRequests
        BY DEF CloneRoleRequests, Registry!CloneRoleRequests
    <1> QED
        BY <1>1, <1>3, <1>4, <1>5, <1>6, <1>7
        DEF Registry!Contract, Registry!CreateUserContract, Registry!UpdateUserContract,
            Registry!DeleteUserContract, Registry!ChangePasswordContract,
            Registry!CreateRoleContract, Registry!UpdateRoleContract,
            Registry!DeleteRoleContract, Registry!CloneRoleContract

\* A step without such a clone leaves every document without a role under a
\* built-in name.
LEMMA BuiltInsAloneStep ==
    ASSUME TypeOK, BuiltInsAlone, [Next]_vars,
           \A r \in Replicas : Submits(r) => ~ClonesOntoBuiltIn(r)
    PROVE  BuiltInsAlone'
    <1>0. NoneUnderBuiltIn(EmptyDoc)
        BY NamesAssumption DEF NoneUnderBuiltIn, EmptyDoc, HasCustomRole
    <1> USE <1>0 DEF BuiltInsAlone
    <1>1. CASE UNCHANGED vars
        BY <1>1 DEF vars, Stored
    <1>2. ASSUME NEW r \in Replicas, Submits(r)
          PROVE  BuiltInsAlone'
        <2>0. PICK req \in Requests :
                  \E new : Submit(r, req, new) /\ Accepted(req, cache[r], new)
            BY <1>2, SubmitsAccepted
        <2>1. PICK new : Submit(r, req, new) /\ Accepted(req, cache[r], new)
            BY <2>0
        <2>2. op'[r] = req
            BY <2>1 DEF Submit, TypeOK
        <2>3. NoneUnderBuiltIn(new)
            BY <1>2, <2>1, <2>2, OnlyCloneFilesBuiltIn DEF ClonesOntoBuiltIn, TypeOK
        <2> QED BY <2>1, <2>3 DEF Submit, TypeOK, Stored
    <1>3. ASSUME NEW r \in Replicas, MonApply(r)
          PROVE  BuiltInsAlone'
        BY <1>3 DEF MonApply, TypeOK, Stored
    <1>4. ASSUME NEW r \in Replicas,
                 StoreOk(r) \/ StoreLost(r) \/ StoreAckLost(r) \/ StoreTimeout(r)
          PROVE  BuiltInsAlone'
        BY <1>4 DEF StoreOk, StoreLost, StoreAckLost, StoreTimeout, StoreError, TypeOK, Stored
    <1>5. ASSUME NEW r \in Replicas, RollbackOk(r) \/ RollbackFail(r) \/ Load(r)
          PROVE  BuiltInsAlone'
        BY <1>5 DEF RollbackOk, RollbackFail, Unlock, Load, TypeOK, Stored
    <1>6. ASSUME NEW r \in Replicas, BootRefused(r) \/ Crash(r)
          PROVE  BuiltInsAlone'
        BY <1>6 DEF BootRefused, Crash, Stop, TypeOK, Stored
    <1>7. CASE MonApplyLate
        BY <1>7 DEF MonApplyLate, TypeOK, Stored
    <1> QED
        BY <1>1, <1>2, <1>3, <1>4, <1>5, <1>6, <1>7, NextSteps

\* While nobody clones onto a built-in name, and none of the documents found at
\* the first start has a role there, every built-in role grants in every replica
\* what it is built with, whatever fails.
THEOREM OnlyClonesChangeBuiltIns ==
    ASSUME \A doc \in InitialDocs : NoneUnderBuiltIn(doc)
    PROVE  Spec /\ [][\A r \in Replicas : ~ClonesOntoBuiltIn(r)]_vars
               => []SystemRolesCannotChange
    <1>1. Init => BuiltInsAlone
        <2>1. NoneUnderBuiltIn(EmptyDoc)
            BY NamesAssumption DEF NoneUnderBuiltIn, EmptyDoc, HasCustomRole
        <2> QED BY <2>1 DEF Init, BuiltInsAlone, Stored
    <1>2. TypeOK /\ BuiltInsAlone /\ [Next]_vars
              /\ [\A r \in Replicas : ~ClonesOntoBuiltIn(r)]_vars => BuiltInsAlone'
        <2>1. ASSUME UNCHANGED vars, BuiltInsAlone PROVE BuiltInsAlone'
            BY <2>1 DEF vars, BuiltInsAlone, Stored
        <2> QED BY <2>1, BuiltInsAloneStep
    <1>3. BuiltInsAlone => SystemRolesCannotChange
        BY DEF BuiltInsAlone, NoneUnderBuiltIn, SystemRolesCannotChange, RoleGrants
    <1> QED BY <1>1, <1>2, <1>3, TypeCorrect, PTL DEF Spec
==============================================================================
