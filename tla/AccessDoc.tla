------------------------------ MODULE AccessDoc ------------------------------
(***************************************************************************)
(* The access-control document of ceph-api (pkg/user): users and custom    *)
(* roles, kept as one JSON document under the mon config-key               *)
(* mgr/dashboard/accessdb_v2 and cached in user.Service.  This module has  *)
(* the document, the requests that change it, the conditions under which   *)
(* user.Service accepts a request, and the document it computes.           *)
(*                                                                         *)
(* The Go maps are total functions with a "missing" value: m[k] = NoUser   *)
(* (NoRole) means that k is not a key of the map.                          *)
(***************************************************************************)
CONSTANTS
    UserNames,         \* usernames a request may carry
    RoleNames,         \* role names a request may carry, system roles included
    SystemRoles,       \* the names of the built-in roles
    EmptyName,         \* the empty string as a user or role name
    Passwords,         \* clear-text passwords a request may carry
    EmptyPassword,     \* the empty string as a password
    TooLong,           \* passwords of more than 72 bytes: bcrypt refuses them
    Permissions,       \* (scope, permission) pairs a request may carry
    KnownPermissions,  \* the pairs built from scopeSet and permissionSet
    SystemPermissions, \* the pairs each built-in role grants
    Profiles,          \* the fields of a user that no rule looks at
    Expirations,       \* values of pwdExpirationDate, "none" included
    InitialDocs,       \* documents an earlier server or the Ceph dashboard left
    NoUser,            \* no entry in the users map
    NoRole             \* no entry in the roles map

Hashes == [hashOf : Passwords]

Users == [roles : SUBSET RoleNames, password : Hashes,
          profile : Profiles, expires : Expirations]

Roles == [name : RoleNames, system : BOOLEAN, permissions : SUBSET Permissions]

Docs == [users : [UserNames -> Users \cup {NoUser}],
         roles : [RoleNames -> Roles \cup {NoRole}]]

ASSUME NamesAssumption ==
    /\ SystemRoles \subseteq RoleNames
    /\ EmptyName \notin SystemRoles
    /\ EmptyPassword \in Passwords \ TooLong

ASSUME PermissionsAssumption ==
    /\ KnownPermissions \subseteq Permissions
    /\ SystemPermissions \in [SystemRoles -> SUBSET Permissions]

ASSUME MissingAssumption ==
    /\ NoUser \notin Users
    /\ NoRole \notin Roles

EmptyDoc == [users |-> [u \in UserNames |-> NoUser],
             roles |-> [r \in RoleNames |-> NoRole]]

(***************************************************************************)
(* bcrypt.  Two hashes of one password differ in their salt, but whoever   *)
(* compares a hash with a password learns only which password it is of.    *)
(***************************************************************************)
Hash(password) == [hashOf |-> password]
Hashable(password) == password \notin TooLong
Matches(hash, password) == hash.hashOf = password

(***************************************************************************)
(* Lookups: the built-in roles are not part of the document.               *)
(***************************************************************************)
HasUser(doc, name) == doc.users[name] # NoUser
HasCustomRole(doc, name) == doc.roles[name] # NoRole
RoleExists(doc, name) == name \in SystemRoles \/ HasCustomRole(doc, name)

SystemRole(name) ==
    [name |-> name, system |-> TRUE, permissions |-> SystemPermissions[name]]

GetRole(doc, name) ==
    IF name \in SystemRoles THEN SystemRole(name) ELSE doc.roles[name]

\* What one role of a user contributes to the user's permissions.
RoleGrants(doc, name) ==
    (IF HasCustomRole(doc, name) THEN doc.roles[name].permissions ELSE {})
        \cup (IF name \in SystemRoles THEN SystemPermissions[name] ELSE {})

GetPermissions(doc, name) ==
    IF HasUser(doc, name)
    THEN UNION {RoleGrants(doc, r) : r \in doc.users[name].roles}
    ELSE {}

(***************************************************************************)
(* The requests.  A role a request carries is never a system role: the     *)
(* API handlers build it with IsSystem = false.                            *)
(***************************************************************************)
CreateUserRequests ==
    [kind : {"CreateUser"}, user : UserNames, roles : SUBSET RoleNames,
     password : Passwords, profile : Profiles, expires : Expirations]
UpdateUserRequests ==
    [kind : {"UpdateUser"}, user : UserNames, roles : SUBSET RoleNames,
     password : Passwords, profile : Profiles, expires : Expirations]
DeleteUserRequests == [kind : {"DeleteUser"}, user : UserNames]
ChangePasswordRequests ==
    [kind : {"ChangePassword"}, user : UserNames, old : Passwords, new : Passwords]
CreateRoleRequests ==
    [kind : {"CreateRole"}, role : RoleNames, permissions : SUBSET Permissions]
UpdateRoleRequests ==
    [kind : {"UpdateRole"}, role : RoleNames, permissions : SUBSET Permissions]
DeleteRoleRequests == [kind : {"DeleteRole"}, role : RoleNames]
CloneRoleRequests == [kind : {"CloneRole"}, source : RoleNames, role : RoleNames]

Requests ==
    CreateUserRequests \cup UpdateUserRequests \cup DeleteUserRequests
        \cup ChangePasswordRequests \cup CreateRoleRequests
        \cup UpdateRoleRequests \cup DeleteRoleRequests \cup CloneRoleRequests

(***************************************************************************)
(* When user.Service accepts a request (its early returns, in the          *)
(* negative), and the document it then stores.                             *)
(***************************************************************************)
SetUser(doc, name, user) == [doc EXCEPT !.users[name] = user]
SetRole(doc, name, role) == [doc EXCEPT !.roles[name] = role]

ValidUseRoles(doc, names) == \A r \in names : RoleExists(doc, r)

ValidRole(name, permissions) ==
    name # EmptyName /\ permissions \subseteq KnownPermissions

CanCreateUser(doc, req) ==
    /\ req.user # EmptyName
    /\ req.password # EmptyPassword
    /\ ~HasUser(doc, req.user)
    /\ ValidUseRoles(doc, req.roles)
    /\ Hashable(req.password)

CreateUserDoc(doc, req) ==
    SetUser(doc, req.user,
            [roles |-> req.roles, password |-> Hash(req.password),
             profile |-> req.profile, expires |-> req.expires])

CanUpdateUser(doc, req) ==
    /\ HasUser(doc, req.user)
    /\ ValidUseRoles(doc, req.roles)
    /\ Hashable(req.password)

\* Faulty variant: the empty password is hashed like any other.
UpdateUserAlwaysHashes(doc, req) ==
    SetUser(doc, req.user,
            [roles |-> req.roles, password |-> Hash(req.password),
             profile |-> req.profile, expires |-> req.expires])

\* An empty password keeps the hash and its expiration date.
UpdateUserDoc(doc, req) ==
    LET prev == doc.users[req.user]
        keep == req.password = EmptyPassword
    IN  SetUser(doc, req.user,
                [roles |-> req.roles,
                 password |-> IF keep THEN prev.password ELSE Hash(req.password),
                 profile |-> req.profile,
                 expires |-> IF keep THEN prev.expires ELSE req.expires])

\* Deleting a user that does not exist is accepted, and stores the document.
DeleteUserDoc(doc, req) == SetUser(doc, req.user, NoUser)

CanChangePassword(doc, req) ==
    /\ HasUser(doc, req.user)
    /\ Matches(doc.users[req.user].password, req.old)
    /\ Hashable(req.new)

\* Faulty variant: the new password is not hashed.
ChangePasswordClearText(doc, req) ==
    SetUser(doc, req.user, [doc.users[req.user] EXCEPT !.password = req.new])

ChangePasswordDoc(doc, req) ==
    SetUser(doc, req.user,
            [doc.users[req.user] EXCEPT !.password = Hash(req.new)])

CanCreateRole(doc, req) ==
    /\ ~RoleExists(doc, req.role)
    /\ ValidRole(req.role, req.permissions)

RoleDoc(doc, req) ==
    SetRole(doc, req.role,
            [name |-> req.role, system |-> FALSE, permissions |-> req.permissions])

CanUpdateRole(doc, req) ==
    /\ req.role \notin SystemRoles
    /\ HasCustomRole(doc, req.role)
    /\ ValidRole(req.role, req.permissions)

RoleInUse(doc, name) ==
    \E u \in UserNames : HasUser(doc, u) /\ name \in doc.users[u].roles

\* Faulty variant: nobody looks whether the role is in use.
CanDeleteUsedRole(doc, req) ==
    /\ req.role \notin SystemRoles
    /\ HasCustomRole(doc, req.role)

CanDeleteRole(doc, req) ==
    /\ req.role \notin SystemRoles
    /\ HasCustomRole(doc, req.role)
    /\ ~RoleInUse(doc, req.role)

DeleteRoleDoc(doc, req) == SetRole(doc, req.role, NoRole)

\* The name of the copy is not looked at: it may be taken, built-in or empty.
CanCloneRole(doc, req) == RoleExists(doc, req.source)

\* Faulty variant: the copy of a built-in role stays marked as built-in.
CloneSourceStaysSystem(doc, name) ==
    IF HasCustomRole(doc, name) THEN doc.roles[name] ELSE SystemRole(name)

\* A custom role is looked up before a built-in one of the same name.
CloneSource(doc, name) ==
    IF HasCustomRole(doc, name)
    THEN doc.roles[name]
    ELSE [SystemRole(name) EXCEPT !.system = FALSE]

CloneRoleDoc(doc, req) ==
    SetRole(doc, req.role, [CloneSource(doc, req.source) EXCEPT !.name = req.role])

(***************************************************************************)
(* What makes a document fit for use.  The rest of the service relies on   *)
(* it: permissions are computed by looking up a user's roles by name, and  *)
(* ListRoles reports a role under the name in its record.                  *)
(***************************************************************************)
RolesResolve(doc) ==
    \A u \in UserNames : HasUser(doc, u) => ValidUseRoles(doc, doc.users[u].roles)

RolesFiled(doc) ==
    \A r \in RoleNames :
        HasCustomRole(doc, r) => doc.roles[r].name = r /\ ~doc.roles[r].system

WellFormed(doc) == RolesResolve(doc) /\ RolesFiled(doc)

ASSUME InitialAssumption == \A doc \in InitialDocs : doc \in Docs /\ WellFormed(doc)
==============================================================================
