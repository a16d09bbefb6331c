---------------------------- MODULE AccessRegistry ----------------------------
(***************************************************************************)
(* What the access database promises to its callers, with no word about    *)
(* caches, the monitor or rollbacks.  There is one document.  A caller's   *)
(* request takes effect at most once, atomically, between its invocation   *)
(* and its reply; it has taken effect if the reply is "ok"; and it does    *)
(* to the document what its contract says and nothing else.                *)
(*                                                                         *)
(* The contracts say what a request means to a caller.  They do not use    *)
(* the document operators the service is modelled with.                    *)
(***************************************************************************)
EXTENDS AccessDoc

CONSTANT NoRequest

VARIABLES
    doc,      \* the document
    pending,  \* the request under way, or NoRequest
    done,     \* whether the request under way has taken effect
    result    \* the reply to the last request: "none", "ok" or "error"

vars == <<doc, pending, done, result>>

TypeOK ==
    /\ doc \in Docs
    /\ pending \in Requests \cup {NoRequest}
    /\ done \in BOOLEAN
    /\ result \in {"none", "ok", "error"}

(***************************************************************************)
(* Contracts: how the documents before and after a request are related.    *)
(***************************************************************************)
OnlyUserChanges(name, d, e) ==
    /\ e.roles = d.roles
    /\ \A u \in UserNames \ {name} : e.users[u] = d.users[u]

OnlyRoleChanges(name, d, e) ==
    /\ e.users = d.users
    /\ \A r \in RoleNames \ {name} : e.roles[r] = d.roles[r]

\* A new user can log in with the given password and no other.
CreateUserContract(req, d, e) ==
    /\ OnlyUserChanges(req.user, d, e)
    /\ ~HasUser(d, req.user)
    /\ HasUser(e, req.user)
    /\ \A p \in Passwords : Matches(e.users[req.user].password, p) <=> p = req.password
    /\ e.users[req.user].roles = req.roles
    /\ e.users[req.user].profile = req.profile
    /\ e.users[req.user].expires = req.expires
    /\ \A r \in req.roles : RoleExists(e, r)

\* An update without a password keeps the old one, and how long it is valid.
UpdateUserContract(req, d, e) ==
    LET keep == req.password = EmptyPassword
    IN  /\ OnlyUserChanges(req.user, d, e)
        /\ HasUser(d, req.user)
        /\ HasUser(e, req.user)
        /\ \A p \in Passwords :
               Matches(e.users[req.user].password, p) <=>
                   IF keep THEN Matches(d.users[req.user].password, p)
                           ELSE p = req.password
        /\ e.users[req.user].roles = req.roles
        /\ e.users[req.user].profile = req.profile
        /\ e.users[req.user].expires =
               IF keep THEN d.users[req.user].expires ELSE req.expires
        /\ \A r \in req.roles : RoleExists(e, r)

DeleteUserContract(req, d, e) ==
    /\ OnlyUserChanges(req.user, d, e)
    /\ ~HasUser(e, req.user)

\* Only who knows the old password changes it, and nothing else changes.
ChangePasswordContract(req, d, e) ==
    /\ OnlyUserChanges(req.user, d, e)
    /\ HasUser(d, req.user)
    /\ HasUser(e, req.user)
    /\ Matches(d.users[req.user].password, req.old)
    /\ \A p \in Passwords : Matches(e.users[req.user].password, p) <=> p = req.new
    /\ e.users[req.user].roles = d.users[req.user].roles
    /\ e.users[req.user].profile = d.users[req.user].profile
    /\ e.users[req.user].expires = d.users[req.user].expires

CreateRoleContract(req, d, e) ==
    /\ OnlyRoleChanges(req.role, d, e)
    /\ ~RoleExists(d, req.role)
    /\ HasCustomRole(e, req.role)
    /\ GetRole(e, req.role).permissions = req.permissions

UpdateRoleContract(req, d, e) ==
    /\ OnlyRoleChanges(req.role, d, e)
    /\ HasCustomRole(d, req.role)
    /\ HasCustomRole(e, req.role)
    /\ GetRole(e, req.role).permissions = req.permissions

\* A role goes only when nobody has it, and then it is really gone.
DeleteRoleContract(req, d, e) ==
    /\ OnlyRoleChanges(req.role, d, e)
    /\ HasCustomRole(d, req.role)
    /\ ~RoleExists(e, req.role)
    /\ \A u \in UserNames : HasUser(e, u) => req.role \notin e.users[u].roles

\* The copy grants what looking up the source in the document grants.
CloneRoleContract(req, d, e) ==
    /\ OnlyRoleChanges(req.role, d, e)
    /\ RoleExists(d, req.source)
    /\ HasCustomRole(e, req.role)
    /\ e.roles[req.role].permissions =
           IF HasCustomRole(d, req.source) THEN d.roles[req.source].permissions
                                           ELSE SystemPermissions[req.source]

Contract(req, d, e) ==
    \/ req \in CreateUserRequests     /\ CreateUserContract(req, d, e)
    \/ req \in UpdateUserRequests     /\ UpdateUserContract(req, d, e)
    \/ req \in DeleteUserRequests     /\ DeleteUserContract(req, d, e)
    \/ req \in ChangePasswordRequests /\ ChangePasswordContract(req, d, e)
    \/ req \in CreateRoleRequests     /\ CreateRoleContract(req, d, e)
    \/ req \in UpdateRoleRequests     /\ UpdateRoleContract(req, d, e)
    \/ req \in DeleteRoleRequests     /\ DeleteRoleContract(req, d, e)
    \/ req \in CloneRoleRequests      /\ CloneRoleContract(req, d, e)

(***************************************************************************)
(* Behaviour.                                                              *)
(***************************************************************************)
Init ==
    /\ doc \in InitialDocs \cup {EmptyDoc}
    /\ pending = NoRequest
    /\ done = FALSE
    /\ result = "none"

Invoke ==
    /\ pending = NoRequest
    /\ pending' \in Requests
    /\ done' = FALSE
    /\ result' = "none"
    /\ UNCHANGED doc

TakeEffect ==
    /\ pending # NoRequest
    /\ ~done
    /\ doc' \in Docs
    /\ Contract(pending, doc, doc')
    /\ done' = TRUE
    /\ UNCHANGED <<pending, result>>

ReplyOk ==
    /\ pending # NoRequest
    /\ done
    /\ pending' = NoRequest
    /\ done' = FALSE
    /\ result' = "ok"
    /\ UNCHANGED doc

\* An error says nothing about whether the request took effect.
ReplyError ==
    /\ pending # NoRequest
    /\ pending' = NoRequest
    /\ done' = FALSE
    /\ result' = "error"
    /\ UNCHANGED doc

\* The service dies with the request and never replies.
Abandon ==
    /\ pending # NoRequest
    /\ pending' = NoRequest
    /\ done' = FALSE
    /\ UNCHANGED <<doc, result>>

Next == Invoke \/ TakeEffect \/ ReplyOk \/ ReplyError \/ Abandon

Spec == Init /\ [][Next]_vars
==============================================================================
