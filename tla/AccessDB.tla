------------------------------- MODULE AccessDB -------------------------------
(***************************************************************************)
(* user.Service (pkg/user/service.go) in front of the monitor's config-key *)
(* store.  Every replica of the server caches the whole document.  A       *)
(* request that changes it takes the write lock, checks the request        *)
(* against the cache, changes the cache, stores the whole cache under one  *)
(* key, and if that fails reloads the cache; the lock is held until the    *)
(* reply.  The lock is modelled by phase: only an "idle" replica accepts a *)
(* request or lets a reader see its cache.                                 *)
(*                                                                         *)
(* A request the service refuses changes nothing and needs no action.      *)
(***************************************************************************)
EXTENDS AccessDoc, FiniteSets, Naturals

CONSTANTS
    Replicas,       \* server processes that share the key
    NoDoc,          \* the key does not exist
    NoRequest,
    CreateAdmin,    \* app.createAdmin
    AdminRequest,   \* the request that creates the administrator at startup
    Faults,         \* what can go wrong, a subset of FaultKinds
    MaxLate         \* bound: stores that timed out and may still be applied

\* lost: a store fails and is not applied.  ackLost: it is applied, and fails.
\* late: it fails, and is applied later.  getFail: a load fails.
\* crash: a process dies.
FaultKinds == {"lost", "ackLost", "late", "getFail", "crash"}

ASSUME DBAssumption ==
    /\ NoDoc \notin Docs
    /\ NoRequest \notin Requests
    /\ CreateAdmin \in BOOLEAN
    /\ AdminRequest \in CreateUserRequests
    /\ AdminRequest.roles \subseteq SystemRoles
    /\ Faults \subseteq FaultKinds
    /\ MaxLate \in Nat

VARIABLES
    db,       \* the document under the key, or NoDoc
    late,     \* documents of timed-out stores the monitor may still apply
    cache,    \* Service.users and Service.roles of each replica
    phase,    \* where each replica is in its request
    op,       \* the request under way at each replica, or NoRequest
    result,   \* the error each replica returns or has returned last
    serving   \* whether the replica has finished app.Start

vars == <<db, late, cache, phase, op, result, serving>>

Stored == IF db = NoDoc THEN EmptyDoc ELSE db

\* down: not running.  idle: the lock is free.  store: the store command is
\* sent.  stored: the monitor has applied it.  rollback: it has failed.
Phases == {"down", "idle", "store", "stored", "rollback"}

TypeOK ==
    /\ db \in Docs \cup {NoDoc}
    /\ late \subseteq Docs
    /\ cache \in [Replicas -> Docs]
    /\ phase \in [Replicas -> Phases]
    /\ op \in [Replicas -> Requests \cup {NoRequest}]
    /\ result \in [Replicas -> {"none", "ok", "error"}]
    /\ serving \in [Replicas -> BOOLEAN]

Init ==
    /\ db \in InitialDocs \cup {NoDoc}
    /\ late = {}
    /\ cache = [r \in Replicas |-> EmptyDoc]
    /\ phase = [r \in Replicas |-> "down"]
    /\ op = [r \in Replicas |-> NoRequest]
    /\ result = [r \in Replicas |-> "none"]
    /\ serving = [r \in Replicas |-> FALSE]

(***************************************************************************)
(* The handlers.  Submit is what they share: change the cache, marshal it  *)
(* and send it; doc is the changed document.                               *)
(***************************************************************************)
Submit(r, req, doc) ==
    /\ phase[r] = "idle"
    /\ phase' = [phase EXCEPT ![r] = "store"]
    /\ cache' = [cache EXCEPT ![r] = doc]
    /\ op' = [op EXCEPT ![r] = req]
    /\ result' = [result EXCEPT ![r] = "none"]
    /\ UNCHANGED <<db, late, serving>>

CreateUser(r) ==
    /\ serving[r]
    /\ \E req \in CreateUserRequests :
           /\ CanCreateUser(cache[r], req)
           /\ Submit(r, req, CreateUserDoc(cache[r], req))

UpdateUser(r) ==
    /\ serving[r]
    /\ \E req \in UpdateUserRequests :
           /\ CanUpdateUser(cache[r], req)
           /\ Submit(r, req, UpdateUserDoc(cache[r], req))

DeleteUser(r) ==
    /\ serving[r]
    /\ \E req \in DeleteUserRequests : Submit(r, req, DeleteUserDoc(cache[r], req))

ChangePassword(r) ==
    /\ serving[r]
    /\ \E req \in ChangePasswordRequests :
           /\ CanChangePassword(cache[r], req)
           /\ Submit(r, req, ChangePasswordDoc(cache[r], req))

CreateRole(r) ==
    /\ serving[r]
    /\ \E req \in CreateRoleRequests :
           /\ CanCreateRole(cache[r], req)
           /\ Submit(r, req, RoleDoc(cache[r], req))

UpdateRole(r) ==
    /\ serving[r]
    /\ \E req \in UpdateRoleRequests :
           /\ CanUpdateRole(cache[r], req)
           /\ Submit(r, req, RoleDoc(cache[r], req))

DeleteRole(r) ==
    /\ serving[r]
    /\ \E req \in DeleteRoleRequests :
           /\ CanDeleteRole(cache[r], req)
           /\ Submit(r, req, DeleteRoleDoc(cache[r], req))

CloneRole(r) ==
    /\ serving[r]
    /\ \E req \in CloneRoleRequests :
           /\ CanCloneRole(cache[r], req)
           /\ Submit(r, req, CloneRoleDoc(cache[r], req))

(***************************************************************************)
(* The store command and its reply.                                        *)
(***************************************************************************)
\* The monitor applies the command (storeToDB is waiting for its reply).
MonApply(r) ==
    /\ phase[r] = "store"
    /\ phase' = [phase EXCEPT ![r] = "stored"]
    /\ db' = cache[r]
    /\ UNCHANGED <<late, cache, op, result, serving>>

\* storeToDB returns nil; so does the handler, and app.Start goes on.
StoreOk(r) ==
    /\ phase[r] = "stored"
    /\ phase' = [phase EXCEPT ![r] = "idle"]
    /\ op' = [op EXCEPT ![r] = NoRequest]
    /\ result' = [result EXCEPT ![r] = "ok"]
    /\ serving' = [serving EXCEPT ![r] = TRUE]
    /\ UNCHANGED <<db, late, cache>>

\* Faulty variant: the error is returned without a rollback.
StoreErrorSkipsRollback(r) ==
    /\ phase' = [phase EXCEPT ![r] = "idle"]
    /\ op' = [op EXCEPT ![r] = NoRequest]
    /\ result' = [result EXCEPT ![r] = "error"]
    /\ UNCHANGED <<db, cache, serving>>

\* Faulty variant: the rollback does not begin by emptying the maps.
StoreErrorKeepsCache(r) ==
    /\ phase' = [phase EXCEPT ![r] = "rollback"]
    /\ op' = [op EXCEPT ![r] = NoRequest]
    /\ result' = [result EXCEPT ![r] = "error"]
    /\ UNCHANGED <<db, cache, serving>>

\* storeToDB returns an error, and updateFromDB begins by emptying the maps.
StoreError(r) ==
    /\ phase' = [phase EXCEPT ![r] = "rollback"]
    /\ cache' = [cache EXCEPT ![r] = EmptyDoc]
    /\ op' = [op EXCEPT ![r] = NoRequest]
    /\ result' = [result EXCEPT ![r] = "error"]
    /\ UNCHANGED <<db, serving>>

StoreLost(r) ==
    /\ "lost" \in Faults
    /\ phase[r] = "store"
    /\ StoreError(r)
    /\ UNCHANGED late

StoreAckLost(r) ==
    /\ "ackLost" \in Faults
    /\ phase[r] = "stored"
    /\ StoreError(r)
    /\ UNCHANGED late

\* rados_mon_op_timeout passes with the command still on its way.
StoreTimeout(r) ==
    /\ "late" \in Faults
    /\ phase[r] = "store"
    /\ Cardinality(late) < MaxLate
    /\ late' = late \cup {cache[r]}
    /\ StoreError(r)

MonApplyLate ==
    \E doc \in late :
        /\ db' = doc
        /\ late' = late \ {doc}
        /\ UNCHANGED <<cache, phase, op, result, serving>>

(***************************************************************************)
(* Rollback: updateFromDB reads the key again.  A missing key is no error. *)
(* Whatever becomes of the load, the handler returns the store's error;    *)
(* during startup that error ends the process.                             *)
(***************************************************************************)
\* Faulty variant: the lock is not given back.
UnlockForgotten(r) == UNCHANGED <<db, late, phase, op, result, serving>>

Unlock(r) ==
    /\ phase' = [phase EXCEPT ![r] = IF serving[r] THEN "idle" ELSE "down"]
    /\ UNCHANGED <<db, late, op, result, serving>>

RollbackOk(r) ==
    /\ phase[r] = "rollback"
    /\ cache' = [cache EXCEPT ![r] = IF serving[r] THEN Stored ELSE EmptyDoc]
    /\ Unlock(r)

\* The error is logged, and the maps stay empty.
RollbackFail(r) ==
    /\ "getFail" \in Faults
    /\ phase[r] = "rollback"
    /\ UNCHANGED cache
    /\ Unlock(r)

(***************************************************************************)
(* app.Start: user.New loads the document (if that fails the process ends  *)
(* as it began), then the administrator is created or updated, then the    *)
(* API is served.                                                          *)
(***************************************************************************)
Load(r) ==
    /\ phase[r] = "down"
    /\ phase' = [phase EXCEPT ![r] = "idle"]
    /\ cache' = [cache EXCEPT ![r] = Stored]
    /\ serving' = [serving EXCEPT ![r] = ~CreateAdmin]
    /\ UNCHANGED <<db, late, op, result>>

AdminUpdate == [AdminRequest EXCEPT !.kind = "UpdateUser"]

BootCreateAdmin(r) ==
    /\ ~serving[r]
    /\ CanCreateUser(cache[r], AdminRequest)
    /\ Submit(r, AdminRequest, CreateUserDoc(cache[r], AdminRequest))

BootUpdateAdmin(r) ==
    /\ ~serving[r]
    /\ CanUpdateUser(cache[r], AdminUpdate)
    /\ Submit(r, AdminUpdate, UpdateUserDoc(cache[r], AdminUpdate))

Stop(r) ==
    /\ phase' = [phase EXCEPT ![r] = "down"]
    /\ cache' = [cache EXCEPT ![r] = EmptyDoc]
    /\ op' = [op EXCEPT ![r] = NoRequest]
    /\ serving' = [serving EXCEPT ![r] = FALSE]
    /\ UNCHANGED <<db, result>>

\* The administrator's request is refused (no name, no password, too long).
BootRefused(r) ==
    /\ phase[r] = "idle"
    /\ ~serving[r]
    /\ ~CanCreateUser(cache[r], AdminRequest)
    /\ ~CanUpdateUser(cache[r], AdminUpdate)
    /\ Stop(r)
    /\ UNCHANGED late

\* A command that was sent and not applied is lost with the process, or late.
Crash(r) ==
    /\ "crash" \in Faults
    /\ phase[r] # "down"
    /\ Stop(r)
    /\ \/ UNCHANGED late
       \/ /\ "late" \in Faults
          /\ phase[r] = "store"
          /\ Cardinality(late) < MaxLate
          /\ late' = late \cup {cache[r]}

(***************************************************************************)
(* The specification.                                                      *)
(***************************************************************************)
Handle(r) ==
    \/ CreateUser(r) \/ UpdateUser(r) \/ DeleteUser(r) \/ ChangePassword(r)
    \/ CreateRole(r) \/ UpdateRole(r) \/ DeleteRole(r) \/ CloneRole(r)

StoreReply(r) ==
    StoreOk(r) \/ StoreLost(r) \/ StoreAckLost(r) \/ StoreTimeout(r)

Rollback(r) == RollbackOk(r) \/ RollbackFail(r)

Boot(r) == BootCreateAdmin(r) \/ BootUpdateAdmin(r) \/ BootRefused(r)

Next ==
    \/ \E r \in Replicas :
           \/ Handle(r) \/ MonApply(r) \/ StoreReply(r) \/ Rollback(r)
           \/ Load(r) \/ Boot(r) \/ Crash(r)
    \/ MonApplyLate

\* A handler never stops by itself: the monitor's reply or the timeout of
\* rados_mon_op_timeout moves it on, and app.Start is straight-line code.
Progress(r) == MonApply(r) \/ StoreReply(r) \/ Rollback(r) \/ Boot(r)

Fairness == \A r \in Replicas : WF_vars(Progress(r))

Spec == Init /\ [][Next]_vars /\ Fairness

(***************************************************************************)
(* Properties.                                                             *)
(***************************************************************************)
\* No crash, lost, late or stale store ever leaves a document in which a user
\* has a role that does not exist, or a role is filed under another's name or
\* marked as built-in: not in the monitor, not on the way to it, not in a cache.
DocsWellFormed ==
    /\ WellFormed(Stored)
    /\ \A doc \in late : WellFormed(doc)
    /\ \A r \in Replicas : WellFormed(cache[r])

\* Whoever gets the lock of a replica, reader or writer, finds in its cache what
\* the monitor has stored, whatever became of the requests before.  True of a
\* replica that is alone and whose rollbacks get through.
CacheIsStored == \A r \in Replicas : phase[r] = "idle" => cache[r] = Stored

\* With one replica the service keeps the promise of AccessRegistry: the document
\* changes by one request at a time, as its contract says, and an acknowledged
\* change is in the monitor, so that it survives a crash.
TheReplica == CHOOSE r \in Replicas : TRUE

Registry == INSTANCE AccessRegistry WITH
    doc <- Stored,
    pending <- op[TheReplica],
    done <- phase[TheReplica] = "stored",
    result <- result[TheReplica]

ImplementsRegistry == Registry!Spec

\* Every request ends: the lock is given back, and startup serves or gives up,
\* even when stores, acknowledgements and rollbacks fail.
Busy(r) ==
    \/ phase[r] \in {"store", "stored", "rollback"}
    \/ phase[r] = "idle" /\ ~serving[r]

EveryRequestEnds == \A r \in Replicas : Busy(r) ~> ~Busy(r)

\* A user leaves the monitor's document only by a request to delete that user:
\* the "rollback changes" of a failed request undoes that request and no other.
OnlyDeletedUsersGo ==
    [][\A u \in UserNames :
           HasUser(Stored, u) /\ ~HasUser(Stored', u) =>
               \E r \in Replicas :
                   op[r] \in DeleteUserRequests /\ op[r].user = u]_vars

\* What a built-in role grants is fixed: UpdateRole and DeleteRole refuse to
\* touch one ("cannot update system role").
SystemRolesCannotChange ==
    \A r \in Replicas, n \in SystemRoles :
        RoleGrants(cache[r], n) = SystemPermissions[n]
==============================================================================
