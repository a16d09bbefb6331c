-------------------------------- MODULE Requests --------------------------------
(***************************************************************************)
(* Calls to the gRPC server from the interceptors to the handlers          *)
(* (pkg/api).  A call reads its account and then its permissions, goes by  *)
(* these permissions from then on, and does its work by commands to the    *)
(* monitors or by one operation of user.Service, while other calls change  *)
(* accounts, roles and the cluster under it.  Any command may fail, with   *)
(* or without having taken effect.                                         *)
(*                                                                         *)
(* Here every call has a token that holds (Sessions), an operation of      *)
(* user.Service has one effect at most and a failed rollback does not      *)
(* happen (AccessDB), and requests are well formed: those about built-in   *)
(* roles or without a name or a password are in AccessDoc.                 *)
(***************************************************************************)
EXTENDS Integers, Sequences

CONSTANTS
    Calls,
    Users, Roles, Entities, Rules,  \* names
    Status,          \* the key of the cluster's status
    Administrator,   \* the built-in role that grants everything
    Passwords,
    Profiles,        \* what a custom role can be
    GrantsOf,        \* what that grants, pairs of scope and permission
    Contents,        \* capabilities, statuses and rules, told apart by no code
    Missing,         \* nothing is stored under a name
    Nobody,          \* in a log line: no user name
    FirstWorld       \* what is stored at first

Things == Users \cup Roles \cup Entities \cup Rules \cup {Status}
Scopes == {"config-opt", "osd", "monitor", "user"}
Permissions == {"read", "create", "update", "delete"}
Rights == Scopes \X Permissions
Accounts == [role : Roles \cup {Administrator}, password : Passwords]

KindOf(x) ==
    CASE x \in Users -> Accounts
      [] x \in Roles -> Profiles
      [] OTHER -> Contents

Worlds == {w \in [Things -> Accounts \cup Profiles \cup Contents \cup {Missing}] :
             \A x \in Things : w[x] \in KindOf(x) \cup {Missing}}

ASSUME RequestsAssumption ==
    /\ Missing \notin Accounts \cup Profiles \cup Contents
    /\ GrantsOf \in [Profiles -> SUBSET Rights]
    /\ FirstWorld \in Worlds
    /\ Nobody \notin Users \cup Calls
    /\ Users \cap (Roles \cup Entities \cup Rules \cup {Status}) = {}
    /\ Roles \cap (Entities \cup Rules \cup {Status}) = {}
    /\ Rules \cap (Entities \cup {Status}) = {} /\ Status \notin Entities
    /\ Administrator \notin Roles

(***************************************************************************)
(* The methods.  A request says what its method needs and does, what comes *)
(* of it if what it is about is missing or present, and what to store.  A  *)
(* listing is looked at for one name.                                      *)
(***************************************************************************)
Requests(scope, needs, does, absent, present, abouts, values) ==
    [scope : {scope}, needs : {needs}, does : {does}, absent : {absent},
     present : {present}, about : abouts, value : values]

One(things) == {<<x>> : x \in things}

ClusterRequests ==
    LET Cluster(needs, does, absent, present, abouts, values) ==
            Requests("config-opt", {needs}, does, absent, present, abouts, values)
    IN  \* GetUsers, and GetStatus, which takes a missing status for POST_INSTALLED
        Cluster("read", "read", "ok", "ok", One(Entities \cup {Status}), {Missing})
        \* ExportUser
        \cup Cluster("read", "export", "ok", "ok", Entities \X Entities, {Missing})
        \* CreateUser: auth add, which lets nothing else be there, and auth import
        \cup Cluster("create", "put", "ok", "rados", One(Entities), Contents)
        \cup Cluster("create", "put", "ok", "ok", One(Entities), Contents)
        \* UpdateUser, DeleteUser, UpdateStatus
        \cup Cluster("update", "put", "ErrNotFound", "ok", One(Entities), Contents)
        \cup Cluster("delete", "delete", "ok", "ok", One(Entities), {Missing})
        \cup Cluster("update", "put", "ok", "ok", One({Status}), Contents)

\* SearchConfig reads memory only.
SearchRequests ==
    Requests("config-opt", {"read"}, "search", "ok", "ok", One({Status}), {Missing})

\* CreateRule, which may lack a name or a failure domain and for which the
\* monitors keep a rule they have; DeleteRule; GetRule, which looks into each
\* rule of a reply and so panics on a null; ListRules.
CrushRuleRequests ==
    Requests("osd", {"create"}, "ensure", "ok", "ok", One(Rules), Contents \cup {Missing})
    \cup Requests("osd", {"delete"}, "delete", "ok", "ok", One(Rules), {Missing})
    \cup Requests("osd", {"read"}, "dump", "ErrNotFound", "ok", One(Rules), {Missing})
    \cup Requests("osd", {"read"}, "read", "ok", "ok", One(Rules), {Missing})

\* GetCephReport and GetCephStatus; GetCephMonDump, GetCephPgDump and
\* GetCephOsdDump, which read through pointers a reply may leave nil.
StatusRequests ==
    Requests("monitor", {"read"}, "read", "ok", "ok", One({Status}), {Missing})
    \cup Requests("monitor", {"read"}, "dump", "ok", "ok", One({Status}), {Missing})
    \cup Requests("osd", {"read"}, "dump", "ok", "ok", One({Status}), {Missing})

UserRequests ==
    LET Of(needs, does, absent, present, values) ==
            Requests("user", {needs}, does, absent, present, One(Users), values)
    IN  \* ListUsers, GetUser, CreateUser, UpdateUser, DeleteUser
        Of("read", "look", "ok", "ok", {Missing})
        \cup Of("read", "look", "ErrNotFound", "ok", {Missing})
        \cup Of("create", "put", "ok", "ErrAlreadyExists", Accounts)
        \cup Of("update", "put", "ErrNotFound", "ok", Accounts)
        \cup Of("delete", "delete", "ok", "ok", {Missing})

\* UserChangePassword, for which no permission is needed.
PasswordRequests ==
    Requests("user", {}, "password", "ErrNotFound", "ok", One(Users),
             [old : Passwords, new : Passwords])

RoleRequests ==
    LET Of(needs, does, absent, present, abouts, values) ==
            Requests("user", needs, does, absent, present, abouts, values)
    IN  \* ListRoles, GetRole, CreateRole, UpdateRole, DeleteRole, CloneRole
        Of({"read"}, "look", "ok", "ok", One(Roles), {Missing})
        \cup Of({"read"}, "look", "ErrNotFound", "ok", One(Roles), {Missing})
        \cup Of({"create"}, "put", "ok", "ErrAlreadyExists", One(Roles), Profiles)
        \cup Of({"update"}, "put", "ErrNotFound", "ok", One(Roles), Profiles)
        \cup Of({"delete"}, "delete", "ErrNotFound", "ok", One(Roles), {Missing})
        \cup Of({"read", "create"}, "clone", "ok", "ok", Roles \X Roles, {Missing})

AllRequests ==
    ClusterRequests \cup SearchRequests \cup CrushRuleRequests \cup StatusRequests
    \cup UserRequests \cup PasswordRequests \cup RoleRequests

VARIABLES
    history,   \* what is stored, as each change left it
    author,    \* the call that made each change
    shared,    \* the user name last put into the process-wide logger
    pc,        \* what each call does next
    user,      \* the subject of each call's token
    req,       \* what each call asks for
    since,     \* the instant each call began
    name,      \* the user name in each call's context
    perms,     \* the permissions in each call's context
    line,      \* the user name in the call's access log line
    left,      \* what a call's commands are still to be about
    failed,    \* what a call's commands have failed for
    data,      \* what a call has read, pairs of a name and what is stored
    answer     \* the gRPC code a call has got

context == <<user, req, since>>
vars == <<history, author, shared, pc, context, name, perms, line, left, failed, data, answer>>

world == history[Len(history)]

NoRequest == [scope |-> "user", needs |-> {}, does |-> "none", absent |-> "ok",
              present |-> "ok", about |-> <<>>, value |-> Missing]

Codes == {"none", "OK", "Unimplemented", "InvalidArgument", "NotFound", "AlreadyExists",
          "Unauthenticated", "PermissionDenied", "Internal"}

TypeOK ==
    /\ history \in Seq(Worlds) /\ Len(history) > 0
    /\ author \in Seq(Calls \cup {Nobody}) /\ Len(author) = Len(history)
    /\ shared \in Users \cup {Nobody}
    /\ pc \in [Calls -> {"new", "account", "permissions", "handle", "command", "panic", "done"}]
    /\ user \in [Calls -> Users \cup {Nobody}]
    /\ req \in [Calls -> AllRequests \cup {NoRequest}]
    /\ since \in [Calls -> 1..Len(history)]
    /\ name \in [Calls -> Users \cup {Nobody}]
    /\ perms \in [Calls -> SUBSET Rights]
    /\ line \in [Calls -> Users \cup {Nobody, Missing}]
    /\ left \in [Calls -> Seq(Things)]
    /\ failed \in [Calls -> SUBSET Entities]
    /\ data \in [Calls -> SUBSET {p \in Things \X UNION {KindOf(x) \cup {Missing} : x \in Things} :
                                     p[2] \in KindOf(p[1]) \cup {Missing}}]
    /\ answer \in [Calls -> Codes]

Init ==
    /\ history = <<FirstWorld>>
    /\ author = <<Nobody>>
    /\ shared = Nobody
    /\ pc = [c \in Calls |-> "new"]
    /\ user = [c \in Calls |-> Nobody]
    /\ req = [c \in Calls |-> NoRequest]
    /\ since = [c \in Calls |-> 1]
    /\ name = [c \in Calls |-> Nobody]
    /\ perms = [c \in Calls |-> {}]
    /\ line = [c \in Calls |-> Missing]
    /\ left = [c \in Calls |-> <<>>]
    /\ failed = [c \in Calls |-> {}]
    /\ data = [c \in Calls |-> {}]
    /\ answer = [c \in Calls |-> "none"]

GoTo(c, stage) == pc' = [pc EXCEPT ![c] = stage] /\ UNCHANGED answer

\* Faulty variant: the handler's error goes out as it is.
Unconverted(err) == err

\* The status code of an answer; what is not in the table is an internal error.
Converted(err) ==
    CASE err = "ok" -> "OK"
      [] err = "ErrNotImplemented" -> "Unimplemented"
      [] err = "ErrInvalidArg" -> "InvalidArgument"
      [] err = "ErrNotFound" -> "NotFound"
      [] err = "ErrAlreadyExists" -> "AlreadyExists"
      [] err = "ErrUnauthenticated" -> "Unauthenticated"
      [] err = "ErrAccessDenied" -> "PermissionDenied"
      [] OTHER -> "Internal"

Answer(c, err) ==
    /\ pc' = [pc EXCEPT ![c] = "done"]
    /\ answer' = [answer EXCEPT ![c] = Converted(err)]

Begin(c, u, r) ==
    /\ pc[c] = "new"
    /\ user' = [user EXCEPT ![c] = u]
    /\ req' = [req EXCEPT ![c] = r]
    /\ since' = [since EXCEPT ![c] = Len(history)]
    /\ GoTo(c, "account")
    /\ UNCHANGED <<history, author, shared, name, perms, line, left, failed, data>>

(***************************************************************************)
(* AuthFunc.  It runs before the call has a logger of its own and so puts  *)
(* the user name into the one all calls share; two calls may do so at the  *)
(* same time, and then either may be the last.                             *)
(***************************************************************************)
GetAccount(c) ==
    /\ pc[c] = "account"
    /\ IF world[user[c]] = Missing
       THEN Answer(c, "ErrUnauthenticated") /\ UNCHANGED shared
       ELSE GoTo(c, "permissions") /\ shared' = user[c]
    /\ UNCHANGED <<history, author, context, name, perms, line, left, failed, data>>

Granted(w, u) ==
    IF w[u] = Missing THEN {}
    ELSE IF w[u].role = Administrator THEN Rights
    ELSE IF w[w[u].role] = Missing THEN {} ELSE GrantsOf[w[w[u].role]]

\* Faulty variant: the name is taken from the logger it has just been put into.
ContextNameLogged(c) == shared

ContextName(c) == user[c]

GetPermissions(c) ==
    /\ pc[c] = "permissions"
    /\ name' = [name EXCEPT ![c] = ContextName(c)]
    /\ perms' = [perms EXCEPT ![c] = Granted(world, user[c])]
    /\ GoTo(c, "handle")
    /\ UNCHANGED <<history, author, shared, context, line, left, failed, data>>

(***************************************************************************)
(* The logger of the call, the access log, and the checks each handler     *)
(* begins with.                                                            *)
(***************************************************************************)
\* Faulty variant: one of the permissions is enough.
HasSomePermission(c) ==
    req[c].needs = {} \/ \E p \in req[c].needs : <<req[c].scope, p>> \in perms[c]

HasPermissions(c) ==
    perms[c] # {} /\ \A p \in req[c].needs : <<req[c].scope, p>> \in perms[c]

Admitted(c) ==
    IF req[c].does = "password" THEN name[c] = Head(req[c].about) ELSE HasPermissions(c)

Handle(c) ==
    /\ pc[c] = "handle"
    /\ line' = [line EXCEPT ![c] = Nobody]
    /\ IF ~Admitted(c) THEN Answer(c, "ErrAccessDenied")
       ELSE IF req[c].does = "ensure" /\ req[c].value = Missing THEN Answer(c, "ErrInvalidArg")
       ELSE GoTo(c, "command")
    /\ left' = [left EXCEPT ![c] = req[c].about]
    /\ UNCHANGED <<history, author, shared, context, name, perms, failed, data>>

(***************************************************************************)
(* What a command, or an operation of user.Service, comes to: an error, or *)
(* what it leaves stored.                                                  *)
(***************************************************************************)
UnknownRole(w, r) ==
    /\ r.does = "put" /\ Head(r.about) \in Users
    /\ r.value.role # Administrator
    /\ w[r.value.role] = Missing

RoleInUse(w, r) ==
    /\ r.does = "delete"
    /\ \E u \in Users : w[u] # Missing /\ w[u].role = Head(r.about)

WrongPassword(w, r) == r.does = "password" /\ w[Head(r.about)].password # r.value.old

Outcome(w, r) ==
    LET x == Head(r.about)
        found == IF w[x] = Missing THEN r.absent ELSE r.present
    IN  IF r.does = "clone" THEN IF w[r.about[2]] = Missing THEN "ErrNotFound" ELSE "ok"
        ELSE IF found = "rados" THEN IF w[x] = r.value THEN "ok" ELSE "rados"
        ELSE IF found # "ok" THEN found
        ELSE IF UnknownRole(w, r) \/ RoleInUse(w, r) THEN "ErrInvalidArg"
        ELSE IF WrongPassword(w, r) THEN "bcrypt"
        ELSE "ok"

Writing == {"put", "delete", "ensure", "clone", "password"}

After(w, r) ==
    LET x == Head(r.about) IN
    CASE r.does \in {"put", "delete"} -> [w EXCEPT ![x] = r.value]
      [] r.does = "ensure" -> [w EXCEPT ![x] = IF w[x] = Missing THEN r.value ELSE w[x]]
      [] r.does = "clone" -> [w EXCEPT ![x] = w[r.about[2]]]
      [] OTHER -> [w EXCEPT ![x] = [role |-> w[x].role, password |-> r.value.new]]

Store(c, w) ==
    IF w = world THEN UNCHANGED <<history, author>>
    ELSE history' = Append(history, w) /\ author' = Append(author, c)

\* What the work of a handler leaves alone.
Working == UNCHANGED <<shared, context, name, perms, line>>

\* Faulty variant: the roles of an account are looked at after it is stored.
WriteUnchecked(c) ==
    /\ pc[c] = "command" /\ req[c].does \in Writing
    /\ LET err == Outcome(world, req[c]) IN
         /\ IF err \in {"ok", "ErrInvalidArg"}
            THEN Store(c, After(world, req[c]))
            ELSE UNCHANGED <<history, author>>
         /\ Answer(c, err)
    /\ Working /\ UNCHANGED <<left, failed, data>>

Write(c) ==
    /\ pc[c] = "command" /\ req[c].does \in Writing
    /\ LET err == Outcome(world, req[c]) IN
         /\ IF err = "ok" THEN Store(c, After(world, req[c])) ELSE UNCHANGED <<history, author>>
         /\ Answer(c, err)
    /\ Working /\ UNCHANGED <<left, failed, data>>

Read(c) ==
    /\ pc[c] = "command" /\ req[c].does \in {"read", "look", "dump"}
    /\ LET err == Outcome(world, req[c])
           x == Head(req[c].about)
       IN  /\ data' = [data EXCEPT ![c] = IF err = "ok" THEN {<<x, world[x]>>} ELSE {}]
           /\ Answer(c, err)
    /\ Working /\ UNCHANGED <<history, author, left, failed>>

Search(c) ==
    /\ pc[c] = "command" /\ req[c].does = "search"
    /\ Answer(c, "ok")
    /\ Working /\ UNCHANGED <<history, author, left, failed, data>>

(***************************************************************************)
(* A command fails.  user.Service sends one only for what it has accepted. *)
(***************************************************************************)
Sends(c) ==
    /\ pc[c] = "command" /\ req[c].does \notin {"look", "search"}
    /\ Head(req[c].about) \in Users \cup Roles => Outcome(world, req[c]) = "ok"

\* Faulty variant: the error of a command is dropped.
FailDropped(c) ==
    /\ Sends(c) /\ req[c].does # "export"
    /\ Answer(c, "ok")
    /\ Working /\ UNCHANGED <<history, author, left, failed, data>>

\* Faulty variant: a status that cannot be read counts as one that is not set.
FailUnnoticed(c) ==
    /\ Sends(c) /\ req[c].does # "export"
    /\ LET unset == req[c].does = "read" /\ req[c].absent = "ok"
       IN  /\ Answer(c, IF unset THEN "ok" ELSE "rados")
           /\ data' = [data EXCEPT ![c] = IF unset THEN {<<Head(req[c].about), Missing>>} ELSE {}]
    /\ Working /\ UNCHANGED <<history, author, left, failed>>

Fail(c) ==
    /\ Sends(c) /\ req[c].does # "export"
    /\ Answer(c, "rados")
    /\ Working /\ UNCHANGED <<history, author, left, failed, data>>

LoseReply(c) ==
    /\ Sends(c) /\ req[c].does \in Writing
    /\ Outcome(world, req[c]) = "ok"
    /\ Store(c, After(world, req[c]))
    /\ Answer(c, "rados")
    /\ Working /\ UNCHANGED <<left, failed, data>>

\* ExportUser, one command for each entity; those that fail are left out.
Exported(c, found) ==
    /\ data' = [data EXCEPT ![c] = @ \cup found]
    /\ left' = [left EXCEPT ![c] = Tail(left[c])]
    /\ IF Tail(left[c]) = <<>> THEN Answer(c, "ok") ELSE UNCHANGED <<pc, answer>>
    /\ Working /\ UNCHANGED <<history, author>>

Export(c) ==
    /\ Sends(c) /\ req[c].does = "export"
    /\ LET x == Head(left[c]) IN
       Exported(c, IF world[x] = Missing THEN {} ELSE {<<x, world[x]>>})
    /\ UNCHANGED failed

\* Faulty variant: the first failure ends the export.
ExportStops(c) ==
    /\ Sends(c) /\ req[c].does = "export"
    /\ failed' = [failed EXCEPT ![c] = @ \cup {Head(left[c])}]
    /\ Answer(c, "ok")
    /\ Working /\ UNCHANGED <<history, author, left, data>>

ExportFails(c) ==
    /\ Sends(c) /\ req[c].does = "export"
    /\ failed' = [failed EXCEPT ![c] = @ \cup {Head(left[c])}]
    /\ Exported(c, {})

\* A reply lacks what is read through a pointer.
Panic(c) ==
    /\ pc[c] = "command" /\ req[c].does = "dump"
    /\ GoTo(c, "panic")
    /\ Working /\ UNCHANGED <<history, author, left, failed, data>>

\* Faulty variant: nothing recovers, and the process is gone.
RecoverNot(c) ==
    /\ pc[c] = "panic"
    /\ pc' = [d \in Calls |-> "done"]
    /\ Working /\ UNCHANGED <<history, author, left, failed, data, answer>>

Recover(c) ==
    /\ pc[c] = "panic"
    /\ Answer(c, "panic")
    /\ Working /\ UNCHANGED <<history, author, left, failed, data>>

Next ==
    \E c \in Calls :
      \/ \E u \in Users, r \in AllRequests : Begin(c, u, r)
      \/ GetAccount(c)
      \/ GetPermissions(c)
      \/ Handle(c)
      \/ Write(c)
      \/ Read(c)
      \/ Search(c)
      \/ Fail(c)
      \/ LoseReply(c)
      \/ Export(c)
      \/ ExportFails(c)
      \/ Panic(c)
      \/ Recover(c)

Spec == Init /\ [][Next]_vars

(***************************************************************************)
(* Properties.  During(c) are the instants of c's call so far, or up to a  *)
(* change it made.                                                         *)
(***************************************************************************)
During(c) == since[c]..Len(history)

ScopeOf(x) ==
    CASE x \in Users \cup Roles -> "user"
      [] x \in Rules -> "osd"
      [] OTHER -> "config-opt"

\* The permissions each of which lets somebody change x from old to new.  To
\* import an entity, or to clone onto a role, it takes one to create.
Allowing(x, old, new) ==
    IF new = Missing THEN {"delete"}
    ELSE IF x = Status THEN {"update"}
    ELSE IF old = Missing THEN {"create"}
    ELSE {"create", "update"}

NewPassword(x, old, new) ==
    x \in Users /\ old # Missing /\ new # Missing /\ old.role = new.role

MayChange(c, x, i) ==
    \E j \in since[c]..(i - 1) : \E p \in Allowing(x, history[i - 1][x], history[i][x]) :
        <<ScopeOf(x), p>> \in Granted(history[j], user[c])

\* Whatever a call changes, at one instant between its beginning and the change
\* its user had a permission for a change of this kind.
Authorised ==
    \A i \in 2..Len(history), x \in Things :
        history[i][x] # history[i - 1][x] =>
            \/ MayChange(author[i], x, i)
            \/ NewPassword(x, history[i - 1][x], history[i][x])

\* Without such a permission a call gives a new password to its own user only,
\* whichever other calls put their names into the shared logger meanwhile.
OwnPasswordOnly ==
    \A i \in 2..Len(history), x \in Users :
        NewPassword(x, history[i - 1][x], history[i][x]) /\ history[i][x] # history[i - 1][x] =>
            MayChange(author[i], x, i) \/ user[author[i]] = x

Changed(c) == \E i \in 1..Len(author) : author[i] = c
Refusals == {"InvalidArgument", "NotFound", "AlreadyExists", "Unauthenticated", "PermissionDenied"}

\* A call that is refused, by whatever code but Internal, has changed nothing.
RefusalChangesNothing ==
    \A c \in Calls : answer[c] \in Refusals => ~Changed(c)

\* What a call is told it has done was so at one instant of the call; only a
\* rule that exists is left as it is.
AcknowledgedIsDone ==
    \A c \in Calls : answer[c] = "OK" /\ req[c].does \in Writing =>
        LET x == Head(req[c].about) IN
        \E i \in During(c) :
            CASE req[c].does = "ensure" -> history[i][x] # Missing
              [] req[c].does = "password" ->
                   history[i][x] # Missing /\ history[i][x].password = req[c].value.new
              [] req[c].does = "clone" -> history[i][x] # Missing
              [] OTHER -> history[i][x] = req[c].value

\* What a call has read was so at one instant of the call, a status that is
\* taken for POST_INSTALLED was not set at one, and what is said to be missing,
\* or there already, was.
AnswersAreTrue ==
    \A c \in Calls :
        /\ \A p \in data[c] : \E i \in During(c) : history[i][p[1]] = p[2]
        /\ answer[c] = "NotFound" =>
             \E i \in During(c), k \in DOMAIN req[c].about : history[i][req[c].about[k]] = Missing
        /\ answer[c] = "AlreadyExists" =>
             \E i \in During(c) : history[i][Head(req[c].about)] # Missing

\* An export lacks no entity that was there throughout it, unless the command
\* for this one failed.
ExportIsComplete ==
    \A c \in Calls : answer[c] = "OK" /\ req[c].does = "export" =>
        \A k \in DOMAIN req[c].about : LET x == req[c].about[k] IN
            \/ x \in failed[c]
            \/ \E i \in During(c) : history[i][x] = Missing
            \/ \E p \in data[c] : p[1] = x

\* A call ends with an answer, a panic in its handler included, and this answer
\* stays; the step that ends it neither moves nor answers another call.
EndsAlone ==
    [][\A c \in Calls :
         /\ answer[c] # "none" => answer'[c] = answer[c]
         /\ pc[c] # "done" /\ pc'[c] = "done" =>
              /\ answer'[c] # "none"
              /\ \A d \in Calls \ {c} : pc'[d] = pc[d] /\ answer'[d] = answer[d]]_vars

\* What the configuration says of the access log: its lines name the caller.
AccessLogNamesCaller == \A c \in Calls : line[c] # Missing => line[c] = user[c]
==================================================================================
