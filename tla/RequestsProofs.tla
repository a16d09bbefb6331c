---------------------------- MODULE RequestsProofs ----------------------------
(***************************************************************************)
(* Proofs about Requests, for any calls, accounts, roles, entities, rules  *)
(* and contents.                                                           *)
(***************************************************************************)
EXTENDS Requests, TLAPS

(***************************************************************************)
(* What the table of methods says of a request: what it is about, what it  *)
(* may store there, and which permission of which scope that takes.        *)
(***************************************************************************)
Does == {"read", "look", "dump", "search", "export", "put", "delete", "ensure", "clone",
         "password"}

\* One thing of the request's scope, or none in particular.
Single(r) == \E x \in Things : r.about = <<x>>

FitsPut(r) ==
    r.does = "put" => \E x \in Things :
        /\ r.about = <<x>>
        /\ r.value \in KindOf(x)
        /\ r.scope = ScopeOf(x)
        /\ \/ x # Status /\ r.needs = {"create"}
           \/ x # Status /\ r.needs = {"update"} /\ r.absent = "ErrNotFound"
           \/ x = Status /\ r.needs = {"update"}

FitsDelete(r) ==
    r.does = "delete" => \E x \in Things :
        r.about = <<x>> /\ r.value = Missing /\ r.scope = ScopeOf(x) /\ r.needs = {"delete"}

FitsEnsure(r) ==
    r.does = "ensure" => \E x \in Rules :
        /\ r.about = <<x>> /\ r.value \in Contents \cup {Missing}
        /\ r.scope = "osd" /\ r.needs = {"create"}

FitsClone(r) ==
    r.does = "clone" => \E x, y \in Roles :
        /\ r.about = <<x, y>> /\ r.scope = "user" /\ r.needs = {"read", "create"}

FitsPassword(r) ==
    r.does = "password" => \E x \in Users :
        /\ r.about = <<x>> /\ r.value \in [old : Passwords, new : Passwords]
        /\ r.absent = "ErrNotFound" /\ r.needs = {}

FitsExport(r) == r.does = "export" => \E x, y \in Entities : r.about = <<x, y>>

FitsRead(r) ==
    r.does \in {"read", "look", "dump", "search"} => Single(r) /\ r.present = "ok"

Fits(r) ==
    /\ r.does \in Does
    /\ r.absent \in {"ok", "ErrNotFound"}
    /\ r.present \in {"ok", "rados", "ErrAlreadyExists"}
    /\ FitsPut(r) /\ FitsDelete(r) /\ FitsEnsure(r) /\ FitsClone(r)
    /\ FitsPassword(r) /\ FitsExport(r) /\ FitsRead(r)

LEMMA Fields ==
  ASSUME NEW s, NEW n, NEW d, NEW a, NEW p, NEW xs, NEW vs, NEW r,
         r \in Requests(s, n, d, a, p, xs, vs)
  PROVE  /\ r.scope = s /\ r.needs = n /\ r.does = d /\ r.absent = a /\ r.present = p
         /\ r.about \in xs /\ r.value \in vs
  BY DEF Requests

LEMMA Kinds ==
  /\ \A x \in Users : x \in Things /\ KindOf(x) = Accounts /\ ScopeOf(x) = "user" /\ x # Status
  /\ \A x \in Roles : x \in Things /\ KindOf(x) = Profiles /\ ScopeOf(x) = "user" /\ x # Status
  /\ \A x \in Rules : x \in Things /\ KindOf(x) = Contents /\ ScopeOf(x) = "osd" /\ x # Status
  /\ \A x \in Entities :
       x \in Things /\ KindOf(x) = Contents /\ ScopeOf(x) = "config-opt" /\ x # Status
  /\ Status \in Things /\ KindOf(Status) = Contents /\ ScopeOf(Status) = "config-opt"
  BY RequestsAssumption DEF Things, KindOf, ScopeOf

LEMMA ClusterFits == \A r \in ClusterRequests : Fits(r)
  <1> TAKE r \in ClusterRequests
  <1>0. \/ r \in Requests("config-opt", {"read"}, "read", "ok", "ok",
                         One(Entities \cup {Status}), {Missing})
        \/ r \in Requests("config-opt", {"read"}, "export", "ok", "ok", Entities \X Entities, {Missing})
        \/ r \in Requests("config-opt", {"create"}, "put", "ok", "rados", One(Entities), Contents)
        \/ r \in Requests("config-opt", {"create"}, "put", "ok", "ok", One(Entities), Contents)
        \/ r \in Requests("config-opt", {"update"}, "put", "ErrNotFound", "ok", One(Entities), Contents)
        \/ r \in Requests("config-opt", {"delete"}, "delete", "ok", "ok", One(Entities), {Missing})
        \/ r \in Requests("config-opt", {"update"}, "put", "ok", "ok", One({Status}), Contents)
      BY DEF ClusterRequests
  <1> USE Fields, Kinds DEF One, Fits, FitsPut, FitsDelete, FitsEnsure, FitsClone,
          FitsPassword, FitsExport, FitsRead, Single, Does
  <1>1. CASE r \in Requests("config-opt", {"read"}, "read", "ok", "ok",
                            One(Entities \cup {Status}), {Missing})
      BY <1>1
  <1>2. CASE r \in Requests("config-opt", {"read"}, "export", "ok", "ok",
                            Entities \X Entities, {Missing})
      BY <1>2
  <1>3. CASE \/ r \in Requests("config-opt", {"create"}, "put", "ok", "rados", One(Entities), Contents)
             \/ r \in Requests("config-opt", {"create"}, "put", "ok", "ok", One(Entities), Contents)
      BY <1>3
  <1>4. CASE r \in Requests("config-opt", {"update"}, "put", "ErrNotFound", "ok", One(Entities), Contents)
      BY <1>4
  <1>5. CASE r \in Requests("config-opt", {"delete"}, "delete", "ok", "ok", One(Entities), {Missing})
      BY <1>5
  <1>6. CASE r \in Requests("config-opt", {"update"}, "put", "ok", "ok", One({Status}), Contents)
      BY <1>6
  <1> HIDE DEF Fits
  <1> QED
      BY <1>0, <1>1, <1>2, <1>3, <1>4, <1>5, <1>6

LEMMA OtherFits == \A r \in SearchRequests \cup CrushRuleRequests \cup StatusRequests : Fits(r)
  BY Fields, Kinds DEF SearchRequests, CrushRuleRequests, StatusRequests, One, Fits, FitsPut,
      FitsDelete, FitsEnsure, FitsClone, FitsPassword, FitsExport, FitsRead, Single, Does

LEMMA PasswordFits == \A r \in PasswordRequests : Fits(r)
  <1> TAKE r \in PasswordRequests
  <1> DEFINE changes == [old : Passwords, new : Passwords]
  <1>1. r \in Requests("user", {}, "password", "ErrNotFound", "ok", One(Users), changes)
      BY DEF PasswordRequests
  <1> HIDE DEF changes
  <1>2. /\ r.does = "password" /\ r.absent = "ErrNotFound" /\ r.present = "ok" /\ r.needs = {}
        /\ r.about \in One(Users) /\ r.value \in changes
      BY <1>1, Fields
  <1>3. FitsPassword(r)
      BY <1>2 DEF FitsPassword, One, changes
  <1> QED
      BY <1>2, <1>3 DEF Fits, FitsPut, FitsDelete, FitsEnsure, FitsClone, FitsExport, FitsRead, Does

LEMMA UserFits == \A r \in UserRequests : Fits(r)
  BY Fields, Kinds DEF UserRequests, One, Fits, FitsPut,
      FitsDelete, FitsEnsure, FitsClone, FitsPassword, FitsExport, FitsRead, Single, Does

LEMMA RoleFits == \A r \in RoleRequests : Fits(r)
  BY Fields, Kinds DEF RoleRequests, One, Fits, FitsPut,
      FitsDelete, FitsEnsure, FitsClone, FitsPassword, FitsExport, FitsRead, Single, Does

LEMMA RequestFits == \A r \in AllRequests : Fits(r)
  BY ClusterFits, OtherFits, UserFits, PasswordFits, RoleFits DEF AllRequests

(***************************************************************************)
(* What a request that succeeds does to what is stored.                    *)
(***************************************************************************)
LEMMA Stored == ASSUME NEW w \in Worlds, NEW x \in Things PROVE w[x] \in KindOf(x) \cup {Missing}
  BY DEF Worlds

LEMMA KindsAreContents ==
  ASSUME NEW x \in Things
  PROVE  KindOf(x) \subseteq Accounts \cup Profiles \cup Contents /\ Missing \notin KindOf(x)
  BY RequestsAssumption DEF KindOf

Put(w, x, v) == [w EXCEPT ![x] = v]

LEMMA Changing ==
  ASSUME NEW w \in Worlds, NEW x \in Things, NEW v \in KindOf(x) \cup {Missing}
  PROVE  /\ Put(w, x, v) \in Worlds /\ Put(w, x, v)[x] = v
         /\ \A y \in Things : y # x => Put(w, x, v)[y] = w[y]
  BY KindsAreContents DEF Worlds, Put

\* One of the needed permissions is one for this change.
Pays(r, x, old, new) == r.scope = ScopeOf(x) /\ \E p \in Allowing(x, old, new) : p \in r.needs

OwnPassword(r, x, old, new) ==
    r.does = "password" /\ x = Head(r.about) /\ NewPassword(x, old, new)

Effective(w, r) ==
    /\ After(w, r) \in Worlds
    /\ \A x \in Things : After(w, r)[x] # w[x] =>
         Pays(r, x, w[x], After(w, r)[x]) \/ OwnPassword(r, x, w[x], After(w, r)[x])

LEMMA PutEffect ==
  ASSUME NEW w \in Worlds, NEW r, Fits(r), r.does = "put", Outcome(w, r) = "ok"
  PROVE  Effective(w, r) /\ After(w, r)[Head(r.about)] = r.value
  <1>1. PICK x \in Things :
          /\ r.about = <<x>> /\ r.value \in KindOf(x) /\ r.scope = ScopeOf(x)
          /\ \/ x # Status /\ r.needs = {"create"}
             \/ x # Status /\ r.needs = {"update"} /\ r.absent = "ErrNotFound"
             \/ x = Status /\ r.needs = {"update"}
      BY DEF Fits, FitsPut
  <1>2. Head(r.about) = x /\ r.value # Missing
      BY <1>1, KindsAreContents
  <1>3. After(w, r) = Put(w, x, r.value)
      BY <1>2 DEF After, Put
  <1>4. After(w, r) \in Worlds /\ \A y \in Things : y # x => After(w, r)[y] = w[y]
      BY <1>1, <1>3, Changing
  <1>5. After(w, r)[x] = r.value
      BY <1>1, <1>3, Changing
  <1>6. r.absent = "ErrNotFound" => w[x] # Missing
      BY <1>2 DEF Outcome
  <1>7. Pays(r, x, w[x], r.value)
      BY <1>1, <1>2, <1>6 DEF Pays, Allowing
  <1> QED
      BY <1>2, <1>4, <1>5, <1>7 DEF Effective

LEMMA DeleteEffect ==
  ASSUME NEW w \in Worlds, NEW r, Fits(r), r.does = "delete"
  PROVE  Effective(w, r) /\ After(w, r)[Head(r.about)] = r.value
  <1>1. PICK x \in Things :
          r.about = <<x>> /\ r.value = Missing /\ r.scope = ScopeOf(x) /\ r.needs = {"delete"}
      BY DEF Fits, FitsDelete
  <1>2. Head(r.about) = x
      BY <1>1
  <1>3. After(w, r) = Put(w, x, Missing)
      BY <1>1, <1>2 DEF After, Put
  <1>4. After(w, r) \in Worlds /\ \A y \in Things : y # x => After(w, r)[y] = w[y]
      BY <1>1, <1>3, Changing
  <1>5. After(w, r)[x] = Missing
      BY <1>1, <1>3, Changing
  <1>6. Pays(r, x, w[x], Missing)
      BY <1>1 DEF Pays, Allowing
  <1> QED
      BY <1>1, <1>2, <1>4, <1>5, <1>6 DEF Effective

LEMMA EnsureEffect ==
  ASSUME NEW w \in Worlds, NEW r, Fits(r), r.does = "ensure", r.value # Missing
  PROVE  Effective(w, r) /\ After(w, r)[Head(r.about)] # Missing
  <1>1. PICK x \in Rules :
          /\ r.about = <<x>> /\ r.value \in Contents \cup {Missing}
          /\ r.scope = "osd" /\ r.needs = {"create"}
      BY DEF Fits, FitsEnsure
  <1>2. Head(r.about) = x /\ x \in Things /\ KindOf(x) = Contents /\ ScopeOf(x) = "osd" /\ x # Status
      BY <1>1, Kinds
  <1> DEFINE v == IF w[x] = Missing THEN r.value ELSE w[x]
  <1>3. After(w, r) = Put(w, x, v)
      BY <1>2 DEF After, Put
  <1>4. v \in KindOf(x) \cup {Missing} /\ v # Missing
      BY <1>1, <1>2, Stored
  <1>5. After(w, r) \in Worlds /\ \A y \in Things : y # x => After(w, r)[y] = w[y]
      BY <1>2, <1>3, <1>4, Changing
  <1>6. After(w, r)[x] = v
      BY <1>2, <1>3, <1>4, Changing
  <1>7. v # w[x] => Pays(r, x, w[x], v)
      BY <1>1, <1>2, <1>4 DEF Pays, Allowing
  <1> QED
      BY <1>2, <1>4, <1>5, <1>6, <1>7 DEF Effective

LEMMA CloneEffect ==
  ASSUME NEW w \in Worlds, NEW r, Fits(r), r.does = "clone", Outcome(w, r) = "ok"
  PROVE  Effective(w, r) /\ After(w, r)[Head(r.about)] # Missing
  <1>1. PICK x \in Roles, y \in Roles :
          r.about = <<x, y>> /\ r.scope = "user" /\ r.needs = {"read", "create"}
      BY DEF Fits, FitsClone
  <1>2. /\ Head(r.about) = x /\ r.about[2] = y /\ x \in Things /\ y \in Things
        /\ KindOf(x) = KindOf(y) /\ ScopeOf(x) = "user" /\ x # Status
      BY <1>1, Kinds
  <1>3. After(w, r) = Put(w, x, w[y])
      BY <1>2 DEF After, Put
  <1>4. w[y] \in KindOf(x) \cup {Missing} /\ w[y] # Missing
      BY <1>2, Stored DEF Outcome
  <1>5. After(w, r) \in Worlds /\ \A z \in Things : z # x => After(w, r)[z] = w[z]
      BY <1>2, <1>3, <1>4, Changing
  <1>6. After(w, r)[x] = w[y]
      BY <1>2, <1>3, <1>4, Changing
  <1>7. Pays(r, x, w[x], w[y])
      BY <1>1, <1>2, <1>4 DEF Pays, Allowing
  <1> QED
      BY <1>2, <1>4, <1>5, <1>6, <1>7 DEF Effective

LEMMA PasswordEffect ==
  ASSUME NEW w \in Worlds, NEW r, Fits(r), r.does = "password", Outcome(w, r) = "ok"
  PROVE  /\ Effective(w, r)
         /\ After(w, r)[Head(r.about)] # Missing
         /\ After(w, r)[Head(r.about)].password = r.value.new
  <1>1. PICK x \in Users :
          /\ r.about = <<x>> /\ r.value \in [old : Passwords, new : Passwords]
          /\ r.absent = "ErrNotFound"
      BY DEF Fits, FitsPassword
  <1>2. Head(r.about) = x /\ x \in Things /\ KindOf(x) = Accounts
      BY <1>1, Kinds
  <1>3. w[x] # Missing
      BY <1>1, <1>2 DEF Outcome
  <1>4. w[x] \in Accounts
      BY <1>2, <1>3, Stored
  <1> DEFINE v == [role |-> w[x].role, password |-> r.value.new]
  <1>5. v \in Accounts /\ v.role = w[x].role /\ v.password = r.value.new
      BY <1>1, <1>4 DEF Accounts
  <1>6. v # Missing
      BY <1>2, <1>5, KindsAreContents
  <1>7. After(w, r) = Put(w, x, v)
      BY <1>2 DEF After, Put
  <1>8. After(w, r) \in Worlds /\ \A y \in Things : y # x => After(w, r)[y] = w[y]
      BY <1>2, <1>5, <1>7, Changing
  <1>9. After(w, r)[x] = v
      BY <1>2, <1>5, <1>7, Changing
  <1>10. OwnPassword(r, x, w[x], v)
      BY <1>2, <1>3, <1>5, <1>6 DEF OwnPassword, NewPassword
  <1> QED
      BY <1>2, <1>5, <1>6, <1>8, <1>9, <1>10 DEF Effective

LEMMA Effect ==
  ASSUME NEW w \in Worlds, NEW r, Fits(r), r.does \in Writing, Outcome(w, r) = "ok",
         r.does = "ensure" => r.value # Missing
  PROVE  Effective(w, r)
  BY PutEffect, DeleteEffect, EnsureEffect, CloneEffect, PasswordEffect DEF Writing

(***************************************************************************)
(* The invariant: the properties, and what a call on its way has           *)
(* established of the instants it has lived through.                       *)
(***************************************************************************)
Asked(c) == pc[c] # "new" => user[c] \in Users /\ req[c] \in AllRequests

\* Only an answered call has changed something, and it was not refused.
Quiet(c) ==
    /\ pc[c] # "done" => answer[c] = "none" /\ ~Changed(c)
    /\ Changed(c) => answer[c] \in {"OK", "Internal"}

OfAdmission(c) ==
    /\ pc[c] \in {"handle", "command"} =>
         name[c] = user[c] /\ \E j \in During(c) : perms[c] = Granted(history[j], user[c])
    /\ pc[c] = "command" =>
         Admitted(c) /\ (req[c].does = "ensure" => req[c].value # Missing)

Before == {"new", "account", "permissions", "handle"}

OfData(c) ==
    /\ pc[c] \in Before => data[c] = {}
    /\ \A p \in data[c] : \E i \in During(c) : history[i][p[1]] = p[2]

DoneAt(r, w) ==
    CASE r.does = "ensure" -> w[Head(r.about)] # Missing
      [] r.does = "password" ->
           w[Head(r.about)] # Missing /\ w[Head(r.about)].password = r.value.new
      [] r.does = "clone" -> w[Head(r.about)] # Missing
      [] OTHER -> w[Head(r.about)] = r.value

OfDone(c) ==
    answer[c] = "OK" /\ req[c].does \in Writing => \E i \in During(c) : DoneAt(req[c], history[i])

OfMissing(c) ==
    /\ answer[c] = "NotFound" =>
         \E i \in During(c), k \in DOMAIN req[c].about : history[i][req[c].about[k]] = Missing
    /\ answer[c] = "AlreadyExists" =>
         \E i \in During(c) : history[i][Head(req[c].about)] # Missing

Accounted(c, x) ==
    \/ x \in failed[c]
    \/ \E i \in During(c) : history[i][x] = Missing
    \/ \E p \in data[c] : p[1] = x

OfExport(c) ==
    req[c].does = "export" => \E x, y \in Entities :
        /\ req[c].about = <<x, y>>
        /\ pc[c] = "command" => left[c] = <<x, y>> \/ (left[c] = <<y>> /\ Accounted(c, x))
        /\ answer[c] = "OK" => Accounted(c, x) /\ Accounted(c, y)

Mine(c) ==
    /\ Asked(c) /\ Quiet(c) /\ OfAdmission(c) /\ OfData(c)
    /\ OfDone(c) /\ OfMissing(c) /\ OfExport(c)

\* Every change but the first is a call's, and the call's user might make it.
Rightful(i) ==
    /\ author[i] \in Calls
    /\ \A x \in Things : history[i][x] # history[i - 1][x] =>
         \/ MayChange(author[i], x, i)
         \/ NewPassword(x, history[i - 1][x], history[i][x]) /\ user[author[i]] = x

IInv ==
    /\ TypeOK
    /\ \A c \in Calls : Mine(c)
    /\ \A i \in 2..Len(history) : Rightful(i)

LEMMA InitInv == Init => IInv
  <1> SUFFICES ASSUME Init PROVE IInv
      OBVIOUS
  <1>1. TypeOK
    <2>1. history \in Seq(Worlds) /\ Len(history) = 1
        BY RequestsAssumption DEF Init
    <2>2. author \in Seq(Calls \cup {Nobody}) /\ Len(author) = 1
        BY DEF Init
    <2> QED
        BY <2>1, <2>2 DEF Init, TypeOK, Codes
  <1>2. ASSUME NEW c \in Calls PROVE Mine(c)
    <2>1. ~Changed(c)
        BY RequestsAssumption DEF Init, Changed
    <2> QED
        BY <2>1 DEF Init, Mine, Asked, Quiet, OfAdmission, OfData, OfDone, OfMissing, OfExport,
                    NoRequest, Writing
  <1>3. Len(history) = 1
      BY DEF Init
  <1> QED
      BY <1>1, <1>2, <1>3 DEF IInv

(***************************************************************************)
(* What is stored only grows; types.                                       *)
(***************************************************************************)
Grows ==
    /\ Len(history) <= Len(history')
    /\ \A i \in 1..Len(history) : history'[i] = history[i] /\ author'[i] = author[i]

\* What a step adds to the history is c's.
AddedBy(c) == \A i \in (Len(history) + 1)..Len(history') : author'[i] = c

HistoryType ==
    /\ history \in Seq(Worlds) /\ Len(history) > 0
    /\ author \in Seq(Calls \cup {Nobody}) /\ Len(author) = Len(history)

LEMMA WorldType == HistoryType => world \in Worlds
  BY DEF HistoryType, world

LEMMA StoreGrows ==
  ASSUME HistoryType, NEW c \in Calls, NEW w \in Worlds, Store(c, w)
  PROVE  /\ HistoryType' /\ Grows /\ AddedBy(c)
         /\ history'[Len(history')] = w
         /\ \/ history' = history /\ author' = author
            \/ Len(history') = Len(history) + 1
  <1>1. CASE w = world /\ UNCHANGED <<history, author>>
      BY <1>1 DEF HistoryType, Grows, AddedBy, world
  <1>2. CASE history' = Append(history, w) /\ author' = Append(author, c)
      BY <1>2 DEF HistoryType, Grows, AddedBy
  <1> QED
      BY <1>1, <1>2 DEF Store

LEMMA SameGrows ==
  ASSUME HistoryType, NEW c \in Calls, UNCHANGED <<history, author>>
  PROVE  HistoryType' /\ Grows /\ AddedBy(c)
  BY DEF HistoryType, Grows, AddedBy

LEMMA GrantedType ==
  ASSUME NEW w \in Worlds, NEW u \in Users
  PROVE  Granted(w, u) \subseteq Rights
  <1>1. w[u] \in Accounts \cup {Missing}
      BY Stored, Kinds
  <1>2. CASE w[u] = Missing \/ w[u].role = Administrator
      BY <1>2 DEF Granted
  <1>3. CASE w[u] # Missing /\ w[u].role # Administrator
    <2>1. w[u].role \in Roles
        BY <1>1, <1>3 DEF Accounts
    <2>2. w[w[u].role] \in Profiles \cup {Missing}
        BY <2>1, Stored, Kinds
    <2> QED
        BY <1>3, <2>2, RequestsAssumption DEF Granted
  <1> QED
      BY <1>2, <1>3

LEMMA CodeType == \A err : Converted(err) \in Codes \ {"none"}
  BY DEF Converted, Codes

\* A command that goes through, its reply arriving or not.
Effected(c) ==
    /\ pc[c] = "command" /\ req[c].does \in Writing /\ Outcome(world, req[c]) = "ok"
    /\ Store(c, After(world, req[c]))

\* Everything that can happen to a call while it works, by what it changes.
LEMMA WriteCases ==
  ASSUME NEW c \in Calls, Write(c) \/ LoseReply(c)
  PROVE  /\ Working /\ UNCHANGED <<left, failed, data>>
         /\ pc[c] = "command" /\ req[c].does \in Writing
         /\ \/ Effected(c) /\ (Answer(c, "ok") \/ Answer(c, "rados"))
            \/ /\ UNCHANGED <<history, author>> /\ Outcome(world, req[c]) # "ok"
               /\ Answer(c, Outcome(world, req[c]))
  BY DEF Write, LoseReply, Sends, Effected

LEMMA EffectOfCall ==
  ASSUME HistoryType, NEW c \in Calls, Mine(c), Effected(c)
  PROVE  /\ Effective(world, req[c])
         /\ HistoryType' /\ Grows /\ AddedBy(c) /\ history'[Len(history')] = After(world, req[c])
         /\ \/ history' = history /\ author' = author
            \/ Len(history') = Len(history) + 1
  <1>1. req[c] \in AllRequests /\ (req[c].does = "ensure" => req[c].value # Missing)
      BY DEF Mine, Asked, OfAdmission, Effected
  <1>2. Effective(world, req[c])
      BY <1>1, RequestFits, Effect, WorldType DEF Effected
  <1>3. After(world, req[c]) \in Worlds
      BY <1>2 DEF Effective
  <1> HIDE DEF Effective
  <1> QED
      BY <1>2, <1>3, StoreGrows DEF Effected

Stages == {"new", "account", "permissions", "handle", "command", "panic", "done"}

LEMMA StageType ==
  ASSUME TypeOK, NEW c \in Calls, NEW stage \in Stages, NEW err,
         GoTo(c, stage) \/ Answer(c, err)
  PROVE  pc' \in [Calls -> Stages] /\ answer' \in [Calls -> Codes]
  <1>1. pc \in [Calls -> Stages] /\ answer \in [Calls -> Codes] /\ "done" \in Stages
      BY DEF TypeOK, Stages
  <1>2. Converted(err) \in Codes
      BY CodeType
  <1> QED
      BY <1>1, <1>2 DEF GoTo, Answer

\* A step that changes nothing but a call's stage, answer and reading.
Found == {p \in Things \X UNION {KindOf(x) \cup {Missing} : x \in Things} :
            p[2] \in KindOf(p[1]) \cup {Missing}}

LEMMA FoundType ==
  ASSUME HistoryType, NEW x \in Things
  PROVE  <<x, world[x]>> \in Found
  <1>1. world[x] \in KindOf(x) \cup {Missing}
      BY WorldType, Stored
  <1> QED
      BY <1>1 DEF Found

LEMMA WorkType ==
  ASSUME TypeOK, HistoryType', NEW c \in Calls, Working, history' \in Seq(Worlds),
         Len(history) <= Len(history'),
         pc' \in [Calls -> Stages] /\ answer' \in [Calls -> Codes],
         left' \in [Calls -> Seq(Things)], failed' \in [Calls -> SUBSET Entities],
         data' \in [Calls -> SUBSET Found]
  PROVE  TypeOK'
  <1>1. since \in [Calls -> 1..Len(history')]
      BY DEF TypeOK, HistoryType
  <1>2. /\ shared' \in Users \cup {Nobody}
        /\ user' \in [Calls -> Users \cup {Nobody}]
        /\ req' \in [Calls -> AllRequests \cup {NoRequest}]
        /\ since' \in [Calls -> 1..Len(history')]
        /\ name' \in [Calls -> Users \cup {Nobody}]
        /\ perms' \in [Calls -> SUBSET Rights]
        /\ line' \in [Calls -> Users \cup {Nobody, Missing}]
      BY <1>1 DEF Working, context, TypeOK
  <1> QED
      BY <1>2, Zenon DEF TypeOK, HistoryType, Stages, Found

LEMMA TypeParts ==
  TypeOK => /\ HistoryType /\ pc \in [Calls -> Stages]
            /\ left \in [Calls -> Seq(Things)] /\ failed \in [Calls -> SUBSET Entities]
            /\ data \in [Calls -> SUBSET Found]
  BY Zenon DEF TypeOK, HistoryType, Stages, Found

LEMMA BeginType ==
  ASSUME TypeOK, NEW c \in Calls, NEW u \in Users, NEW r \in AllRequests, Begin(c, u, r)
  PROVE  TypeOK'
  <1>1. pc' \in [Calls -> Stages] /\ answer' \in [Calls -> Codes]
      BY StageType DEF Begin, Stages
  <1>2. /\ user' \in [Calls -> Users \cup {Nobody}]
        /\ req' \in [Calls -> AllRequests \cup {NoRequest}]
        /\ since' \in [Calls -> 1..Len(history)]
      BY DEF Begin, TypeOK
  <1>3. UNCHANGED <<history, author, shared, name, perms, line, left, failed, data>>
      BY DEF Begin
  <1> QED
      BY <1>1, <1>2, <1>3 DEF TypeOK, Stages

LEMMA AdmissionType ==
  ASSUME TypeOK, NEW c \in Calls, Mine(c), GetAccount(c) \/ GetPermissions(c) \/ Handle(c)
  PROVE  TypeOK'
  <1>1. user[c] \in Users /\ req[c] \in AllRequests
      BY DEF Mine, Asked, GetAccount, GetPermissions, Handle
  <1>2. pc' \in [Calls -> Stages] /\ answer' \in [Calls -> Codes]
    <2>1. (\E stage \in Stages : GoTo(c, stage)) \/ (\E err : Answer(c, err))
        BY DEF GetAccount, GetPermissions, Handle, Stages
    <2>2. CASE \E stage \in Stages : GoTo(c, stage)
      <3>1. PICK stage \in Stages : GoTo(c, stage)
          BY <2>2
      <3> QED
          BY <3>1, StageType
    <2>3. CASE \E err : Answer(c, err)
      <3>1. PICK err : Answer(c, err)
          BY <2>3
      <3>2. "done" \in Stages
          BY DEF Stages
      <3> QED
          BY <3>1, <3>2, StageType
    <2> QED
        BY <2>1, <2>2, <2>3
  <1>3. UNCHANGED <<history, author, user, req, since, failed, data>>
      BY DEF GetAccount, GetPermissions, Handle, context
  <1>4. shared' \in Users \cup {Nobody}
      BY <1>1 DEF GetAccount, GetPermissions, Handle, TypeOK
  <1>5. name' \in [Calls -> Users \cup {Nobody}] /\ line' \in [Calls -> Users \cup {Nobody, Missing}]
      BY <1>1 DEF GetAccount, GetPermissions, Handle, TypeOK, ContextName
  <1>6. perms' \in [Calls -> SUBSET Rights]
    <2>1. Granted(world, user[c]) \subseteq Rights
        BY <1>1, TypeParts, WorldType, GrantedType
    <2> QED
        BY <2>1 DEF GetAccount, GetPermissions, Handle, TypeOK
  <1>7. left' \in [Calls -> Seq(Things)]
    <2>1. Fits(req[c])
        BY <1>1, RequestFits
    <2>2. req[c].about \in Seq(Things)
      <3>1. /\ \A x \in Things : <<x>> \in Seq(Things)
            /\ \A x, y \in Things : <<x, y>> \in Seq(Things)
          OBVIOUS
      <3>2. \A x \in Users \cup Roles \cup Rules \cup Entities : x \in Things
          BY Kinds
      <3>3. \/ \E x \in Things : req[c].about = <<x>>
            \/ \E x \in Things, y \in Things : req[c].about = <<x, y>>
          BY <2>1, <3>2
          DEF Fits, FitsPut, FitsDelete, FitsEnsure, FitsClone, FitsPassword, FitsExport, FitsRead,
              Single, Does
      <3> QED
          BY <3>1, <3>3
    <2> QED
        BY <2>2 DEF GetAccount, GetPermissions, Handle, TypeOK
  <1> QED
      BY <1>2, <1>3, <1>4, <1>5, <1>6, <1>7, Zenon DEF TypeOK, Stages

LEMMA WritingType ==
  ASSUME TypeOK, NEW c \in Calls, Mine(c), Write(c) \/ LoseReply(c)
  PROVE  TypeOK'
  <1>1. HistoryType' /\ Grows
      BY WriteCases, EffectOfCall, SameGrows, TypeParts
  <1>2. pc' \in [Calls -> Stages] /\ answer' \in [Calls -> Codes]
    <2>1. \E err : Answer(c, err)
        BY WriteCases
    <2> QED
        BY <2>1, StageType DEF Stages
  <1>3. Working /\ UNCHANGED <<left, failed, data>>
      BY WriteCases
  <1> QED
      BY <1>1, <1>2, <1>3, WorkType, TypeParts DEF Grows, HistoryType

\* The steps of a call's work that change nothing stored.
Looking(c) ==
    \/ Read(c) \/ Search(c) \/ Fail(c) \/ Export(c) \/ ExportFails(c) \/ Panic(c) \/ Recover(c)

LEMMA LookingType ==
  ASSUME TypeOK, NEW c \in Calls, Mine(c), Looking(c)
  PROVE  TypeOK'
  <1>1. UNCHANGED <<history, author>> /\ Working
      BY DEF Looking, Read, Search, Fail, Export, ExportFails, Exported, Panic, Recover
  <1>2. HistoryType' /\ Grows
      BY <1>1, SameGrows, TypeParts
  <1>3. pc' \in [Calls -> Stages] /\ answer' \in [Calls -> Codes]
    <2>1. \/ \E err : Answer(c, err)
          \/ GoTo(c, "panic")
          \/ UNCHANGED <<pc, answer>>
        BY DEF Looking, Read, Search, Fail, Export, ExportFails, Exported, Panic, Recover
    <2> QED
        BY <2>1, StageType DEF Stages, TypeOK
  <1>4. CASE ~(Export(c) \/ ExportFails(c))
    <2>1. UNCHANGED <<left, failed>>
        BY <1>4 DEF Looking, Read, Search, Fail, Panic, Recover
    <2>2. data' \in [Calls -> SUBSET Found]
      <3>1. CASE Read(c)
        <4>1. Head(req[c].about) \in Things
          <5>1. Fits(req[c])
              BY <3>1, RequestFits DEF Read, Mine, Asked
          <5> QED
              BY <3>1, <5>1 DEF Read, Fits, FitsRead, Single
        <4>2. <<Head(req[c].about), world[Head(req[c].about)]>> \in Found
            BY <4>1, FoundType, TypeParts
        <4> QED
            BY <3>1, <4>2, TypeParts DEF Read
      <3>2. CASE ~Read(c)
          BY <1>4, <3>2, TypeParts DEF Looking, Search, Fail, Panic, Recover
      <3> QED
          BY <3>1, <3>2
    <2> QED
        BY <1>1, <1>2, <1>3, <2>1, <2>2, WorkType, TypeParts DEF Grows, HistoryType
  <1>5. CASE Export(c) \/ ExportFails(c)
    <2>1. pc[c] = "command" /\ req[c].does = "export"
        BY <1>5 DEF Export, ExportFails, Sends
    <2>2. PICK x \in Entities, y \in Entities : left[c] = <<x, y>> \/ left[c] = <<y>>
        BY <2>1 DEF Mine, OfExport
    <2>3. Head(left[c]) \in Entities /\ Head(left[c]) \in Things /\ Tail(left[c]) \in Seq(Things)
      <3>1. x \in Things /\ y \in Things
          BY Kinds
      <3>4. <<y>> \in Seq(Things) /\ <<>> \in Seq(Things)
          BY <3>1
      <3>2. CASE left[c] = <<x, y>>
        <4>1. Head(left[c]) = x /\ Tail(left[c]) = <<y>>
            BY <3>2
        <4> QED
            BY <3>1, <3>4, <4>1, Zenon
      <3>3. CASE left[c] = <<y>>
        <4>1. Head(left[c]) = y /\ Tail(left[c]) = <<>>
            BY <3>3
        <4> QED
            BY <3>1, <3>4, <4>1, Zenon
      <3> QED
          BY <2>2, <3>2, <3>3
    <2>4. <<Head(left[c]), world[Head(left[c])]>> \in Found
        BY <2>3, FoundType, TypeParts
    <2>5. left' \in [Calls -> Seq(Things)]
        BY <1>5, <2>3, TypeParts DEF Export, ExportFails, Exported
    <2>6. failed' \in [Calls -> SUBSET Entities]
        BY <1>5, <2>3, TypeParts DEF Export, ExportFails
    <2>7. \E found \in SUBSET Found : data' = [data EXCEPT ![c] = @ \cup found]
        BY <1>5, <2>4 DEF Export, ExportFails, Exported
    <2>8. data' \in [Calls -> SUBSET Found]
        BY <2>7, TypeParts
    <2> QED
        BY <1>1, <1>2, <1>3, <2>5, <2>6, <2>8, WorkType DEF Grows, HistoryType
  <1> QED
      BY <1>4, <1>5

(***************************************************************************)
(* A call that takes no step keeps what it has established.                *)
(***************************************************************************)
Same(d) ==
    /\ pc'[d] = pc[d] /\ user'[d] = user[d] /\ req'[d] = req[d] /\ since'[d] = since[d]
    /\ name'[d] = name[d] /\ perms'[d] = perms[d] /\ left'[d] = left[d]
    /\ failed'[d] = failed[d] /\ data'[d] = data[d] /\ answer'[d] = answer[d]

\* An instant of a call stays one, and what was stored at it stays so.
Lasting(d) ==
    /\ Changed(d)' <=> Changed(d)
    /\ \A i \in During(d) : i \in During(d)' /\ history'[i] = history[i]

LEMMA Lasts ==
  ASSUME HistoryType, HistoryType', Grows, NEW d \in Calls, since'[d] = since[d],
         since[d] \in 1..Len(history),
         \A i \in (Len(history) + 1)..Len(history') : author'[i] # d
  PROVE  Lasting(d)
  <1>1. Changed(d)' <=> Changed(d)
    <2>1. \A i \in 1..Len(author) : i \in 1..Len(author') /\ author'[i] = author[i]
        BY DEF HistoryType, Grows
    <2>2. \A i \in 1..Len(author') :
            i \in 1..Len(author) \/ i \in (Len(history) + 1)..Len(history')
        BY DEF HistoryType, Grows
    <2> QED
        BY <2>1, <2>2 DEF Changed
  <1>2. \A i \in During(d) : i \in During(d)' /\ history'[i] = history[i]
      BY DEF HistoryType, Grows, During
  <1> QED
      BY <1>1, <1>2 DEF Lasting

LEMMA SameAccounted ==
  ASSUME NEW d \in Calls, Lasting(d), NEW x, Accounted(d, x),
         failed[d] \subseteq failed'[d], data[d] \subseteq data'[d]
  PROVE  Accounted(d, x)'
  BY DEF Lasting, Accounted

LEMMA SameStays ==
  ASSUME NEW d \in Calls, Mine(d), Same(d), Lasting(d)
  PROVE  Mine(d)'
  <1>1. Asked(d)' /\ Quiet(d)'
      BY DEF Mine, Same, Lasting, Asked, Quiet
  <1>2. OfAdmission(d)'
    <2>1. Admitted(d) => Admitted(d)'
        BY DEF Same, Admitted, HasPermissions
    <2> QED
        BY <2>1 DEF Mine, Same, Lasting, OfAdmission
  <1>3. OfData(d)'
      BY DEF Mine, Same, Lasting, OfData
  <1>4. OfDone(d)'
      BY DEF Mine, Same, Lasting, OfDone
  <1>5. OfMissing(d)'
      BY DEF Mine, Same, Lasting, OfMissing
  <1>6. OfExport(d)'
    <2>1. \A x : Accounted(d, x) => Accounted(d, x)'
        BY SameAccounted DEF Same
    <2> QED
        BY <2>1 DEF Mine, Same, OfExport
  <1> QED
      BY <1>1, <1>2, <1>3, <1>4, <1>5, <1>6 DEF Mine

StepOf(c) ==
    \/ \E u \in Users, r \in AllRequests : Begin(c, u, r)
    \/ GetAccount(c) \/ GetPermissions(c) \/ Handle(c)
    \/ Write(c) \/ LoseReply(c) \/ Looking(c)

LEMMA Steps == Next => \E c \in Calls : StepOf(c)
  BY Zenon DEF Next, StepOf, Looking

LEMMA OthersSame ==
  ASSUME TypeOK, NEW c \in Calls, StepOf(c), NEW d \in Calls, d # c
  PROVE  Same(d)
  <1>1. CASE \E u \in Users, r \in AllRequests : Begin(c, u, r)
      BY <1>1 DEF Begin, GoTo, TypeOK, Same
  <1>2. CASE GetAccount(c) \/ GetPermissions(c) \/ Handle(c)
      BY <1>2 DEF GetAccount, GetPermissions, Handle, GoTo, Answer, context, TypeOK, Same
  <1>3. CASE Write(c) \/ LoseReply(c)
      BY <1>3, WriteCases DEF Answer, Working, context, TypeOK, Same
  <1>4. CASE Looking(c)
      BY <1>4 DEF Looking, Read, Search, Fail, Export, ExportFails, Exported, Panic, Recover,
          GoTo, Answer, Working, context, TypeOK, Same
  <1> QED
      BY <1>1, <1>2, <1>3, <1>4 DEF StepOf

LEMMA StepGrows ==
  ASSUME TypeOK, NEW c \in Calls, Mine(c), StepOf(c)
  PROVE  Grows /\ AddedBy(c) /\ HistoryType'
  <1>1. CASE Effected(c)
      BY <1>1, EffectOfCall, TypeParts
  <1>2. CASE ~Effected(c)
    <2>1. UNCHANGED <<history, author>>
        BY <1>2, WriteCases
        DEF StepOf, Begin, GetAccount, GetPermissions, Handle, Looking, Read, Search, Fail, Export,
            ExportFails, Exported, Panic, Recover
    <2> QED
        BY <2>1, SameGrows, TypeParts
  <1> QED
      BY <1>1, <1>2

(***************************************************************************)
(* What the steps of a call establish.                                     *)
(***************************************************************************)
LEMMA BeginMine ==
  ASSUME TypeOK, NEW c \in Calls, Mine(c), NEW u \in Users, NEW r \in AllRequests, Begin(c, u, r)
  PROVE  Mine(c)'
  <1>1. /\ pc[c] = "new" /\ pc'[c] = "account" /\ answer'[c] = "none" /\ user'[c] = u /\ req'[c] = r
        /\ data'[c] = {}
        /\ UNCHANGED <<history, author>>
      BY DEF Begin, GoTo, TypeOK, Mine, Quiet, OfData, Before
  <1>2. Asked(c)' /\ Quiet(c)'
      BY <1>1 DEF Mine, Asked, Quiet, Changed
  <1>3. OfAdmission(c)' /\ OfData(c)' /\ OfDone(c)' /\ OfMissing(c)'
      BY <1>1 DEF OfAdmission, OfData, OfDone, OfMissing
  <1>4. OfExport(c)'
      BY <1>1, RequestFits DEF OfExport, Fits, FitsExport
  <1> QED
      BY <1>2, <1>3, <1>4 DEF Mine

\* A call that is refused before it has read or changed anything.
LEMMA RefusedMine ==
  ASSUME TypeOK, NEW c \in Calls, Mine(c), pc[c] \in Before, NEW err,
         err \in {"ErrUnauthenticated", "ErrAccessDenied", "ErrInvalidArg"}, Answer(c, err),
         UNCHANGED <<history, author, context, data>>, pc[c] # "new"
  PROVE  Mine(c)'
  <1>1. /\ pc'[c] = "done" /\ answer'[c] \in {"Unauthenticated", "PermissionDenied", "InvalidArgument"}
        /\ data'[c] = {} /\ UNCHANGED <<history, author, user, req, since>>
      BY DEF Answer, Converted, TypeOK, Mine, OfData, context
  <1>2. ~Changed(c)'
      BY <1>1 DEF Mine, Quiet, Changed, Before
  <1>3. Asked(c)' /\ Quiet(c)' /\ OfAdmission(c)' /\ OfData(c)' /\ OfDone(c)' /\ OfMissing(c)'
      BY <1>1, <1>2 DEF Mine, Asked, Quiet, OfAdmission, OfData, OfDone, OfMissing, Before
  <1>4. OfExport(c)'
      BY <1>1 DEF Mine, OfExport
  <1> QED
      BY <1>3, <1>4 DEF Mine

\* A call that goes on to the next stage before it works.
LEMMA OnwardMine ==
  ASSUME TypeOK, NEW c \in Calls, Mine(c), pc[c] \in Before, pc[c] # "new",
         NEW stage \in {"permissions", "handle", "command"}, GoTo(c, stage),
         UNCHANGED <<history, author, context, data>>, OfAdmission(c)',
         stage = "command" => left'[c] = req[c].about
  PROVE  Mine(c)'
  <1>1. /\ pc'[c] = stage /\ answer'[c] = "none"
        /\ data'[c] = {} /\ UNCHANGED <<history, author, user, req, since>>
      BY DEF GoTo, TypeOK, Mine, Quiet, OfData, context, Before
  <1>2. ~Changed(c)'
      BY <1>1 DEF Mine, Quiet, Changed, Before
  <1>3. Asked(c)' /\ Quiet(c)' /\ OfData(c)' /\ OfDone(c)' /\ OfMissing(c)'
      BY <1>1, <1>2 DEF Mine, Asked, Quiet, OfData, OfDone, OfMissing
  <1>4. OfExport(c)'
      BY <1>1 DEF Mine, OfExport
  <1> QED
      BY <1>3, <1>4 DEF Mine

LEMMA AdmissionMine ==
  ASSUME TypeOK, NEW c \in Calls, Mine(c), GetAccount(c) \/ GetPermissions(c) \/ Handle(c)
  PROVE  Mine(c)'
  <1>1. pc[c] \in Before /\ pc[c] # "new" /\ UNCHANGED <<history, author, context, data>>
      BY DEF GetAccount, GetPermissions, Handle, Before
  <1>2. CASE GetAccount(c) /\ GoTo(c, "permissions")
    <2>1. OfAdmission(c)'
        BY <1>2 DEF GoTo, OfAdmission, TypeOK
    <2> QED
        BY <1>1, <1>2, <2>1, OnwardMine
  <1>3. CASE GetPermissions(c)
    <2>1. name'[c] = user[c] /\ perms'[c] = Granted(world, user[c]) /\ pc'[c] = "handle"
        BY <1>3 DEF GetPermissions, ContextName, GoTo, TypeOK
    <2>2. Len(history) \in During(c) /\ During(c)' = During(c) /\ user' = user /\ history' = history
        BY <1>1 DEF During, TypeOK, context
    <2>3. OfAdmission(c)'
        BY <2>1, <2>2 DEF OfAdmission, world
    <2> QED
        BY <1>1, <1>3, <2>3, OnwardMine DEF GetPermissions
  <1>4. CASE Handle(c) /\ GoTo(c, "command")
    <2>1. UNCHANGED <<name, perms, user, req, since, history>> /\ pc[c] = "handle"
        BY <1>1, <1>4 DEF Handle, context
    <2>2. pc' = [pc EXCEPT ![c] = "command"]
        BY <1>4 DEF GoTo
    <2>3. pc'[c] # pc[c] /\ pc'[c] # "done"
        BY <2>1, <2>2 DEF TypeOK
    <2>4. Admitted(c) /\ ~(req[c].does = "ensure" /\ req[c].value = Missing)
        BY <1>4, <2>3 DEF Handle, Answer, TypeOK
    <2>5. Admitted(c)'
        BY <2>1, <2>4 DEF Admitted, HasPermissions
    <2>6. OfAdmission(c)'
        BY <2>1, <2>4, <2>5 DEF Mine, OfAdmission, During
    <2>7. left'[c] = req[c].about
        BY <1>4 DEF Handle, TypeOK
    <2> QED
        BY <1>1, <1>4, <2>6, <2>7, OnwardMine
  <1>5. CASE \E err \in {"ErrUnauthenticated", "ErrAccessDenied", "ErrInvalidArg"} : Answer(c, err)
      BY <1>1, <1>5, RefusedMine
  <1> QED
      BY <1>2, <1>3, <1>4, <1>5 DEF GetAccount, Handle

LEMMA Abouts ==
  ASSUME NEW r, Fits(r)
  PROVE  /\ 1 \in DOMAIN r.about /\ r.about[1] = Head(r.about)
         /\ r.does = "clone" => 2 \in DOMAIN r.about
  BY DEF Fits, FitsPut, FitsDelete, FitsEnsure, FitsClone, FitsPassword, FitsExport, FitsRead,
         Single, Does

LEMMA OutcomeTrue ==
  ASSUME NEW w, NEW r, Fits(r)
  PROVE  /\ Outcome(w, r) \in {"ok", "rados", "ErrNotFound", "ErrAlreadyExists", "ErrInvalidArg", "bcrypt"}
         /\ Outcome(w, r) = "ErrNotFound" => \E k \in DOMAIN r.about : w[r.about[k]] = Missing
         /\ Outcome(w, r) = "ErrAlreadyExists" => w[Head(r.about)] # Missing
  <1>1. r.absent \in {"ok", "ErrNotFound"} /\ r.present \in {"ok", "rados", "ErrAlreadyExists"}
      BY DEF Fits
  <1> QED
      BY <1>1, Abouts DEF Outcome

LEMMA EffectDone ==
  ASSUME NEW w \in Worlds, NEW r, Fits(r), r.does \in Writing, Outcome(w, r) = "ok",
         r.does = "ensure" => r.value # Missing
  PROVE  DoneAt(r, After(w, r))
  <1>1. CASE r.does = "put"
      BY <1>1, PutEffect DEF DoneAt
  <1>2. CASE r.does = "delete"
      BY <1>2, DeleteEffect DEF DoneAt
  <1>3. CASE r.does = "ensure"
      BY <1>3, EnsureEffect DEF DoneAt
  <1>4. CASE r.does = "clone"
      BY <1>4, CloneEffect DEF DoneAt
  <1>5. CASE r.does = "password"
      BY <1>5, PasswordEffect DEF DoneAt
  <1> QED
      BY <1>1, <1>2, <1>3, <1>4, <1>5 DEF Writing

LEMMA WritingMine ==
  ASSUME TypeOK, NEW c \in Calls, Mine(c), Write(c) \/ LoseReply(c)
  PROVE  Mine(c)'
  <1>1. /\ Working /\ UNCHANGED <<left, failed, data>>
        /\ pc[c] = "command" /\ req[c].does \in Writing
      BY WriteCases
  <1>2. UNCHANGED <<user, req, since>> /\ req[c] \in AllRequests /\ user[c] \in Users
        /\ Fits(req[c]) /\ since[c] \in 1..Len(history)
      BY <1>1, RequestFits DEF Working, context, Mine, Asked, TypeOK
  <1>3. HistoryType /\ HistoryType' /\ Grows
      BY WriteCases, EffectOfCall, SameGrows, TypeParts
  <1>4. \A i \in During(c) : i \in During(c)' /\ history'[i] = history[i]
      BY <1>2, <1>3 DEF HistoryType, Grows, During
  <1>5. Len(history') \in During(c)' /\ Len(history) \in During(c)
      BY <1>2, <1>3 DEF HistoryType, Grows, During
  <1>6. pc'[c] = "done" /\ \E err : answer'[c] = Converted(err)
      BY WriteCases DEF Answer, TypeOK
  <1>7. Asked(c)' /\ OfAdmission(c)' /\ OfData(c)'
      BY <1>1, <1>2, <1>4, <1>6 DEF Mine, Asked, OfAdmission, OfData, Before
  <1>8. OfExport(c)'
      BY <1>1, <1>2 DEF Writing, OfExport
  <1>9. CASE Effected(c) /\ (Answer(c, "ok") \/ Answer(c, "rados"))
    <2>1. answer'[c] \in {"OK", "Internal"}
        BY <1>9 DEF Answer, Converted, TypeOK
    <2>2. history'[Len(history')] = After(world, req[c])
        BY <1>9, <1>3, EffectOfCall
    <2>3. DoneAt(req[c], After(world, req[c]))
        BY <1>1, <1>2, <1>3, <1>9, EffectDone, WorldType DEF Effected, Mine, OfAdmission
    <2>4. OfDone(c)'
        BY <1>2, <1>5, <2>2, <2>3 DEF OfDone
    <2> QED
        BY <1>6, <1>7, <1>8, <2>1, <2>4 DEF Mine, Quiet, OfMissing
  <1>10. CASE /\ UNCHANGED <<history, author>> /\ Outcome(world, req[c]) # "ok"
              /\ Answer(c, Outcome(world, req[c]))
    <2>1. answer'[c] = Converted(Outcome(world, req[c]))
        BY <1>10 DEF Answer, TypeOK
    <2>2. /\ Outcome(world, req[c]) \in {"rados", "ErrNotFound", "ErrAlreadyExists", "ErrInvalidArg", "bcrypt"}
          /\ Outcome(world, req[c]) = "ErrNotFound" =>
               \E k \in DOMAIN req[c].about : world[req[c].about[k]] = Missing
          /\ Outcome(world, req[c]) = "ErrAlreadyExists" => world[Head(req[c].about)] # Missing
        BY <1>2, <1>10, OutcomeTrue
    <2>3. answer'[c] # "OK"
        BY <2>1, <2>2 DEF Converted
    <2>4. OfMissing(c)'
      <3>1. answer'[c] = "NotFound" => Outcome(world, req[c]) = "ErrNotFound"
          BY <2>1, <2>2 DEF Converted
      <3>2. answer'[c] = "AlreadyExists" => Outcome(world, req[c]) = "ErrAlreadyExists"
          BY <2>1, <2>2 DEF Converted
      <3>3. req'[c] = req[c] /\ history'[Len(history)] = world /\ Len(history) \in During(c)'
          BY <1>2, <1>4, <1>5 DEF world
      <3> QED
          BY <2>2, <3>1, <3>2, <3>3 DEF OfMissing
    <2>5. Quiet(c)'
        BY <1>1, <1>6, <1>10 DEF Mine, Quiet, Changed
    <2> QED
        BY <1>7, <1>8, <2>3, <2>4, <2>5 DEF Mine, OfDone
  <1> QED
      BY <1>9, <1>10, WriteCases

LEMMA ReadMine ==
  ASSUME TypeOK, NEW c \in Calls, Mine(c), Read(c)
  PROVE  Mine(c)'
  <1>1. /\ pc[c] = "command" /\ req[c].does \in {"read", "look", "dump"}
        /\ UNCHANGED <<history, author, user, req, since>>
        /\ pc'[c] = "done" /\ answer'[c] = Converted(Outcome(world, req[c]))
      BY DEF Read, Working, context, Answer, TypeOK
  <1>2. Fits(req[c]) /\ During(c)' = During(c) /\ Len(history) \in During(c)
      BY <1>1, RequestFits DEF Mine, Asked, During, TypeOK
  <1>3. Asked(c)' /\ OfAdmission(c)' /\ OfDone(c)' /\ OfExport(c)'
      BY <1>1 DEF Mine, Asked, OfAdmission, OfDone, OfExport, Writing
  <1>4. Quiet(c)'
      BY <1>1 DEF Mine, Quiet, Changed
  <1>5. OfData(c)'
    <2>1. data'[c] \subseteq {<<Head(req[c].about), world[Head(req[c].about)]>>}
        BY DEF Read, TypeOK
    <2> QED
        BY <1>1, <1>2, <2>1 DEF OfData, Before, world
  <1>6. OfMissing(c)'
    <2>1. /\ Outcome(world, req[c]) = "ErrNotFound" =>
               \E k \in DOMAIN req[c].about : world[req[c].about[k]] = Missing
          /\ Outcome(world, req[c]) = "ErrAlreadyExists" => world[Head(req[c].about)] # Missing
        BY <1>2, OutcomeTrue
    <2>2. Outcome(world, req[c]) \in {"ok", "rados", "ErrNotFound", "ErrAlreadyExists", "ErrInvalidArg", "bcrypt"}
        BY <1>2, OutcomeTrue
    <2>3. /\ answer'[c] = "NotFound" => Outcome(world, req[c]) = "ErrNotFound"
          /\ answer'[c] = "AlreadyExists" => Outcome(world, req[c]) = "ErrAlreadyExists"
        BY <1>1, <2>2 DEF Converted
    <2>4. req'[c] = req[c] /\ history'[Len(history)] = world /\ Len(history) \in During(c)'
        BY <1>1, <1>2 DEF world
    <2> QED
        BY <2>1, <2>3, <2>4 DEF OfMissing
  <1> QED
      BY <1>3, <1>4, <1>5, <1>6 DEF Mine

\* A command fails, memory is searched, or a handler panics and is recovered.
LEMMA EndingMine ==
  ASSUME TypeOK, NEW c \in Calls, Mine(c), Search(c) \/ Fail(c) \/ Panic(c) \/ Recover(c)
  PROVE  Mine(c)'
  <1>1. /\ pc[c] \in {"command", "panic"}
        /\ UNCHANGED <<history, author, user, req, since, failed, data>>
        /\ \/ pc'[c] = "panic" /\ answer'[c] = "none"
           \/ pc'[c] = "done" /\ answer'[c] = "Internal"
           \/ pc'[c] = "done" /\ answer'[c] = "OK" /\ req[c].does = "search"
      BY DEF Search, Fail, Panic, Recover, Sends, Working, context, Answer, GoTo, Converted, TypeOK,
             Mine, Quiet
  <1>2. Asked(c)' /\ OfAdmission(c)' /\ OfDone(c)' /\ OfMissing(c)'
      BY <1>1 DEF Mine, Asked, OfAdmission, OfDone, OfMissing, Writing
  <1>3. Quiet(c)'
      BY <1>1 DEF Mine, Quiet, Changed
  <1>4. OfData(c)'
      BY <1>1 DEF Mine, OfData, During, Before
  <1>5. OfExport(c)'
      BY <1>1 DEF Mine, OfExport
  <1> QED
      BY <1>2, <1>3, <1>4, <1>5 DEF Mine

LEMMA ExportMine ==
  ASSUME TypeOK, NEW c \in Calls, Mine(c), Export(c) \/ ExportFails(c)
  PROVE  Mine(c)'
  <1>1. /\ pc[c] = "command" /\ req[c].does = "export"
        /\ UNCHANGED <<history, author, user, req, since>>
      BY DEF Export, ExportFails, Exported, Sends, Working, context
  <1>2. PICK x \in Entities, y \in Entities :
          /\ req[c].about = <<x, y>>
          /\ left[c] = <<x, y>> \/ (left[c] = <<y>> /\ Accounted(c, x))
      BY <1>1 DEF Mine, OfExport
  <1> DEFINE z == Head(left[c])
  <1>3. During(c)' = During(c) /\ Len(history) \in During(c)
      BY <1>1 DEF During, TypeOK
  <1>4. /\ failed[c] \subseteq failed'[c] /\ data[c] \subseteq data'[c]
        /\ left'[c] = Tail(left[c])
        /\ z \in failed'[c] \/ world[z] = Missing \/ <<z, world[z]>> \in data'[c]
        /\ \A p \in data'[c] : p \in data[c] \/ p = <<z, world[z]>>
      BY DEF Export, ExportFails, Exported, TypeOK
  <1>5. ASSUME NEW v, v = z PROVE Accounted(c, v)'
    <2>1. CASE v \in failed'[c]
        BY <2>1 DEF Accounted
    <2>2. CASE world[v] = Missing
        BY <1>1, <1>3, <2>2 DEF Accounted, world
    <2>3. CASE <<v, world[v]>> \in data'[c]
        BY <2>3 DEF Accounted
    <2> QED
        BY <1>4, <1>5, <2>1, <2>2, <2>3
  <1>6. Accounted(c, x) => Accounted(c, x)'
      BY <1>1, <1>3, <1>4 DEF Accounted
  <1>7. \/ pc'[c] = "command" /\ answer'[c] = "none" /\ Tail(left[c]) # <<>>
        \/ pc'[c] = "done" /\ answer'[c] = "OK" /\ Tail(left[c]) = <<>>
      BY <1>1 DEF Export, ExportFails, Exported, Answer, Converted, TypeOK, Mine, Quiet
  <1>8. OfExport(c)'
    <2>1. CASE left[c] = <<x, y>>
      <3>1. z = x /\ left'[c] = <<y>> /\ pc'[c] = "command" /\ answer'[c] = "none"
          BY <1>4, <1>7, <2>1
      <3>2. Accounted(c, x)'
          BY <1>5, <3>1
      <3> QED
          BY <1>1, <1>2, <3>1, <3>2 DEF OfExport
    <2>2. CASE left[c] = <<y>> /\ Accounted(c, x)
      <3>1. z = y /\ pc'[c] = "done"
          BY <1>4, <1>7, <2>2
      <3>2. Accounted(c, y)'
          BY <1>5, <3>1
      <3> QED
          BY <1>1, <1>2, <1>6, <2>2, <3>1, <3>2 DEF OfExport
    <2> QED
        BY <1>2, <2>1, <2>2
  <1>9. Asked(c)' /\ OfDone(c)' /\ OfMissing(c)'
      BY <1>1, <1>7 DEF Mine, Asked, OfDone, OfMissing, Writing
  <1>10. Quiet(c)'
      BY <1>1, <1>7 DEF Mine, Quiet, Changed
  <1>11. OfData(c)'
      BY <1>1, <1>3, <1>4, <1>7 DEF Mine, OfData, Before, world
  <1>12. OfAdmission(c)'
    <2>1. Admitted(c) => Admitted(c)'
        BY <1>1 DEF Export, ExportFails, Exported, Working, Admitted, HasPermissions
    <2>2. UNCHANGED <<name, perms>>
        BY DEF Export, ExportFails, Exported, Working
    <2> QED
        BY <1>1, <1>3, <1>7, <2>1, <2>2 DEF Mine, OfAdmission
  <1> QED
      BY <1>8, <1>9, <1>10, <1>11, <1>12 DEF Mine

(***************************************************************************)
(* Every change is rightful.                                               *)
(***************************************************************************)
LEMMA StepUndone == ASSUME NEW c \in Calls, StepOf(c) PROVE pc[c] # "done"
  BY WriteCases
  DEF StepOf, Begin, GetAccount, GetPermissions, Handle, Looking, Read, Search, Fail, Export,
      ExportFails, Sends, Panic, Recover

\* A call that ends has its answer.
LEMMA StepAnswers ==
  ASSUME TypeOK, NEW c \in Calls, Mine(c), StepOf(c), pc'[c] = "done"
  PROVE  answer'[c] # "none"
  <1>1. pc[c] # "done" /\ pc \in [Calls -> Stages] /\ answer \in [Calls -> Codes]
      BY StepUndone DEF TypeOK, Stages
  <1>2. \/ \E err : Answer(c, err)
        \/ \E stage \in Stages \ {"done"} : GoTo(c, stage)
        \/ UNCHANGED <<pc, answer>>
    <2>1. CASE \E u \in Users, r \in AllRequests : Begin(c, u, r)
        BY <2>1, Zenon DEF Begin, Stages
    <2>2. CASE GetAccount(c) \/ GetPermissions(c) \/ Handle(c)
        BY <2>2 DEF GetAccount, GetPermissions, Handle, Stages
    <2>3. CASE Write(c) \/ LoseReply(c)
        BY <2>3, WriteCases
    <2>4. CASE Looking(c)
        BY <2>4 DEF Looking, Read, Search, Fail, Export, ExportFails, Exported, Panic, Recover, Stages
    <2> QED
        BY <2>1, <2>2, <2>3, <2>4 DEF StepOf
  <1> QED
      BY <1>1, <1>2, CodeType DEF GoTo, Answer

LEMMA OldRightful ==
  ASSUME TypeOK, NEW c \in Calls, Mine(c), StepOf(c), NEW i \in 2..Len(history), Rightful(i)
  PROVE  Rightful(i)'
  <1>1. Grows /\ HistoryType /\ HistoryType'
      BY StepGrows, TypeParts
  <1>2. author[i] \in Calls /\ author[i] # c
    <2>1. ~Changed(c)
        BY StepUndone DEF Mine, Quiet
    <2>2. i \in 1..Len(author)
        BY <1>1 DEF HistoryType
    <2> QED
        BY <2>1, <2>2 DEF Changed, Rightful
  <1>3. i \in 1..Len(history) /\ i - 1 \in 1..Len(history)
      BY <1>1 DEF HistoryType
  <1>4. author'[i] = author[i] /\ history'[i] = history[i] /\ history'[i - 1] = history[i - 1]
      BY <1>1, <1>3 DEF Grows
  <1>5. user'[author[i]] = user[author[i]] /\ since'[author[i]] = since[author[i]]
      BY <1>2, OthersSame DEF Same
  <1>6. \A x \in Things : MayChange(author[i], x, i) => MayChange(author[i], x, i)'
    <2>1. \A j \in since[author[i]]..(i - 1) : history'[j] = history[j]
        BY <1>1, <1>2, <1>3 DEF Grows, HistoryType, TypeOK
    <2> QED
        BY <1>4, <1>5, <2>1 DEF MayChange
  <1> QED
      BY <1>2, <1>4, <1>5, <1>6 DEF Rightful

LEMMA NewRightful ==
  ASSUME TypeOK, NEW c \in Calls, Mine(c), Effected(c), UNCHANGED context,
         NEW i \in Nat, i = Len(history) + 1, i = Len(history')
  PROVE  Rightful(i)'
  <1> DEFINE w == After(world, req[c])
  <1>1. /\ Effective(world, req[c]) /\ HistoryType' /\ Grows /\ AddedBy(c) /\ HistoryType
        /\ history'[Len(history')] = w
      BY EffectOfCall, TypeParts
  <1>2. /\ author'[i] = c /\ history'[i] = w
        /\ history'[i - 1] = world /\ i - 1 = Len(history)
      BY <1>1 DEF AddedBy, Grows, HistoryType, world
  <1>3. Admitted(c) /\ UNCHANGED <<user, since, req>> /\ pc[c] = "command" /\ Fits(req[c])
      BY RequestFits DEF Effected, Mine, OfAdmission, Asked, context
  <1>4. PICK j \in During(c) : perms[c] = Granted(history[j], user[c])
      BY <1>3 DEF Mine, OfAdmission
  <1>5. j \in since[c]..Len(history) /\ history'[j] = history[j]
      BY <1>1, <1>4 DEF During, Grows, TypeOK
  <1>6. ASSUME NEW x \in Things, w[x] # world[x]
        PROVE  \/ MayChange(c, x, i)'
               \/ NewPassword(x, world[x], w[x]) /\ user[c] = x
    <2>1. CASE Pays(req[c], x, world[x], w[x])
      <3>1. PICK p \in Allowing(x, world[x], w[x]) : p \in req[c].needs
          BY <2>1 DEF Pays
      <3>2. req[c].does # "password"
          BY <1>3, <3>1 DEF Fits, FitsPassword
      <3>3. <<ScopeOf(x), p>> \in Granted(history[j], user[c])
          BY <1>3, <1>4, <2>1, <3>1, <3>2 DEF Admitted, HasPermissions, Pays
      <3>4. j \in since'[c]..(i - 1)
          BY <1>2, <1>3, <1>5
      <3>5. p \in Allowing(x, history'[i - 1][x], history'[i][x])
          BY <1>2, <3>1
      <3>6. <<ScopeOf(x), p>> \in Granted(history'[j], user'[c])
          BY <1>3, <1>5, <3>3
      <3> QED
          BY <3>4, <3>5, <3>6 DEF MayChange
    <2>2. CASE OwnPassword(req[c], x, world[x], w[x])
        BY <1>3, <2>2 DEF OwnPassword, Admitted, Mine, OfAdmission
    <2> QED
        BY <1>1, <1>6, <2>1, <2>2 DEF Effective
  <1> HIDE DEF w
  <1>7. ASSUME NEW x \in Things, history'[i][x] # history'[i - 1][x]
        PROVE  \/ MayChange(author[i], x, i)'
               \/ NewPassword(x, history'[i - 1][x], history'[i][x]) /\ user'[author'[i]] = x
    <2>1. w[x] # world[x]
        BY <1>2, <1>7
    <2>2. CASE MayChange(c, x, i)'
        BY <1>2, <2>2 DEF MayChange
    <2>3. CASE NewPassword(x, world[x], w[x]) /\ user[c] = x
        BY <1>2, <1>3, <2>3
    <2> QED
        BY <1>6, <2>1, <2>2, <2>3
  <1> QED
      BY <1>2, <1>7 DEF Rightful

(***************************************************************************)
(* The whole invariant.                                                    *)
(***************************************************************************)
LEMMA StepRightful ==
  ASSUME IInv, NEW c \in Calls, StepOf(c)
  PROVE  \A i \in 2..Len(history') : Rightful(i)'
  <1>1. Grows /\ HistoryType /\ HistoryType' /\ Mine(c) /\ TypeOK
      BY StepGrows, TypeParts DEF IInv
  <1>2. ASSUME NEW i \in 2..Len(history), i \in 2..Len(history') PROVE Rightful(i)'
      BY <1>1, <1>2, OldRightful DEF IInv
  <1>3. CASE Effected(c) /\ Len(history') = Len(history) + 1
    <2>1. UNCHANGED context
        BY <1>3, StepUndone, WriteCases
        DEF StepOf, Begin, GetAccount, GetPermissions, Handle, Looking, Read, Search, Fail, Export,
            ExportFails, Exported, Panic, Recover, Effected, Working
    <2>2. ASSUME NEW i \in Nat, i = Len(history) + 1, i = Len(history') PROVE Rightful(i)'
        BY <1>1, <1>3, <2>1, <2>2, NewRightful
    <2>3. \A i \in 2..Len(history') : i \in 2..Len(history) \/ (i \in Nat /\ i = Len(history) + 1)
        BY <1>1, <1>3 DEF HistoryType
    <2> QED
        BY <1>2, <1>3, <2>2, <2>3
  <1>4. CASE Len(history') = Len(history)
      BY <1>2, <1>4
  <1>5. Len(history') = Len(history) \/ (Effected(c) /\ Len(history') = Len(history) + 1)
    <2>1. CASE Effected(c)
        BY <1>1, <2>1, EffectOfCall
    <2>2. CASE ~Effected(c)
        BY <2>2, WriteCases
        DEF StepOf, Begin, GetAccount, GetPermissions, Handle, Looking, Read, Search, Fail, Export,
            ExportFails, Exported, Panic, Recover
    <2> QED
        BY <2>1, <2>2
  <1> QED
      BY <1>3, <1>4, <1>5

LEMMA NextInv == IInv /\ [Next]_vars => IInv'
  <1> SUFFICES ASSUME IInv, [Next]_vars PROVE IInv'
      OBVIOUS
  <1>1. ASSUME NEW c \in Calls, StepOf(c) PROVE IInv'
    <2>1. TypeOK /\ Mine(c)
        BY DEF IInv
    <2>2. TypeOK'
        BY <1>1, <2>1, BeginType, AdmissionType, WritingType, LookingType DEF StepOf
    <2>3. Mine(c)'
        BY <1>1, <2>1, BeginMine, AdmissionMine, WritingMine, ReadMine, EndingMine, ExportMine
        DEF StepOf, Looking
    <2>4. ASSUME NEW d \in Calls, d # c PROVE Mine(d)'
      <3>1. Same(d) /\ Mine(d)
          BY <1>1, <2>1, <2>4, OthersSame DEF IInv
      <3>2. Grows /\ AddedBy(c) /\ HistoryType /\ HistoryType'
          BY <1>1, <2>1, StepGrows, TypeParts
      <3>3. since[d] \in 1..Len(history) /\ since'[d] = since[d]
          BY <2>1, <3>1 DEF TypeOK, Same
      <3>4. Lasting(d)
          BY <2>4, <3>2, <3>3, Lasts DEF AddedBy
      <3> QED
          BY <3>1, <3>4, SameStays
    <2>5. \A i \in 2..Len(history') : Rightful(i)'
        BY <1>1, StepRightful
    <2> QED
        BY <2>2, <2>3, <2>4, <2>5 DEF IInv
  <1>2. CASE UNCHANGED vars
    <2>1. TypeOK'
        BY <1>2 DEF IInv, TypeOK, vars, context
    <2>2. ASSUME NEW d \in Calls PROVE Mine(d)'
      <3>1. Same(d) /\ Mine(d)
          BY <1>2 DEF vars, context, Same, IInv
      <3>2. Lasting(d)
          BY <1>2 DEF vars, context, Lasting, Changed, During
      <3> QED
          BY <3>1, <3>2, SameStays
    <2>3. \A i \in 2..Len(history) : Rightful(i)'
        BY <1>2 DEF IInv, vars, context, Rightful, MayChange
    <2> QED
        BY <1>2, <2>1, <2>2, <2>3 DEF IInv, vars
  <1> QED
      BY <1>1, <1>2, Steps

LEMMA Invariant == Spec => []IInv
  BY InitInv, NextInv, PTL DEF Spec

(***************************************************************************)
(* The theorems.                                                           *)
(***************************************************************************)
\* The types of Requests are kept by every call, failed command and panic.
THEOREM CallsTypeCorrect == Spec => []TypeOK
  <1>1. IInv => TypeOK
      BY DEF IInv
  <1> QED
      BY <1>1, Invariant, PTL

\* HasPermissions in each handler lets a call change only what its user had a
\* permission for at an instant of the call, whatever other calls did meanwhile.
THEOREM ChangesAreAuthorised == Spec => []Authorised
  <1>1. IInv => Authorised
      BY DEF IInv, Rightful, Authorised
  <1> QED
      BY <1>1, Invariant, PTL

\* UserChangePassword gives a new password to nobody but its own user.
THEOREM PasswordsAreOwn == Spec => []OwnPasswordOnly
  <1>1. IInv => OwnPasswordOnly
    <2>1. \A x \in Users : x \in Things
        BY Kinds
    <2> QED
        BY <2>1 DEF IInv, Rightful, OwnPasswordOnly
  <1> QED
      BY <1>1, Invariant, PTL

\* What the handlers and user.Service refuse they have not done.
THEOREM RefusalsLeaveNothing == Spec => []RefusalChangesNothing
  <1>1. IInv => RefusalChangesNothing
      BY DEF IInv, Mine, Quiet, RefusalChangesNothing, Refusals
  <1> QED
      BY <1>1, Invariant, PTL

\* An answer OK of a method that writes is true of an instant of the call.
THEOREM AnswersToWrites == Spec => []AcknowledgedIsDone
  <1>1. IInv => AcknowledgedIsDone
      BY DEF IInv, Mine, OfDone, DoneAt, AcknowledgedIsDone
  <1> QED
      BY <1>1, Invariant, PTL

\* What a method reads, and what it says is missing or there, was so at an
\* instant of the call.
THEOREM AnswersToReads == Spec => []AnswersAreTrue
  <1>1. IInv => AnswersAreTrue
      BY DEF IInv, Mine, OfData, OfMissing, AnswersAreTrue
  <1> QED
      BY <1>1, Invariant, PTL

\* ExportUser leaves out an entity only if it was missing or its command failed.
THEOREM ExportsAreComplete == Spec => []ExportIsComplete
  <1>1. IInv => ExportIsComplete
    <2> SUFFICES ASSUME IInv, NEW c \in Calls, answer[c] = "OK", req[c].does = "export",
                        NEW k \in DOMAIN req[c].about
                 PROVE  Accounted(c, req[c].about[k])
        BY DEF ExportIsComplete, Accounted
    <2>1. PICK x \in Entities, y \in Entities :
            req[c].about = <<x, y>> /\ Accounted(c, x) /\ Accounted(c, y)
        BY DEF IInv, Mine, OfExport
    <2>2. req[c].about[k] = x \/ req[c].about[k] = y
        BY <2>1
    <2> QED
        BY <2>1, <2>2
  <1> QED
      BY <1>1, Invariant, PTL

\* However a handler ends, and unaryServerRecover makes a panic in it an answer,
\* its call gets one answer for good, and no other call ends or is answered.
THEOREM CallsEndAlone == Spec => EndsAlone
  <1> DEFINE Apart(c) == \A d \in Calls \ {c} : pc'[d] = pc[d] /\ answer'[d] = answer[d]
             Ends(c) == pc[c] # "done" /\ pc'[c] = "done" => answer'[c] # "none" /\ Apart(c)
             Stays(c) == answer[c] # "none" => answer'[c] = answer[c]
  <1>1. IInv /\ [Next]_vars => [\A c \in Calls : Stays(c) /\ Ends(c)]_vars
    <2> SUFFICES ASSUME IInv, Next, NEW c \in Calls PROVE Stays(c) /\ Ends(c)
        BY Zenon
    <2>1. PICK e \in Calls : StepOf(e)
        BY Steps
    <2>2. \A d \in Calls : d # e => pc'[d] = pc[d] /\ answer'[d] = answer[d]
        BY <2>1, OthersSame DEF IInv, Same
    <2>3. pc[e] # "done" /\ answer[e] = "none"
        BY <2>1, StepUndone DEF IInv, Mine, Quiet
    <2>4. pc'[e] = "done" => answer'[e] # "none"
        BY <2>1, StepAnswers DEF IInv
    <2> QED
        BY <2>2, <2>3, <2>4
  <1>2. (\A c \in Calls : Stays(c) /\ Ends(c))
        => \A c \in Calls :
             /\ answer[c] # "none" => answer'[c] = answer[c]
             /\ pc[c] # "done" /\ pc'[c] = "done" =>
                  /\ answer'[c] # "none"
                  /\ \A d \in Calls \ {c} : pc'[d] = pc[d] /\ answer'[d] = answer[d]
      BY Zenon
  <1> HIDE DEF Stays, Ends
  <1> QED
      BY <1>1, <1>2, Invariant, PTL DEF Spec, EndsAlone
===============================================================================
