----------------------------- MODULE SessionsProofs -----------------------------
(***************************************************************************)
(* Proofs about Sessions, for any users, accounts, callers and bounds.     *)
(***************************************************************************)
EXTENDS Sessions, TLAPS

(***************************************************************************)
(* Types.                                                                  *)
(***************************************************************************)
LEMMA WiderSeq ==
  ASSUME NEW S, NEW T, S \subseteq T, NEW q \in Seq(S)
  PROVE  q \in Seq(T)
  OBVIOUS

LEMMA SetInSeq ==
  ASSUME NEW S, NEW q \in Seq(S), NEW i \in 1..Len(q), NEW v \in S
  PROVE  [q EXCEPT ![i] = v] \in Seq(S) /\ Len([q EXCEPT ![i] = v]) = Len(q)
  OBVIOUS

\* The types only depend on how many pairs and sessions there are.
LEMMA SameTypes ==
  ASSUME UNCHANGED <<owner, newest>>
  PROVE  Pairs' = Pairs /\ Sessions' = Sessions /\ Newest' = Newest
  BY DEF Pairs, Sessions, Newest

LEMMA InitType == Init => TypeOK
  <1> SUFFICES ASSUME Init PROVE TypeOK
      OBVIOUS
  <1>1. history \in Seq(Accounts) /\ Len(history) = 1
      BY SessionsAssumption DEF Init
  <1>2. NoRequest \in Requests /\ NoRequest.since = 1 /\ NoRequest.op = "none"
      BY DEF NoRequest, Requests
  <1>3. "none" \notin SignIns /\ "none" \notin Presenting
      BY DEF SignIns, Presenting, Revocations
  <1>4. /\ owner \in Seq(Users) /\ id \in Seq(Sessions) /\ Len(id) = Len(owner)
        /\ newest \in Seq(Newest)
      BY DEF Init
  <1> QED
      BY <1>1, <1>2, <1>3, <1>4, SessionsAssumption DEF Init, TypeOK, Stages

LEMMA AccountsType == TypeOK => accounts \in Accounts
  BY DEF TypeOK, accounts

\* A pair has an owner and a session, and a session its newest tokens.
LEMMA PairType ==
  ASSUME TypeOK
  PROVE  /\ Len(owner) \in Nat /\ Len(newest) \in Nat
         /\ \A t \in Pairs : owner[t] \in Users /\ id[t] \in Sessions
         /\ \A s \in Sessions : newest[s] \in Newest
         /\ \A s \in Sessions : newest[s].access \in Pairs /\ newest[s].refresh \in Pairs
  <1>1. Len(owner) \in Nat /\ Len(newest) \in Nat
      BY DEF TypeOK
  <1>2. \A t \in Pairs : owner[t] \in Users
      BY DEF TypeOK, Pairs
  <1>3. \A t \in Pairs : id[t] \in Sessions
    <2>1. id \in Seq(Sessions) /\ Pairs = 1..Len(id)
        BY DEF TypeOK, Pairs
    <2> QED
        BY <2>1
  <1>4. \A s \in Sessions : newest[s] \in Newest
    <2>1. newest \in Seq(Newest) /\ Sessions = 1..Len(newest)
        BY DEF TypeOK, Sessions
    <2> QED
        BY <2>1
  <1> QED
      BY <1>1, <1>2, <1>3, <1>4 DEF Newest

\* raced only has sessions, and sessions stay.
LEMMA RacedType ==
  ASSUME raced \subseteq Sessions, Sessions \subseteq Sessions', raced' = raced \cup Races'
  PROVE  raced' \subseteq Sessions'
  BY DEF Races

LEMMA EditType ==
  ASSUME TypeOK, NEW after \in Accounts, Edit(after), raced' \subseteq Sessions'
  PROVE  TypeOK'
  <1>3. history' \in Seq(Accounts) /\ Len(history') = Len(history) + 1
      BY DEF Edit, TypeOK
  <1>4. \A c \in Callers : req[c].since <= Len(history')
    <2> TAKE c \in Callers
    <2>1. req[c].since \in Nat /\ req[c].since <= Len(history) /\ Len(history) \in Nat
        BY DEF TypeOK, Requests
    <2> QED
        BY <1>3, <2>1
  <1>5. /\ UNCHANGED <<owner, id, newest, access, refresh, inactive, expired, delivered>>
        /\ UNCHANGED <<restarts, begun, pc, req, pair, perms, reply>>
      BY DEF Edit, store, issued, calls
  <1>6. Pairs' = Pairs /\ Sessions' = Sessions /\ Newest' = Newest
      BY <1>5, SameTypes
  <1>7. Len(history') > 0
      BY <1>3 DEF TypeOK
  <1> QED
      BY <1>3, <1>4, <1>5, <1>6, <1>7 DEF TypeOK

LEMMA BeginType ==
  ASSUME TypeOK, NEW c \in Callers, NEW stage \in Stages, NEW what \in Requests,
         NEW t \in Pairs \cup {0}, Begin(c, stage, what, t),
         what.since = Len(history),
         what.op \in SignIns => what.user \in Users,
         what.op \in Presenting => t # 0,
         raced' \subseteq Sessions'
  PROVE  TypeOK'
  <1>1. begun' \in 0..MaxCalls
      BY SessionsAssumption DEF Begin, TypeOK
  <1>2. /\ UNCHANGED <<history, owner, id, newest, access, refresh, inactive, expired>>
        /\ UNCHANGED <<delivered, restarts>>
      BY DEF Begin, store, issued
  <1>3. Pairs' = Pairs /\ Sessions' = Sessions /\ Newest' = Newest
      BY <1>2, SameTypes
  <1> QED
      BY <1>1, <1>2, <1>3 DEF Begin, TypeOK

LEMMA Disjoint == SignIns \cap Presenting = {}
  BY DEF SignIns, Presenting, Revocations

LEMMA BeginSignInType ==
  ASSUME TypeOK, NEW c \in Callers, NEW op \in SignIns, NEW u \in Users, NEW p \in Passwords,
         BeginSignIn(c, op, u, p), raced' \subseteq Sessions'
  PROVE  TypeOK'
  <1>1. "authenticate" \in Stages
      BY DEF Stages
  <1> DEFINE what == Request(op, u, p, "access", FALSE)
  <1>2. what \in Requests /\ what.since = Len(history) /\ what.op = op /\ what.user = u
      BY DEF TypeOK, Request, Requests
  <1>3. Begin(c, "authenticate", what, 0)
      BY DEF BeginSignIn
  <1> HIDE DEF what
  <1> QED
      BY <1>1, <1>2, <1>3, BeginType, Disjoint

LEMMA FirstStages ==
  ASSUME NEW op \in Presenting
  PROVE  /\ FirstStage(op) \in Stages
         /\ op \in {"rpc", "logout"} => FirstStage(op) = "introspect"
         /\ op = "refresh" => FirstStage(op) = "refresh"
         /\ op = "close" => FirstStage(op) = "close"
         /\ op = "revoke" => FirstStage(op) = "revoke"
  <1>1. CASE op \in {"rpc", "logout"}
      BY <1>1 DEF FirstStage, Stages
  <1>2. CASE op = "refresh"
      BY <1>2 DEF FirstStage, Stages
  <1>3. CASE op = "close"
      BY <1>3 DEF FirstStage, Stages
  <1>4. CASE op = "revoke"
      BY <1>4 DEF FirstStage, Stages
  <1> QED
      BY <1>1, <1>2, <1>3, <1>4 DEF Presenting, Revocations

LEMMA BeginWithTokenType ==
  ASSUME TypeOK, NEW c \in Callers, NEW op \in Presenting, NEW kind \in {"access", "refresh"},
         NEW u \in Users \cup {None}, NEW t \in Pairs, BeginWithToken(c, op, kind, u, t),
         raced' \subseteq Sessions'
  PROVE  TypeOK'
  <1>3. t # 0
      BY DEF Pairs, TypeOK
  <1> DEFINE what == Request(op, u, None, kind, Live(op, kind, t))
  <1>5. what \in Requests /\ what.since = Len(history) /\ what.op = op
    <2>1. Live(op, kind, t) = TRUE \/ Live(op, kind, t) = FALSE
        BY Zenon DEF Live
    <2>2. \A live \in BOOLEAN : LET new == Request(op, u, None, kind, live) IN
            new \in Requests /\ new.since = Len(history) /\ new.op = op
        BY DEF TypeOK, Request, Requests
    <2>3. \E live \in BOOLEAN : what = Request(op, u, None, kind, live)
        BY <2>1, Zenon
    <2> HIDE DEF what
    <2> QED
        BY <2>2, <2>3
  <1>6. Begin(c, FirstStage(op), what, t)
      BY DEF BeginWithToken
  <1> HIDE DEF what
  <1> QED
      BY <1>3, <1>5, <1>6, FirstStages, BeginType, Disjoint

\* What a step that goes on to another stage, or replies, does to the types.
LEMMA StageType ==
  ASSUME TypeOK, NEW c \in Callers, NEW stage \in Stages,
         GoTo(c, stage) \/ Reply(c, "ok") \/ Reply(c, "refused") \/ Reply(c, "error")
  PROVE  pc' \in [Callers -> Stages] /\ reply' \in [Callers -> {"none", "ok", "refused", "error"}]
  BY DEF TypeOK, GoTo, Reply, Stages

\* A pair more, in an old session or a new one.
LEMMA NewPairType ==
  ASSUME TypeOK, NEW c \in Callers, NEW s \in Nat \ {0}, NewPair(c, s), req[c].user \in Users,
         newest' \in Seq(Newest'),
         Sessions \subseteq Sessions', s \in Sessions',
         UNCHANGED <<history, inactive, expired, restarts, begun, req, perms>>,
         refresh' \subseteq Pairs', delivered' \subseteq Pairs',
         pc' \in [Callers -> Stages], reply' \in [Callers -> {"none", "ok", "refused", "error"}],
         raced' \subseteq Sessions'
  PROVE  TypeOK'
  <1>1. owner' \in Seq(Users) /\ Len(owner') = Len(owner) + 1 /\ Len(owner) \in Nat
      BY DEF NewPair, TypeOK
  <1>2. Pairs \subseteq Pairs' /\ Len(owner') \in Pairs' /\ Len(owner') # 0
      BY <1>1 DEF Pairs
  <1>3. id' \in Seq(Sessions') /\ Len(id') = Len(owner')
    <2>1. id \in Seq(Sessions')
        BY WiderSeq DEF TypeOK
    <2> QED
        BY <1>1, <2>1 DEF NewPair, TypeOK
  <1>4. pair' \in [Callers -> Pairs' \cup {0}]
      BY <1>2 DEF NewPair, TypeOK
  <1>5. \A d \in Callers : pair'[d] = pair[d] \/ pair'[d] = Len(owner')
      BY DEF NewPair, TypeOK
  <1>6. access' \subseteq Pairs' /\ inactive' \subseteq Pairs' /\ expired' \subseteq Pairs'
      BY <1>2 DEF NewPair, TypeOK
  <1> QED
      BY <1>1, <1>2, <1>3, <1>4, <1>5, <1>6 DEF TypeOK

LEMMA IssueType ==
  ASSUME TypeOK, NEW c \in Callers, Issue(c), req[c].user \in Users, raced' \subseteq Sessions'
  PROVE  TypeOK'
  <1>1. /\ Len(owner') = Len(owner) + 1 /\ Len(owner) \in Nat
        /\ Pairs \subseteq Pairs' /\ Len(owner') \in Pairs'
      BY DEF Issue, NewPair, TypeOK, Pairs
  <1>2. Newest \subseteq Newest' /\ newest \in Seq(Newest')
    <2>1. Newest \subseteq Newest'
        BY <1>1 DEF Newest
    <2> QED
        BY <2>1, WiderSeq DEF TypeOK
  <1>3. newest' \in Seq(Newest') /\ Len(newest') = Len(newest) + 1
    <2>1. [access |-> Len(owner'), refresh |-> Len(owner')] \in Newest'
        BY <1>1 DEF Newest
    <2> QED
        BY <1>2, <2>1 DEF Issue
  <1>4. Sessions \subseteq Sessions' /\ Len(newest) + 1 \in Sessions' /\ Len(newest) \in Nat
      BY <1>2, <1>3 DEF Sessions
  <1>5. pc' \in [Callers -> Stages] /\ reply' \in [Callers -> {"none", "ok", "refused", "error"}]
    <2>1. "reread" \in Stages
        BY DEF Stages
    <2> QED
        BY <2>1, StageType DEF Issue
  <1>6. refresh' \subseteq Pairs' /\ delivered' \subseteq Pairs'
      BY <1>1 DEF Issue, TypeOK
  <1> QED
      BY <1>3, <1>4, <1>5, <1>6, NewPairType DEF Issue

LEMMA NewAccessType ==
  ASSUME TypeOK, NEW c \in Callers, NewAccess(c), req[c].user \in Users, pair[c] \in Pairs,
         raced' \subseteq Sessions'
  PROVE  TypeOK'
  <1>1. /\ Len(owner') = Len(owner) + 1 /\ Len(owner) \in Nat
        /\ Pairs \subseteq Pairs' /\ Len(owner') \in Pairs'
      BY DEF NewAccess, NewPair, TypeOK, Pairs
  <1>2. Newest \subseteq Newest' /\ newest \in Seq(Newest')
    <2>1. Newest \subseteq Newest'
        BY <1>1 DEF Newest
    <2> QED
        BY <2>1, WiderSeq DEF TypeOK
  <1>3. newest' \in Seq(Newest') /\ Len(newest') = Len(newest) /\ Session(c) \in 1..Len(newest)
    <2>1. Session(c) \in 1..Len(newest) /\ newest[Session(c)] \in Newest'
        BY <1>2, PairType DEF Session, Sessions
    <2>2. [newest[Session(c)] EXCEPT !.access = Len(owner')] \in Newest'
        BY <1>1, <2>1 DEF Newest
    <2> DEFINE s == Session(c)
               v == [newest[s] EXCEPT !.access = Len(owner')]
    <2>3. newest' = [newest EXCEPT ![s] = v]
        BY DEF NewAccess
    <2> HIDE DEF s, v
    <2>4. s \in 1..Len(newest) /\ v \in Newest'
        BY <2>1, <2>2 DEF s, v
    <2>5. newest' \in Seq(Newest') /\ Len(newest') = Len(newest)
        BY <1>2, <2>3, <2>4, SetInSeq
    <2> QED
        BY <2>1, <2>5
  <1>4. Sessions' = Sessions /\ Session(c) \in Sessions /\ Session(c) \in Nat \ {0}
      BY <1>3, PairType DEF Sessions
  <1>5. pc' \in [Callers -> Stages] /\ reply' \in [Callers -> {"none", "ok", "refused", "error"}]
    <2>1. "newRefresh" \in Stages
        BY DEF Stages, Rotation
    <2> QED
        BY <2>1, StageType DEF NewAccess
  <1>6. refresh' \subseteq Pairs' /\ delivered' \subseteq Pairs'
      BY <1>1 DEF NewAccess, TypeOK
  <1> QED
      BY <1>3, <1>4, <1>5, <1>6, NewPairType DEF NewAccess

LEMMA NewRefreshType ==
  ASSUME TypeOK, NEW c \in Callers, NewRefresh(c), pair[c] \in Pairs, raced' \subseteq Sessions'
  PROVE  TypeOK'
  <1>1. Session(c) \in Sessions
      BY PairType DEF Session
  <1>2. newest' \in Seq(Newest) /\ Len(newest') = Len(newest)
    <2>1. Session(c) \in 1..Len(newest) /\ newest[Session(c)] \in Newest
        BY <1>1, PairType DEF Sessions
    <2>2. [newest[Session(c)] EXCEPT !.refresh = pair[c]] \in Newest
        BY <2>1 DEF Newest
    <2> DEFINE s == Session(c)
               v == [newest[s] EXCEPT !.refresh = pair[c]]
    <2>3. newest' = [newest EXCEPT ![s] = v]
        BY DEF NewRefresh
    <2> HIDE DEF s, v
    <2>4. s \in 1..Len(newest) /\ v \in Newest
        BY <2>1, <2>2 DEF s, v
    <2> QED
        BY <2>3, <2>4, SetInSeq DEF TypeOK
  <1>3. pc' \in [Callers -> Stages] /\ reply' \in [Callers -> {"none", "ok", "refused", "error"}]
    <2>1. "done" \in Stages
        BY DEF Stages
    <2> QED
        BY <2>1, StageType DEF NewRefresh
  <1>4. UNCHANGED <<history, owner, id, access, inactive, expired, restarts, begun, req, pair, perms>>
      BY DEF NewRefresh, issued
  <1>5. refresh' \subseteq Pairs /\ delivered' \subseteq Pairs
      BY DEF NewRefresh, TypeOK
  <1>6. Pairs' = Pairs /\ Sessions' = Sessions /\ Newest' = Newest
      BY <1>2, <1>4 DEF Pairs, Sessions, Newest
  <1> QED
      BY <1>2, <1>3, <1>4, <1>5, <1>6 DEF TypeOK

\* What NextType needs to know of the calls on their way.
UserKnown ==
    \A c \in Callers :
        /\ pc[c] \in {"issue", "newAccess"} => req[c].user \in Users
        /\ pc[c] \in {"permissions", "revokeRefresh", "revokeAccess"} \cup Rotation =>
             pair[c] \in Pairs

\* What a step that removes tokens does to the types.
LEMMA RemovingType ==
  ASSUME TypeOK, NEW c \in Callers, Removing \/ Reading, NEW stage \in Stages,
         GoTo(c, stage) \/ Reply(c, "ok") \/ Reply(c, "refused") \/ Reply(c, "error"),
         access' \subseteq Pairs, refresh' \subseteq Pairs, inactive' \subseteq Pairs,
         raced' \subseteq Sessions'
  PROVE  TypeOK'
  <1>1. /\ UNCHANGED <<history, owner, id, newest, expired, delivered>>
        /\ UNCHANGED <<restarts, begun, req, pair, perms>>
      BY DEF Removing, Reading, store, issued
  <1>2. Pairs' = Pairs /\ Sessions' = Sessions /\ Newest' = Newest
      BY <1>1, SameTypes
  <1>3. pc' \in [Callers -> Stages] /\ reply' \in [Callers -> {"none", "ok", "refused", "error"}]
      BY StageType
  <1> QED
      BY <1>1, <1>2, <1>3 DEF TypeOK

LEMMA ReadingType ==
  ASSUME TypeOK, NEW c \in Callers, raced' \subseteq Sessions',
         \/ Authenticate(c) \/ Recheck(c) \/ Reread(c) \/ Refresh(c) \/ Rotate(c)
         \/ Introspect(c) \/ GetAccount(c) \/ Revoke(c) \/ Close(c)
  PROVE  TypeOK'
  <1>1. Reading
      BY DEF Authenticate, Recheck, Reread, Refresh, Rotate, Introspect, GetAccount, Revoke, Close
  <1>2. \E stage \in Stages :
          GoTo(c, stage) \/ Reply(c, "ok") \/ Reply(c, "refused") \/ Reply(c, "error")
      BY DEF Authenticate, Recheck, Reread, Refresh, Rotate, Introspect, GetAccount, Revoke, Close,
             Stages, Rotation
  <1>3. access' \subseteq Pairs /\ refresh' \subseteq Pairs /\ inactive' \subseteq Pairs
      BY <1>1 DEF Reading, store, TypeOK
  <1> QED
      BY <1>1, <1>2, <1>3, RemovingType

LEMMA RevokingType ==
  ASSUME TypeOK, NEW c \in Callers, raced' \subseteq Sessions', pair[c] \in Pairs,
         RotateAccess(c) \/ RotateRefresh(c) \/ RevokeRefresh(c) \/ RevokeAccess(c)
  PROVE  TypeOK'
  <1>1. Removing
      BY DEF RotateAccess, RotateRefresh, RevokeRefresh, RevokeAccess
  <1>2. \E stage \in Stages : GoTo(c, stage) \/ Reply(c, "ok") \/ Reply(c, "refused")
      BY DEF RotateAccess, RotateRefresh, RevokeRefresh, RevokeAccess, Stages, Rotation
  <1>3. newest[Session(c)].refresh \in Pairs
      BY PairType DEF Session
  <1>4. access' \subseteq Pairs /\ refresh' \subseteq Pairs /\ inactive' \subseteq Pairs
      BY <1>3 DEF RotateAccess, RotateRefresh, RevokeRefresh, RevokeAccess, TypeOK
  <1> QED
      BY <1>1, <1>2, <1>4, RemovingType

LEMMA GetPermissionsType ==
  ASSUME TypeOK, NEW c \in Callers, GetPermissions(c), pair[c] \in Pairs, raced' \subseteq Sessions'
  PROVE  TypeOK'
  <1>1. Granted(owner[pair[c]]) \in Grants \cup {None}
    <2>1. owner[pair[c]] \in Users
        BY PairType
    <2> QED
        BY <2>1, AccountsType, SessionsAssumption DEF Granted, Accounts
  <1>2. perms' \in [Callers -> Grants \cup {None}]
      BY <1>1 DEF GetPermissions, TypeOK
  <1>3. pc' \in [Callers -> Stages] /\ reply' \in [Callers -> {"none", "ok", "refused", "error"}]
    <2>1. "revoke" \in Stages
        BY DEF Stages
    <2> QED
        BY <2>1, StageType DEF GetPermissions
  <1>4. delivered' \subseteq Pairs
      BY DEF GetPermissions, TypeOK
  <1>5. /\ UNCHANGED <<history, owner, id, newest, access, refresh, inactive, expired>>
        /\ UNCHANGED <<restarts, begun, req, pair>>
      BY DEF GetPermissions, issued
  <1>6. Pairs' = Pairs /\ Sessions' = Sessions /\ Newest' = Newest
      BY <1>5, SameTypes
  <1> QED
      BY <1>2, <1>3, <1>4, <1>5, <1>6 DEF TypeOK

LEMMA RestartType == ASSUME TypeOK, Restart, raced' \subseteq Sessions' PROVE TypeOK'
  <1>1. NoRequest \in Requests /\ NoRequest.since = 1 /\ NoRequest.op = "none"
      BY DEF NoRequest, Requests
  <1>2. "none" \notin SignIns /\ "none" \notin Presenting /\ "done" \in Stages
      BY DEF SignIns, Presenting, Revocations, Stages
  <1>3. restarts' \in 0..MaxRestarts
      BY SessionsAssumption DEF Restart, TypeOK
  <1>4. UNCHANGED <<history, owner, id, newest, expired, delivered, begun>>
      BY DEF Restart, issued
  <1>5. Pairs' = Pairs /\ Sessions' = Sessions /\ Newest' = Newest
      BY <1>4, SameTypes
  <1> QED
      BY <1>1, <1>2, <1>3, <1>4, <1>5 DEF Restart, TypeOK

(***************************************************************************)
(* Nothing is forgotten: databases, pairs and sessions are only added.     *)
(***************************************************************************)
Grows ==
    /\ Len(history) <= Len(history')
    /\ \A i \in 1..Len(history) : history'[i] = history[i]
    /\ \A t \in Pairs : t \in Pairs' /\ owner'[t] = owner[t] /\ id'[t] = id[t]
    /\ Sessions \subseteq Sessions'

\* A step of caller c.
StepOf(c) ==
    \/ \E op \in SignIns, u \in Users, p \in Passwords : BeginSignIn(c, op, u, p)
    \/ \E op \in Presenting, kind \in {"access", "refresh"}, u \in Users \cup {None}, t \in Pairs :
         BeginWithToken(c, op, kind, u, t)
    \/ Authenticate(c) \/ Recheck(c) \/ Issue(c) \/ Reread(c)
    \/ Refresh(c) \/ Rotate(c) \/ RotateAccess(c) \/ RotateRefresh(c) \/ NewAccess(c) \/ NewRefresh(c)
    \/ Introspect(c) \/ GetAccount(c) \/ GetPermissions(c)
    \/ Revoke(c) \/ RevokeRefresh(c) \/ RevokeAccess(c) \/ Close(c)

\* Steps of nobody.
Around ==
    \/ \E after \in Accounts : Edit(after)
    \/ \E t \in Pairs : Expire(t)
    \/ UNCHANGED <<history, store, restarts, calls>>

LEMMA Steps ==
  ASSUME [Next]_vars
  PROVE  /\ Around \/ Restart \/ \E c \in Callers : StepOf(c)
         /\ raced' = raced \cup Races' \/ UNCHANGED vars
  <1>1. CASE UNCHANGED vars
      BY <1>1 DEF vars, state, Around
  <1>2. ASSUME Step PROVE Around \/ Restart \/ \E c \in Callers : StepOf(c)
    <2>1. CASE \E after \in Accounts :
                 CreateUser(after) \/ UpdateUser(after) \/ DeleteUser(after) \/ ChangeRole(after)
        BY <2>1 DEF CreateUser, UpdateUser, DeleteUser, ChangeRole, Around
    <2>2. CASE \E t \in Pairs : Expire(t)
        BY <2>2 DEF Around
    <2> QED
        BY <1>2, <2>1, <2>2, Zenon DEF Step, StepOf
  <1> QED
      BY <1>1, <1>2 DEF Next

\* A step that only moves a call on, or takes tokens out, adds nothing.
LEMMA NothingIssued ==
  ASSUME NEW c \in Callers, StepOf(c), ~Issue(c), ~NewAccess(c), ~NewRefresh(c)
  PROVE  UNCHANGED <<history, owner, id, newest>>
  <1>1. ASSUME NEW stage, NEW what, NEW t, Begin(c, stage, what, t)
        PROVE  UNCHANGED <<history, owner, id, newest>>
      BY <1>1 DEF Begin, store, issued
  <1>2. ASSUME Reading \/ Removing PROVE UNCHANGED <<history, owner, id, newest>>
      BY <1>2 DEF Reading, Removing, store, issued
  <1>3. CASE \/ \E op \in SignIns, u \in Users, p \in Passwords : BeginSignIn(c, op, u, p)
            \/ \E op \in Presenting, kind \in {"access", "refresh"}, u \in Users \cup {None},
                  t \in Pairs : BeginWithToken(c, op, kind, u, t)
      BY <1>1, <1>3 DEF BeginSignIn, BeginWithToken
  <1>4. CASE GetPermissions(c)
      BY <1>4 DEF GetPermissions, issued
  <1>5. CASE \/ Authenticate(c) \/ Recheck(c) \/ Reread(c) \/ Refresh(c) \/ Rotate(c)
            \/ RotateAccess(c) \/ RotateRefresh(c) \/ Introspect(c) \/ GetAccount(c)
            \/ Revoke(c) \/ RevokeRefresh(c) \/ RevokeAccess(c) \/ Close(c)
      BY <1>2, <1>5 DEF Authenticate, Recheck, Reread, Refresh, Rotate, RotateAccess, RotateRefresh,
                        Introspect, GetAccount, Revoke, RevokeRefresh, RevokeAccess, Close
  <1> QED
      BY <1>3, <1>4, <1>5 DEF StepOf

LEMMA NextGrows ==
  ASSUME TypeOK, UserKnown, [Next]_vars
  PROVE  Grows
  <1>1. CASE UNCHANGED <<history, owner, id, newest>>
      BY <1>1 DEF Grows, TypeOK, Pairs, Sessions
  <1>2. ASSUME NEW after \in Accounts, Edit(after) PROVE Grows
      BY <1>2 DEF Edit, Grows, TypeOK, Pairs, Sessions, store, issued
  <1>3. ASSUME NEW c \in Callers, NEW s, NewPair(c, s)
        PROVE  \A t \in Pairs : t \in Pairs' /\ owner'[t] = owner[t] /\ id'[t] = id[t]
      BY <1>3 DEF NewPair, TypeOK, Pairs
  <1>4. ASSUME NEW c \in Callers, Issue(c) PROVE Grows
    <2>1. Sessions \subseteq Sessions'
        BY <1>4 DEF Issue, TypeOK, Sessions
    <2> QED
        BY <1>3, <1>4, <2>1 DEF Issue, Grows, TypeOK
  <1>5. ASSUME NEW c \in Callers, NewAccess(c) PROVE Grows
    <2>1. Sessions' = Sessions
        BY <1>5 DEF NewAccess, TypeOK, Sessions
    <2> QED
        BY <1>3, <1>5, <2>1 DEF NewAccess, Grows, TypeOK
  <1>6. ASSUME NEW c \in Callers, NewRefresh(c) PROVE Grows
    <2>1. Sessions' = Sessions /\ UNCHANGED <<history, owner, id>>
        BY <1>6 DEF NewRefresh, TypeOK, Sessions, issued
    <2> QED
        BY <2>1 DEF Grows, TypeOK, Pairs
  <1>7. CASE Restart \/ \E t \in Pairs : Expire(t)
      BY <1>1, <1>7 DEF Restart, Expire, issued
  <1>8. CASE UNCHANGED <<history, store, restarts, calls>>
      BY <1>1, <1>8 DEF store, issued
  <1> QED
      BY <1>1, <1>2, <1>4, <1>5, <1>6, <1>7, <1>8, Steps, NothingIssued DEF Around

LEMMA NextType ==
  ASSUME TypeOK, UserKnown, [Next]_vars
  PROVE  TypeOK'
  <1>1. Grows
      BY NextGrows
  <1>2. raced' \subseteq Sessions'
    <2>1. CASE raced' = raced \cup Races'
        BY <1>1, <2>1, RacedType DEF Grows, TypeOK
    <2>2. CASE UNCHANGED vars
        BY <1>1, <2>2 DEF vars, Grows, TypeOK
    <2> QED
        BY <2>1, <2>2, Steps
  <1>3. ASSUME NEW c \in Callers, StepOf(c) PROVE TypeOK'
    <2>1. CASE \/ \E op \in SignIns, u \in Users, p \in Passwords : BeginSignIn(c, op, u, p)
              \/ \E op \in Presenting, kind \in {"access", "refresh"}, u \in Users \cup {None},
                    t \in Pairs : BeginWithToken(c, op, kind, u, t)
        BY <1>2, <2>1, BeginSignInType, BeginWithTokenType
    <2>2. CASE \/ Authenticate(c) \/ Recheck(c) \/ Reread(c) \/ Refresh(c) \/ Rotate(c)
              \/ Introspect(c) \/ GetAccount(c) \/ Revoke(c) \/ Close(c)
        BY <1>2, <2>2, ReadingType
    <2>3. CASE Issue(c)
        BY <1>2, <2>3, IssueType DEF Issue, UserKnown
    <2>4. CASE NewAccess(c)
        BY <1>2, <2>4, NewAccessType DEF NewAccess, UserKnown, Rotation
    <2>5. CASE NewRefresh(c)
        BY <1>2, <2>5, NewRefreshType DEF NewRefresh, UserKnown, Rotation
    <2>6. CASE GetPermissions(c)
        BY <1>2, <2>6, GetPermissionsType DEF GetPermissions, UserKnown
    <2>7. CASE RotateAccess(c) \/ RotateRefresh(c) \/ RevokeRefresh(c) \/ RevokeAccess(c)
        BY <1>2, <2>7, RevokingType DEF RotateAccess, RotateRefresh, RevokeRefresh, RevokeAccess,
                                        UserKnown, Rotation
    <2> QED
        BY <1>3, <2>1, <2>2, <2>3, <2>4, <2>5, <2>6, <2>7 DEF StepOf
  <1>4. CASE Around
    <2>1. CASE \E after \in Accounts : Edit(after)
        BY <1>2, <2>1, EditType
    <2>2. CASE \/ \E t \in Pairs : Expire(t)
              \/ UNCHANGED <<history, store, restarts, calls>>
      <3>1. /\ UNCHANGED <<history, owner, id, newest, access, refresh, inactive, delivered>>
            /\ UNCHANGED <<restarts, begun, pc, req, pair, perms, reply>>
          BY <2>2 DEF Expire, store, issued, calls
      <3>2. expired' \subseteq Pairs
          BY <2>2 DEF Expire, TypeOK, store
      <3>3. Pairs' = Pairs /\ Sessions' = Sessions /\ Newest' = Newest
          BY <3>1, SameTypes
      <3> QED
          BY <1>2, <3>1, <3>2, <3>3 DEF TypeOK
    <2> QED
        BY <1>4, <2>1, <2>2 DEF Around
  <1>5. CASE Restart
      BY <1>2, <1>5, RestartType
  <1> QED
      BY <1>3, <1>4, <1>5, Steps

(***************************************************************************)
(* The properties look at answered calls.  What makes them inductive says  *)
(* the same of a call on its way: what it has established, stage by stage, *)
(* of an instant it has lived through.                                     *)
(***************************************************************************)
\* c's user was enabled, with c's password if it is a sign-in, at an instant of c's call.
Proven(c) ==
    \E i \in During(c) : LET a == history[i][req[c].user] IN
        a # None /\ a.enabled /\ (req[c].op \in SignIns => a.password = req[c].password)

\* The account of c's user was missing at an instant of c's call.
Missed(c) == \E i \in During(c) : history[i][req[c].user] = None

\* The subject of c's pair had an account at an instant of c's call.
Existed(c) == \E i \in During(c) : history[i][owner[pair[c]]] # None

\* c's permissions were those of its subject at an instant of c's call.
Held(c) ==
    \E i \in During(c) : LET a == history[i][owner[pair[c]]] IN
        perms[c] = IF a = None THEN None ELSE a.grants

\* Which calls come through which stages.
Control(c) ==
    /\ pc[c] \in {"authenticate", "issue", "reread"} => req[c].op \in SignIns
    /\ pc[c] = "recheck" => req[c].op \in SignIns \cup {"refresh"}
    /\ pc[c] \in {"recheck", "rotate"} \cup Rotation => req[c].user \in Users
    /\ pc[c] \in {"rotate"} \cup Rotation => req[c].op = "refresh"
    /\ pc[c] \in {"permissions", "revoke", "revokeRefresh", "revokeAccess"} => pair[c] \in Pairs
    /\ pc[c] \in {"introspect", "account"} => req[c].op \in {"rpc", "logout"}
    /\ pc[c] = "reread" => req[c].op = "login"
    /\ pc[c] = "permissions" => req[c].op \in {"rpc", "logout", "login"}
    /\ pc[c] = "revoke" => req[c].op \in Revocations
    /\ pc[c] \in {"revokeRefresh", "revokeAccess"} => req[c].op \in Revocations \cup {"refresh", "close"}
    /\ pc[c] = "refresh" => req[c].op \in {"refresh", "close"}
    /\ pc[c] = "close" => req[c].op = "close"
    /\ req[c].op = "close" => req[c].user = None
    /\ pc[c] # "done" => reply[c] = "none"
    /\ req[c].op = "none" => pc[c] = "done" /\ reply[c] = "none" /\ pair[c] = 0
    /\ req[c].op \in SignIns /\ reply[c] = "ok" => pair[c] \in Pairs

\* A sign-in has shown its password before it gets on, and fails empty-handed.
OfSignIn(c) ==
    req[c].op \in SignIns =>
        /\ pc[c] \in {"recheck", "issue", "reread", "permissions"} \/ reply[c] = "ok" => Proven(c)
        /\ pc[c] \in {"authenticate", "recheck", "issue"} \/ reply[c] = "refused" => pair[c] = 0
        /\ pc[c] \in {"reread", "permissions"} \/ reply[c] = "ok" =>
             pair[c] \in Pairs /\ owner[pair[c]] = req[c].user
        /\ reply[c] = "error" => Missed(c)

\* A refresh has seen the token alive and its user enabled before it rotates.
OfRefresh(c) ==
    req[c].op = "refresh" =>
        /\ ~req[c].live => pair[c] \notin refresh
        /\ pc[c] \in {"recheck", "rotate"} \cup Rotation \/ reply[c] = "ok" => req[c].live
        /\ pc[c] \in {"rotate"} \cup Rotation \/ reply[c] = "ok" => Proven(c)
        /\ pc[c] = "newRefresh" \/ reply[c] = "ok" => owner[pair[c]] = req[c].user

\* A call has seen the account of its subject before it asks for permissions.
OfAdmission(c) ==
    req[c].op \in {"rpc", "logout", "login"} =>
        /\ pc[c] \in {"permissions", "revoke", "revokeRefresh", "revokeAccess"} \/ reply[c] = "ok" =>
             pair[c] \in Pairs /\ Existed(c)
        /\ pc[c] \in {"revoke", "revokeRefresh", "revokeAccess"} \/ reply[c] = "ok" => Held(c)

\* A token that was dead when its call began is dead, and lets nobody in.
OfToken(c) ==
    /\ req[c].op \in {"rpc", "logout"} =>
         /\ ~req[c].live => pair[c] \notin access \ expired
         /\ pc[c] \notin {"introspect", "done"} \/ reply[c] = "ok" => req[c].live
    /\ req[c].op = "revoke" /\ ~req[c].live => ~Known(req[c].kind, pair[c])

\* c has a pair that nobody has been given yet.
Holding(c) ==
    \/ pc[c] = "newRefresh"
    \/ req[c].op = "login" /\ pc[c] \in {"reread", "permissions"}

OfDelivery(c) ==
    /\ Holding(c) => pair[c] \in Pairs \ delivered
    /\ req[c].op \in Presenting /\ pc[c] # "newRefresh" => pair[c] \in delivered

Mine(c) ==
    Control(c) /\ OfSignIn(c) /\ OfRefresh(c) /\ OfAdmission(c) /\ OfToken(c) /\ OfDelivery(c)

Apart == \A c, d \in Callers : Holding(c) /\ Holding(d) /\ c # d => pair[c] # pair[d]

(***************************************************************************)
(* Sessions, and what the calls on one know of it as long as no refresh of *)
(* it has met another call that takes tokens out.                          *)
(***************************************************************************)
AccessOf(s) == {t \in access : id[t] = s}
RefreshOf(s) == {t \in refresh : id[t] = s}
On(c, s) == pair[c] \in Pairs /\ id[pair[c]] = s
Halfway == Rotation \cup {"revokeAccess"}

\* The store finds the tokens of a session under its own id.
Indexed == \A s \in Sessions : id[newest[s].access] = s /\ id[newest[s].refresh] = s

OfRotation(c, s) ==
    /\ pc[c] = "rotateRefresh" => AccessOf(s) = {}
    /\ pc[c] = "newAccess" => AccessOf(s) = {} /\ RefreshOf(s) = {}
    /\ pc[c] = "newRefresh" => AccessOf(s) = {pair[c]} /\ RefreshOf(s) = {}

OfRevocation(c, s) ==
    /\ pc[c] = "revokeAccess" => RefreshOf(s) = {}
    /\ req[c].op \in Revocations /\ req[c].live /\ pc[c] \notin {"done", "revokeAccess"} =>
         AccessOf(s) \cup RefreshOf(s) \subseteq {pair[c]}

\* An answered revocation, until the session is used up.
OfRevoked(c, s) ==
    req[c].op \in Revocations /\ reply[c] = "ok" =>
        /\ pair[c] \notin refresh
        /\ req[c].live =>
             RefreshOf(s) = {} /\ \A d \in Callers : On(d, s) => pc[d] \notin Rotation
        /\ \/ \E d \in Callers : On(d, s) /\ pc[d] = "revokeAccess"
           \/ pair[c] \notin access /\ (req[c].live => AccessOf(s) = {})

Whole(s) ==
    /\ AccessOf(s) \subseteq {newest[s].access}
    /\ RefreshOf(s) \subseteq {newest[s].refresh}
    /\ AccessOf(s) = RefreshOf(s) \/ \E c \in Callers : On(c, s) /\ pc[c] \in Halfway
    /\ \A c \in Callers : On(c, s) => OfRotation(c, s) /\ OfRevocation(c, s) /\ OfRevoked(c, s)

IInv ==
    /\ TypeOK
    /\ \A c \in Callers : Mine(c)
    /\ Apart
    /\ Indexed
    /\ Races \subseteq raced
    /\ \A s \in Sessions \ raced : Whole(s)

LEMMA CallsKnown ==
  TypeOK /\ (\A c \in Callers : Control(c)) => UserKnown
  BY DEF TypeOK, Control, UserKnown, Presenting, Rotation

(***************************************************************************)
(* What a call has established stays established.                          *)
(***************************************************************************)
Same(c) ==
    /\ pc'[c] = pc[c] /\ req'[c] = req[c] /\ pair'[c] = pair[c]
    /\ perms'[c] = perms[c] /\ reply'[c] = reply[c]

\* c goes on with its call.
Kept(c) == req'[c] = req[c] /\ pair'[c] = pair[c] /\ perms'[c] = perms[c]

LEMMA DuringGrows ==
  ASSUME TypeOK, Grows, NEW c \in Callers, req'[c] = req[c], NEW i \in During(c)
  PROVE  /\ i \in During(c)' /\ history'[i] = history[i]
         /\ i \in 1..Len(history)
  BY DEF During, Grows, TypeOK, Requests

LEMMA FactsStay ==
  ASSUME TypeOK, Grows, NEW c \in Callers, req'[c] = req[c]
  PROVE  /\ Proven(c) => Proven(c)'
         /\ Missed(c) => Missed(c)'
         /\ pair[c] \in Pairs /\ pair'[c] = pair[c] =>
              /\ pair'[c] \in Pairs' /\ owner'[pair'[c]] = owner[pair[c]]
              /\ Existed(c) => Existed(c)'
              /\ perms'[c] = perms[c] /\ Held(c) => Held(c)'
  <1>1. Proven(c) => Proven(c)'
      BY DuringGrows DEF Proven
  <1>2. Missed(c) => Missed(c)'
      BY DuringGrows DEF Missed
  <1>3. ASSUME pair[c] \in Pairs, pair'[c] = pair[c]
        PROVE  /\ pair'[c] \in Pairs' /\ owner'[pair'[c]] = owner[pair[c]]
               /\ Existed(c) => Existed(c)'
               /\ perms'[c] = perms[c] /\ Held(c) => Held(c)'
    <2>1. pair'[c] \in Pairs' /\ owner'[pair'[c]] = owner[pair[c]]
        BY <1>3 DEF Grows
    <2>2. Existed(c) => Existed(c)'
        BY <2>1, DuringGrows DEF Existed
    <2>3. perms'[c] = perms[c] /\ Held(c) => Held(c)'
        BY <2>1, DuringGrows DEF Held
    <2> QED
        BY <2>1, <2>2, <2>3
  <1> QED
      BY <1>1, <1>2, <1>3

\* The present is an instant of every call.
LEMMA Now == TypeOK => \A c \in Callers : Len(history) \in During(c) /\ accounts = history[Len(history)]
  BY DEF During, TypeOK, Requests, accounts

LEMMA OthersSame ==
  ASSUME TypeOK, NEW c \in Callers, StepOf(c), NEW d \in Callers, d # c
  PROVE  Same(d)
  <1>1. ASSUME NEW stage, NEW what, NEW t, Begin(c, stage, what, t) PROVE Same(d)
      BY <1>1 DEF Begin, Same, TypeOK
  <1>2. CASE \/ \E op \in SignIns, u \in Users, p \in Passwords : BeginSignIn(c, op, u, p)
            \/ \E op \in Presenting, kind \in {"access", "refresh"}, u \in Users \cup {None},
                  t \in Pairs : BeginWithToken(c, op, kind, u, t)
      BY <1>1, <1>2 DEF BeginSignIn, BeginWithToken
  <1>3. ASSUME NEW s, GoTo(c, s) PROVE pc'[d] = pc[d] /\ reply'[d] = reply[d]
      BY <1>3 DEF GoTo, TypeOK
  <1>4. ASSUME NEW r, Reply(c, r) PROVE pc'[d] = pc[d] /\ reply'[d] = reply[d]
      BY <1>4 DEF Reply, TypeOK
  <1>5. CASE \/ Authenticate(c) \/ Recheck(c) \/ Reread(c) \/ Refresh(c) \/ Rotate(c)
            \/ RotateAccess(c) \/ RotateRefresh(c) \/ Introspect(c) \/ GetAccount(c)
            \/ Revoke(c) \/ RevokeRefresh(c) \/ RevokeAccess(c) \/ Close(c)
    <2>1. pc'[d] = pc[d] /\ reply'[d] = reply[d]
        BY <1>3, <1>4, <1>5 DEF Authenticate, Recheck, Reread, Refresh, Rotate, RotateAccess,
             RotateRefresh, Introspect, GetAccount, Revoke, RevokeRefresh, RevokeAccess, Close
    <2>2. Reading \/ Removing
        BY <1>5 DEF Authenticate, Recheck, Reread, Refresh, Rotate, RotateAccess,
             RotateRefresh, Introspect, GetAccount, Revoke, RevokeRefresh, RevokeAccess, Close
    <2> QED
        BY <2>1, <2>2 DEF Reading, Removing, Same
  <1>6. CASE Issue(c) \/ NewAccess(c) \/ NewRefresh(c) \/ GetPermissions(c)
    <2>1. pc'[d] = pc[d] /\ reply'[d] = reply[d]
        BY <1>3, <1>4, <1>6 DEF Issue, NewAccess, NewRefresh, GetPermissions
    <2>2. req' = req /\ pair'[d] = pair[d] /\ perms'[d] = perms[d]
        BY <1>6 DEF Issue, NewAccess, NewRefresh, GetPermissions, NewPair, TypeOK
    <2> QED
        BY <2>1, <2>2 DEF Same
  <1> QED
      BY <1>2, <1>5, <1>6 DEF StepOf

LEMMA AroundSame == ASSUME Around, NEW d \in Callers PROVE Same(d)
  BY DEF Around, Edit, Expire, calls, Same

(***************************************************************************)
(* No step brings back a dead token that somebody has.                     *)
(***************************************************************************)
Shrinks ==
    /\ delivered \subseteq delivered'
    /\ \A t \in delivered :
         /\ t \in access' => t \in access
         /\ t \in access' \ expired' => t \in access \ expired
         /\ t \in refresh' => t \in refresh

LEMMA StepShrinks ==
  ASSUME TypeOK, NEW c \in Callers, Control(c), OfDelivery(c), StepOf(c)
  PROVE  Shrinks
  <1>1. CASE UNCHANGED <<access, refresh, expired, delivered>>
      BY <1>1 DEF Shrinks
  <1>2. ASSUME NEW s, NewPair(c, s) PROVE Len(owner') \notin Pairs /\ access' = access \cup {Len(owner')}
      BY <1>2 DEF NewPair, TypeOK, Pairs
  <1>3. CASE Issue(c)
      BY <1>2, <1>3 DEF Issue, Shrinks, TypeOK
  <1>4. CASE NewAccess(c)
      BY <1>2, <1>4 DEF NewAccess, Shrinks, TypeOK
  <1>5. CASE NewRefresh(c)
      BY <1>5 DEF NewRefresh, Shrinks, OfDelivery, Holding
  <1>6. CASE GetPermissions(c)
      BY <1>6 DEF GetPermissions, Shrinks
  <1>7. CASE RotateAccess(c) \/ RotateRefresh(c) \/ RevokeRefresh(c) \/ RevokeAccess(c)
      BY <1>7 DEF RotateAccess, RotateRefresh, RevokeRefresh, RevokeAccess, Removing, Shrinks
  <1>8. CASE \/ \E op \in SignIns, u \in Users, p \in Passwords : BeginSignIn(c, op, u, p)
            \/ \E op \in Presenting, kind \in {"access", "refresh"}, u \in Users \cup {None},
                  t \in Pairs : BeginWithToken(c, op, kind, u, t)
    <2>1. ASSUME NEW stage, NEW what, NEW t, Begin(c, stage, what, t)
          PROVE  UNCHANGED <<access, refresh, expired, delivered>>
        BY <2>1 DEF Begin, store
    <2> QED
        BY <1>1, <1>8, <2>1 DEF BeginSignIn, BeginWithToken
  <1>9. CASE \/ Authenticate(c) \/ Recheck(c) \/ Reread(c) \/ Refresh(c) \/ Rotate(c)
            \/ Introspect(c) \/ GetAccount(c) \/ Revoke(c) \/ Close(c)
    <2>1. Reading
        BY <1>9 DEF Authenticate, Recheck, Reread, Refresh, Rotate, Introspect, GetAccount, Revoke, Close
    <2> QED
        BY <1>1, <2>1 DEF Reading, store
  <1> QED
      BY <1>3, <1>4, <1>5, <1>6, <1>7, <1>8, <1>9 DEF StepOf

LEMMA AroundShrinks == Around => Shrinks
  BY DEF Around, Edit, Expire, store, Shrinks

\* What a step gives away is the stepping caller's own pair.
LEMMA Delivers ==
  ASSUME TypeOK, NEW c \in Callers, OfDelivery(c), StepOf(c)
  PROVE  \/ delivered' = delivered
         \/ delivered' = delivered \cup {Len(owner')} /\ Issue(c)
         \/ delivered' = delivered \cup {pair[c]} /\ Holding(c)
  <1>1. ASSUME NEW stage, NEW what, NEW t, Begin(c, stage, what, t) PROVE delivered' = delivered
      BY <1>1 DEF Begin, store
  <1>2. ASSUME Reading \/ Removing PROVE delivered' = delivered
      BY <1>2 DEF Reading, Removing, store
  <1>3. CASE \/ \E op \in SignIns, u \in Users, p \in Passwords : BeginSignIn(c, op, u, p)
            \/ \E op \in Presenting, kind \in {"access", "refresh"}, u \in Users \cup {None},
                  t \in Pairs : BeginWithToken(c, op, kind, u, t)
      BY <1>1, <1>3 DEF BeginSignIn, BeginWithToken
  <1>4. CASE \/ Authenticate(c) \/ Recheck(c) \/ Reread(c) \/ Refresh(c) \/ Rotate(c)
            \/ RotateAccess(c) \/ RotateRefresh(c) \/ Introspect(c) \/ GetAccount(c)
            \/ Revoke(c) \/ RevokeRefresh(c) \/ RevokeAccess(c) \/ Close(c)
      BY <1>2, <1>4 DEF Authenticate, Recheck, Reread, Refresh, Rotate, RotateAccess, RotateRefresh,
                        Introspect, GetAccount, Revoke, RevokeRefresh, RevokeAccess, Close
  <1>5. CASE Issue(c)
      BY <1>5 DEF Issue
  <1>6. CASE NewAccess(c)
      BY <1>6 DEF NewAccess
  <1>7. CASE NewRefresh(c)
      BY <1>7 DEF NewRefresh, Holding
  <1>8. CASE GetPermissions(c)
      BY <1>8 DEF GetPermissions, Holding
  <1> QED
      BY <1>3, <1>4, <1>5, <1>6, <1>7, <1>8 DEF StepOf

\* Nobody else's pair is given away.
Private(d) == Holding(d) => pair[d] \notin delivered'

LEMMA SameStays ==
  ASSUME TypeOK, Grows, Shrinks, NEW d \in Callers, Same(d), Mine(d), Private(d)
  PROVE  Mine(d)'
  <1>1. req'[d] = req[d] /\ (pair[d] = 0 => pair'[d] = 0)
      BY DEF Same
  <1>2. Control(d)'
      BY FactsStay, <1>1 DEF Same, Mine, Control
  <1>3. OfSignIn(d)'
      BY FactsStay, <1>1 DEF Same, Mine, OfSignIn
  <1>4. OfAdmission(d)'
      BY FactsStay, <1>1 DEF Same, Mine, OfAdmission
  <1>5. req[d].op \in Presenting => pair[d] \in Pairs
      BY DEF TypeOK
  <1>6. req[d].op \in Presenting /\ pc[d] # "newRefresh" => pair[d] \in delivered
      BY DEF Mine, OfDelivery
  <1>7. OfToken(d)'
    <2>1. pc[d] # "newRefresh" \/ req[d].op = "refresh"
        BY DEF Mine, Control, Rotation
    <2>2. CASE req[d].op \in {"rpc", "logout", "revoke"}
        BY <1>6, <2>1, <2>2 DEF Same, Mine, OfToken, Shrinks, Presenting, Revocations, Known
    <2> QED
        BY <1>1, <2>2 DEF OfToken
  <1>8. OfRefresh(d)'
    <2>1. CASE req[d].op = "refresh" /\ pc[d] = "newRefresh"
        BY <1>1, <1>5, <2>1, FactsStay DEF Same, Mine, OfRefresh, Presenting, Rotation
    <2>2. CASE req[d].op = "refresh" /\ pc[d] # "newRefresh"
        BY <1>1, <1>5, <1>6, <2>2, FactsStay DEF Same, Mine, OfRefresh, Presenting, Shrinks
    <2> QED
        BY <1>1, <2>1, <2>2 DEF OfRefresh
  <1>9. OfDelivery(d)'
      BY <1>1, <1>6, FactsStay DEF Same, Mine, OfDelivery, Holding, Private, Shrinks
  <1> QED
      BY <1>2, <1>3, <1>4, <1>7, <1>8, <1>9 DEF Mine

(***************************************************************************)
(* The caller's own step, one lemma per kind of stage.                     *)
(***************************************************************************)
LEMMA BeginMine ==
  ASSUME TypeOK, NEW c \in Callers,
         \/ \E op \in SignIns, u \in Users, p \in Passwords : BeginSignIn(c, op, u, p)
         \/ \E op \in Presenting, kind \in {"access", "refresh"}, u \in Users \cup {None},
               t \in Pairs : BeginWithToken(c, op, kind, u, t)
  PROVE  Mine(c)'
  <1>1. ASSUME NEW op \in SignIns, NEW u \in Users, NEW p \in Passwords, BeginSignIn(c, op, u, p)
        PROVE  Mine(c)'
    <2>1. /\ pc'[c] = "authenticate" /\ reply'[c] = "none" /\ pair'[c] = 0
          /\ req'[c].op = op
        BY <1>1 DEF BeginSignIn, Begin, Request, TypeOK
    <2> QED
        BY <2>1 DEF Mine, Control, OfSignIn, OfRefresh, OfAdmission, OfToken, OfDelivery, Holding,
                    SignIns, Presenting, Revocations, Rotation
  <1>2. ASSUME NEW op \in Presenting, NEW kind \in {"access", "refresh"},
               NEW u \in Users \cup {None}, NEW t \in Pairs, BeginWithToken(c, op, kind, u, t)
        PROVE  Mine(c)'
    <2>1. /\ pc'[c] = FirstStage(op) /\ reply'[c] = "none" /\ pair'[c] = t
          /\ req'[c].op = op /\ req'[c].user = u /\ req'[c].kind = kind
          /\ (req'[c].live <=> Live(op, kind, t))
          /\ UNCHANGED <<access, refresh, expired, delivered, owner>>
          /\ t \in delivered
        BY <1>2 DEF BeginWithToken, Begin, Request, TypeOK, store, issued
    <2>2. \/ op \in {"rpc", "logout"} /\ pc'[c] = "introspect" /\ kind = "access"
          \/ op = "refresh" /\ pc'[c] = "refresh" /\ kind = "refresh"
          \/ op = "close" /\ pc'[c] = "close" /\ u = None
          \/ op = "revoke" /\ pc'[c] = "revoke"
        BY <1>2, <2>1, FirstStages DEF BeginWithToken, Presenting, Revocations
    <2>3. pair'[c] \in Pairs'
        BY <2>1 DEF Pairs
    <2>4. /\ op \in {"rpc", "logout"} /\ ~req'[c].live => pair'[c] \notin access' \ expired'
          /\ op = "refresh" /\ ~req'[c].live => pair'[c] \notin refresh'
          /\ op = "revoke" /\ ~req'[c].live => ~Known(req[c].kind, pair[c])'
        BY <2>1, <2>2 DEF Live, Known
    <2> QED
        BY <2>1, <2>2, <2>3, <2>4
        DEF Mine, Control, OfSignIn, OfRefresh, OfAdmission, OfToken, OfDelivery, Holding,
            SignIns, Presenting, Revocations, Rotation
  <1> QED
      BY <1>1, <1>2

\* A step of c that goes on with its call.
StillMine(c) ==
    /\ Kept(c)
    /\ UNCHANGED <<history, owner, delivered>>
    /\ \A t \in {pair[c]} : /\ t \in access' => t \in access
                            /\ t \in refresh' => t \in refresh
    /\ expired' = expired

LEMMA StillFacts ==
  ASSUME NEW c \in Callers, StillMine(c)
  PROVE  /\ Proven(c)' <=> Proven(c)
         /\ Missed(c)' <=> Missed(c)
         /\ Existed(c)' <=> Existed(c)
         /\ Held(c)' <=> Held(c)
         /\ Pairs' = Pairs
  BY DEF StillMine, Kept, Proven, Missed, Existed, Held, During, Pairs

\* Stages that only read: what they establish of the present moment.
LEMMA ReadingMine ==
  ASSUME TypeOK, NEW c \in Callers, Mine(c),
         \/ Authenticate(c) \/ Recheck(c) \/ Reread(c) \/ Refresh(c) \/ Rotate(c)
         \/ Introspect(c) \/ GetAccount(c) \/ Revoke(c) \/ Close(c)
  PROVE  Mine(c)'
  <1>1. StillMine(c)
      BY DEF Authenticate, Recheck, Reread, Refresh, Rotate, Introspect, GetAccount, Revoke, Close,
             Reading, store, issued, Kept, StillMine
  <1>2. /\ Proven(c)' <=> Proven(c)
        /\ Missed(c)' <=> Missed(c)
        /\ Existed(c)' <=> Existed(c)
        /\ Held(c)' <=> Held(c)
        /\ Pairs' = Pairs
      BY <1>1, StillFacts
  <1>3. reply[c] = "none"
      BY DEF Mine, Control, Authenticate, Recheck, Reread, Refresh, Rotate, Introspect, GetAccount,
             Revoke, Close
  <1>4. Len(history) \in During(c) /\ accounts = history[Len(history)]
      BY Now
  <1>5. req[c].op \in Presenting => pair[c] \in Pairs
      BY DEF TypeOK
  <1>6. CASE Authenticate(c)
    <2>1. \/ pc'[c] = "recheck" /\ reply'[c] = "none" /\ Proven(c)
          \/ pc'[c] = "done" /\ reply'[c] = "refused"
        BY <1>3, <1>4, <1>6 DEF Authenticate, Authenticates, GoTo, Reply, Proven, TypeOK
    <2>2. pc[c] = "authenticate" /\ req[c].op \in SignIns
        BY <1>6 DEF Authenticate, Mine, Control
    <2>3. req[c].user \in Users
        BY <2>2 DEF TypeOK
    <2> QED
        BY <1>1, <1>2, <1>3, <2>1, <2>2, <2>3
        DEF StillMine, Kept, Mine, Control, OfSignIn, OfRefresh, OfAdmission, OfToken, OfDelivery,
            Holding, SignIns, Presenting, Revocations, Rotation
  <1>7. CASE Recheck(c)
    <2>1. \/ /\ pc'[c] = (IF req[c].op = "refresh" THEN "rotate" ELSE "issue")
             /\ reply'[c] = "none" /\ accounts[req[c].user] # None /\ accounts[req[c].user].enabled
          \/ pc'[c] = "done" /\ reply'[c] = "refused"
        BY <1>3, <1>7 DEF Recheck, GoTo, Reply, TypeOK
    <2>2. pc[c] = "recheck" /\ req[c].op \in SignIns \cup {"refresh"} /\ req[c].user \in Users
        BY <1>7 DEF Recheck, Mine, Control
    <2>3. CASE req[c].op \in SignIns
      <3>1. req[c].op # "refresh"
          BY <2>3 DEF SignIns
      <3>2. Proven(c) /\ pair[c] = 0
          BY <2>2, <2>3 DEF Mine, OfSignIn
      <3> QED
          BY <1>1, <1>2, <1>3, <2>1, <2>2, <2>3, <3>1, <3>2
          DEF StillMine, Kept, Mine, Control, OfSignIn, OfRefresh, OfAdmission, OfToken, OfDelivery,
              Holding, SignIns, Presenting, Revocations, Rotation
    <2>4. CASE req[c].op = "refresh"
      <3>1. pc'[c] = "rotate" => Proven(c)
          BY <1>4, <2>1, <2>4 DEF Proven, SignIns
      <3>2. req[c].live
          BY <2>2, <2>4 DEF Mine, OfRefresh
      <3> QED
          BY <1>1, <1>2, <1>3, <2>1, <2>2, <2>4, <3>1, <3>2
          DEF StillMine, Kept, Mine, Control, OfSignIn, OfRefresh, OfAdmission, OfToken, OfDelivery,
              Holding, SignIns, Presenting, Revocations, Rotation
    <2> QED
        BY <2>2, <2>3, <2>4
  <1>8. CASE Reread(c)
    <2>1. \/ pc'[c] = "permissions" /\ reply'[c] = "none" /\ accounts[req[c].user] # None
          \/ pc'[c] = "done" /\ reply'[c] = "error" /\ Missed(c)
        BY <1>3, <1>4, <1>8 DEF Reread, GoTo, Reply, Missed, TypeOK
    <2>2. pc[c] = "reread" /\ req[c].op = "login" /\ req[c].op \in SignIns
        BY <1>8 DEF Reread, Mine, Control
    <2>3. pair[c] \in Pairs /\ owner[pair[c]] = req[c].user
        BY <2>2 DEF Mine, OfSignIn
    <2>4. pc'[c] = "permissions" => Existed(c)
        BY <1>4, <2>1, <2>3 DEF Existed
    <2> QED
        BY <1>1, <1>2, <1>3, <2>1, <2>2, <2>3, <2>4
        DEF StillMine, Kept, Mine, Control, OfSignIn, OfRefresh, OfAdmission, OfToken, OfDelivery,
            Holding, SignIns, Presenting, Revocations, Rotation
  <1>9. CASE Refresh(c)
    <2>1. /\ pc[c] = "refresh"
          /\ \/ pc'[c] = "recheck" /\ reply'[c] = "none" /\ pair[c] \in refresh /\ req[c].user # None
             \/ pc'[c] = "revokeRefresh" /\ reply'[c] = "none"
             \/ pc'[c] = "done" /\ reply'[c] = "refused"
        BY <1>3, <1>9 DEF Refresh, GoTo, Reply, TypeOK
    <2>2. req[c].op \in {"refresh", "close"}
        BY <2>1 DEF Mine, Control
    <2>3. pair[c] \in Pairs
        BY <1>5, <2>2 DEF Presenting
    <2>4. pc'[c] = "recheck" => req[c].op = "refresh" /\ req[c].user \in Users /\ req[c].live
        BY <2>1, <2>2 DEF Mine, Control, OfRefresh, TypeOK, Requests
    <2> QED
        BY <1>1, <1>2, <1>3, <2>1, <2>2, <2>3, <2>4
        DEF StillMine, Kept, Mine, Control, OfSignIn, OfRefresh, OfAdmission, OfToken, OfDelivery,
            Holding, SignIns, Presenting, Revocations, Rotation
  <1>10. CASE Rotate(c)
    <2>1. /\ pc[c] = "rotate"
          /\ \/ pc'[c] = "rotateAccess" /\ reply'[c] = "none"
             \/ pc'[c] = "done" /\ reply'[c] = "refused"
        BY <1>3, <1>10 DEF Rotate, GoTo, Reply, TypeOK
    <2>2. req[c].op = "refresh" /\ req[c].user \in Users /\ req[c].live /\ Proven(c)
        BY <2>1 DEF Mine, Control, OfRefresh
    <2>3. pair[c] \in Pairs
        BY <1>5, <2>2 DEF Presenting
    <2> QED
        BY <1>1, <1>2, <1>3, <2>1, <2>2, <2>3
        DEF StillMine, Kept, Mine, Control, OfSignIn, OfRefresh, OfAdmission, OfToken, OfDelivery,
            Holding, SignIns, Presenting, Revocations, Rotation
  <1>11. CASE Introspect(c)
    <2>1. \/ pc'[c] = "account" /\ reply'[c] = "none" /\ pair[c] \in access \ expired
          \/ pc'[c] = "done" /\ reply'[c] = "refused"
        BY <1>3, <1>11 DEF Introspect, Introspects, GoTo, Reply, TypeOK
    <2>2. pc[c] = "introspect" /\ req[c].op \in {"rpc", "logout"}
        BY <1>11 DEF Introspect, Mine, Control
    <2>3. pc'[c] = "account" => req[c].live
        BY <2>1, <2>2 DEF Mine, OfToken
    <2> QED
        BY <1>1, <1>2, <1>3, <2>1, <2>2, <2>3
        DEF StillMine, Kept, Mine, Control, OfSignIn, OfRefresh, OfAdmission, OfToken, OfDelivery,
            Holding, SignIns, Presenting, Revocations, Rotation
  <1>12. CASE GetAccount(c)
    <2>1. \/ pc'[c] = "permissions" /\ reply'[c] = "none" /\ Existed(c)
          \/ pc'[c] = "done" /\ reply'[c] = "refused"
        BY <1>3, <1>4, <1>12 DEF GetAccount, GoTo, Reply, Existed, TypeOK
    <2>2. pc[c] = "account" /\ req[c].op \in {"rpc", "logout"}
        BY <1>12 DEF GetAccount, Mine, Control
    <2>3. pair[c] \in Pairs
        BY <1>5, <2>2 DEF Presenting, Revocations
    <2>4. req[c].live
        BY <2>2 DEF Mine, OfToken
    <2> QED
        BY <1>1, <1>2, <1>3, <2>1, <2>2, <2>3, <2>4
        DEF StillMine, Kept, Mine, Control, OfSignIn, OfRefresh, OfAdmission, OfToken, OfDelivery,
            Holding, SignIns, Presenting, Revocations, Rotation
  <1>13. CASE Revoke(c)
    <2>1. /\ pc[c] = "revoke"
          /\ \/ pc'[c] = "revokeRefresh" /\ reply'[c] = "none"
             \/ pc'[c] = "done" /\ reply'[c] = "ok"
        BY <1>3, <1>13 DEF Revoke, GoTo, Reply, TypeOK
    <2>2. req[c].op \in Revocations /\ pair[c] \in Pairs
        BY <2>1 DEF Mine, Control
    <2>3. req[c].op = "logout" => Existed(c) /\ Held(c) /\ req[c].live
        BY <2>1 DEF Mine, OfAdmission, OfToken
    <2> QED
        BY <1>1, <1>2, <1>3, <2>1, <2>2, <2>3
        DEF StillMine, Kept, Mine, Control, OfSignIn, OfRefresh, OfAdmission, OfToken, OfDelivery,
            Holding, SignIns, Presenting, Revocations, Rotation, Known
  <1>14. CASE Close(c)
    <2>1. /\ pc[c] = "close"
          /\ \/ pc'[c] = "refresh" /\ reply'[c] = "none"
             \/ pc'[c] = "done" /\ reply'[c] = "ok"
        BY <1>3, <1>14 DEF Close, GoTo, Reply, TypeOK
    <2>2. req[c].op = "close"
        BY <2>1 DEF Mine, Control
    <2> QED
        BY <1>1, <1>2, <1>3, <2>1, <2>2
        DEF StillMine, Kept, Mine, Control, OfSignIn, OfRefresh, OfAdmission, OfToken, OfDelivery,
            Holding, SignIns, Presenting, Revocations, Rotation
  <1> QED
      BY <1>6, <1>7, <1>8, <1>9, <1>10, <1>11, <1>12, <1>13, <1>14

LEMMA NewPairFacts ==
  ASSUME TypeOK, NEW c \in Callers, NEW s, NewPair(c, s)
  PROVE  /\ pair'[c] = Len(owner') /\ owner'[pair'[c]] = req[c].user /\ id'[pair'[c]] = s
         /\ pair'[c] \in Pairs' /\ pair'[c] \notin Pairs
         /\ access' = access \cup {pair'[c]}
  BY DEF NewPair, TypeOK, Pairs

LEMMA IssueMine ==
  ASSUME TypeOK, Grows, NEW c \in Callers, Mine(c), Issue(c)
  PROVE  Mine(c)'
  <1>1. /\ req'[c] = req[c] /\ perms'[c] = perms[c]
        /\ \/ /\ req[c].op = "login" /\ pc'[c] = "reread" /\ reply'[c] = reply[c]
              /\ delivered' = delivered
           \/ req[c].op # "login" /\ pc'[c] = "done" /\ reply'[c] = "ok"
      BY DEF Issue, GoTo, Reply, TypeOK
  <1>2. pc[c] = "issue" /\ req[c].op \in SignIns /\ reply[c] = "none"
      BY DEF Issue, Mine, Control
  <1>3. Proven(c)'
    <2>1. Proven(c)
        BY <1>2 DEF Mine, OfSignIn
    <2> QED
        BY <1>1, <2>1, FactsStay
  <1>4. pair'[c] \in Pairs' /\ owner'[pair'[c]] = req[c].user /\ pair'[c] \notin delivered
      BY NewPairFacts DEF Issue, TypeOK
  <1> QED
      BY <1>1, <1>2, <1>3, <1>4
      DEF Mine, Control, OfSignIn, OfRefresh, OfAdmission, OfToken, OfDelivery, Holding,
          SignIns, Presenting, Revocations, Rotation

LEMMA NewAccessMine ==
  ASSUME TypeOK, Grows, NEW c \in Callers, Mine(c), NewAccess(c)
  PROVE  Mine(c)'
  <1>1. /\ req'[c] = req[c] /\ perms'[c] = perms[c] /\ delivered' = delivered
        /\ pc'[c] = "newRefresh" /\ reply'[c] = reply[c]
      BY DEF NewAccess, GoTo, TypeOK
  <1>2. /\ pc[c] = "newAccess" /\ req[c].op = "refresh" /\ reply[c] = "none"
        /\ req[c].live /\ req[c].user \in Users /\ Proven(c)
      BY DEF NewAccess, Mine, Control, OfRefresh, Rotation
  <1>3. Proven(c)'
      BY <1>1, <1>2, FactsStay
  <1>4. pair'[c] \in Pairs' /\ owner'[pair'[c]] = req[c].user /\ pair'[c] \notin delivered
      BY NewPairFacts DEF NewAccess, TypeOK
  <1> QED
      BY <1>1, <1>2, <1>3, <1>4
      DEF Mine, Control, OfSignIn, OfRefresh, OfAdmission, OfToken, OfDelivery, Holding,
          SignIns, Presenting, Revocations, Rotation

LEMMA NewRefreshMine ==
  ASSUME TypeOK, Grows, NEW c \in Callers, Mine(c), NewRefresh(c)
  PROVE  Mine(c)'
  <1>1. /\ req'[c] = req[c] /\ perms'[c] = perms[c] /\ pair'[c] = pair[c]
        /\ pair[c] \in delivered' /\ pc'[c] = "done" /\ reply'[c] = "ok" /\ owner' = owner
      BY DEF NewRefresh, Reply, TypeOK, issued
  <1>2. /\ pc[c] = "newRefresh" /\ req[c].op = "refresh" /\ reply[c] = "none"
        /\ req[c].live /\ Proven(c) /\ pair[c] \in Pairs /\ owner[pair[c]] = req[c].user
      BY DEF NewRefresh, Mine, Control, OfRefresh, Rotation, OfDelivery, Holding
  <1>3. Proven(c)' /\ pair'[c] \in Pairs'
      BY <1>1, <1>2, FactsStay
  <1> QED
      BY <1>1, <1>2, <1>3
      DEF Mine, Control, OfSignIn, OfRefresh, OfAdmission, OfToken, OfDelivery, Holding,
          SignIns, Presenting, Revocations, Rotation

LEMMA GetPermissionsMine ==
  ASSUME TypeOK, Grows, NEW c \in Callers, Mine(c), GetPermissions(c)
  PROVE  Mine(c)'
  <1>1. /\ req'[c] = req[c] /\ pair'[c] = pair[c] /\ perms'[c] = Granted(owner[pair[c]])
        /\ UNCHANGED <<history, owner, access, refresh, expired>> /\ delivered \subseteq delivered'
        /\ \/ req[c].op = "logout" /\ pc'[c] = "revoke" /\ reply'[c] = reply[c]
           \/ req[c].op # "logout" /\ pc'[c] = "done" /\ reply'[c] = "ok"
      BY DEF GetPermissions, GoTo, Reply, TypeOK, issued
  <1>2. /\ pc[c] = "permissions" /\ req[c].op \in {"rpc", "logout", "login"} /\ reply[c] = "none"
        /\ pair[c] \in Pairs /\ Existed(c)
      BY DEF GetPermissions, Mine, Control, OfAdmission
  <1>3. Existed(c)' /\ (Proven(c) => Proven(c)') /\ pair'[c] \in Pairs'
      BY <1>1, <1>2, FactsStay
  <1>4. Held(c)'
    <2>1. Len(history) \in During(c) /\ accounts = history[Len(history)]
        BY Now
    <2>2. Len(history) \in During(c)' /\ history'[Len(history)] = accounts
        BY <1>1, <2>1 DEF During
    <2> QED
        BY <1>1, <2>2 DEF Held, Granted
  <1>5. /\ req[c].op \in {"rpc", "logout"} => req[c].live
        /\ req[c].op = "login" => Proven(c) /\ owner[pair[c]] = req[c].user
      BY <1>2 DEF Mine, OfToken, OfSignIn, SignIns
  <1>6. req[c].op \in Presenting => pair[c] \in delivered
      BY <1>2 DEF Mine, OfDelivery
  <1> QED
      BY <1>1, <1>2, <1>3, <1>4, <1>5, <1>6
      DEF Mine, Control, OfSignIn, OfRefresh, OfAdmission, OfToken, OfDelivery, Holding,
          SignIns, Presenting, Revocations, Rotation

\* Stages that take tokens out.
LEMMA RemovingMine ==
  ASSUME TypeOK, NEW c \in Callers, Mine(c),
         RotateAccess(c) \/ RotateRefresh(c) \/ RevokeRefresh(c) \/ RevokeAccess(c)
  PROVE  Mine(c)'
  <1>1. StillMine(c)
      BY DEF RotateAccess, RotateRefresh, RevokeRefresh, RevokeAccess, Removing, issued, Kept, StillMine
  <1>2. /\ Proven(c)' <=> Proven(c)
        /\ Missed(c)' <=> Missed(c)
        /\ Existed(c)' <=> Existed(c)
        /\ Held(c)' <=> Held(c)
        /\ Pairs' = Pairs
      BY <1>1, StillFacts
  <1>3. reply[c] = "none" /\ pair[c] \in Pairs
    <2>1. pc[c] \in {"revokeRefresh", "revokeAccess", "rotateAccess", "rotateRefresh"}
        BY DEF RotateAccess, RotateRefresh, RevokeRefresh, RevokeAccess
    <2>2. req[c].op = "refresh" \/ pair[c] \in Pairs
        BY <2>1 DEF Mine, Control, Rotation
    <2> QED
        BY <2>1, <2>2 DEF Mine, Control, TypeOK, Presenting
  <1>4. CASE RotateAccess(c) \/ RotateRefresh(c)
    <2>1. /\ pc[c] \in {"rotateAccess", "rotateRefresh"}
          /\ \/ pc'[c] \in {"rotateRefresh", "newAccess"} /\ reply'[c] = "none"
             \/ pc'[c] = "done" /\ reply'[c] = "refused"
        BY <1>3, <1>4 DEF RotateAccess, RotateRefresh, GoTo, Reply, TypeOK
    <2>2. req[c].op = "refresh" /\ req[c].user \in Users /\ req[c].live /\ Proven(c)
        BY <2>1 DEF Mine, Control, OfRefresh, Rotation
    <2> QED
        BY <1>1, <1>2, <1>3, <2>1, <2>2
        DEF StillMine, Kept, Mine, Control, OfSignIn, OfRefresh, OfAdmission, OfToken, OfDelivery,
            Holding, SignIns, Presenting, Revocations, Rotation
  <1>5. CASE RevokeRefresh(c) \/ RevokeAccess(c)
    <2>1. /\ pc[c] \in {"revokeRefresh", "revokeAccess"}
          /\ \/ pc'[c] = "revokeAccess" /\ reply'[c] = "none"
             \/ /\ pc'[c] = "done"
                /\ reply'[c] = (IF req[c].op \in Revocations THEN "ok" ELSE "refused")
        BY <1>3, <1>5 DEF RevokeRefresh, RevokeAccess, GoTo, Reply, TypeOK
    <2>2. req[c].op \in Revocations \cup {"refresh", "close"}
        BY <2>1 DEF Mine, Control
    <2>3. req[c].op = "logout" => Existed(c) /\ Held(c) /\ req[c].live
        BY <2>1 DEF Mine, OfAdmission, OfToken
    <2> QED
        BY <1>1, <1>2, <1>3, <2>1, <2>2, <2>3
        DEF StillMine, Kept, Mine, Control, OfSignIn, OfRefresh, OfAdmission, OfToken, OfDelivery,
            Holding, SignIns, Presenting, Revocations, Rotation, Known
  <1> QED
      BY <1>4, <1>5

LEMMA StepMine ==
  ASSUME TypeOK, Grows, NEW c \in Callers, Mine(c), StepOf(c)
  PROVE  Mine(c)'
  BY BeginMine, ReadingMine, IssueMine, NewAccessMine, NewRefreshMine, GetPermissionsMine, RemovingMine
  DEF StepOf

(***************************************************************************)
(* Pairs that are not given away yet are held by one call each.            *)
(***************************************************************************)
\* Who holds a pair after a step has held it before, or has just issued it.
LEMMA Holders ==
  ASSUME TypeOK, NEW c \in Callers, Mine(c), StepOf(c), Holding(c)'
  PROVE  \/ Holding(c) /\ pair'[c] = pair[c]
         \/ pair'[c] \notin Pairs
  <1>1. CASE Issue(c)
      BY <1>1, NewPairFacts DEF Issue
  <1>2. CASE NewAccess(c)
      BY <1>2, NewPairFacts DEF NewAccess
  <1>3. CASE NewRefresh(c)
      BY <1>3 DEF NewRefresh, Reply, Holding, TypeOK
  <1>4. CASE GetPermissions(c)
      BY <1>4 DEF GetPermissions, GoTo, Reply, Holding, TypeOK
  <1>5. CASE RotateAccess(c) \/ RotateRefresh(c) \/ RevokeRefresh(c) \/ RevokeAccess(c)
      BY <1>5 DEF RotateAccess, RotateRefresh, RevokeRefresh, RevokeAccess, GoTo, Reply, Holding, TypeOK
  <1>6. CASE \/ Authenticate(c) \/ Recheck(c) \/ Reread(c) \/ Refresh(c) \/ Rotate(c)
            \/ Introspect(c) \/ GetAccount(c) \/ Revoke(c) \/ Close(c)
    <2>1. Kept(c)
        BY <1>6 DEF Authenticate, Recheck, Reread, Refresh, Rotate, Introspect, GetAccount, Revoke,
                    Close, Reading, Kept
    <2>2. CASE Reread(c)
      <3>1. pc[c] = "reread" /\ req[c].op = "login"
          BY <2>2 DEF Reread, Mine, Control
      <3> QED
          BY <2>1, <3>1 DEF Holding, Kept
    <2>3. CASE GetAccount(c)
      <3>1. req[c].op \in {"rpc", "logout"} /\ (pc'[c] = "permissions" \/ pc'[c] = "done")
          BY <2>3 DEF GetAccount, Mine, Control, GoTo, Reply, TypeOK
      <3> QED
          BY <2>1, <3>1 DEF Holding, Kept
    <2>4. CASE \/ Authenticate(c) \/ Recheck(c) \/ Refresh(c) \/ Rotate(c) \/ Introspect(c)
              \/ Revoke(c) \/ Close(c)
      <3>1. pc'[c] \in {"recheck", "issue", "rotate", "revokeRefresh", "rotateAccess", "account",
                        "refresh", "done"}
          BY <2>4 DEF Authenticate, Recheck, Refresh, Rotate, Introspect, Revoke, Close, GoTo, Reply, TypeOK
      <3> QED
          BY <3>1 DEF Holding
    <2> QED
        BY <1>6, <2>2, <2>3, <2>4
  <1>7. CASE \/ \E op \in SignIns, u \in Users, p \in Passwords : BeginSignIn(c, op, u, p)
            \/ \E op \in Presenting, kind \in {"access", "refresh"}, u \in Users \cup {None},
                  t \in Pairs : BeginWithToken(c, op, kind, u, t)
    <2>1. CASE \E op \in SignIns, u \in Users, p \in Passwords : BeginSignIn(c, op, u, p)
        BY <2>1 DEF BeginSignIn, Begin, Holding, TypeOK
    <2>2. ASSUME NEW op \in Presenting, NEW kind \in {"access", "refresh"},
                 NEW u \in Users \cup {None}, NEW t \in Pairs, BeginWithToken(c, op, kind, u, t)
          PROVE  FALSE
      <3>1. pc'[c] = FirstStage(op)
          BY <2>2 DEF BeginWithToken, Begin, TypeOK
      <3> QED
          BY <3>1, FirstStages DEF Holding, Presenting, Revocations
    <2> QED
        BY <1>7, <2>1, <2>2
  <1> QED
      BY <1>1, <1>2, <1>3, <1>4, <1>5, <1>6, <1>7 DEF StepOf

LEMMA OthersPrivate ==
  ASSUME TypeOK, \A d \in Callers : Mine(d), Apart, NEW c \in Callers, StepOf(c),
         NEW d \in Callers, d # c
  PROVE  Private(d)
  <1> SUFFICES ASSUME Holding(d) PROVE pair[d] \notin delivered'
      BY DEF Private
  <1>1. pair[d] \in Pairs \ delivered
      BY DEF Mine, OfDelivery
  <1>2. Issue(c) => Len(owner') \notin Pairs
      BY NewPairFacts DEF Issue
  <1>3. Holding(c) => pair[c] # pair[d]
      BY DEF Apart
  <1> QED
      BY <1>1, <1>2, <1>3, Delivers DEF Mine

LEMMA StepApart ==
  ASSUME TypeOK, \A d \in Callers : Mine(d), Apart, NEW c \in Callers, StepOf(c)
  PROVE  Apart'
  <1>1. ASSUME NEW d \in Callers, d # c PROVE Same(d)
      BY <1>1, OthersSame
  <1>2. \A d \in Callers : d # c => (Holding(d)' <=> Holding(d)) /\ pair'[d] = pair[d]
      BY <1>1 DEF Same, Holding
  <1>3. \A d \in Callers : Holding(d) => pair[d] \in Pairs
      BY DEF Mine, OfDelivery
  <1>4. Holding(c)' => (Holding(c) /\ pair'[c] = pair[c]) \/ pair'[c] \notin Pairs
      BY Holders
  <1>5. ASSUME NEW d \in Callers, d # c, Holding(c)', Holding(d)' PROVE pair'[c] # pair'[d]
      BY <1>2, <1>3, <1>4, <1>5 DEF Apart
  <1>6. ASSUME NEW d \in Callers, NEW e \in Callers, d # e, d # c, e # c, Holding(d)', Holding(e)'
        PROVE  pair'[d] # pair'[e]
      BY <1>2, <1>6 DEF Apart
  <1> QED
      BY <1>5, <1>6 DEF Apart

(***************************************************************************)
(* What the steps do to the tokens of a session s.                         *)
(***************************************************************************)
LEMMA AccessGoes ==
  ASSUME TypeOK, Indexed, NEW c \in Callers, pair[c] \in Pairs, NEW s \in Sessions,
         RotateAccess(c) \/ RevokeAccess(c)
  PROVE  /\ newest' = newest /\ RefreshOf(s)' = RefreshOf(s)
         /\ On(c, s) => AccessOf(s)' = AccessOf(s) \ {newest[s].access}
         /\ ~On(c, s) => AccessOf(s)' = AccessOf(s)
  <1>1. /\ UNCHANGED <<newest, refresh, id>>
        /\ access' = access \ {newest[Session(c)].access}
      BY DEF RotateAccess, RevokeAccess, Removing, issued
  <1>2. id[newest[Session(c)].access] = Session(c)
      BY PairType DEF Indexed, Session
  <1>3. On(c, s) <=> Session(c) = s
      BY DEF On, Session
  <1> QED
      BY <1>1, <1>2, <1>3 DEF AccessOf, RefreshOf

LEMMA RefreshGoes ==
  ASSUME TypeOK, Indexed, NEW c \in Callers, pair[c] \in Pairs, NEW s \in Sessions,
         RotateRefresh(c) \/ RevokeRefresh(c)
  PROVE  /\ newest' = newest /\ AccessOf(s)' = AccessOf(s)
         /\ On(c, s) => RefreshOf(s)' = RefreshOf(s) \ {newest[s].refresh}
         /\ ~On(c, s) => RefreshOf(s)' = RefreshOf(s)
  <1>1. /\ UNCHANGED <<newest, access, id>>
        /\ refresh' = refresh \ {newest[Session(c)].refresh}
      BY DEF RotateRefresh, RevokeRefresh, Removing, issued
  <1>2. id[newest[Session(c)].refresh] = Session(c)
      BY PairType DEF Indexed, Session
  <1>3. On(c, s) <=> Session(c) = s
      BY DEF On, Session
  <1> QED
      BY <1>1, <1>2, <1>3 DEF AccessOf, RefreshOf

\* A pair more changes nothing for the sessions it is not of.
LEMMA PairMore ==
  ASSUME TypeOK, Grows, NEW c \in Callers, NEW k, NewPair(c, k), NEW s \in Sessions
  PROVE  /\ s = k => AccessOf(s)' = AccessOf(s) \cup {pair'[c]}
         /\ s # k => AccessOf(s)' = AccessOf(s)
  <1>1. /\ access' = access \cup {pair'[c]} /\ id'[pair'[c]] = k
      BY NewPairFacts
  <1>2. \A t \in access : id'[t] = id[t]
      BY DEF Grows, TypeOK
  <1> QED
      BY <1>1, <1>2 DEF AccessOf

LEMMA RefreshSame ==
  ASSUME TypeOK, Grows, refresh' = refresh, NEW s
  PROVE  RefreshOf(s)' = RefreshOf(s)
  <1>1. \A t \in refresh : id'[t] = id[t]
      BY DEF Grows, TypeOK
  <1> QED
      BY <1>1 DEF RefreshOf

LEMMA AccessSame ==
  ASSUME TypeOK, Grows, access' = access, NEW s
  PROVE  AccessOf(s)' = AccessOf(s)
  <1>1. \A t \in access : id'[t] = id[t]
      BY DEF Grows, TypeOK
  <1> QED
      BY <1>1 DEF AccessOf

LEMMA AccessComes ==
  ASSUME TypeOK, Grows, NEW c \in Callers, pair[c] \in Pairs, NEW s \in Sessions, NewAccess(c)
  PROVE  /\ RefreshOf(s)' = RefreshOf(s) /\ newest'[s].refresh = newest[s].refresh
         /\ On(c, s) => /\ AccessOf(s)' = AccessOf(s) \cup {pair'[c]}
                        /\ newest'[s].access = pair'[c]
         /\ ~On(c, s) => AccessOf(s)' = AccessOf(s) /\ newest'[s].access = newest[s].access
  <1>1. On(c, s) <=> Session(c) = s
      BY DEF On, Session
  <1>2. RefreshOf(s)' = RefreshOf(s)
      BY RefreshSame DEF NewAccess
  <1>3. /\ On(c, s) => AccessOf(s)' = AccessOf(s) \cup {pair'[c]}
        /\ ~On(c, s) => AccessOf(s)' = AccessOf(s)
      BY <1>1, PairMore DEF NewAccess
  <1> DEFINE k == Session(c)
             v == [newest[k] EXCEPT !.access = Len(owner')]
  <1>4. newest' = [newest EXCEPT ![k] = v] /\ pair'[c] = Len(owner')
      BY NewPairFacts DEF NewAccess
  <1>5. newest[k] \in Newest /\ k \in Sessions
      BY PairType DEF Session
  <1>6. v.access = Len(owner') /\ v.refresh = newest[k].refresh
      BY <1>5 DEF Newest
  <1> HIDE DEF k, v
  <1>7. newest'[s] = IF s = k THEN v ELSE newest[s]
      BY <1>4 DEF Sessions, TypeOK
  <1>8. s = k <=> On(c, s)
      BY <1>1 DEF k
  <1> QED
      BY <1>2, <1>3, <1>4, <1>6, <1>7, <1>8

LEMMA RefreshComes ==
  ASSUME TypeOK, Grows, NEW c \in Callers, pair[c] \in Pairs, NEW s \in Sessions, NewRefresh(c)
  PROVE  /\ AccessOf(s)' = AccessOf(s) /\ newest'[s].access = newest[s].access
         /\ On(c, s) => /\ RefreshOf(s)' = RefreshOf(s) \cup {pair[c]}
                        /\ newest'[s].refresh = pair[c]
         /\ ~On(c, s) => RefreshOf(s)' = RefreshOf(s) /\ newest'[s].refresh = newest[s].refresh
  <1>1. On(c, s) <=> Session(c) = s
      BY DEF On, Session
  <1>2. AccessOf(s)' = AccessOf(s)
      BY AccessSame DEF NewRefresh
  <1>3. /\ On(c, s) => RefreshOf(s)' = RefreshOf(s) \cup {pair[c]}
        /\ ~On(c, s) => RefreshOf(s)' = RefreshOf(s)
      BY <1>1 DEF NewRefresh, RefreshOf, Session, issued
  <1> DEFINE k == Session(c)
             v == [newest[k] EXCEPT !.refresh = pair[c]]
  <1>4. newest' = [newest EXCEPT ![k] = v]
      BY DEF NewRefresh
  <1>5. newest[k] \in Newest /\ k \in Sessions
      BY PairType DEF Session
  <1>6. v.refresh = pair[c] /\ v.access = newest[k].access
      BY <1>5 DEF Newest
  <1> HIDE DEF k, v
  <1>7. newest'[s] = IF s = k THEN v ELSE newest[s]
      BY <1>4 DEF Sessions, TypeOK
  <1>8. s = k <=> On(c, s)
      BY <1>1 DEF k
  <1> QED
      BY <1>2, <1>3, <1>4, <1>6, <1>7, <1>8

LEMMA BothCome ==
  ASSUME TypeOK, Grows, NEW c \in Callers, Issue(c)
  PROVE  /\ \A s \in Sessions : /\ AccessOf(s)' = AccessOf(s) /\ RefreshOf(s)' = RefreshOf(s)
                               /\ newest'[s] = newest[s]
         /\ \E n : /\ Sessions' = Sessions \cup {n} /\ n \notin Sessions
                   /\ id'[pair'[c]] = n
                   /\ AccessOf(n)' = {pair'[c]} /\ RefreshOf(n)' = {pair'[c]}
                   /\ newest'[n].access = pair'[c] /\ newest'[n].refresh = pair'[c]
  <1>1. PICK n : n = Len(newest) + 1
      OBVIOUS
  <1>2. PICK t : t = Len(owner')
      OBVIOUS
  <1>3. PICK v : v = [access |-> t, refresh |-> t]
      OBVIOUS
  <1>4. /\ pair'[c] = t /\ id'[t] = n /\ t \notin Pairs
        /\ access' = access \cup {t} /\ refresh' = refresh \cup {t}
        /\ newest' = Append(newest, v)
      BY <1>1, <1>2, <1>3, NewPairFacts DEF Issue
  <1>5. Sessions' = Sessions \cup {n} /\ n \notin Sessions
      BY <1>1, <1>4 DEF Sessions, TypeOK
  <1>6. newest'[n] = v /\ \A s \in Sessions : newest'[s] = newest[s]
    <2>1. newest \in Seq(Newest)
        BY DEF TypeOK
    <2> QED
        BY <1>1, <1>4, <2>1 DEF Sessions
  <1>7. v.access = t /\ v.refresh = t
      BY <1>3
  <1>8. \A u \in Pairs : id'[u] = id[u] /\ id[u] \in Sessions
      BY PairType DEF Grows
  <1>9. access \subseteq Pairs /\ refresh \subseteq Pairs
      BY DEF TypeOK
  <1>10. \A s \in Sessions : AccessOf(s)' = AccessOf(s) /\ RefreshOf(s)' = RefreshOf(s)
      BY <1>4, <1>5, <1>8, <1>9 DEF AccessOf, RefreshOf
  <1>11. AccessOf(n)' = {t} /\ RefreshOf(n)' = {t}
      BY <1>4, <1>5, <1>8, <1>9 DEF AccessOf, RefreshOf
  <1> QED
      BY <1>4, <1>5, <1>6, <1>7, <1>10, <1>11

LEMMA StepIndexed ==
  ASSUME TypeOK, Grows, Indexed, UserKnown, NEW c \in Callers, StepOf(c)
  PROVE  Indexed'
  <1>1. \A s \in Sessions : id'[newest[s].access] = s /\ id'[newest[s].refresh] = s
      BY PairType DEF Indexed, Grows
  <1>2. CASE Issue(c)
      BY <1>1, <1>2, BothCome DEF Indexed
  <1>3. CASE NewAccess(c)
    <2>1. Sessions' = Sessions
        BY <1>3 DEF NewAccess, Sessions, TypeOK
    <2>2. pair[c] \in Pairs
        BY <1>3 DEF UserKnown, NewAccess, Rotation
    <2>3. id'[pair'[c]] = Session(c)
        BY <1>3, NewPairFacts DEF NewAccess
    <2>4. \A s \in Sessions : On(c, s) => id'[pair'[c]] = s
        BY <2>3 DEF On, Session
    <2> QED
        BY <1>1, <1>3, <2>1, <2>2, <2>4, AccessComes DEF Indexed
  <1>4. CASE NewRefresh(c)
    <2>1. Sessions' = Sessions /\ id' = id
        BY <1>4 DEF NewRefresh, Sessions, TypeOK, issued
    <2>2. pair[c] \in Pairs
        BY <1>4 DEF UserKnown, NewRefresh, Rotation
    <2>3. \A s \in Sessions : On(c, s) => id'[pair[c]] = s
        BY <2>1 DEF On
    <2> QED
        BY <1>1, <1>4, <2>1, <2>2, <2>3, RefreshComes DEF Indexed
  <1>5. CASE UNCHANGED <<id, newest>>
      BY <1>5 DEF Indexed, Sessions
  <1> QED
      BY <1>2, <1>3, <1>4, <1>5, NothingIssued

(***************************************************************************)
(* A session that is not raced keeps its part of the invariant.            *)
(***************************************************************************)
Alone(s) ==
    \A c, d \in Callers : c # d /\ On(c, s) /\ On(d, s) /\ Rotating(c) => ~Rotating(d) /\ ~Revoking(d)

LEMMA UnracedAlone ==
  ASSUME NEW s, s \in Sessions \ raced, Races \subseteq raced
  PROVE  Alone(s)
  BY DEF Alone, Races, Race, On, Session

LEMMA UnracedAloneNext ==
  ASSUME NEW s, s \in Sessions' \ raced', Races' \subseteq raced'
  PROVE  Alone(s)'
  BY DEF Alone, Races, Race, On, Session

\* What a step of c takes place in, seen from a session.
Scene(c, s) ==
    /\ IInv /\ TypeOK' /\ Grows /\ Shrinks
    /\ \A d \in Callers : d # c => Same(d)
    /\ s \in Sessions \ raced
    /\ Whole(s)
    /\ Alone(s) /\ Alone(s)'

\* What a step of c may do to a session.
Effect(c, s) ==
    /\ \/ AccessOf(s)' = AccessOf(s) /\ RefreshOf(s)' = RefreshOf(s)
       \/ On(c, s) /\ (Rotating(c) \/ Revoking(c))
    /\ \/ AccessOf(s)' \subseteq AccessOf(s) /\ RefreshOf(s)' \subseteq RefreshOf(s)
       \/ On(c, s) /\ Rotating(c)
    /\ On(c, s) /\ pc[c] = "revokeAccess" => AccessOf(s)' = {}
    /\ On(c, s)' /\ Rotating(c)' => (On(c, s) /\ Rotating(c)) \/ RefreshOf(s) # {}

LEMMA OnStays ==
  ASSUME TypeOK, Grows, NEW d \in Callers, Same(d), NEW s
  PROVE  On(d, s)' <=> On(d, s)
  <1>1. pair'[d] = pair[d] /\ (pair[d] \in Pairs \/ pair[d] = 0)
      BY DEF Same, TypeOK
  <1>2. 0 \notin Pairs'
      BY DEF Pairs
  <1> QED
      BY <1>1, <1>2 DEF On, Grows

LEMMA OthersWhole ==
  ASSUME NEW c \in Callers, NEW s, Scene(c, s), Effect(c, s),
         NEW d \in Callers, d # c, On(d, s)'
  PROVE  OfRotation(d, s)' /\ OfRevocation(d, s)' /\ OfRevoked(d, s)'
  <1>1. TypeOK /\ Same(d) /\ On(d, s)
      BY OnStays DEF Scene, IInv
  <1>2. OfRotation(d, s) /\ OfRevocation(d, s) /\ OfRevoked(d, s)
      BY <1>1 DEF Scene, Whole
  <1>3. /\ On(c, s) /\ Rotating(c) => ~Rotating(d) /\ ~Revoking(d)
        /\ On(c, s) /\ Rotating(d) => ~Rotating(c) /\ ~Revoking(c)
      BY <1>1 DEF Scene, Alone
  <1>4. OfRotation(d, s)'
    <2>1. CASE AccessOf(s)' = AccessOf(s) /\ RefreshOf(s)' = RefreshOf(s)
        BY <1>1, <1>2, <2>1 DEF Same, OfRotation
    <2>2. CASE On(c, s) /\ (Rotating(c) \/ Revoking(c))
      <3>1. ~Rotating(d)
          BY <1>3, <2>2
      <3> QED
          BY <1>1, <3>1 DEF Same, OfRotation, Rotating, Rotation
    <2> QED
        BY <2>1, <2>2 DEF Effect
  <1>5. OfRevocation(d, s)'
    <2>1. CASE AccessOf(s)' \subseteq AccessOf(s) /\ RefreshOf(s)' \subseteq RefreshOf(s)
        BY <1>1, <1>2, <2>1 DEF Same, OfRevocation
    <2>2. CASE On(c, s) /\ Rotating(c)
      <3>1. ~Revoking(d)
          BY <1>3, <2>2
      <3> QED
          BY <1>1, <3>1 DEF Same, OfRevocation, Revoking
    <2> QED
        BY <2>1, <2>2 DEF Effect
  <1>6. OfRevoked(d, s)'
    <2> SUFFICES ASSUME req[d].op \in Revocations, reply[d] = "ok" PROVE OfRevoked(d, s)'
        BY <1>1 DEF Same, OfRevoked
    <2>1. pair[d] \in delivered /\ pair[d] \in Pairs
      <3>1. Control(d) /\ OfDelivery(d)
          BY DEF Scene, IInv, Mine
      <3>2. pc[d] # "newRefresh"
          BY <3>1 DEF Control, Rotation, Revocations
      <3> QED
          BY <1>1, <3>1, <3>2 DEF OfDelivery, Presenting, On
    <2>2. pair[d] \notin refresh'
        BY <1>2, <2>1 DEF OfRevoked, Scene, Shrinks
    <2>3. ASSUME req[d].live
          PROVE  /\ RefreshOf(s)' = {} /\ \A e \in Callers : On(e, s)' => pc'[e] \notin Rotation
                 /\ AccessOf(s)' \subseteq AccessOf(s)
      <3>1. RefreshOf(s) = {} /\ \A e \in Callers : On(e, s) => pc[e] \notin Rotation
          BY <1>2, <2>3 DEF OfRevoked
      <3>2. ~(On(c, s) /\ Rotating(c))
          BY <3>1 DEF Rotating
      <3>3. RefreshOf(s)' = {} /\ AccessOf(s)' \subseteq AccessOf(s)
          BY <3>1, <3>2 DEF Effect
      <3>4. ~(On(c, s)' /\ Rotating(c)')
          BY <3>1, <3>2 DEF Effect
      <3>5. \A e \in Callers : e # c => (On(e, s)' <=> On(e, s)) /\ pc'[e] = pc[e]
          BY <1>1, OnStays DEF Scene, Same
      <3> QED
          BY <3>1, <3>3, <3>4, <3>5 DEF Rotating
    <2>4. \/ \E e \in Callers : On(e, s)' /\ pc'[e] = "revokeAccess"
          \/ pair[d] \notin access' /\ (req[d].live => AccessOf(s)' = {})
      <3>1. CASE pair[d] \notin access /\ (req[d].live => AccessOf(s) = {})
          BY <2>1, <2>3, <3>1 DEF Scene, Shrinks
      <3>2. ASSUME NEW e \in Callers, On(e, s), pc[e] = "revokeAccess", e # c
            PROVE  On(e, s)' /\ pc'[e] = "revokeAccess"
          BY <1>1, <3>2, OnStays DEF Scene, Same
      <3>3. CASE On(c, s) /\ pc[c] = "revokeAccess"
        <4>1. AccessOf(s)' = {}
            BY <3>3 DEF Effect
        <4>2. id'[pair[d]] = s
            BY <1>1 DEF On, Scene, Grows
        <4> QED
            BY <4>1, <4>2 DEF AccessOf
      <3> QED
          BY <1>2, <3>1, <3>2, <3>3 DEF OfRevoked
    <2> QED
        BY <1>1, <2>2, <2>3, <2>4 DEF Same, OfRevoked
  <1> QED
      BY <1>4, <1>5, <1>6

\* Who is halfway stays so while another call steps.
LEMMA HalfwayStays ==
  ASSUME NEW c \in Callers, NEW s, Scene(c, s),
         AccessOf(s)' = AccessOf(s), RefreshOf(s)' = RefreshOf(s),
         On(c, s) /\ pc[c] \in Halfway => On(c, s)' /\ pc'[c] \in Halfway
  PROVE  AccessOf(s)' = RefreshOf(s)' \/ \E e \in Callers : On(e, s)' /\ pc'[e] \in Halfway
  <1>1. CASE AccessOf(s) = RefreshOf(s)
      BY <1>1
  <1>2. ASSUME NEW e \in Callers, On(e, s), pc[e] \in Halfway PROVE On(e, s)' /\ pc'[e] \in Halfway
    <2>1. CASE e = c
        BY <1>2, <2>1
    <2>2. CASE e # c
        BY <1>2, <2>2, OnStays DEF Scene, IInv, Same
    <2> QED
        BY <2>1, <2>2
  <1> QED
      BY <1>1, <1>2 DEF Scene, Whole

\* A step elsewhere.
LEMMA ElsewhereWhole ==
  ASSUME NEW c \in Callers, NEW s, Scene(c, s), ~On(c, s), ~On(c, s)',
         AccessOf(s)' = AccessOf(s), RefreshOf(s)' = RefreshOf(s),
         newest'[s].access = newest[s].access, newest'[s].refresh = newest[s].refresh
  PROVE  Whole(s)'
  <1>1. Effect(c, s)
      BY DEF Effect
  <1>2. AccessOf(s)' = RefreshOf(s)' \/ \E e \in Callers : On(e, s)' /\ pc'[e] \in Halfway
      BY HalfwayStays
  <1>3. \A d \in Callers : On(d, s)' => OfRotation(d, s)' /\ OfRevocation(d, s)' /\ OfRevoked(d, s)'
      BY <1>1, OthersWhole
  <1> QED
      BY <1>2, <1>3 DEF Scene, Whole, Halfway

\* A step that leaves the store alone.
LEMMA QuietWhole ==
  ASSUME NEW c \in Callers, NEW s, Scene(c, s), UNCHANGED <<newest, access, refresh>>,
         pc[c] \notin Halfway,
         On(c, s)' /\ pc'[c] \in Rotation => RefreshOf(s) # {},
         On(c, s)' => OfRotation(c, s)' /\ OfRevocation(c, s)' /\ OfRevoked(c, s)'
  PROVE  Whole(s)'
  <1>1. AccessOf(s)' = AccessOf(s) /\ RefreshOf(s)' = RefreshOf(s)
      BY AccessSame, RefreshSame DEF Scene, IInv
  <1>2. Effect(c, s)
      BY <1>1 DEF Effect, Halfway, Rotating
  <1>3. AccessOf(s)' = RefreshOf(s)' \/ \E e \in Callers : On(e, s)' /\ pc'[e] \in Halfway
      BY <1>1, HalfwayStays
  <1>4. \A d \in Callers : On(d, s)' => OfRotation(d, s)' /\ OfRevocation(d, s)' /\ OfRevoked(d, s)'
      BY <1>2, OthersWhole
  <1> QED
      BY <1>1, <1>3, <1>4 DEF Scene, Whole, Halfway

\* A session nobody refreshes has at most one pair with live tokens.
LEMMA AtMostOne ==
  ASSUME NEW s, Whole(s), \A e \in Callers : On(e, s) => ~Rotating(e),
         NEW t \in AccessOf(s) \cup RefreshOf(s)
  PROVE  AccessOf(s) \cup RefreshOf(s) \subseteq {t}
  <1>1. CASE AccessOf(s) = RefreshOf(s)
      BY <1>1 DEF Whole
  <1>2. ASSUME NEW e \in Callers, On(e, s), pc[e] = "revokeAccess" PROVE RefreshOf(s) = {}
      BY <1>2 DEF Whole, OfRevocation
  <1>3. AccessOf(s) = RefreshOf(s) \/ RefreshOf(s) = {}
      BY <1>2 DEF Whole, Halfway, Rotating
  <1> QED
      BY <1>1, <1>3 DEF Whole

LEMMA BeginWhole ==
  ASSUME NEW c \in Callers, NEW s, Scene(c, s),
         \/ \E op \in SignIns, u \in Users, p \in Passwords : BeginSignIn(c, op, u, p)
         \/ \E op \in Presenting, kind \in {"access", "refresh"}, u \in Users \cup {None},
               t \in Pairs : BeginWithToken(c, op, kind, u, t)
  PROVE  Whole(s)'
  <1>1. ASSUME NEW op \in SignIns, NEW u \in Users, NEW p \in Passwords, BeginSignIn(c, op, u, p)
        PROVE  Whole(s)'
    <2>1. pair'[c] = 0 /\ pc[c] = "done" /\ UNCHANGED <<newest, access, refresh>>
        BY <1>1 DEF BeginSignIn, Begin, store, Scene, IInv, TypeOK
    <2>2. ~On(c, s)'
        BY <2>1 DEF On, Pairs
    <2> QED
        BY <2>1, <2>2, QuietWhole DEF Halfway, Rotation
  <1>2. ASSUME NEW op \in Presenting, NEW kind \in {"access", "refresh"},
               NEW u \in Users \cup {None}, NEW t \in Pairs, BeginWithToken(c, op, kind, u, t)
        PROVE  Whole(s)'
    <2>1. /\ pc[c] = "done" /\ pc'[c] = FirstStage(op) /\ reply'[c] = "none" /\ pair'[c] = t
          /\ req'[c].op = op /\ (req'[c].live <=> Live(op, kind, t))
          /\ UNCHANGED <<newest, access, refresh, id, owner>>
        BY <1>2 DEF BeginWithToken, Begin, Request, store, issued, Scene, IInv, TypeOK
    <2>2. pc'[c] \in {"introspect", "refresh", "close", "revoke"}
        BY <2>1, FirstStages DEF Presenting, Revocations
    <2>3. ASSUME On(c, s)', op \in Revocations, Live(op, kind, t)
          PROVE  AccessOf(s) \cup RefreshOf(s) \subseteq {t}
      <3>1. id[t] = s /\ t \in AccessOf(s) \cup RefreshOf(s)
          BY <2>1, <2>3 DEF On, Live, Known, AccessOf, RefreshOf
      <3>2. Revoking(c)'
          BY <2>1, <2>2, <2>3 DEF Revoking
      <3>3. ASSUME NEW e \in Callers, On(e, s) PROVE ~Rotating(e)
        <4>1. CASE e = c
            BY <2>1, <4>1 DEF Rotating, Rotation
        <4>2. CASE e # c
          <5>1. On(e, s)' /\ pc'[e] = pc[e]
              BY <3>3, <4>2, OnStays DEF Scene, IInv, Same
          <5>2. ~Rotating(e)'
              BY <2>3, <3>2, <4>2, <5>1 DEF Scene, Alone
          <5> QED
              BY <5>1, <5>2 DEF Rotating
        <4> QED
            BY <4>1, <4>2
      <3> QED
          BY <3>1, <3>3, AtMostOne DEF Scene
    <2>4. AccessOf(s)' = AccessOf(s) /\ RefreshOf(s)' = RefreshOf(s)
        BY <2>1, AccessSame, RefreshSame DEF Scene, IInv
    <2>5. On(c, s)' => OfRotation(c, s)' /\ OfRevocation(c, s)' /\ OfRevoked(c, s)'
        BY <2>1, <2>2, <2>3, <2>4 DEF OfRotation, OfRevocation, OfRevoked
    <2> QED
        BY <2>1, <2>2, <2>5, QuietWhole DEF Halfway, Rotation
  <1> QED
      BY <1>1, <1>2

LEMMA GetPermissionsWhole ==
  ASSUME NEW c \in Callers, NEW s, Scene(c, s), GetPermissions(c)
  PROVE  Whole(s)'
  <1>1. /\ pc[c] = "permissions" /\ req'[c] = req[c] /\ pair'[c] = pair[c]
        /\ UNCHANGED <<newest, access, refresh, id, owner>>
        /\ \/ pc'[c] = "revoke" /\ reply'[c] = reply[c]
           \/ req[c].op # "logout" /\ pc'[c] = "done" /\ reply'[c] = "ok"
      BY DEF GetPermissions, GoTo, Reply, Scene, IInv, TypeOK, issued
  <1>2. reply[c] = "none" /\ req[c].op \in {"rpc", "logout", "login"}
      BY <1>1 DEF Scene, IInv, Mine, Control
  <1>3. On(c, s)' => On(c, s)
      BY <1>1 DEF On, Pairs
  <1>4. AccessOf(s)' = AccessOf(s) /\ RefreshOf(s)' = RefreshOf(s)
      BY <1>1, AccessSame, RefreshSame DEF Scene, IInv
  <1>5. On(c, s)' => OfRotation(c, s)' /\ OfRevocation(c, s)' /\ OfRevoked(c, s)'
    <2>1. On(c, s)' => OfRevocation(c, s)
        BY <1>3 DEF Scene, Whole
    <2> QED
        BY <1>1, <1>2, <1>4, <2>1 DEF OfRotation, OfRevocation, OfRevoked, Revocations
  <1> QED
      BY <1>1, <1>5, QuietWhole DEF Halfway, Rotation

LEMMA ReadingWhole ==
  ASSUME NEW c \in Callers, NEW s, Scene(c, s),
         \/ Authenticate(c) \/ Recheck(c) \/ Reread(c) \/ Refresh(c) \/ Rotate(c)
         \/ Introspect(c) \/ GetAccount(c) \/ Close(c)
  PROVE  Whole(s)'
  <1>1. /\ Kept(c) /\ UNCHANGED <<newest, access, refresh, id, owner>>
        /\ pc[c] \notin Halfway \cup {"done"}
      BY DEF Authenticate, Recheck, Reread, Refresh, Rotate, Introspect, GetAccount, Close,
             Reading, store, issued, Kept, Halfway, Rotation
  <1>2. \/ /\ pc'[c] \in {"recheck", "issue", "rotate", "permissions", "revokeRefresh", "rotateAccess",
                          "account", "refresh"}
           /\ reply'[c] = reply[c]
        \/ pc'[c] = "done" /\ reply'[c] # "ok"
        \/ pc'[c] = "done" /\ pc[c] = "close"
      BY DEF Authenticate, Recheck, Reread, Refresh, Rotate, Introspect, GetAccount, Close, GoTo, Reply,
             Scene, IInv, TypeOK
  <1>3. reply[c] = "none" /\ (pc[c] = "close" => req[c].op \notin Revocations)
      BY <1>1 DEF Scene, IInv, Mine, Control, Revocations
  <1>4. On(c, s)' => On(c, s)
      BY <1>1 DEF On, Pairs, Kept
  <1>5. AccessOf(s)' = AccessOf(s) /\ RefreshOf(s)' = RefreshOf(s)
      BY <1>1, AccessSame, RefreshSame DEF Scene, IInv
  <1>6. On(c, s)' => OfRotation(c, s)' /\ OfRevocation(c, s)' /\ OfRevoked(c, s)'
    <2>1. On(c, s)' => OfRevocation(c, s)
        BY <1>4 DEF Scene, Whole
    <2> QED
        BY <1>1, <1>2, <1>3, <1>5, <2>1 DEF OfRotation, OfRevocation, OfRevoked, Kept, Halfway
  <1>7. On(c, s)' /\ pc'[c] \in Rotation => RefreshOf(s) # {}
    <2>1. pc'[c] \in Rotation => Rotate(c)
        BY DEF Authenticate, Recheck, Reread, Refresh, Introspect, GetAccount, Close, GoTo, Reply,
               Scene, IInv, TypeOK, Rotation
    <2>2. Rotate(c) /\ pc'[c] \in Rotation => pair[c] \in refresh
        BY DEF Rotate, Reply, Scene, IInv, TypeOK, Rotation
    <2> QED
        BY <1>4, <2>1, <2>2 DEF On, RefreshOf
  <1> QED
      BY <1>1, <1>6, <1>7, QuietWhole

LEMMA RevokeWhole ==
  ASSUME NEW c \in Callers, NEW s, Scene(c, s), Revoke(c)
  PROVE  Whole(s)'
  <1>1. /\ Kept(c) /\ UNCHANGED <<newest, access, refresh, id, owner>>
        /\ pc[c] = "revoke"
        /\ \/ pc'[c] = "revokeRefresh" /\ reply'[c] = reply[c]
           \/ pc'[c] = "done" /\ reply'[c] = "ok" /\ ~Known(req[c].kind, pair[c])
      BY DEF Revoke, Reading, store, issued, Kept, GoTo, Reply, Scene, IInv, TypeOK
  <1>2. reply[c] = "none" /\ req[c].op \in Revocations
      BY <1>1 DEF Scene, IInv, Mine, Control
  <1>3. On(c, s)' => On(c, s)
      BY <1>1 DEF On, Pairs, Kept
  <1>4. AccessOf(s)' = AccessOf(s) /\ RefreshOf(s)' = RefreshOf(s)
      BY <1>1, AccessSame, RefreshSame DEF Scene, IInv
  <1>5. CASE pc'[c] = "revokeRefresh"
    <2>1. On(c, s)' => OfRevocation(c, s)
        BY <1>3 DEF Scene, Whole
    <2>2. On(c, s)' => OfRotation(c, s)' /\ OfRevocation(c, s)' /\ OfRevoked(c, s)'
        BY <1>1, <1>2, <1>4, <1>5, <2>1 DEF OfRotation, OfRevocation, OfRevoked, Kept
    <2> QED
        BY <1>1, <1>5, <2>2, QuietWhole DEF Halfway, Rotation
  <1>6. CASE pc'[c] = "done" /\ reply'[c] = "ok" /\ ~Known(req[c].kind, pair[c])
    <2>1. ASSUME On(c, s) PROVE OfRevoked(c, s)'
      <3>1. \A e \in Callers : On(e, s) => ~Rotating(e)
          BY <1>1, <1>2, <2>1 DEF Scene, Alone, Revoking, Rotating, Rotation
      <3>2. \A e \in Callers : On(e, s)' => pc'[e] \notin Rotation
        <4>1. \A e \in Callers : e # c => pc'[e] = pc[e] /\ (On(e, s)' <=> On(e, s))
            BY OnStays DEF Scene, IInv, Same
        <4> QED
            BY <1>6, <3>1, <4>1 DEF Rotating, Rotation
      <3>3. req[c].kind \in {"access", "refresh"} /\ id[pair[c]] = s
          BY <2>1 DEF Scene, IInv, TypeOK, Requests, On
      <3>4. /\ req[c].kind = "access" => pair[c] \notin AccessOf(s)
            /\ req[c].kind = "refresh" => pair[c] \notin RefreshOf(s)
          BY <1>6 DEF Known, AccessOf, RefreshOf
      <3>5. req[c].live => AccessOf(s) \cup RefreshOf(s) \subseteq {pair[c]}
          BY <1>1, <1>2, <2>1 DEF Scene, Whole, OfRevocation
      <3>6. \/ AccessOf(s) = RefreshOf(s)
            \/ /\ RefreshOf(s) = {}
               /\ \E e \in Callers : On(e, s)' /\ pc'[e] = "revokeAccess"
        <4>1. ASSUME NEW e \in Callers, On(e, s), pc[e] \in Halfway
              PROVE  RefreshOf(s) = {} /\ On(e, s)' /\ pc'[e] = "revokeAccess"
          <5>1. pc[e] = "revokeAccess" /\ e # c
              BY <1>1, <3>1, <4>1 DEF Halfway, Rotating
          <5>2. On(e, s)' /\ pc'[e] = "revokeAccess"
              BY <4>1, <5>1, OnStays DEF Scene, IInv, Same
          <5> QED
              BY <4>1, <5>1, <5>2 DEF Scene, Whole, OfRevocation
        <4> QED
            BY <4>1 DEF Scene, Whole
      <3>7. pair[c] \notin RefreshOf(s) /\ (req[c].live => RefreshOf(s) = {})
          BY <3>3, <3>4, <3>5, <3>6
      <3>8. \/ \E e \in Callers : On(e, s)' /\ pc'[e] = "revokeAccess"
            \/ pair[c] \notin AccessOf(s) /\ (req[c].live => AccessOf(s) = {})
          BY <3>3, <3>4, <3>5, <3>6
      <3>9. /\ pair[c] \notin RefreshOf(s) => pair[c] \notin refresh
            /\ pair[c] \notin AccessOf(s) => pair[c] \notin access
          BY <3>3 DEF AccessOf, RefreshOf
      <3> QED
          BY <1>1, <1>4, <3>2, <3>7, <3>8, <3>9 DEF OfRevoked, Kept
    <2>2. On(c, s)' => OfRotation(c, s)' /\ OfRevocation(c, s)' /\ OfRevoked(c, s)'
        BY <1>3, <1>6, <2>1 DEF OfRotation, OfRevocation
    <2> QED
        BY <1>1, <1>6, <2>2, QuietWhole DEF Halfway, Rotation
  <1> QED
      BY <1>1, <1>5, <1>6

LEMMA AccessGoesWhole ==
  ASSUME NEW c \in Callers, NEW s, Scene(c, s), RotateAccess(c) \/ RevokeAccess(c)
  PROVE  Whole(s)'
  <1>1. /\ Kept(c) /\ UNCHANGED <<id, owner>>
        /\ \/ pc[c] = "rotateAccess" /\ pc'[c] = "rotateRefresh" /\ reply'[c] = reply[c]
           \/ /\ pc[c] = "revokeAccess" /\ pc'[c] = "done"
              /\ reply'[c] = (IF req[c].op \in Revocations THEN "ok" ELSE "refused")
      BY DEF RotateAccess, RevokeAccess, Removing, issued, Kept, GoTo, Reply, Scene, IInv, TypeOK
  <1>2. reply[c] = "none" /\ (pc[c] = "rotateAccess" => req[c].op \notin Revocations)
      BY <1>1 DEF Scene, IInv, Mine, Control, Revocations, Rotation
  <1>3. pair[c] \in Pairs
    <2>1. UserKnown
        BY CallsKnown DEF Scene, IInv, Mine
    <2> QED
        BY <1>1, <2>1 DEF UserKnown, Rotation
  <1>4. On(c, s)' <=> On(c, s)
      BY <1>1 DEF On, Pairs, Kept
  <1>5. /\ newest' = newest /\ RefreshOf(s)' = RefreshOf(s)
        /\ On(c, s) => AccessOf(s)' = AccessOf(s) \ {newest[s].access}
        /\ ~On(c, s) => AccessOf(s)' = AccessOf(s)
      BY <1>3, AccessGoes DEF Scene, IInv
  <1>6. CASE ~On(c, s)
      BY <1>4, <1>5, <1>6, ElsewhereWhole
  <1>7. CASE On(c, s)
    <2>1. AccessOf(s)' = {}
        BY <1>5, <1>7 DEF Scene, Whole
    <2>2. Effect(c, s)
        BY <1>1, <1>5, <1>7, <2>1 DEF Effect, Rotating, Revoking, Rotation
    <2>3. pc[c] = "revokeAccess" => RefreshOf(s) = {}
        BY <1>7 DEF Scene, Whole, OfRevocation
    <2>4. AccessOf(s)' = RefreshOf(s)' \/ \E e \in Callers : On(e, s)' /\ pc'[e] \in Halfway
        BY <1>1, <1>4, <1>5, <1>7, <2>1, <2>3 DEF Halfway, Rotation
    <2>5. OfRotation(c, s)' /\ OfRevocation(c, s)'
        BY <1>1, <1>2, <2>1 DEF OfRotation, OfRevocation, Kept
    <2>6. OfRevoked(c, s)'
      <3>1. CASE pc[c] = "rotateAccess"
          BY <1>1, <1>2, <3>1 DEF OfRevoked, Kept
      <3>2. CASE pc[c] = "revokeAccess"
        <4>1. \A e \in Callers : On(e, s) => ~Rotating(e)
            BY <1>7, <3>2 DEF Scene, Alone, Revoking, Rotating, Rotation
        <4>2. \A e \in Callers : On(e, s)' => pc'[e] \notin Rotation
          <5>1. \A e \in Callers : e # c => pc'[e] = pc[e] /\ (On(e, s)' <=> On(e, s))
              BY OnStays DEF Scene, IInv, Same
          <5>2. pc'[c] \notin Rotation
              BY <1>1, <3>2 DEF Rotation
          <5> QED
              BY <4>1, <5>1, <5>2 DEF Rotating
        <4>3. RefreshOf(s)' = {} /\ id'[pair'[c]] = s
            BY <1>1, <1>5, <1>7, <2>3, <3>2 DEF On, Kept
        <4>4. pair'[c] \notin refresh' /\ pair'[c] \notin access'
            BY <2>1, <4>3 DEF AccessOf, RefreshOf
        <4> QED
            BY <2>1, <4>2, <4>3, <4>4 DEF OfRevoked
      <3> QED
          BY <1>1, <3>1, <3>2
    <2>7. \A d \in Callers : On(d, s)' => OfRotation(d, s)' /\ OfRevocation(d, s)' /\ OfRevoked(d, s)'
        BY <2>2, <2>5, <2>6, OthersWhole
    <2> QED
        BY <1>5, <2>1, <2>4, <2>7 DEF Scene, Whole, Halfway
  <1> QED
      BY <1>6, <1>7

LEMMA RefreshGoesWhole ==
  ASSUME NEW c \in Callers, NEW s, Scene(c, s), RotateRefresh(c) \/ RevokeRefresh(c)
  PROVE  Whole(s)'
  <1>1. /\ Kept(c) /\ UNCHANGED <<id, owner>>
        /\ \/ /\ pc[c] = "rotateRefresh"
              /\ \/ pc'[c] = "newAccess" /\ reply'[c] = reply[c]
                 \/ pc'[c] = "done" /\ reply'[c] = "refused"
           \/ pc[c] = "revokeRefresh" /\ pc'[c] = "revokeAccess" /\ reply'[c] = reply[c]
      BY DEF RotateRefresh, RevokeRefresh, Removing, issued, Kept, GoTo, Reply, Scene, IInv, TypeOK
  <1>2. reply[c] = "none" /\ (pc[c] = "rotateRefresh" => req[c].op \notin Revocations)
      BY <1>1 DEF Scene, IInv, Mine, Control, Revocations, Rotation
  <1>3. pair[c] \in Pairs
    <2>1. UserKnown
        BY CallsKnown DEF Scene, IInv, Mine
    <2> QED
        BY <1>1, <2>1 DEF UserKnown, Rotation
  <1>4. On(c, s)' <=> On(c, s)
      BY <1>1 DEF On, Pairs, Kept
  <1>5. /\ newest' = newest /\ AccessOf(s)' = AccessOf(s)
        /\ On(c, s) => RefreshOf(s)' = RefreshOf(s) \ {newest[s].refresh}
        /\ ~On(c, s) => RefreshOf(s)' = RefreshOf(s)
      BY <1>3, RefreshGoes DEF Scene, IInv
  <1>6. CASE ~On(c, s)
      BY <1>4, <1>5, <1>6, ElsewhereWhole
  <1>7. CASE On(c, s)
    <2>1. RefreshOf(s)' = {}
        BY <1>5, <1>7 DEF Scene, Whole
    <2>2. Effect(c, s)
        BY <1>1, <1>5, <1>7, <2>1 DEF Effect, Rotating, Revoking, Rotation
    <2>3. pc[c] = "rotateRefresh" => AccessOf(s)' = {}
        BY <1>5, <1>7 DEF Scene, Whole, OfRotation
    <2>4. AccessOf(s)' = RefreshOf(s)' \/ \E e \in Callers : On(e, s)' /\ pc'[e] \in Halfway
        BY <1>1, <1>4, <1>7, <2>1, <2>3 DEF Halfway
    <2>5. OfRotation(c, s)' /\ OfRevocation(c, s)' /\ OfRevoked(c, s)'
        BY <1>1, <1>2, <2>1, <2>3 DEF OfRotation, OfRevocation, OfRevoked, Kept
    <2>6. \A d \in Callers : On(d, s)' => OfRotation(d, s)' /\ OfRevocation(d, s)' /\ OfRevoked(d, s)'
        BY <2>2, <2>5, OthersWhole
    <2> QED
        BY <1>5, <2>1, <2>4, <2>6 DEF Scene, Whole, Halfway
  <1> QED
      BY <1>6, <1>7

LEMMA AccessComesWhole ==
  ASSUME NEW c \in Callers, NEW s, Scene(c, s), NewAccess(c)
  PROVE  Whole(s)'
  <1>1. /\ req'[c] = req[c] /\ pc[c] = "newAccess" /\ pc'[c] = "newRefresh" /\ reply'[c] = reply[c]
      BY DEF NewAccess, GoTo, Scene, IInv, TypeOK
  <1>2. reply[c] = "none" /\ req[c].op \notin Revocations
      BY <1>1 DEF Scene, IInv, Mine, Control, Revocations, Rotation
  <1>3. pair[c] \in Pairs
    <2>1. UserKnown
        BY CallsKnown DEF Scene, IInv, Mine
    <2> QED
        BY <1>1, <2>1 DEF UserKnown, Rotation
  <1>4. On(c, s)' <=> On(c, s)
    <2>1. id'[pair'[c]] = id[pair[c]] /\ pair'[c] \in Pairs'
        BY NewPairFacts DEF NewAccess, Session, Scene, IInv
    <2> QED
        BY <1>3, <2>1 DEF On
  <1>5. /\ RefreshOf(s)' = RefreshOf(s) /\ newest'[s].refresh = newest[s].refresh
        /\ On(c, s) => /\ AccessOf(s)' = AccessOf(s) \cup {pair'[c]}
                       /\ newest'[s].access = pair'[c]
        /\ ~On(c, s) => AccessOf(s)' = AccessOf(s) /\ newest'[s].access = newest[s].access
      BY <1>3, AccessComes DEF Scene, IInv
  <1>6. CASE ~On(c, s)
      BY <1>4, <1>5, <1>6, ElsewhereWhole
  <1>7. CASE On(c, s)
    <2>1. AccessOf(s)' = {pair'[c]} /\ RefreshOf(s)' = {} /\ newest'[s].access = pair'[c]
        BY <1>1, <1>5, <1>7 DEF Scene, Whole, OfRotation
    <2>2. Effect(c, s)
        BY <1>1, <1>7 DEF Effect, Rotating, Rotation
    <2>3. On(c, s)' /\ pc'[c] \in Halfway
        BY <1>1, <1>4, <1>7 DEF Halfway, Rotation
    <2>4. OfRotation(c, s)' /\ OfRevocation(c, s)' /\ OfRevoked(c, s)'
        BY <1>1, <1>2, <2>1 DEF OfRotation, OfRevocation, OfRevoked
    <2>5. \A d \in Callers : On(d, s)' => OfRotation(d, s)' /\ OfRevocation(d, s)' /\ OfRevoked(d, s)'
        BY <2>2, <2>4, OthersWhole
    <2> QED
        BY <2>1, <2>3, <2>5 DEF Whole, Halfway
  <1> QED
      BY <1>6, <1>7

LEMMA RefreshComesWhole ==
  ASSUME NEW c \in Callers, NEW s, Scene(c, s), NewRefresh(c)
  PROVE  Whole(s)'
  <1>1. /\ req'[c] = req[c] /\ pair'[c] = pair[c] /\ UNCHANGED <<id, owner>>
        /\ pc[c] = "newRefresh" /\ pc'[c] = "done" /\ reply'[c] = "ok"
      BY DEF NewRefresh, Reply, Scene, IInv, TypeOK, issued
  <1>2. req[c].op \notin Revocations
      BY <1>1 DEF Scene, IInv, Mine, Control, Revocations, Rotation
  <1>3. pair[c] \in Pairs
    <2>1. UserKnown
        BY CallsKnown DEF Scene, IInv, Mine
    <2> QED
        BY <1>1, <2>1 DEF UserKnown, Rotation
  <1>4. On(c, s)' <=> On(c, s)
      BY <1>1 DEF On, Pairs
  <1>5. /\ AccessOf(s)' = AccessOf(s) /\ newest'[s].access = newest[s].access
        /\ On(c, s) => /\ RefreshOf(s)' = RefreshOf(s) \cup {pair[c]}
                       /\ newest'[s].refresh = pair[c]
        /\ ~On(c, s) => RefreshOf(s)' = RefreshOf(s) /\ newest'[s].refresh = newest[s].refresh
      BY <1>3, RefreshComes DEF Scene, IInv
  <1>6. CASE ~On(c, s)
      BY <1>4, <1>5, <1>6, ElsewhereWhole
  <1>7. CASE On(c, s)
    <2>1. /\ AccessOf(s)' = {pair[c]} /\ AccessOf(s)' \subseteq {newest'[s].access}
          /\ RefreshOf(s)' = {pair[c]} /\ newest'[s].refresh = pair[c]
        BY <1>1, <1>5, <1>7 DEF Scene, Whole, OfRotation
    <2>2. Effect(c, s)
        BY <1>1, <1>7 DEF Effect, Rotating, Rotation
    <2>3. OfRotation(c, s)' /\ OfRevocation(c, s)' /\ OfRevoked(c, s)'
        BY <1>1, <1>2 DEF OfRotation, OfRevocation, OfRevoked
    <2>4. \A d \in Callers : On(d, s)' => OfRotation(d, s)' /\ OfRevocation(d, s)' /\ OfRevoked(d, s)'
        BY <2>2, <2>3, OthersWhole
    <2> QED
        BY <2>1, <2>4 DEF Whole
  <1> QED
      BY <1>6, <1>7

\* A new session is whole, and the old ones stay so.
LEMMA IssueWhole ==
  ASSUME IInv, Grows, NEW c \in Callers, Issue(c), \A d \in Callers : d # c => Same(d),
         NEW s \in Sessions', s \in Sessions => Scene(c, s)
  PROVE  Whole(s)'
  <1>1. /\ req'[c] = req[c] /\ pc[c] = "issue" /\ pc'[c] \in {"reread", "done"}
      BY DEF Issue, GoTo, Reply, IInv, TypeOK
  <1>2. req[c].op \in SignIns /\ pair[c] = 0
      BY <1>1 DEF IInv, Mine, Control, OfSignIn
  <1>3. PICK n : /\ Sessions' = Sessions \cup {n} /\ n \notin Sessions
                 /\ id'[pair'[c]] = n
                 /\ AccessOf(n)' = {pair'[c]} /\ RefreshOf(n)' = {pair'[c]}
                 /\ newest'[n].access = pair'[c] /\ newest'[n].refresh = pair'[c]
      BY BothCome DEF IInv
  <1>4. CASE s \in Sessions
    <2>1. Scene(c, s)
        BY <1>4
    <2>2. AccessOf(s)' = AccessOf(s) /\ RefreshOf(s)' = RefreshOf(s) /\ newest'[s] = newest[s]
        BY <1>4, BothCome DEF IInv
    <2>3. ~On(c, s) /\ ~On(c, s)'
        BY <1>2, <1>3, <1>4 DEF On, Pairs
    <2> QED
        BY <2>1, <2>2, <2>3, ElsewhereWhole
  <1>5. CASE s = n
    <2>1. \A d \in Callers : d # c => ~On(d, s)'
        BY <1>3, <1>5, PairType, OnStays DEF IInv, On
    <2>2. OfRotation(c, s)' /\ OfRevocation(c, s)' /\ OfRevoked(c, s)'
        BY <1>1, <1>2, Disjoint DEF OfRotation, OfRevocation, OfRevoked, Presenting
    <2> QED
        BY <1>3, <1>5, <2>1, <2>2 DEF Whole
  <1> QED
      BY <1>3, <1>4, <1>5

(***************************************************************************)
(* The whole invariant.                                                    *)
(***************************************************************************)
LEMMA InitInv == Init => IInv
  <1> SUFFICES ASSUME Init PROVE IInv
      OBVIOUS
  <1>1. TypeOK
      BY InitType
  <1>2. ASSUME NEW c \in Callers
        PROVE  /\ req[c].op = "none" /\ pc[c] = "done" /\ reply[c] = "none" /\ pair[c] = 0
      BY DEF Init, NoRequest
  <1>3. ASSUME NEW c \in Callers PROVE Mine(c)
      BY <1>2 DEF Mine, Control, OfSignIn, OfRefresh, OfAdmission, OfToken, OfDelivery, Holding,
                  SignIns, Presenting, Revocations, Rotation
  <1>4. Apart
      BY <1>2 DEF Apart, Holding
  <1>5. Sessions = {}
      BY DEF Init, Sessions
  <1> QED
      BY <1>1, <1>3, <1>4, <1>5 DEF IInv, Indexed, Races

\* A restart leaves nothing of any call, or in the store.
LEMMA RestartInv ==
  ASSUME IInv, TypeOK', Grows, Restart, Races' \subseteq raced'
  PROVE  IInv'
  <1>1. ASSUME NEW c \in Callers
        PROVE  req'[c].op = "none" /\ pc'[c] = "done" /\ reply'[c] = "none" /\ pair'[c] = 0
      BY DEF Restart, NoRequest
  <1>2. ASSUME NEW c \in Callers PROVE Mine(c)'
      BY <1>1 DEF Mine, Control, OfSignIn, OfRefresh, OfAdmission, OfToken, OfDelivery, Holding,
                  SignIns, Presenting, Revocations, Rotation
  <1>3. Apart'
      BY <1>1 DEF Apart, Holding
  <1>4. Indexed'
      BY DEF IInv, Indexed, Restart, issued, Sessions
  <1>5. ASSUME NEW s PROVE Whole(s)'
    <2>1. AccessOf(s)' = {} /\ RefreshOf(s)' = {}
        BY DEF Restart, AccessOf, RefreshOf
    <2>2. \A c \in Callers : ~On(c, s)'
        BY <1>1 DEF On, Pairs
    <2> QED
        BY <2>1, <2>2 DEF Whole
  <1> QED
      BY <1>2, <1>3, <1>4, <1>5 DEF IInv

LEMMA AroundInv ==
  ASSUME IInv, TypeOK', Grows, Around, Races' \subseteq raced', raced \subseteq raced'
  PROVE  IInv'
  <1>1. \A c \in Callers : Same(c)
      BY AroundSame
  <1>2. UNCHANGED <<owner, id, newest, access, refresh, delivered>>
      BY DEF Around, Edit, Expire, store, issued
  <1>3. ASSUME NEW c \in Callers PROVE Mine(c)'
    <2>1. Private(c)
        BY <1>2 DEF IInv, Mine, OfDelivery, Private
    <2> QED
        BY <1>1, <2>1, AroundShrinks, SameStays DEF IInv
  <1>4. Apart'
      BY <1>1 DEF IInv, Apart, Same, Holding
  <1>5. Indexed' /\ Sessions' = Sessions
      BY <1>2 DEF IInv, Indexed, Sessions
  <1>6. ASSUME NEW s \in Sessions \ raced PROVE Whole(s)'
    <2>1. AccessOf(s)' = AccessOf(s) /\ RefreshOf(s)' = RefreshOf(s)
        BY <1>2 DEF AccessOf, RefreshOf
    <2>2. \A c \in Callers : On(c, s)' <=> On(c, s)
        BY <1>1, OnStays DEF IInv
    <2>3. Whole(s)
        BY DEF IInv
    <2>4. ASSUME NEW c \in Callers, On(c, s)'
          PROVE  OfRotation(c, s)' /\ OfRevocation(c, s)' /\ OfRevoked(c, s)'
      <3>1. OfRotation(c, s) /\ OfRevocation(c, s) /\ OfRevoked(c, s) /\ Same(c)
          BY <1>1, <2>2, <2>3, <2>4 DEF Whole
      <3>2. OfRotation(c, s)' /\ OfRevocation(c, s)'
          BY <2>1, <3>1 DEF Same, OfRotation, OfRevocation
      <3>3. OfRevoked(c, s)'
          BY <1>1, <1>2, <2>1, <2>2, <3>1 DEF Same, OfRevoked
      <3> QED
          BY <3>2, <3>3
    <2>5. AccessOf(s)' = RefreshOf(s)' \/ \E c \in Callers : On(c, s)' /\ pc'[c] \in Halfway
        BY <1>1, <2>1, <2>2, <2>3 DEF Whole, Same
    <2> QED
        BY <1>2, <2>1, <2>3, <2>4, <2>5 DEF Whole, Halfway
  <1> QED
      BY <1>3, <1>4, <1>5, <1>6 DEF IInv

LEMMA StepInv ==
  ASSUME IInv, TypeOK', Grows, NEW c \in Callers, StepOf(c),
         Races' \subseteq raced', raced \subseteq raced'
  PROVE  IInv'
  <1>1. Shrinks
      BY StepShrinks DEF IInv, Mine
  <1>2. \A d \in Callers : d # c => Same(d)
      BY OthersSame DEF IInv
  <1>3. ASSUME NEW d \in Callers PROVE Mine(d)'
    <2>1. CASE d = c
        BY <2>1, StepMine DEF IInv
    <2>2. CASE d # c
        BY <1>1, <1>2, <2>2, OthersPrivate, SameStays DEF IInv
    <2> QED
        BY <2>1, <2>2
  <1>4. Apart'
      BY StepApart DEF IInv
  <1>5. Indexed'
    <2>1. UserKnown
        BY CallsKnown DEF IInv, Mine
    <2> QED
        BY <2>1, StepIndexed DEF IInv
  <1>6. ASSUME NEW s \in Sessions' \ raced' PROVE Whole(s)'
    <2>1. ASSUME s \in Sessions PROVE Scene(c, s)
        BY <1>1, <1>2, <1>6, <2>1, UnracedAlone, UnracedAloneNext DEF Scene, IInv
    <2>2. CASE Issue(c)
        BY <1>2, <2>1, <2>2, IssueWhole
    <2>3. CASE ~Issue(c)
      <3>1. s \in Sessions
        <4>1. CASE NewAccess(c)
            BY <4>1 DEF NewAccess, Sessions, IInv, TypeOK
        <4>2. CASE NewRefresh(c)
            BY <4>2 DEF NewRefresh, Sessions, IInv, TypeOK
        <4>3. CASE newest' = newest
            BY <4>3 DEF Sessions
        <4> QED
            BY <2>3, <4>1, <4>2, <4>3, NothingIssued
      <3> QED
          BY <2>1, <2>3, <3>1, BeginWhole, ReadingWhole, RevokeWhole, GetPermissionsWhole,
             AccessGoesWhole, RefreshGoesWhole, AccessComesWhole, RefreshComesWhole DEF StepOf
    <2> QED
        BY <2>2, <2>3
  <1> QED
      BY <1>3, <1>4, <1>5, <1>6 DEF IInv

LEMMA NextInv == IInv /\ [Next]_vars => IInv'
  <1> SUFFICES ASSUME IInv, [Next]_vars PROVE IInv'
      OBVIOUS
  <1>1. UserKnown
      BY CallsKnown DEF IInv, Mine
  <1>2. TypeOK' /\ Grows
      BY <1>1, NextType, NextGrows DEF IInv
  <1>3. Races' \subseteq raced' /\ raced \subseteq raced'
    <2>1. CASE raced' = raced \cup Races'
        BY <2>1
    <2>2. CASE UNCHANGED vars
      <3>1. Races' = Races
          BY <2>2 DEF vars, state, store, issued, calls, Races, Race, Sessions, Session, Rotating, Revoking
      <3> QED
          BY <2>2, <3>1 DEF vars, IInv
    <2> QED
        BY <2>1, <2>2, Steps
  <1> QED
      BY <1>2, <1>3, Steps, RestartInv, AroundInv, StepInv

LEMMA Invariant == Spec => []IInv
  BY InitInv, NextInv, PTL DEF Spec

(***************************************************************************)
(* The theorems.                                                           *)
(***************************************************************************)
\* The types of Sessions are kept by every token request, refresh, call,
\* revocation, account change and restart.
THEOREM TypeCorrect == Spec => []TypeOK
  <1>1. IInv => TypeOK
      BY DEF IInv
  <1> QED
      BY <1>1, Invariant, PTL

\* TokenEndpoint and Login answer with tokens for the user named only if that
\* user was enabled at one instant of the request, with the password given at
\* the same instant unless it is a refresh, whatever changed during it.
THEOREM TokensForTheEnabled == Spec => []IssuedToEnabled
  <1>1. IInv => IssuedToEnabled
    <2> SUFFICES ASSUME IInv, NEW c \in Callers, Answered(c, SignIns \cup {"refresh"}, "ok")
                 PROVE  owner[pair[c]] = req[c].user /\ Proven(c)
        BY DEF IssuedToEnabled, Proven
    <2> QED
        BY DEF IInv, Mine, OfSignIn, OfRefresh, Answered
  <1> QED
      BY <1>1, Invariant, PTL

\* The permissions AuthFunc puts in the context, and Login reports, are those
\* the account of the token's subject had at one instant of the call.
THEOREM PermissionsAreCurrent == Spec => []PermissionsOfTheCall
  <1>1. IInv => PermissionsOfTheCall
      BY DEF IInv, Mine, OfAdmission, PermissionsOfTheCall, Answered, Existed, Held
  <1> QED
      BY <1>1, Invariant, PTL

\* AuthFunc lets no call in, and TokenEndpoint serves no refresh, whose token was
\* revoked, replaced, expired or forgotten in a restart before the call began.
THEOREM NoDeadToken == Spec => []LetInByLiveToken
  <1>1. IInv => LetInByLiveToken
      BY DEF IInv, Mine, OfToken, OfRefresh, LetInByLiveToken, Answered
  <1> QED
      BY <1>1, Invariant, PTL

\* RevokeEndpoint and Logout answer when the pair presented is dead, and its whole
\* session if the token was alive, or another revocation of it is about to finish;
\* and no refresh brings it back that had not passed its second look at the token.
THEOREM RevocationsHold == Spec => []RevokedIsDead
  <1>1. IInv => RevokedIsDead
    <2> SUFFICES ASSUME IInv, NEW c \in Callers, Answered(c, Revocations, "ok"),
                        Session(c) \notin raced,
                        ~ \E d \in Callers : pc[d] = "revokeAccess" /\ Session(d) = Session(c),
                        NEW t \in access \cup refresh, id[t] = Session(c)
                 PROVE  t # pair[c] /\ ~req[c].live
        BY DEF RevokedIsDead
    <2>1. pair[c] \in Pairs
        BY DEF IInv, TypeOK, Answered, Presenting
    <2>2. Session(c) \in Sessions /\ On(c, Session(c))
        BY <2>1, PairType DEF IInv, Session, On
    <2>3. OfRevoked(c, Session(c))
        BY <2>2 DEF IInv, Whole
    <2>4. /\ pair[c] \notin refresh /\ pair[c] \notin access
          /\ req[c].live => RefreshOf(Session(c)) = {} /\ AccessOf(Session(c)) = {}
        BY <2>3 DEF OfRevoked, Answered, On, Session
    <2> QED
        BY <2>4 DEF AccessOf, RefreshOf
  <1> QED
      BY <1>1, Invariant, PTL

\* However often TokenEndpoint refreshes a session, the tokens of one pair at most
\* are good for anything, unless two refreshes of it, or one and a revocation, met.
THEOREM OnePairLives == Spec => []OneLivePair
  <1>1. IInv => OneLivePair
    <2> SUFFICES ASSUME IInv, NEW t \in Pairs, NEW u \in Pairs, id[t] = id[u], id[t] \notin raced,
                        {t, u} \subseteq access \/ {t, u} \subseteq refresh
                 PROVE  t = u
        BY DEF OneLivePair
    <2>1. Whole(id[t])
        BY PairType DEF IInv
    <2>2. {t, u} \subseteq AccessOf(id[t]) \/ {t, u} \subseteq RefreshOf(id[t])
        BY DEF AccessOf, RefreshOf
    <2> QED
        BY <2>1, <2>2 DEF Whole
  <1> QED
      BY <1>1, Invariant, PTL

\* A refused TokenEndpoint or Login has issued nothing, unless the account was
\* deleted while Login ran.
THEOREM FailuresLeaveNothing == Spec => []FailedSignInLeavesNothing
  <1>1. IInv => FailedSignInLeavesNothing
      BY DEF IInv, Mine, OfSignIn, FailedSignInLeavesNothing, Missed
  <1> QED
      BY <1>1, Invariant, PTL

=================================================================================
