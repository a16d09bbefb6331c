-------------------------------- MODULE Sessions --------------------------------
(***************************************************************************)
(* Tokens and the accounts they are issued for (pkg/auth).  A password     *)
(* grant, a Login, a Logout and the authentication of every other call     *)
(* read the access database several times, each time under a lock of its   *)
(* own, while accounts change, other calls revoke tokens, tokens expire    *)
(* and the process restarts with new keys and an empty token store.        *)
(*                                                                         *)
(* A grant stores a pair of tokens, one for access and one to refresh.     *)
(* The pairs of one password grant and of the refreshes that follow it     *)
(* have one request id: they are a session.  Accounts survive a restart;   *)
(* how they are stored is in AccessDB.  No account has the empty name, and *)
(* no refresh token gets so old that it expires.                           *)
(***************************************************************************)
EXTENDS AccountChanges, Integers, Sequences

CONSTANTS
    Passwords, Callers,
    Grants,          \* what the roles of an account may grant
    FirstAccounts,   \* the accounts of the first start
    MaxCalls, MaxPairs, MaxEdits, MaxRestarts  \* bounds

ASSUME SessionsAssumption ==
    /\ Account \subseteq [enabled : BOOLEAN, password : Passwords, grants : Grants]
    /\ None \notin Account
    /\ FirstAccounts \in Accounts
    /\ MaxCalls \in Nat /\ MaxPairs \in Nat /\ MaxEdits \in Nat /\ MaxRestarts \in Nat

VARIABLES
    history,    \* the access database as each change left it
    owner,      \* the subject of each pair
    id,         \* the session of each pair
    newest,     \* the tokens the store finds for each session: the last it was given
    access,     \* pairs whose access token is in the store
    refresh,    \* pairs whose refresh token is in the store and active
    inactive,   \* pairs whose refresh token is in the store and has been revoked
    expired,    \* pairs whose access token has expired
    delivered,  \* pairs a client has been given
    restarts,
    begun,      \* how many calls have begun
    pc,         \* what each caller's call does next
    req,        \* what each caller asks for, and since when
    pair,       \* the pair each call has been issued or is presented, or 0
    perms,      \* the permissions each call goes by
    reply,      \* what each caller has been told
    raced       \* sessions of which a refresh has met a revocation or a refresh

issued == <<owner, id>>
store == <<issued, newest, access, refresh, inactive, expired, delivered>>
calls == <<begun, pc, req, pair, perms, reply>>
state == <<history, store, restarts, calls>>
vars == <<state, raced>>

accounts == history[Len(history)]
Pairs == 1..Len(owner)
Sessions == 1..Len(newest)
Newest == [access : Pairs, refresh : Pairs]

SignIns == {"token", "login"}
Revocations == {"logout", "revoke"}
Presenting == {"rpc", "refresh", "close"} \cup Revocations
Rotation == {"rotateAccess", "rotateRefresh", "newAccess", "newRefresh"}
Stages == {"authenticate", "recheck", "issue", "reread", "refresh", "rotate", "close",
           "introspect", "account", "permissions", "revoke", "revokeRefresh",
           "revokeAccess", "done"} \cup Rotation
Requests == [op : SignIns \cup Presenting \cup {"none"}, user : Users \cup {None},
             password : Passwords \cup {None}, kind : {"access", "refresh"},
             since : Nat \ {0}, live : BOOLEAN]

Request(op, user, password, kind, live) ==
    [op |-> op, user |-> user, password |-> password, kind |-> kind,
     since |-> Len(history), live |-> live]

NoRequest == [op |-> "none", user |-> None, password |-> None, kind |-> "access",
              since |-> 1, live |-> FALSE]

TypeOK ==
    /\ history \in Seq(Accounts)
    /\ Len(history) > 0
    /\ owner \in Seq(Users)
    /\ id \in Seq(Sessions)
    /\ Len(id) = Len(owner)
    /\ newest \in Seq(Newest)
    /\ access \subseteq Pairs
    /\ refresh \subseteq Pairs
    /\ inactive \subseteq Pairs
    /\ expired \subseteq Pairs
    /\ delivered \subseteq Pairs
    /\ restarts \in 0..MaxRestarts
    /\ begun \in 0..MaxCalls
    /\ pc \in [Callers -> Stages]
    /\ req \in [Callers -> Requests]
    /\ pair \in [Callers -> Pairs \cup {0}]
    /\ perms \in [Callers -> Grants \cup {None}]
    /\ reply \in [Callers -> {"none", "ok", "refused", "error"}]
    /\ raced \subseteq Sessions
    /\ \A c \in Callers :
         /\ req[c].since <= Len(history)
         /\ req[c].op \in SignIns => req[c].user \in Users
         /\ req[c].op \in Presenting => pair[c] # 0

Init ==
    /\ history = <<FirstAccounts>>
    /\ owner = <<>> /\ id = <<>> /\ newest = <<>>
    /\ access = {} /\ refresh = {} /\ inactive = {} /\ expired = {} /\ delivered = {}
    /\ restarts = 0
    /\ begun = 0
    /\ pc = [c \in Callers |-> "done"]
    /\ req = [c \in Callers |-> NoRequest]
    /\ pair = [c \in Callers |-> 0]
    /\ perms = [c \in Callers |-> None]
    /\ reply = [c \in Callers |-> "none"]
    /\ raced = {}

(***************************************************************************)
(* user.Service, as the token endpoints see it.                            *)
(***************************************************************************)
Edit(after) ==
    /\ Len(history) <= MaxEdits
    /\ history' = Append(history, after)
    /\ UNCHANGED <<store, restarts, calls>>

CreateUser(after) == Created(accounts, after) /\ Edit(after)
UpdateUser(after) == Updated(accounts, after) /\ Edit(after)
DeleteUser(after) == Deleted(accounts, after) /\ Edit(after)
ChangeRole(after) == Regranted(accounts, after) /\ Edit(after)

(***************************************************************************)
(* Calls begin.  Who presents a token has been given it; kind says which   *)
(* of the two tokens of the pair it is.                                    *)
(***************************************************************************)
Begin(c, stage, what, t) ==
    /\ pc[c] = "done"
    /\ begun < MaxCalls
    /\ begun' = begun + 1
    /\ pc' = [pc EXCEPT ![c] = stage]
    /\ req' = [req EXCEPT ![c] = what]
    /\ pair' = [pair EXCEPT ![c] = t]
    /\ perms' = [perms EXCEPT ![c] = None]
    /\ reply' = [reply EXCEPT ![c] = "none"]
    /\ UNCHANGED <<history, store, restarts>>

BeginSignIn(c, op, u, p) ==
    Begin(c, "authenticate", Request(op, u, p, "access", FALSE), 0)

\* The stage a call that presents a token starts in.
FirstStage(op) ==
    CASE op \in {"rpc", "logout"} -> "introspect"
      [] op = "refresh" -> "refresh"
      [] op = "close" -> "close"
      [] OTHER -> "revoke"

Known(kind, t) ==
    \/ kind = "access" /\ t \in access
    \/ kind = "refresh" /\ t \in refresh

\* Nobody is let in by an expired token, but it can be revoked.
Live(op, kind, t) == Known(kind, t) /\ (kind = "access" /\ op # "revoke" => t \notin expired)

\* The form of a refresh may have the name of a user.
BeginWithToken(c, op, kind, u, t) ==
    /\ t \in delivered
    /\ op \in {"rpc", "logout"} => kind = "access"
    /\ op \in {"refresh", "close"} => kind = "refresh"
    /\ op # "refresh" => u = None
    /\ Begin(c, FirstStage(op), Request(op, u, None, kind, Live(op, kind, t)), t)

GoTo(c, stage) == pc' = [pc EXCEPT ![c] = stage] /\ UNCHANGED reply

Reply(c, r) ==
    /\ pc' = [pc EXCEPT ![c] = "done"]
    /\ reply' = [reply EXCEPT ![c] = r]

\* What a step that only reads leaves alone.
Reading == UNCHANGED <<history, store, restarts, begun, req, pair, perms>>

(***************************************************************************)
(* TokenEndpoint, password grant.  fosite asks the store to authenticate,  *)
(* then the endpoint reads the account that the form names, again, and has *)
(* the tokens issued.                                                      *)
(***************************************************************************)
\* Faulty variant: only the password counts.
AuthenticatesAnyway(account, password) == account # None /\ account.password = password

Authenticates(account, password) ==
    account # None /\ account.enabled /\ account.password = password

Authenticate(c) ==
    /\ pc[c] = "authenticate"
    /\ IF Authenticates(accounts[req[c].user], req[c].password)
       THEN GoTo(c, "recheck")
       ELSE Reply(c, "refused")
    /\ Reading

Recheck(c) ==
    /\ pc[c] = "recheck"
    /\ LET account == accounts[req[c].user] IN
       IF account # None /\ account.enabled
       THEN GoTo(c, IF req[c].op = "refresh" THEN "rotate" ELSE "issue")
       ELSE Reply(c, "refused")
    /\ Reading

\* A pair of session s for the user the form names.
NewPair(c, s) ==
    /\ Len(owner) < MaxPairs
    /\ owner' = Append(owner, req[c].user)
    /\ id' = Append(id, s)
    /\ pair' = [pair EXCEPT ![c] = Len(owner')]
    /\ access' = access \cup {Len(owner')}

\* The client of a token request gets the tokens now, Login only at its end.
Issue(c) ==
    /\ pc[c] = "issue"
    /\ NewPair(c, Len(newest) + 1)
    /\ newest' = Append(newest, [access |-> Len(owner'), refresh |-> Len(owner')])
    /\ refresh' = refresh \cup {Len(owner')}
    /\ IF req[c].op = "login"
       THEN GoTo(c, "reread") /\ UNCHANGED delivered
       ELSE Reply(c, "ok") /\ delivered' = delivered \cup {Len(owner')}
    /\ UNCHANGED <<history, inactive, expired, restarts, begun, req, perms>>

(***************************************************************************)
(* Login after its token request: the account once more, for the reply,    *)
(* then its permissions.  A failure leaves the tokens in the store.        *)
(***************************************************************************)
\* Faulty variant: an account disabled meanwhile gets an error too.
RereadEnabled(c) ==
    /\ pc[c] = "reread"
    /\ LET account == accounts[req[c].user] IN
       IF account = None \/ (account # None /\ ~account.enabled)
       THEN Reply(c, "error")
       ELSE GoTo(c, "permissions")
    /\ Reading

Reread(c) ==
    /\ pc[c] = "reread"
    /\ IF accounts[req[c].user] = None THEN Reply(c, "error") ELSE GoTo(c, "permissions")
    /\ Reading

(***************************************************************************)
(* TokenEndpoint, refresh grant.  fosite looks the token up; the endpoint  *)
(* reads the account that the form names, the session having no user name; *)
(* fosite looks again, and then takes the old tokens of the session out of *)
(* the store, one after the other, and puts new ones in.                   *)
(***************************************************************************)
Session(c) == id[pair[c]]

\* A token that was revoked before makes fosite revoke what the session has left.
Refresh(c) ==
    /\ pc[c] = "refresh"
    /\ CASE pair[c] \in refresh /\ req[c].user # None -> GoTo(c, "recheck")
         [] pair[c] \in inactive -> GoTo(c, "revokeRefresh")
         [] OTHER -> Reply(c, "refused")
    /\ Reading

\* Faulty variant: the old tokens are left to expire.
RotateNothing(c) ==
    /\ pc[c] = "rotate"
    /\ IF pair[c] \in refresh THEN GoTo(c, "newAccess") ELSE Reply(c, "refused")
    /\ Reading

Rotate(c) ==
    /\ pc[c] = "rotate"
    /\ IF pair[c] \in refresh THEN GoTo(c, "rotateAccess") ELSE Reply(c, "refused")
    /\ Reading

\* What a step of a call leaves alone that takes tokens out.
Removing == UNCHANGED <<history, issued, newest, expired, delivered,
                        restarts, begun, req, pair, perms>>

RotateAccess(c) ==
    /\ pc[c] = "rotateAccess"
    /\ access' = access \ {newest[Session(c)].access}
    /\ GoTo(c, "rotateRefresh")
    /\ UNCHANGED <<refresh, inactive>>
    /\ Removing

\* A token that was used again has gone from the store.
RotateRefresh(c) ==
    /\ pc[c] = "rotateRefresh"
    /\ LET t == newest[Session(c)].refresh IN
       IF t \in refresh \cup inactive
       THEN /\ refresh' = refresh \ {t}
            /\ inactive' = inactive \cup {t}
            /\ GoTo(c, "newAccess")
       ELSE UNCHANGED <<refresh, inactive>> /\ Reply(c, "refused")
    /\ UNCHANGED access
    /\ Removing

NewAccess(c) ==
    /\ pc[c] = "newAccess"
    /\ NewPair(c, Session(c))
    /\ newest' = [newest EXCEPT ![Session(c)].access = Len(owner')]
    /\ GoTo(c, "newRefresh")
    /\ UNCHANGED <<history, refresh, inactive, expired, delivered, restarts, begun, req, perms>>

NewRefresh(c) ==
    /\ pc[c] = "newRefresh"
    /\ newest' = [newest EXCEPT ![Session(c)].refresh = pair[c]]
    /\ refresh' = refresh \cup {pair[c]}
    /\ delivered' = delivered \cup {pair[c]}
    /\ Reply(c, "ok")
    /\ UNCHANGED <<history, issued, access, inactive, expired, restarts, begun, req, pair, perms>>

(***************************************************************************)
(* AuthFunc: the token, the account of its subject, and a snapshot of the  *)
(* permissions that the handler then goes by.                              *)
(***************************************************************************)
\* Faulty variant: the signature and the expiry date are all that counts.
IntrospectsAnyway(t) == t \notin expired

Introspects(t) == t \in access \ expired

Introspect(c) ==
    /\ pc[c] = "introspect"
    /\ IF Introspects(pair[c]) THEN GoTo(c, "account") ELSE Reply(c, "refused")
    /\ Reading

GetAccount(c) ==
    /\ pc[c] = "account"
    /\ IF accounts[owner[pair[c]]] = None
       THEN Reply(c, "refused")
       ELSE GoTo(c, "permissions")
    /\ Reading

\* Faulty variant: the roles rather than what they grant.
GrantedRoles(u) == accounts[u]

\* Faulty variant: permissions as they were when the tokens were issued.
GrantedAtFirst(u) == IF history[1][u] = None THEN None ELSE history[1][u].grants

Granted(u) == IF accounts[u] = None THEN None ELSE accounts[u].grants

\* The last lock taken by AuthFunc, and by Login, whose client gets the tokens.
GetPermissions(c) ==
    /\ pc[c] = "permissions"
    /\ perms' = [perms EXCEPT ![c] = Granted(owner[pair[c]])]
    /\ IF req[c].op = "logout" THEN GoTo(c, "revoke") ELSE Reply(c, "ok")
    /\ delivered' = IF req[c].op = "login" THEN delivered \cup {pair[c]} ELSE delivered
    /\ UNCHANGED <<history, issued, newest, access, refresh, inactive, expired, restarts, begun, req, pair>>

(***************************************************************************)
(* RevokeEndpoint.  A token the store knows makes fosite revoke the newest *)
(* tokens of its session, one after the other; an unknown one is fine too. *)
(***************************************************************************)
\* Faulty variant: the revocation of a refresh token leaves the access token.
RevokeOne(c) ==
    /\ pc[c] = "revoke"
    /\ LET alone == req[c].kind = "refresh" /\ pair[c] \in refresh
           taken == IF alone THEN {pair[c]} ELSE {}
       IN  /\ refresh' = refresh \ taken
           /\ inactive' = inactive \cup taken
           /\ IF Known(req[c].kind, pair[c]) /\ ~alone
              THEN GoTo(c, "revokeRefresh")
              ELSE Reply(c, "ok")
    /\ UNCHANGED access
    /\ Removing

Revoke(c) ==
    /\ pc[c] = "revoke"
    /\ IF Known(req[c].kind, pair[c]) THEN GoTo(c, "revokeRefresh") ELSE Reply(c, "ok")
    /\ Reading

\* A refresh that came with a revoked token takes that one out first.
RevokeRefresh(c) ==
    /\ pc[c] = "revokeRefresh"
    /\ LET t == newest[Session(c)].refresh
           gone == IF req[c].op \in Revocations THEN {} ELSE {pair[c]}
       IN  /\ refresh' = refresh \ {t}
           /\ inactive' = (inactive \ gone) \cup ({t} \cap refresh)
    /\ GoTo(c, "revokeAccess")
    /\ UNCHANGED access
    /\ Removing

RevokeAccess(c) ==
    /\ pc[c] = "revokeAccess"
    /\ access' = access \ {newest[Session(c)].access}
    /\ Reply(c, IF req[c].op \in Revocations THEN "ok" ELSE "refused")
    /\ UNCHANGED <<refresh, inactive>>
    /\ Removing

(***************************************************************************)
(* The Go client's Close: with a fresh access token it posts its refresh   *)
(* token to a path no handler is registered for, which is no error to it;  *)
(* otherwise its token source asks for a refresh first.                    *)
(***************************************************************************)
Close(c) ==
    /\ pc[c] = "close"
    /\ IF pair[c] \in expired THEN GoTo(c, "refresh") ELSE Reply(c, "ok")
    /\ Reading

\* Time passes; only of a token in the store does it make a difference.
Expire(t) ==
    /\ t \in access \ expired
    /\ expired' = expired \cup {t}
    /\ UNCHANGED <<history, issued, newest, access, refresh, inactive, delivered, restarts, calls>>

\* New keys and an empty store: no old token counts, no call gets its answer.
Restart ==
    /\ restarts < MaxRestarts
    /\ restarts' = restarts + 1
    /\ access' = {} /\ refresh' = {} /\ inactive' = {}
    /\ pc' = [c \in Callers |-> "done"]
    /\ req' = [c \in Callers |-> NoRequest]
    /\ pair' = [c \in Callers |-> 0]
    /\ perms' = [c \in Callers |-> None]
    /\ reply' = [c \in Callers |-> "none"]
    /\ UNCHANGED <<history, issued, newest, expired, delivered, begun>>

Step ==
    \/ \E after \in Accounts :
         CreateUser(after) \/ UpdateUser(after) \/ DeleteUser(after) \/ ChangeRole(after)
    \/ \E c \in Callers, op \in SignIns, u \in Users, p \in Passwords : BeginSignIn(c, op, u, p)
    \/ \E c \in Callers, op \in Presenting, kind \in {"access", "refresh"},
          u \in Users \cup {None}, t \in Pairs : BeginWithToken(c, op, kind, u, t)
    \/ \E c \in Callers :
         \/ Authenticate(c)
         \/ Recheck(c)
         \/ Issue(c)
         \/ Reread(c)
         \/ Refresh(c)
         \/ Rotate(c)
         \/ RotateAccess(c)
         \/ RotateRefresh(c)
         \/ NewAccess(c)
         \/ NewRefresh(c)
         \/ Introspect(c)
         \/ GetAccount(c)
         \/ GetPermissions(c)
         \/ Revoke(c)
         \/ RevokeRefresh(c)
         \/ RevokeAccess(c)
         \/ Close(c)
    \/ \E t \in Pairs : Expire(t)
    \/ Restart

(***************************************************************************)
(* raced remembers which sessions had a refresh past its second look at    *)
(* the token while another such refresh or a revocation was under way.  No *)
(* step depends on it.                                                     *)
(***************************************************************************)
Rotating(c) == pc[c] \in Rotation
Revoking(c) ==
    \/ pc[c] # "done" /\ req[c].op \in Revocations
    \/ pc[c] \in {"revokeRefresh", "revokeAccess"}
Race(s) ==
    \E c, d \in Callers :
        /\ c # d
        /\ Rotating(c) /\ Session(c) = s
        /\ Rotating(d) \/ Revoking(d)
        /\ Session(d) = s
Races == {s \in Sessions : Race(s)}

Next == Step /\ raced' = raced \cup Races'

Spec == Init /\ [][Next]_vars

(***************************************************************************)
(* Properties.  During(c) are the instants of c's call, from its beginning *)
(* until now; they are looked at when the call has just been answered and  *)
(* go on to hold.                                                          *)
(***************************************************************************)
During(c) == req[c].since..Len(history)
Answered(c, ops, r) == pc[c] = "done" /\ req[c].op \in ops /\ reply[c] = r

\* Whatever changes while a token request or a Login runs, its tokens are for the
\* user it names, whose account was enabled at one instant of it; and had the password
\* given, at the same instant, unless the request is a refresh.
IssuedToEnabled ==
    \A c \in Callers : Answered(c, SignIns \cup {"refresh"}, "ok") =>
        /\ owner[pair[c]] = req[c].user
        /\ \E i \in During(c) : LET a == history[i][req[c].user] IN
             /\ a # None /\ a.enabled
             /\ req[c].op \in SignIns => a.password = req[c].password

\* The permissions a call goes by, or a Login reports, are those its account
\* had at one instant of the call (none if it had been deleted); however old
\* the token is, they are never those of an earlier time or of another name.
PermissionsOfTheCall ==
    \A c \in Callers : Answered(c, {"rpc", "logout", "login"}, "ok") =>
        LET u == owner[pair[c]] IN
        /\ \E i \in During(c) : history[i][u] # None
        /\ \E i \in During(c) :
             perms[c] = IF history[i][u] = None THEN None ELSE history[i][u].grants

\* A call is only let in, and a refresh only served, by a token that was in the store
\* and not expired when the call began: no logout, revocation, refresh with the same
\* token, expiry or restart before it is missed.
LetInByLiveToken ==
    \A c \in Callers : Answered(c, {"rpc", "logout", "refresh"}, "ok") => req[c].live

\* When a revocation is answered, the pair presented is dead, and every pair of its
\* session if the token presented was in the store when the revocation began; unless
\* another revocation of the session is between its two steps.  They stay dead: a
\* refresh on its way does not bring the session back, except one whose second look
\* at the token came before the revocation (see raced).
RevokedIsDead ==
    \A c \in Callers : Answered(c, Revocations, "ok") =>
        \/ Session(c) \in raced
        \/ \E d \in Callers : pc[d] = "revokeAccess" /\ Session(d) = Session(c)
        \/ \A t \in access \cup refresh :
             id[t] = Session(c) => t # pair[c] /\ ~req[c].live

\* However often a session is refreshed, it has one pair: nobody can go on with the
\* tokens from before, unless refreshes of it have met.
OneLivePair ==
    \A t, u \in Pairs :
        /\ id[t] = id[u] /\ id[t] \notin raced
        /\ {t, u} \subseteq access \/ {t, u} \subseteq refresh
        => t = u

\* A sign-in that fails has left no tokens behind, unless it was a Login whose
\* account was deleted while it ran.
FailedSignInLeavesNothing ==
    \A c \in Callers : req[c].op \in SignIns /\ reply[c] \in {"refused", "error"} =>
        pair[c] = 0 \/ \E i \in During(c) : history[i][req[c].user] = None

\* What the OAuth server is set up for: a live refresh token of an enabled
\* account is good for new tokens.  Without the name of a user it never is.
RefreshServes ==
    \A c \in Callers :
        ~ /\ Answered(c, {"refresh"}, "refused")
          /\ req[c].user = None
          /\ req[c].live
          /\ pair[c] \in refresh
          /\ \A i \in During(c) : LET a == history[i][owner[pair[c]]]
                                  IN a # None /\ a.enabled

\* What the Go client says of Close: it revokes the client's tokens.
ClosedIsRevoked ==
    \A c \in Callers : Answered(c, {"close"}, "ok") => pair[c] \notin refresh
==================================================================================
