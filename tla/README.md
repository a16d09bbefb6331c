# A verification development for ceph-api

ceph-api is a Go server that puts a gRPC API, and an HTTP API made from it,
in front of a Ceph cluster.  This directory models it in TLA+, checks the
models with TLC on small instances, and proves with TLAPS, for every value of
the constants, the theorems that matter most.

- [What the system is made of](#what-the-system-is-made-of)
- [The modules](#the-modules)
- [How state and actions correspond to the code](#how-state-and-actions-correspond-to-the-code)
- [The runs](#the-runs)
- [Fairness](#fairness)
- [The proofs](#the-proofs)
- [What the checks found](#what-the-checks-found)
- [What is not modelled](#what-is-not-modelled)
- [Plan](#plan)
- [Running it](#running-it)

## What the system is made of

Source paths are relative to `src/`.

| component | state | operations | what makes it correct |
| --- | --- | --- | --- |
| **Access database** `pkg/user` | the users and custom roles of one JSON document, cached under a read/write lock; the document itself under one config-key of the monitor | create, update, delete user; change password; create, update, delete, clone role; reads; load at startup | the cache is what the monitor stores; a refused, failed or interrupted request changes nothing or everything; documents stay consistent; requests end |
| **Users API** `pkg/api/users_api_handlers.go` | none | one handler per operation above: permission check, then the service | a role from a request is never built-in; the check precedes the call |
| **Application start** `pkg/app` | the objects it wires | connect, merge parameters, load users, create or update the administrator, serve | every failure ends the start; a restart finds what an earlier start did |
| **Config index** `pkg/cephconfig` | the merged list of parameters | merge at startup, search | the list is exactly the cluster's; a search finds what its query says |
| **OAuth server** `pkg/auth` | signing key, access and refresh tokens in memory | password and refresh grants, revoke, introspect, login, logout | a token is issued to an enabled account with the right password; logout ends it; a refresh gives new tokens for the old ones, and for no others |
| **Request chain** `pkg/api/grpc_server.go`, interceptors | the context of a call, a logger | authenticate, snapshot permissions, convert errors, log | each interceptor sees what the one before it has set |
| **Lifecycle** `pkg/util/serve.go`, `pkg/api/api_server.go`, `cmd/ceph-api` | goroutines, listeners, connections | start, signal, failure, shutdown, drain | the process ends, in order, with nothing cut off |
| **HTTP gateway** `pkg/api/grpc_http_gateway.go` | client connections to the gRPC server | forward, over a WebSocket too, or serve an OAuth endpoint | as part of the lifecycle |
| **Cluster, crush rule, status APIs** `pkg/api` | none | one or a few monitor commands each | a failing command is reported |
| **RADOS connection** `pkg/rados` | one connection | monitor and manager commands with a timeout | a command ends with a reply, an error or a timeout |
| **Go client** `go_api_client.go` | a token source, a gRPC connection | connect, call, close | tokens are renewed, and revoked on close |
| configuration, logging, tracing, metrics, generated code | — | wiring | — |

How they interact: `main` hands a context to `app.Start`, which builds the
services in order and then runs the server.  A gRPC call passes the
interceptors (authentication reads the token store and twice the access
database) and reaches a handler, which checks the permissions in its context and
calls a service.  The services talk to the monitor through one RADOS
connection.  An HTTP request is answered by an OAuth endpoint or becomes a call
to the gRPC server of the same process.  At a signal the server is drained and
the RADOS connection closed.

Which behaviours are hard:

- *Partial failure.*  A change goes to the cache first and to the monitor
  second.  The command can fail, be applied with its reply lost, or be applied
  after it timed out; the rollback is another command that can fail.
- *Stale state.*  The document is read once, at startup.  A second replica
  (`replicaCount` in the chart) or the Ceph dashboard writes the same key.
- *Crashes* between any two steps, with the document outside the process.
- *Long sequences* of legal calls: a role is deleted, cloned or renamed under the
  users that have it.
- *Endings.*  Shutdown waits for requests, some of which wait for the server
  that is being shut down; goroutines end because others have closed a listener; a
  WebSocket is a request that the shutdown does not wait for.
- *Authority that is read and then used.*  A sign-in reads the account three times, a
  call reads it twice and goes by a snapshot, while accounts and tokens change; a
  refresh looks at its token twice and then replaces it in four steps.
- *Shared state without a lock*: the default logger, the list of parameters.
- *Boundaries* of a merge over two sorted lists.

`PROJECT.json` lists every hazard with its line and the properties that cover
it.

## The modules

| module | models |
| --- | --- |
| `AccessDoc` | the document, the requests, when the service accepts one and what it then stores; no variables |
| `AccessRegistry` | the abstract specification: what a caller is promised, by contracts that do not use the operators of the service |
| `AccessDB` | the service: caches, lock, store, rollback, startup, crashes, any number of replicas |
| `AccessDBHistory` | `AccessDB` with a history variable for the claim about dirty reads |
| `AccessDBProofs`, `AccessDBHistoryProofs` | their theorems |
| `AccountChanges` | how one request can change the accounts that `pkg/auth` reads; no variables |
| `AccessAccounts`, `AccessAccountsProofs` | those accounts as `AccessDB` has them, and that they change in these ways only |
| `ConfigMerge`, `ConfigMergeProofs` | `NewConfig` and `mergeParams` |
| `ConfigSearch`, `ConfigSearchProofs` | `Config.Search` on what `NewConfig` returned |
| `Lifecycle`, `LifecycleProofs` | how the server starts, serves and ends, `app.Start` included |
| `Sessions`, `SessionsProofs` | the OAuth server and the authentication of a call: tokens against changing accounts, restarts, the Go client's `Close` |
| `Requests`, `RequestsProofs` | a call from the interceptors to its handler: permissions, commands, errors, log; every method of the API |
| `MCAccessDB`, `MCReplicas`, `MCHistory`, `MCConfigMerge`, `MCLifecycle`, `MCSessions`, `MCRequests` | small instances for TLC |

`AccessDB` extends `AccessDoc` and instantiates `AccessRegistry` with a
refinement mapping; `AccessDBHistory` extends `AccessDB`, `ConfigSearch`
extends `ConfigMerge`.  `Sessions` extends `AccountChanges`, which is all it knows of
the access database; `AccessAccounts` instantiates the same module over the documents
of `AccessDB`, so that what `Sessions` takes for granted is a property of the
database.  `Requests` takes over that an operation of `user.Service` has one effect
at most (`AccessRegistry`) and that the caller has a token that holds (`Sessions`).
Some modules hold an operator whose comment begins with "Faulty variant": a plausible
bug of the operator after it.  No action uses one.  Put in place of that operator it makes TLC
report the property that `PROJECT.json` names with it under "mutants", which shows
that the property can fail.

## How state and actions correspond to the code

### AccessDB

| model | code |
| --- | --- |
| `db` | the value of config-key `mgr/dashboard/accessdb_v2` |
| `cache[r]` | `Service.users`, `Service.roles` of replica `r` |
| `phase[r]` | the write lock and where its holder is: `idle` lock free, `store` command sent, `stored` applied, `rollback` failed |
| `op[r]`, `result[r]` | the request in its handler, the error it returns |
| `serving[r]` | `app.Start` has reached the server |
| `late` | commands whose timeout has passed and which the monitor may yet apply |
| `CreateUser` ... `CloneRole` | the handlers of `service.go` up to the store; the early returns are the guards in `AccessDoc` |
| `StoreOk`, `StoreLost`, `StoreAckLost`, `StoreTimeout` | the ways `storeToDB` returns |
| `RollbackOk`, `RollbackFail` | `updateFromDB` after an error, with the maps emptied first |
| `Load`, `BootCreateAdmin`, `BootUpdateAdmin`, `BootRefused` | `user.New` and the creation of the administrator |

Go maps are total functions with a value for "missing".  A hash is the password it
is of: comparing with the right password is the only thing the code does with one.
The fields of a user that no rule looks at are one value, `profile`.  A refused
request changes nothing and needs no action.  Several readers may hold the lock at
once; a reader sees the cache of an `idle` replica.

### ConfigMerge

`index`, `cluster`, `i`, `j`, `result` are the variables of the code, with
positions that count from 1; `pc` is the place in `NewConfig`.  One action per
branch of the loops and per failing command.  Names are numbers, a description is
where it comes from.  `sort.Strings` is any order of the listed names that is
ascending.  That the embedded list is strictly ascending is the assumption
`ListsAssumption`: a test of the repository (`config_test.go:274`) checks that it does not
descend, and none of its 2,297 names comes twice.  The code takes a fetched
parameter's name from the answer to `config help`; `Fetched` rests on the monitor
answering about the name it was asked for, which it has listed itself.

### ConfigSearch

Any number of searches over the one list of the `Config`, one after the other in
the model because each only reads the list: `Matching` are the positions that pass
the filters, `Found` those the loop picks, with its early end, and `Search` puts
their parameters in order.  `sort.Slice` is not stable, so
parameters of equal keys come in any order.  What a filter compares is a function
of the parameter's name; a wildcard or a text is the set of names it matches.

### Lifecycle

| model | code |
| --- | --- |
| `Boot`, `BootFails` | the stages of `app.Start` up to the server, and the error return of each, with the deferred `radosSvc.Close` |
| `ctx` | the context `main` cancels at a signal |
| `mux`, `http`, `grpc` | the goroutines `start` runs |
| `starter` | the stage of `app.Start`; then `server.Start` waiting for the worker, then for the cleanup; then the deferred `radosSvc.Close` |
| `cleaner` | the goroutine that runs `stop`: `http` in `Shutdown`, `grpc` in `GracefulStop` |
| `root` | with one port, whether the listener is open |
| `conn`, `handling` | each client's connection; the handlers of the gRPC server that run |
| `Forward` | a request that the gateway turns into a call to the gRPC server |
| `Upgrade`, `Relay`, `HangUp` | the same over a WebSocket: `wsproxy` takes the connection over (`grpc_http_gateway.go:76`), calls, or ends without a call |

`cmux`, `net/http` and `grpc` are libraries.  Their part is modelled by what
`api_server.go` relies on: closing a listener made by cmux closes the
listener of both; when cmux stops, both servers' `Accept` fails; `Shutdown`
waits for `Serve` and for the requests, but not for connections that have become
WebSockets; `GracefulStop` waits for the accept loop and the handlers, also those of
calls that the gateway's connections still bring while it waits; a server that begins
to serve after it was stopped refuses.

### Sessions

| model | code |
| --- | --- |
| `history` | the access database as each change left it; the last is what `GetUser` and `GetPermissions` read |
| `CreateUser`, `UpdateUser`, `DeleteUser`, `ChangeRole` | the operations of `user.Service`, by what they do to accounts: one of them changes, or those that share a role get other grants |
| `owner`, `id` | the pairs of access and refresh token ever issued: the subject of each, and its request id, which all pairs of a session share |
| `access`, `refresh`, `inactive` | what fosite's memory store keeps: access tokens, active refresh tokens, and revoked ones |
| `newest` | the store's index from a request id to the last access and the last refresh token made for it |
| `expired`, `delivered` | access tokens whose time is over; pairs a client has been sent |
| `Authenticate`, `Recheck`, `Issue` | `fositeStore.Authenticate`, then the second look and the issue in `TokenEndpoint` |
| `Reread` | the third look, in `Login` |
| `Refresh`, `Recheck`, `Rotate` | `TokenEndpoint` for a refresh grant: fosite's first look at the token, the look at the account the form names, fosite's second look |
| `RotateAccess`, `RotateRefresh`, `NewAccess`, `NewRefresh` | how fosite serves it: four calls of the store, one after the other |
| `Introspect`, `GetAccount`, `GetPermissions` | `AuthFunc`, one step for each lock it takes |
| `Revoke`, `RevokeRefresh`, `RevokeAccess` | `RevokeEndpoint` and `Logout`: fosite looks the token up, revokes the refresh token of the session, then the access token; the last two also when a refresh token is used again |
| `Close` | the Go client's `Close`, with its token source |
| `Restart` | a new process: `NewServer` makes new keys and an empty store; the accounts stay |

Each of these is one step, and accounts, expiry, a restart and other callers come
between any two.  A token is not a string but its session and its kind: a signature
is good if the key has not changed, which is when the store has the session.
`live` records, for the properties only, whether the token presented was good when
its call began, and `raced` the sessions of which a refresh, past its second look at
the token, has met another one or a revocation.

A refresh is served only if its form has the name of an enabled account: the endpoint
takes the name from a session it has just made without one, and then from the form.
The new tokens are for that account.

### Requests

| model | code |
| --- | --- |
| `history`, `author` | accounts, custom roles, entities, rules and the status as each change left them, and which call made it |
| `AllRequests` | the methods of the API.  A request says which permissions its handler asks for, what its command does, what comes of it if the thing is there or is not, what it is about and what to store |
| `shared` | the context of zerolog's default logger, of which the last user name counts |
| `GetAccount`, `GetPermissions` | `AuthFunc`, one step for each lock |
| `name`, `perms` | user name and permissions in the call's context |
| `line` | the user name in the call's access log line |
| `Handle` | the call's own logger, the access log and the handler's check of the permissions |
| `Write`, `Read`, `Search`, `Export` | the handler's command, or its operation of `user.Service` |
| `Fail`, `LoseReply`, `ExportFails` | a command that fails, or whose reply is lost |
| `Panic`, `Recover` | a nil pointer where a reply lacks something: in the dumps of monitors, placement groups and OSDs, and in `GetRule`; `unaryServerRecover` |
| `Converted` | `convertApiError`, without the row of `ErrInvalidConfig`, which no handler returns |

Methods that behave alike are one row of the table: a listing is looked at for
one name, which makes it a read that finds nothing or something.  A command is one
atomic change of the cluster, whenever the monitors make it.

## The runs

| run | module, config | instance | distinct states | shows |
| --- | --- | --- | --- | --- |
| access_db | `MCAccessDB` | one replica; users `admin`, `user` and the empty name; one built-in and one custom role; a password, none, and one bcrypt refuses; lost stores, lost replies, crashes | 132,399 | `TypeOK`, `DocsWellFormed`, `CacheIsStored`; the service implements `AccessRegistry` (`ImplementsRegistry`); `AccountsChangeOnce`; `OnlyDeletedUsersGo`, which fails once loads can fail (rollback_fails); `EveryRequestEnds` |
| access_replicas | `MCReplicas` | two replicas with every fault, late stores and failing rollbacks too; the administrator's update refused once he was deleted | 288,831 | `DocsWellFormed` with several writers |
| dirty_read | `MCHistory` | the same with the history of exchanges | 882,872 | `NoDirtyRead` |
| config_merge | `MCConfigMerge` | every strictly ascending list over four names, every list of up to four names; eleven searches that use each filter, each order and several of them | 213,560 | `MergeIsExact`, `Returns`; `SearchIsExact`, `SearchLeavesParams` |
| lifecycle | `MCLifecycle` | a failure at each stage of the start, three clients, both port layouts, broken and taken ports, WebSockets | 48,111 | `RadosOpenWhileHandling`, `HttpBeforeGrpc`, `EndNeverStalls`, `SignalEnds`, `FailureEnds` |
| sessions | `MCSessions` | two callers, three calls, three pairs of tokens, one account that is disabled, gets another password or other grants, is deleted and created again, two such events, one of which may be a restart | 1,399,553 | `IssuedToEnabled`, `PermissionsOfTheCall`, `LetInByLiveToken`, `RevokedIsDead`, `OneLivePair`, `FailedSignInLeavesNothing` |
| requests | `MCRequests` | two calls to any methods, by an administrator and a member of a custom role; two roles, two entities, a rule, the status, some there and some not | 636,444 | `Authorised`, `OwnPasswordOnly`, `RefusalChangesNothing`, `AcknowledgedIsDone`, `AnswersAreTrue`, `ExportIsComplete`, `EndsAlone` |
| rollback_fails | `MCAccessDB`, `MCRollbackFails.cfg` | one replica, lost stores, failing rollbacks | — | violates `OnlyDeletedUsersGo` |
| clone_role | `MCAccessDB`, `MCCloneRole.cfg` | one replica, no faults | — | violates `SystemRolesCannotChange` |
| refresh_grant | `MCSessions`, `MCRefreshGrant.cfg` | as sessions | — | violates `RefreshServes` |
| client_close | `MCSessions`, `MCClientClose.cfg` | as sessions | — | violates `ClosedIsRevoked` |
| caller_id | `MCRequests`, `MCCallerId.cfg` | as requests | — | violates `AccessLogNamesCaller` |

Why the bounds are enough.  A request touches one user or one role, and the
conditions relate at most one user with its roles; two of each are what
distinguishes "this one" from "another one".  Stores conflict between two
replicas already, and one late store can meet every phase of both.  In the merge,
what happens at a position depends on the two names there, on whether the
listed name came before, and on whether a list has ended; four names give every
order of those.  In the lifecycle a client is in one of eight places and clients
meet only in "is there any"; three put one in each of the places the shutdown waits for.
In `Sessions` a sign-in, and two uses of its tokens that meet, a refresh, a
revocation or a call, make three calls; two callers are what one call can meet, and
three pairs a sign-in with two refreshes, of the session or of another.  The inductive
invariant of the proofs has been checked on the same instance, and on 4.3 million states of one
with three callers and five calls.  Two changes (`FewEvents`, a constraint of TLC's) take
an account away and back, or disable and enable it, within one call; with one name,
whose account another name's token reads is left to the theorems.  In `Requests`
the world is what one other call makes of it: two calls are a reader and the writer
in its way, or the caller and whoever takes its permissions away.
`MaxLate` bounds the late stores; `MaxName` and `MaxListed` bound the lists;
`MaxCalls`, `MaxPairs`, `MaxEdits`, `MaxRestarts` bound what their names say.
Nothing else is bounded.  The instances of sessions and requests are symmetric in
the callers, of which no property singles one out, and have no liveness property.  The theorems below have none of these bounds.

`CHECK_DEADLOCK FALSE` stands where the system does end: `NewConfig` returns
once, the process of `Lifecycle` exits, the calls of `Sessions` and `Requests` are
answered and nobody has to make another.

## Fairness

- `AccessDB`: weak fairness of `Progress(r)`, the steps of a request that
  has begun.  The handler is straight-line code around RADOS commands, and
  `rados_mon_op_timeout` (10 s by default) ends every command.  With
  `radosTimeout: 0` the option means no timeout and this does not hold.  No
  request has to come, nothing has to fail, and a late store need not be applied.
- `ConfigMerge`: weak fairness of `Next`, for the same reason.
- `Lifecycle`: weak fairness of each goroutine of the process, of
  handlers (their commands time out) and of HTTP replies.  The starter's fairness
  includes the stages of `app.Start`: each is RADOS commands, which time out, and
  straight-line code.  One assumption has no
  counterpart in the code: a client that has connected to the shared port sends
  its first bytes or leaves (`Sniffed`).  cmux has a read timeout, which is not set,
  and until such a client leaves, the process does not end.  Failures and signals
  are never forced, and nothing is assumed of a WebSocket: it may stay silent for ever.
- `Sessions` and `Requests` claim safety only and assume none.  That a request on
  its way through `user.Service` ends is `EveryRequestEnds` of `AccessDB`.

## The proofs

Every theorem rests on the named assumptions about constants (`NamesAssumption`,
`PermissionsAssumption`, `MissingAssumption`, `InitialAssumption`,
`DBAssumption`, `ListsAssumption`, `NoParamsAssumption`, `LifecycleAssumption`,
`SessionsAssumption`, `RequestsAssumption`, `SearchAssumption`, `AccountsAssumption`),
which TLC evaluates on every run of a module that has them.  Five state a further
hypothesis: four that there is one replica and its rollbacks get through (`Alone`), one
that nobody clones onto a built-in role.

**AccessDBProofs**
- `TypeCorrect`, `AlwaysWellFormed`: types, and the consistency of every document,
  for any number of replicas and every fault.  The argument: each `...Doc`
  operator keeps a document well formed under the guard of its request (one lemma
  per operation), and a document only ever moves between a cache, the monitor and
  `late`, or is emptied.  `WellFormed` has to be claimed of all three
  places at once to be inductive.
- `AloneCacheIsStored`, `AloneImplementsRegistry`: under the hypothesis `Alone` —
  one replica, no late store, no failing load — the cache is what the monitor
  stores and the service implements `AccessRegistry`.  The invariant is `Coherent`:
  what each phase says about cache and document (equal when idle and when
  applied; the document as before the request while the store is under way).
  Without it a step "the monitor applies the command" could not be shown to
  meet the contract, because the contract speaks of the document the
  request was checked against.  The refinement is initial state to initial state,
  and every step to a step or a stutter, one lemma per operation.
- `AloneOnlyDeletedGo`, `OnlyClonesChangeBuiltIns`: the two properties that runs find
  violated, with the hypothesis under which they hold.  They show that the runs have
  found the whole cause: without failing loads no user of a lone replica goes but by
  its own deletion (of the requests only `DeleteUser` takes anybody away, by
  `OnlyDeleteTakesAway`), and without a clone onto a built-in name no built-in role
  changes, with any replicas and any faults (`BuiltInsAlone` says it of cache, monitor
  and late stores at once).

**AccessAccountsProofs**: `AloneAccountsChangeOnce`, that a lone replica changes the
accounts as `Sessions` lets them change.  It goes through the abstract specification:
a step of the replica is a step of `AccessRegistry` or none (`RegistryStep`), and what
a contract of the registry allows changes one account, or the grants of several
(`ContractChangesAccounts`).  As readers find the stored document
(`AloneCacheIsStored`), the theorems about `Sessions`, which hold for any first
accounts and any such changes, hold over this database.

**AccessDBHistoryProofs**: `NeverDirtyRead` for any replicas and faults, with the
invariant `Faithful`: a cache is the document last exchanged, or empty, or the
change under way.

**ConfigMergeProofs**: `MergeTypeCorrect` and `MergeAlwaysExact`, for lists of any
length.  `MergeIsExact` speaks only of the end; the invariant of the loops,
`MergeInv`, says that the result so far is as expected, that a name passed in the
embedded list lies below every listed name to come *or is the name just merged,
listed again*, and that a name to come there lies above every listed name
merged.  The exception for a repeated name is what makes it inductive without
assuming that the cluster lists a name once.  `EveryStepLeavesLess` and `MergeGoesOn`
are the two halves of `Returns` that need no fairness: a number that falls with every
step, and a step that is possible until the end.  For the second, `CanBeSorted` shows that
what the cluster lists can be put in order, by induction on its length.

**LifecycleProofs**: `LifecycleTypeCorrect`, `RadosStaysOpen`, `HttpEndsFirst`,
for any number of clients and any failures.  `EndInOrder` has one part per
stage of the cleanup and says that what a stage has ended does not begin again;
`BootFirst` adds that nothing runs, and no client is there, before `app.Start` has
come to the server.  `HttpEndsFirst` speaks of the requests the HTTP server still knows of;
a WebSocket may call until `GracefulStop` has ended, and that its handler finds the
connection open is `RadosStaysOpen`.  `NobodyWaitsForEver` and `EveryStepIsOnward` are the safety half of
`SignalEnds` and `FailureEnds`.  `EndNeverStalls` names, for each goroutine, client and
handler, what it waits for, and says that on the way to the end somebody waits for
nothing: the proof follows who waits for whom, cmux (`MuxEnds`), the HTTP server and its
requests (`HttpEnds`), the gRPC server and its handlers (`GrpcEnds`), the worker
(`WorkEnds`).  That every step moves something on and nothing back leaves no room
for going round in circles.  What remains for TLC is that each of these
conditions is ENABLED of a fair action.

**ConfigSearchProofs**, for any lists and queries: `ParamsAreShared`, that no search
changes the list all of them share, and `SearchAlwaysExact`, that a search finds just
what it should.  `SearchIsExact` counts; the answer is made of the positions that the loop
picks by a one-to-one map, and `AsOften` carries that map over to the positions of
each parameter.  That the loop's early end leaves one position rests on `LeastOf`.

**SessionsProofs**: all seven invariants of the run, for any callers, names, accounts
and bounds.  They speak of calls that have been answered; the invariant `Mine(c)`
says of a call under way what it has established so far, each part of one kind of
call: that an instant of it has been seen at which the account was enabled with that
password (`OfSignIn`), or enabled (`OfRefresh`), at which it existed (`OfAdmission`), that
its token was live when it began (`OfToken`), that nobody but it knows its new pair
(`OfDelivery`).  For a session that has not raced, `Whole(s)` says what `RevokedIsDead` and
`OneLivePair` (theorem `OnePairLives`) follow from: its live tokens are those the store's
index has as the newest, unless the one call that is rotating or revoking has just
taken them out (`OfRotation`, `OfRevocation`); and once it is revoked it has none, and no
refresh of it can still pass its second look (`OfRevoked`).  `Apart` keeps two
calls from filling the same pair, `Indexed` the store's index inside its session.  The
history only grows and
instants stay inside a call, so that other calls' steps and changes of accounts
keep all of it; one lemma per action.

**RequestsProofs**: the seven invariants of the run and `EndsAlone`, for any calls, users,
roles and worlds.  `Fits(r)` collects what the table of methods says of each request —
which permission goes with which effect — and `Effective` shows, per operation,
that what a request makes of a world is a change its permissions allow.  `Mine(c)`
again says what a call has established (`Asked`, `Quiet`, `OfAdmission`, `OfData`, `OfDone`,
`OfMissing`, `OfExport`); `Rightful(i)` says it of the change `i` in the history, which is
what `Authorised` and `OwnPasswordOnly` follow from.  `SameStays` covers, for every
action at once, the calls that take no step.

Every invariant and every action property of a passing run is proved, and so is the
refinement of `AccessRegistry`.  Only model-checked are the properties that something
happens, `EveryRequestEnds`, `Returns`, `SignalEnds` and `FailureEnds`, because liveness
under fairness and ENABLED are out of the prover's reach (the safety halves of the last
three are proved), and the violations of the other runs.

Induction over data is out of its reach as the library states it, with an operator
for the claim.  Where it is needed it is done over a set instead: the numbers for which
the claim fails, if there are any, have a least one (`LeastOf`, from the library's
theorem that well-founded relations have minimal elements).  RECURSIVE operators stay out of
reach: the merge is modelled as the loop it is, one step per iteration, and the
sorted order as a property of the answer.

## What the checks found

- *A failed rollback empties the server* (rollback_fails).  `updateFromDB`
  empties the maps before it reads the key.  When that read fails, which is likely
  just after a failed store, the service goes on with no users and no roles,
  and its next successful store writes that over the document.  It is the one way for
  users of a lone replica to vanish (`AloneOnlyDeletedGo`).
- *Cloning onto a built-in role* (clone_role).  `CloneRole` does not look at the
  name of the copy.  A clone under a built-in name adds to what that role
  grants, although the service refuses to update or delete such a role.  It is the one
  way to change a built-in role (`OnlyClonesChangeBuiltIns`).
- *A refresh without a user name is refused* (refresh_grant).  The token endpoint looks
  for the user name in a session it has just made and in the form, where a refresh
  request has none, and then looks up the empty name.  A request that adds the name
  of an enabled account is served; clients of the grant, the Go client's token source
  among them, do not.
- *The Go client's `Close` revokes nothing* (client_close).  It posts to
  `/v1/auth/revoke`, which the server does not have, and a 404 is no error to it.
  With an expired access token it fails instead, for it needs a refresh.
- *The access log does not name the caller* (caller_id).  The name is put into the
  logger before the call gets one of its own.  It goes into the logger of the
  process instead, which gains a name with every call, without a lock.
- Met while reading and not a run: the access log looks at errors before they are
  converted, so that its level for expected errors (`pkg/api/grpc_server.go:145`)
  never applies to the errors of `pkg/types`; and the mock build has no reply to
  `config ls`, so that `app.Start` fails in it at `NewConfig`, contrary to
  `README.md:92`.
- Not claimed, because they do not hold: a token does not end with its account, so
  that a user disabled, or deleted and created again, goes on with the old one;
  `LetInByLiveToken` and `PermissionsOfTheCall` say what such a token is good for.  A
  `Login` whose account is deleted on the way fails with its tokens in the
  store.
- Not claimed, because it does not hold: a session keeps one pair of tokens, and stays
  revoked, when a refresh with a user name is past its second look at the token while a
  revocation or another refresh of the session is under way.  The store of fosite rotates in four
  steps and revokes in two, without a lock around them.  `RevokedIsDead` and
  `OneLivePair` say what holds: such a session is in `raced`.
- Not claimed, because they do not hold: with several replicas one replica's store
  undoes the other's change, and a late store undoes a newer one.
  `DocsWellFormed` and `NoDirtyRead` are what is left then.
- With two ports a server whose listener fails leaves the other one serving until
  a signal; `FailureEnds` is claimed for one port.

## What is not modelled

- *Generated code* (`api/gen`).  It is some 18,000 of the repository's 22,800 lines of
  implementation: message types, their accessors and descriptors, client and server
  stubs, the routes of the gateway.  It has no behaviour of this program's own, and
  it is the reason why the share of all lines the models stand for is small; of
  the code written by hand, the parts with state, order or failure are modelled.
  The one exception is that the gateway's connection ends with its context (`Abandon`).
- The field-by-field conversions between replies of the cluster and messages
  (`status_api_handlers.go` from line 150, `mapper.go`, `types`, the end of `config.go`):
  values without effect on control, except for the panic that is modelled.
- Configuration, logging, tracing, metrics, TLS and dialling: parsing and wiring.
- The OAuth authorization endpoint: the one client has no redirect URI, so
  that every request to it is refused before the code of the repository acts.  The
  introspection endpoint reads only, and what it reads is `Introspects`.
- `Auth.Check`, which answers that it is not implemented.
- A panic outside `unaryServerRecover`, in an interceptor before it, would end the
  process; none of them has a step that can.
- The mock connection: a build for development, whose replies are random and change
  nothing.
- The dashboard as a second writer of the document is like another replica, except
  that its documents are outside this code; they enter as `InitialDocs`.
- In `Sessions`: accounts with an empty name, which the service lets somebody create
  and for which a refresh without a name would be served; the expiry of refresh tokens.
- In `Requests`: requests about built-in roles or without a name or a password, which
  are in `AccessDoc`; a failed rollback, which is in `AccessDB`.

## Plan

Done, in this order: the access database with its abstract specification and
proofs; the merge and the search; the lifecycle with the start; sessions; requests;
the accounts of sessions over the access database.
What would add most next:

1. Proofs.  The users and roles in the world of `Requests` as accounts in the sense of
   `AccountChanges`, so that its calls are one more instance of what `Sessions` stands on;
   for its calls and those of `Sessions` what `Lifecycle` and `ConfigMerge` have, a
   rank that falls with each of a call's steps and a step that is possible until the
   answer.
2. Several replicas in `Sessions`: a token store for each over the same accounts,
   where a token of one is refused by the other.
3. A refresh grant that takes the name from the stored session, as a variant beside the
   present one, for which `RefreshServes` would have to hold.

## Running it

    tlc -workers 2 -config MCAccessDB.cfg MCAccessDB
    tlapm RequestsProofs.tla

`PROJECT.json` names the module and config of every run, the lines of the source each
definition stands for, the faulty variants, the hazards and the theorems.
