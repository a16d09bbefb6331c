------------------------------- MODULE Lifecycle -------------------------------
(***************************************************************************)
(* How the server starts, serves and ends.  app.Start (pkg/app/start.go)   *)
(* sets up one part after the other; util.server (pkg/util/serve.go) then  *)
(* runs one worker, api.Serve (pkg/api/api_server.go), until a signal or a *)
(* failure, cleans up, and app.Start closes the RADOS connection that the  *)
(* handlers use.  With one port the worker is three goroutines behind one  *)
(* listener: cmux, which looks at the first bytes of a connection, the     *)
(* gRPC server and the HTTP server; with two ports it is the two servers.  *)
(*                                                                         *)
(* A client is one connection with one call.  An HTTP request may be       *)
(* answered by the gateway with a call to the gRPC server of this process, *)
(* over a WebSocket too, which the HTTP server then no longer knows of.    *)
(***************************************************************************)
CONSTANTS
    Clients,
    Modes,   \* "same": one port for HTTP and gRPC.  "split": two ports
    Faults   \* "accept": a listener breaks.  "bind": the HTTP port is taken

ASSUME LifecycleAssumption ==
    Modes \subseteq {"same", "split"} /\ Faults \subseteq {"accept", "bind"}

VARIABLES
    mode,
    ctx,       \* the context of main: "live", or "cancelled" by a signal
    root,      \* one port: whether the listener is open
    mux,       \* goroutine of cmux.Serve, "none" with two ports
    http,      \* goroutine of http.Server.Serve or ListenAndServe
    grpc,      \* goroutine of grpc.Server.Serve
    starter,   \* app.Start, and Server.Start in it
    cleaner,   \* the goroutine that runs stop
    conn,      \* each client's connection
    handling,  \* clients whose call runs in a handler of the gRPC server
    rados      \* whether the RADOS connection is open

vars == <<mode, ctx, root, mux, http, grpc, starter, cleaner, conn, handling, rados>>
servers == <<root, mux, http, grpc>>
calls == <<conn, handling>>

\* What app.Start does before there is a server: connect to the cluster, read
\* its parameters and the accounts, see to the administrator, make the keys and
\* the gateway, and open the one port.
Booting == {"connect", "config", "users", "admin", "keys", "listen"}

TypeOK ==
    /\ mode \in Modes
    /\ ctx \in {"live", "cancelled"}
    /\ root \in BOOLEAN
    /\ mux \in {"none", "new", "serving", "draining", "returned"}
    /\ http \in {"new", "serving", "returned"}
    /\ grpc \in {"new", "serving", "left", "returned"}
    /\ starter \in Booting \cup {"work", "cleaning", "exited"}
    /\ cleaner \in {"asleep", "http", "grpc", "done"}
    /\ conn \in [Clients -> {"none", "sniffing", "http", "forwarded", "websocket", "relayed",
                            "grpc", "closed"}]
    /\ handling \subseteq Clients
    /\ rados \in BOOLEAN
    /\ \A c \in Clients : conn[c] \in {"forwarded", "relayed", "grpc"} => c \in handling

Init ==
    /\ mode \in Modes
    /\ ctx = "live"
    /\ root = FALSE
    /\ mux = IF mode = "same" THEN "new" ELSE "none"
    /\ http = "new"
    /\ grpc = "new"
    /\ starter = "connect"
    /\ cleaner = "asleep"
    /\ conn = [c \in Clients |-> "none"]
    /\ handling = {}
    /\ rados = FALSE

Signal ==
    /\ ctx = "live"
    /\ ctx' = "cancelled"
    /\ UNCHANGED <<mode, servers, starter, cleaner, calls, rados>>

(***************************************************************************)
(* app.Start up to the server.  Nothing of it looks at the context.        *)
(***************************************************************************)
Following(stage) ==
    CASE stage = "connect" -> "config"
      [] stage = "config" -> "users"
      [] stage = "users" -> "admin"
      [] stage = "admin" -> "keys"
      [] stage = "keys" -> "listen"
      [] OTHER -> "work"

Boot ==
    /\ starter \in Booting
    /\ starter' = Following(starter)
    /\ rados' = TRUE
    /\ root' = (starter = "listen" /\ mode = "same")
    /\ UNCHANGED <<mode, ctx, mux, http, grpc, cleaner, calls>>

\* What has been set up is closed, and the process ends.
BootFails ==
    /\ starter \in Booting
    /\ starter' = "exited"
    /\ rados' = FALSE
    /\ UNCHANGED <<mode, ctx, servers, cleaner, calls>>

\* Faulty variant: with two ports nobody shuts the HTTP server down.
HttpClosingOnePort == cleaner # "asleep" /\ mode = "same"

\* srv.Shutdown has begun; grpcServer.GracefulStop has begun.
HttpClosing == cleaner # "asleep"
GrpcClosing == cleaner \in {"grpc", "done"}

\* cmux.Serve is on its way out: the two listeners made from it end too.
MuxOver == mux \in {"draining", "returned"}

(***************************************************************************)
(* start, one port: cmux.Serve.  It ends when its listener fails or is     *)
(* closed, and returns when no connection is waiting for its first bytes.  *)
(***************************************************************************)
MuxServe ==
    /\ starter = "work"
    /\ mux = "new"
    /\ mux' = "serving"
    /\ UNCHANGED <<mode, ctx, root, http, grpc, starter, cleaner, calls, rados>>

MuxStops ==
    /\ mux = "serving"
    /\ ~root
    /\ mux' = "draining"
    /\ UNCHANGED <<mode, ctx, root, http, grpc, starter, cleaner, calls, rados>>

MuxFails ==
    /\ "accept" \in Faults
    /\ mux = "serving"
    /\ mux' = "draining"
    /\ UNCHANGED <<mode, ctx, root, http, grpc, starter, cleaner, calls, rados>>

MuxReturns ==
    /\ mux = "draining"
    /\ \A c \in Clients : conn[c] # "sniffing"
    /\ mux' = "returned"
    /\ UNCHANGED <<mode, ctx, root, http, grpc, starter, cleaner, calls, rados>>

(***************************************************************************)
(* start: the HTTP server.  Serving after Shutdown is refused.             *)
(***************************************************************************)
HttpServe ==
    /\ starter = "work"
    /\ http = "new"
    /\ http' = IF HttpClosing THEN "returned" ELSE "serving"
    /\ UNCHANGED <<mode, ctx, root, mux, grpc, starter, cleaner, calls, rados>>

\* ListenAndServe opens its port only now; the gRPC server goes on alone.
HttpBindFails ==
    /\ "bind" \in Faults
    /\ mode = "split"
    /\ starter = "work"
    /\ http = "new"
    /\ http' = "returned"
    /\ UNCHANGED <<mode, ctx, root, mux, grpc, starter, cleaner, calls, rados>>

HttpStops ==
    /\ http = "serving"
    /\ IF mode = "same" THEN MuxOver ELSE HttpClosing
    /\ http' = "returned"
    /\ UNCHANGED <<mode, ctx, root, mux, grpc, starter, cleaner, calls, rados>>

(***************************************************************************)
(* start: the gRPC server.  Serve called after GracefulStop closes its     *)
(* listener and returns; Serve that has left its loop because of           *)
(* GracefulStop returns when that is over.                                 *)
(***************************************************************************)
GrpcServe ==
    /\ starter = "work"
    /\ grpc = "new"
    /\ grpc' = IF GrpcClosing THEN "returned" ELSE "serving"
    /\ UNCHANGED <<mode, ctx, root, mux, http, starter, cleaner, calls, rados>>

GrpcStops ==
    /\ grpc = "serving"
    /\ IF mode = "same" THEN MuxOver ELSE GrpcClosing
    /\ grpc' = "left"
    /\ UNCHANGED <<mode, ctx, root, mux, http, starter, cleaner, calls, rados>>

\* The HTTP server goes on alone.
GrpcFails ==
    /\ "accept" \in Faults
    /\ mode = "split"
    /\ grpc = "serving"
    /\ grpc' = "left"
    /\ UNCHANGED <<mode, ctx, root, mux, http, starter, cleaner, calls, rados>>

GrpcReturns ==
    /\ grpc = "left"
    /\ GrpcClosing => cleaner = "done"
    /\ grpc' = "returned"
    /\ UNCHANGED <<mode, ctx, root, mux, http, starter, cleaner, calls, rados>>

(***************************************************************************)
(* Server.Start: wait for the worker, then for the cleanup; app.Start then *)
(* closes the RADOS connection, and the process ends.                      *)
(***************************************************************************)
WorkReturns ==
    /\ starter = "work"
    /\ mux \in {"none", "returned"}
    /\ http = "returned"
    /\ grpc = "returned"
    /\ starter' = "cleaning"
    /\ UNCHANGED <<mode, ctx, servers, cleaner, calls, rados>>

\* Faulty variant: cleanWG is not waited for.
CloseRadosAtOnce ==
    /\ starter = "cleaning"
    /\ starter' = "exited"
    /\ rados' = FALSE
    /\ UNCHANGED <<mode, ctx, servers, cleaner, calls>>

CloseRados ==
    /\ starter = "cleaning"
    /\ cleaner = "done"
    /\ starter' = "exited"
    /\ rados' = FALSE
    /\ UNCHANGED <<mode, ctx, servers, cleaner, calls>>

(***************************************************************************)
(* stop.  It begins when the group's context is done: at a signal, or when *)
(* the worker has returned.                                                *)
(***************************************************************************)
\* Faulty variant: stop waits for the signal, and not for the group.
GroupDoneBySignal == starter \in {"work", "cleaning"} /\ ctx = "cancelled"
GroupDone == starter = "cleaning" \/ (starter = "work" /\ ctx = "cancelled")

\* srv.Shutdown closes the listeners that are being served.
StopHttp ==
    /\ cleaner = "asleep"
    /\ GroupDone
    /\ cleaner' = "http"
    /\ root' = (root /\ ~(mode = "same" /\ http = "serving"))
    /\ UNCHANGED <<mode, ctx, mux, http, grpc, starter, calls, rados>>

\* Shutdown returns when Serve has, and no request is under way, those that have
\* become WebSockets left out.
HttpIdle ==
    /\ http # "serving"
    /\ \A c \in Clients : conn[c] \notin {"http", "forwarded"}

\* Faulty variant: Shutdown is not waited for.
StopGrpcAtOnce ==
    /\ cleaner = "http"
    /\ cleaner' = "grpc"
    /\ root' = (root /\ mode # "same")
    /\ UNCHANGED <<mode, ctx, mux, http, grpc, starter, calls, rados>>

\* With one port httpL.Close closes the listener of both, served or not.
StopGrpc ==
    /\ cleaner = "http"
    /\ HttpIdle
    /\ cleaner' = "grpc"
    /\ root' = (root /\ mode # "same")
    /\ UNCHANGED <<mode, ctx, mux, http, grpc, starter, calls, rados>>

\* GracefulStop returns when Serve has left its loop and no handler runs.
StopEnds ==
    /\ cleaner = "grpc"
    /\ grpc # "serving"
    /\ handling = {}
    /\ cleaner' = "done"
    /\ UNCHANGED <<mode, ctx, servers, starter, calls, rados>>

(***************************************************************************)
(* Clients.                                                                *)
(***************************************************************************)
SetConn(c, state) ==
    /\ conn' = [conn EXCEPT ![c] = state]
    /\ UNCHANGED <<mode, ctx, servers, starter, cleaner, rados>>

\* One port: cmux accepts, and waits for the first bytes without a limit.
Connect(c) ==
    /\ mode = "same"
    /\ conn[c] = "none"
    /\ mux = "serving"
    /\ root
    /\ SetConn(c, "sniffing")
    /\ UNCHANGED handling

AtServer(c) == conn[c] = IF mode = "same" THEN "sniffing" ELSE "none"

AcceptHttp(c) ==
    /\ AtServer(c)
    /\ http = "serving"
    /\ mode = "split" => ~HttpClosing
    /\ SetConn(c, "http")
    /\ UNCHANGED handling

\* Faulty variant: the server does not count the handlers it waits for.
AcceptGrpcUncounted(c) ==
    /\ AtServer(c)
    /\ grpc = "serving"
    /\ ~GrpcClosing
    /\ SetConn(c, "grpc")
    /\ UNCHANGED handling

AcceptGrpc(c) ==
    /\ AtServer(c)
    /\ grpc = "serving"
    /\ ~GrpcClosing
    /\ SetConn(c, "grpc")
    /\ handling' = handling \cup {c}

\* Neither protocol, the client leaves, or cmux or the server is on its way out.
TurnAway(c) ==
    /\ conn[c] = "sniffing"
    /\ SetConn(c, "closed")
    /\ UNCHANGED handling

\* wsproxy takes the connection over; its one request goes on to the gateway.
Upgrade(c) ==
    /\ conn[c] = "http"
    /\ SetConn(c, "websocket")
    /\ UNCHANGED handling

\* The gateway calls the gRPC server; its connections end with the context.  What
\* they still bring while GracefulStop runs is handled, and waited for.
Call(c, from, to) ==
    /\ conn[c] = from
    /\ ctx = "live"
    /\ grpc # "new"
    /\ cleaner # "done"
    /\ SetConn(c, to)
    /\ handling' = handling \cup {c}

Forward(c) == Call(c, "http", "forwarded")
Relay(c) == Call(c, "websocket", "relayed")

\* An OAuth or metrics endpoint, or a gateway that cannot call.
ReplyHttp(c) ==
    /\ conn[c] = "http"
    /\ SetConn(c, "closed")
    /\ UNCHANGED handling

\* The client leaves, or its request is answered without a call.
HangUp(c) ==
    /\ conn[c] = "websocket"
    /\ SetConn(c, "closed")
    /\ UNCHANGED handling

HandlerEnds(c) ==
    /\ c \in handling
    /\ SetConn(c, "closed")
    /\ handling' = handling \ {c}

\* The client leaves, or a signal closes the gateway's connection: the caller is
\* gone, the handler and its RADOS command are not.
Abandon(c) ==
    /\ conn[c] \in {"forwarded", "relayed", "grpc"}
    /\ SetConn(c, "closed")
    /\ UNCHANGED handling

(***************************************************************************)
(* The specification.                                                      *)
(***************************************************************************)
Mux == MuxServe \/ MuxStops \/ MuxReturns
Http == HttpServe \/ HttpStops
Grpc == GrpcServe \/ GrpcStops \/ GrpcReturns
Fault == MuxFails \/ HttpBindFails \/ GrpcFails \/ BootFails
Starter == Boot \/ WorkReturns \/ CloseRados
Cleaner == StopHttp \/ StopGrpc \/ StopEnds
Sniffed(c) ==
    conn[c] = "sniffing" /\ (AcceptHttp(c) \/ AcceptGrpc(c) \/ TurnAway(c))

Client(c) ==
    \/ Connect(c) \/ AcceptHttp(c) \/ AcceptGrpc(c) \/ TurnAway(c)
    \/ Upgrade(c) \/ Forward(c) \/ Relay(c) \/ ReplyHttp(c) \/ HangUp(c)
    \/ HandlerEnds(c) \/ Abandon(c)

Next ==
    \/ Signal \/ Mux \/ Fault \/ Http \/ Grpc \/ Starter \/ Cleaner
    \/ \E c \in Clients : Client(c)

\* Goroutines are scheduled; a command of the start comes back, as RADOS commands
\* time out; a client sends its first bytes or leaves (nothing in
\* the code makes it); a handler ends, as its RADOS commands time out.  Of a
\* WebSocket nothing is assumed: its client may be silent for ever.
Fairness ==
    /\ WF_vars(Mux) /\ WF_vars(Http) /\ WF_vars(Grpc)
    /\ WF_vars(Starter) /\ WF_vars(Cleaner)
    /\ \A c \in Clients :
           WF_vars(Sniffed(c)) /\ WF_vars(ReplyHttp(c)) /\ WF_vars(HandlerEnds(c))

Spec == Init /\ [][Next]_vars /\ Fairness

(***************************************************************************)
(* Properties.                                                             *)
(***************************************************************************)
\* The RADOS connection is open as long as a handler runs, from the first call
\* that finds a server: also one whose caller
\* is gone, one that outlives grpc.Server.Serve because cmux has failed, one that
\* begins while the HTTP server is being shut down, and one that a WebSocket brings
\* while GracefulStop runs already.
RadosOpenWhileHandling == handling # {} => rados

\* The gRPC server is stopped after the HTTP server has answered everybody it still
\* knows of, so that no draining request of the gateway meets a stopped gRPC server.
\* A request on a WebSocket may: the HTTP server has given its connection away.
HttpBeforeGrpc ==
    GrpcClosing => \A c \in Clients : conn[c] \notin {"http", "forwarded"}

\* Who can take a step of its own: a goroutine that is not waiting for another one,
\* a client, or a handler.
MuxCan ==
    \/ mux = "new" /\ starter = "work"
    \/ mux = "serving" /\ ~root
    \/ mux = "draining" /\ \A c \in Clients : conn[c] # "sniffing"
HttpCan ==
    \/ http = "new" /\ starter = "work"
    \/ http = "serving" /\ IF mode = "same" THEN MuxOver ELSE HttpClosing
GrpcCan ==
    \/ grpc = "new" /\ starter = "work"
    \/ grpc = "serving" /\ IF mode = "same" THEN MuxOver ELSE GrpcClosing
    \/ grpc = "left" /\ (GrpcClosing => cleaner = "done")
StarterCan ==
    \/ starter \in Booting
    \/ starter = "work" /\ mux \in {"none", "returned"}
           /\ http = "returned" /\ grpc = "returned"
    \/ starter = "cleaning" /\ cleaner = "done"
CleanerCan ==
    \/ cleaner = "asleep" /\ GroupDone
    \/ cleaner = "http" /\ HttpIdle
    \/ cleaner = "grpc" /\ grpc # "serving" /\ handling = {}
CallCan(c) == conn[c] \in {"sniffing", "http"} \/ c \in handling

\* What takes the process down: a signal, or with one port the failure of a server.
Ending ==
    \/ ctx = "cancelled"
    \/ mode = "same" /\ (MuxOver \/ http = "returned" \/ grpc = "returned")

\* On the way to the end it never happens that everybody waits: cmux for its
\* listener or for first bytes, a server for cmux, Shutdown for a server or a
\* request, GracefulStop for a handler, Server.Start for the worker and for stop.
EndNeverStalls ==
    Ending /\ starter # "exited" =>
        \/ MuxCan \/ HttpCan \/ GrpcCan \/ StarterCan \/ CleanerCan
        \/ \E c \in Clients : CallCan(c)

\* A signal at any moment, while app.Start sets up or before the servers have
\* started too, ends the process: no goroutine waits for another for ever.
SignalEnds == ctx = "cancelled" ~> starter = "exited"

\* With one port a server that fails takes the others and the process down: the
\* process is never half alive.
FailureEnds ==
    (mode = "same" /\ (MuxOver \/ http = "returned" \/ grpc = "returned"))
        ~> starter = "exited"
==============================================================================
