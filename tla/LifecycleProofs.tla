--------------------------- MODULE LifecycleProofs ---------------------------
(***************************************************************************)
(* The order in which the server ends, for any number of clients, either   *)
(* port layout and any failures.                                           *)
(***************************************************************************)
EXTENDS Lifecycle, Naturals, TLAPS

(***************************************************************************)
(* The invariant.  Nothing runs before app.Start has set everything up,    *)
(* each stage of the cleanup rests on the one before, and what a stage has *)
(* ended does not begin again.                                             *)
(***************************************************************************)
NothingRuns ==
    /\ mux \in {"none", "new"} /\ http = "new" /\ grpc = "new"
    /\ cleaner = "asleep"
    /\ handling = {}
    /\ \A c \in Clients : conn[c] = "none"

BootFirst == starter \in Booting => NothingRuns

RadosHeld == starter \notin {"connect", "exited"} => rados

HttpOver ==
    GrpcClosing =>
        /\ http # "serving"
        /\ \A c \in Clients : conn[c] \notin {"http", "forwarded"}

GrpcOver == cleaner = "done" => grpc # "serving" /\ handling = {}

EndedLast == starter = "exited" => NothingRuns \/ cleaner = "done"

\* The worker has returned, and with one port cmux is one of its goroutines.
WorkOver ==
    starter = "cleaning" =>
        mux \in {"none", "returned"} /\ http = "returned" /\ grpc = "returned"

HasMux == mode = "same" <=> mux # "none"

\* With one port the listener is closed by whoever is to make cmux end: Shutdown if
\* the HTTP server is serving, and stop itself before GracefulStop.  No server
\* begins to serve it later.
RootClosed ==
    mode = "same" =>
        /\ HttpClosing /\ http = "serving" => ~root
        /\ GrpcClosing => ~root

\* With one port a server ends only after cmux or because it is being stopped.
MuxFirst ==
    mode = "same" =>
        /\ http = "returned" => MuxOver \/ HttpClosing
        /\ grpc \in {"left", "returned"} => MuxOver \/ GrpcClosing

EndInOrder ==
    /\ BootFirst /\ RadosHeld /\ HttpOver /\ GrpcOver /\ EndedLast
    /\ WorkOver /\ HasMux /\ RootClosed /\ MuxFirst

\* Before the servers run there is nothing to end.
LEMMA InitEnd == Init => TypeOK /\ EndInOrder
    BY LifecycleAssumption DEF Init, TypeOK, EndInOrder, BootFirst, RadosHeld, HttpOver, GrpcOver,
                EndedLast, WorkOver, HasMux, RootClosed, MuxFirst, MuxOver,
                NothingRuns, Booting, HttpClosing, GrpcClosing

\* The steps of the servers, of the process and of the cleanup.
LEMMA ServerStep ==
    ASSUME TypeOK, EndInOrder,
           Signal \/ Fault \/ Mux \/ Http \/ Grpc \/ Starter \/ Cleaner
    PROVE  TypeOK' /\ EndInOrder'
    <1> USE DEF TypeOK, EndInOrder, BootFirst, RadosHeld, HttpOver, GrpcOver,
                EndedLast, WorkOver, HasMux, RootClosed, MuxFirst, MuxOver,
                NothingRuns, Booting, HttpClosing, GrpcClosing,
                servers, calls
    <1>1. CASE Signal
        BY <1>1 DEF Signal
    <1>2. CASE Fault
        <2>1. CASE MuxFails
            BY <2>1 DEF MuxFails
        <2>2. CASE HttpBindFails
            BY <2>2 DEF HttpBindFails
        <2>3. CASE GrpcFails
            BY <2>3 DEF GrpcFails
        <2>4. CASE BootFails
            BY <2>4 DEF BootFails
        <2> QED BY <1>2, <2>1, <2>2, <2>3, <2>4 DEF Fault
    <1>3. CASE Mux
        <2>1. CASE MuxServe
            BY <2>1 DEF MuxServe
        <2>2. CASE MuxStops
            BY <2>2 DEF MuxStops
        <2>3. CASE MuxReturns
            BY <2>3 DEF MuxReturns
        <2> QED BY <1>3, <2>1, <2>2, <2>3 DEF Mux
    <1>4. CASE Http
        BY <1>4 DEF Http, HttpServe, HttpStops
    <1>5. CASE Grpc
        BY <1>5 DEF Grpc, GrpcServe, GrpcStops, GrpcReturns
    <1>6. CASE Starter
        <2>1. CASE Boot
            BY <2>1 DEF Boot, Following
        <2>2. CASE WorkReturns
            BY <2>2 DEF WorkReturns
        <2>3. CASE CloseRados
            BY <2>3 DEF CloseRados
        <2> QED BY <1>6, <2>1, <2>2, <2>3 DEF Starter
    <1>7. CASE Cleaner
        <2>1. CASE StopHttp
            BY <2>1 DEF StopHttp, GroupDone
        <2>2. CASE StopGrpc
            BY <2>2 DEF StopGrpc, HttpIdle
        <2>3. CASE StopEnds
            BY <2>3 DEF StopEnds
        <2> QED BY <1>7, <2>1, <2>2, <2>3 DEF Cleaner
    <1> QED BY <1>1, <1>2, <1>3, <1>4, <1>5, <1>6, <1>7

\* The steps of a client: no request begins at a server that is being stopped.
LEMMA ClientStep ==
    ASSUME TypeOK, EndInOrder, NEW c \in Clients, Client(c)
    PROVE  TypeOK' /\ EndInOrder'
    <1> USE DEF TypeOK, EndInOrder, BootFirst, RadosHeld, HttpOver, GrpcOver,
                EndedLast, WorkOver, HasMux, RootClosed, MuxFirst, MuxOver,
                NothingRuns, Booting, HttpClosing, GrpcClosing,
                SetConn, servers, AtServer
    <1>1. CASE Connect(c)
        BY <1>1 DEF Connect
    <1>2. CASE AcceptHttp(c)
        BY <1>2 DEF AcceptHttp
    <1>3. CASE AcceptGrpc(c)
        BY <1>3 DEF AcceptGrpc
    <1>4. CASE TurnAway(c)
        BY <1>4 DEF TurnAway
    <1>5. CASE Forward(c) \/ Relay(c)
        BY <1>5 DEF Forward, Relay, Call
    <1>6. CASE ReplyHttp(c) \/ Upgrade(c) \/ HangUp(c)
        BY <1>6 DEF ReplyHttp, Upgrade, HangUp
    <1>7. CASE HandlerEnds(c)
        BY <1>7 DEF HandlerEnds
    <1>8. CASE Abandon(c)
        BY <1>8 DEF Abandon
    <1> QED BY <1>1, <1>2, <1>3, <1>4, <1>5, <1>6, <1>7, <1>8 DEF Client

\* The invariant holds throughout.
LEMMA AlwaysInOrder == Spec => [](TypeOK /\ EndInOrder)
    <1>1. TypeOK /\ EndInOrder /\ [Next]_vars => TypeOK' /\ EndInOrder'
        <2> SUFFICES ASSUME TypeOK, EndInOrder, [Next]_vars
                     PROVE  TypeOK' /\ EndInOrder'
            OBVIOUS
        <2>1. CASE Next
            BY <2>1, ServerStep, ClientStep DEF Next
        <2>2. CASE UNCHANGED vars
            BY <2>2 DEF vars, TypeOK, EndInOrder, BootFirst, RadosHeld, HttpOver,
                        GrpcOver, EndedLast, WorkOver, HasMux, RootClosed, MuxFirst, MuxOver,
                NothingRuns, Booting, HttpClosing, GrpcClosing
        <2> QED BY <2>1, <2>2
    <1> QED BY <1>1, InitEnd, PTL DEF Spec

\* Every variable keeps its type, and a gRPC call has a handler.
THEOREM LifecycleTypeCorrect == Spec => []TypeOK
    BY AlwaysInOrder, PTL

\* No handler ever finds the RADOS connection closed.
THEOREM RadosStaysOpen == Spec => []RadosOpenWhileHandling
    <1>1. EndInOrder => RadosOpenWhileHandling
        BY DEF EndInOrder, BootFirst, RadosHeld, GrpcOver, EndedLast, NothingRuns,
               Booting, RadosOpenWhileHandling
    <1> QED BY <1>1, AlwaysInOrder, PTL

\* The gRPC server is stopped only when nobody the HTTP server knows of needs it for
\* an answer: what is left of the gateway then are WebSockets.
THEOREM HttpEndsFirst == Spec => []HttpBeforeGrpc
    <1>1. EndInOrder => HttpBeforeGrpc
        BY DEF EndInOrder, HttpOver, HttpBeforeGrpc
    <1> QED BY <1>1, AlwaysInOrder, PTL

(***************************************************************************)
(* Nobody waits for ever: the half of SignalEnds and FailureEnds that is   *)
(* about single states.                                                    *)
(***************************************************************************)
\* One port: cmux ends once its listener is closed, and the servers after it.
LEMMA MuxEnds ==
    ASSUME TypeOK, EndInOrder, mode = "same", starter = "work", ~root \/ MuxOver,
           mux # "returned"
    PROVE  MuxCan \/ \E c \in Clients : CallCan(c)
    BY DEF TypeOK, EndInOrder, HasMux, MuxOver, MuxCan, CallCan

\* While Shutdown runs: an HTTP server that serves can end, and a request too.
LEMMA HttpEnds ==
    ASSUME TypeOK, EndInOrder, cleaner = "http", starter \in {"work", "cleaning"}
    PROVE  MuxCan \/ HttpCan \/ CleanerCan \/ \E c \in Clients : CallCan(c)
    <1>1. CASE http # "serving"
        BY <1>1 DEF TypeOK, CleanerCan, HttpIdle, CallCan
    <1>2. CASE http = "serving"
        <2>1. starter = "work"
            BY <1>2 DEF EndInOrder, WorkOver
        <2>2. CASE mode = "split"
            BY <1>2, <2>2 DEF HttpCan, HttpClosing
        <2>3. CASE mode = "same"
            <3>1. ~root
                BY <1>2, <2>3 DEF EndInOrder, RootClosed, HttpClosing
            <3>2. mux = "returned" => HttpCan
                BY <1>2, <2>3 DEF HttpCan, MuxOver
            <3> QED BY <2>1, <2>3, <3>1, <3>2, MuxEnds
        <2> QED BY <2>2, <2>3, LifecycleAssumption DEF TypeOK
    <1> QED BY <1>1, <1>2

\* While GracefulStop runs: a gRPC server that serves can end, and a handler too.
LEMMA GrpcEnds ==
    ASSUME TypeOK, EndInOrder, cleaner = "grpc", starter \in {"work", "cleaning"}
    PROVE  MuxCan \/ GrpcCan \/ CleanerCan \/ \E c \in Clients : CallCan(c)
    <1>1. CASE grpc # "serving"
        BY <1>1 DEF TypeOK, CleanerCan, CallCan
    <1>2. CASE grpc = "serving"
        <2>1. starter = "work" /\ GrpcClosing
            BY <1>2 DEF EndInOrder, WorkOver, GrpcClosing
        <2>2. CASE mode = "split"
            BY <1>2, <2>1, <2>2 DEF GrpcCan
        <2>3. CASE mode = "same"
            <3>1. ~root
                BY <2>1, <2>3 DEF EndInOrder, RootClosed
            <3>2. mux = "returned" => GrpcCan
                BY <1>2, <2>3 DEF GrpcCan, MuxOver
            <3> QED BY <2>1, <2>3, <3>1, <3>2, MuxEnds
        <2> QED BY <2>2, <2>3, LifecycleAssumption DEF TypeOK
    <1> QED BY <1>1, <1>2

\* After stop, or after cmux with one port, the worker's goroutines end.
LEMMA WorkEnds ==
    ASSUME TypeOK, EndInOrder, starter = "work",
           cleaner = "done" \/ (cleaner = "asleep" /\ mode = "same" /\ MuxOver)
    PROVE  MuxCan \/ HttpCan \/ GrpcCan \/ StarterCan \/ \E c \in Clients : CallCan(c)
    <1>1. mode = "same" => MuxCan \/ mux = "returned" \/ \E c \in Clients : CallCan(c)
        BY MuxEnds DEF EndInOrder, RootClosed, GrpcClosing
    <1>2. mode = "split" => mux = "none"
        BY DEF EndInOrder, HasMux
    <1>3. HttpCan \/ http = "returned"
        BY DEF TypeOK, EndInOrder, HttpOver, GrpcClosing, HttpCan
    <1>4. GrpcCan \/ grpc = "returned"
        BY DEF TypeOK, EndInOrder, GrpcOver, GrpcClosing, GrpcCan
    <1> QED
        BY <1>1, <1>2, <1>3, <1>4, LifecycleAssumption DEF TypeOK, StarterCan

\* Whatever was under way when the end began, and whichever server failed, there is
\* always a goroutine, a client or a handler that waits for nobody, until the
\* process has exited.
THEOREM NobodyWaitsForEver == Spec => []EndNeverStalls
    <1>1. TypeOK /\ EndInOrder => EndNeverStalls
        <2> SUFFICES ASSUME TypeOK, EndInOrder, Ending, starter # "exited"
                     PROVE  EndNeverStalls
            BY DEF EndNeverStalls
        <2> USE DEF EndNeverStalls
        <2>1. CASE starter \in Booting
            BY <2>1 DEF StarterCan
        <2>2. CASE starter \in {"work", "cleaning"} /\ cleaner = "http"
            BY <2>2, HttpEnds
        <2>3. CASE starter \in {"work", "cleaning"} /\ cleaner = "grpc"
            BY <2>3, GrpcEnds
        <2>4. CASE starter = "cleaning" /\ cleaner \in {"asleep", "done"}
            BY <2>4 DEF CleanerCan, GroupDone, StarterCan
        <2>5. CASE starter = "work" /\ cleaner = "done"
            BY <2>5, WorkEnds
        <2>6. CASE starter = "work" /\ cleaner = "asleep"
            <3>1. CASE ctx = "cancelled"
                BY <2>6, <3>1 DEF CleanerCan, GroupDone
            <3>2. CASE ctx # "cancelled"
                <4>1. mode = "same" /\ MuxOver
                    BY <2>6, <3>2 DEF Ending, EndInOrder, MuxFirst, HttpClosing, GrpcClosing
                <4> QED BY <2>6, <4>1, WorkEnds
            <3> QED BY <3>1, <3>2
        <2> QED BY <2>1, <2>2, <2>3, <2>4, <2>5, <2>6 DEF TypeOK
    <1> QED BY <1>1, AlwaysInOrder, PTL

(***************************************************************************)
(* The other half: no step, of whomever, is undone, so that there are only *)
(* finitely many of them.  Each goroutine and each call has a rank that    *)
(* never falls, and every step raises one.                                 *)
(***************************************************************************)
CtxRank == IF ctx = "live" THEN 0 ELSE 1
MuxRank ==
    CASE mux \in {"none", "new"} -> 0 [] mux = "serving" -> 1
      [] mux = "draining" -> 2 [] OTHER -> 3
HttpRank == CASE http = "new" -> 0 [] http = "serving" -> 1 [] OTHER -> 2
GrpcRank ==
    CASE grpc = "new" -> 0 [] grpc = "serving" -> 1 [] grpc = "left" -> 2 [] OTHER -> 3
StarterRank ==
    CASE starter = "connect" -> 0 [] starter = "config" -> 1 [] starter = "users" -> 2
      [] starter = "admin" -> 3 [] starter = "keys" -> 4 [] starter = "listen" -> 5
      [] starter = "work" -> 6 [] starter = "cleaning" -> 7 [] OTHER -> 8
CleanerRank ==
    CASE cleaner = "asleep" -> 0 [] cleaner = "http" -> 1 [] cleaner = "grpc" -> 2
      [] OTHER -> 3

\* A call whose caller is gone has one step left, the end of its handler.
CallRank(c) ==
    CASE conn[c] = "none" -> 0 [] conn[c] = "sniffing" -> 1 [] conn[c] = "http" -> 2
      [] conn[c] = "websocket" -> 3
      [] conn[c] \in {"forwarded", "relayed", "grpc"} -> 4
      [] conn[c] = "closed" /\ c \in handling -> 5 [] OTHER -> 6

NothingFalls ==
    /\ CtxRank <= CtxRank' /\ MuxRank <= MuxRank' /\ HttpRank <= HttpRank'
    /\ GrpcRank <= GrpcRank' /\ StarterRank <= StarterRank'
    /\ CleanerRank <= CleanerRank'
    /\ \A c \in Clients : CallRank(c) <= CallRank(c)'

SomethingRises ==
    \/ CtxRank < CtxRank' \/ MuxRank < MuxRank' \/ HttpRank < HttpRank'
    \/ GrpcRank < GrpcRank' \/ StarterRank < StarterRank' \/ CleanerRank < CleanerRank'
    \/ \E c \in Clients : CallRank(c) < CallRank(c)'

\* A step that leaves the calls alone raises no rank of theirs.
LEMMA CallsStay ==
    ASSUME UNCHANGED calls
    PROVE  \A c \in Clients : CallRank(c)' = CallRank(c) /\ CallRank(c) \in Nat
    BY DEF calls, CallRank

\* A step of a goroutine moves it on, and nobody back.
LEMMA ServerRises ==
    ASSUME TypeOK, EndInOrder,
           Signal \/ Fault \/ Mux \/ Http \/ Grpc \/ Starter \/ Cleaner
    PROVE  NothingFalls /\ SomethingRises
    <1>1. UNCHANGED calls
        BY DEF Signal, Fault, Mux, Http, Grpc, Starter, Cleaner, MuxFails, HttpBindFails,
               GrpcFails, BootFails, MuxServe, MuxStops, MuxReturns, HttpServe, HttpStops,
               GrpcServe, GrpcStops, GrpcReturns, Boot, WorkReturns, CloseRados,
               StopHttp, StopGrpc, StopEnds
    <1>2. \A c \in Clients : CallRank(c) <= CallRank(c)'
        BY <1>1, CallsStay
    <1> USE <1>2 DEF TypeOK, servers, NothingFalls, SomethingRises, CtxRank, MuxRank,
                     HttpRank, GrpcRank, StarterRank, CleanerRank, Booting
    <1>3. CASE Signal
        BY <1>3 DEF Signal
    <1>4. CASE Fault
        BY <1>4 DEF Fault, MuxFails, HttpBindFails, GrpcFails, BootFails
    <1>5. CASE Mux
        BY <1>5 DEF Mux, MuxServe, MuxStops, MuxReturns
    <1>6. CASE Http
        BY <1>6 DEF Http, HttpServe, HttpStops
    <1>7. CASE Grpc
        BY <1>7 DEF Grpc, GrpcServe, GrpcStops, GrpcReturns
    <1>8. CASE Starter
        BY <1>8 DEF Starter, Boot, Following, WorkReturns, CloseRados
    <1>9. CASE Cleaner
        BY <1>9 DEF Cleaner, StopHttp, StopGrpc, StopEnds
    <1> QED BY <1>3, <1>4, <1>5, <1>6, <1>7, <1>8, <1>9

\* A step of a call moves that call on, and nobody back.
LEMMA ClientRises ==
    ASSUME TypeOK, NEW c \in Clients, Client(c)
    PROVE  NothingFalls /\ SomethingRises
    <1>1. /\ UNCHANGED <<mode, ctx, servers, starter, cleaner, rados>>
          /\ \A d \in Clients \ {c} : conn'[d] = conn[d] /\ (d \in handling' <=> d \in handling)
        BY DEF TypeOK, Client, SetConn, Connect, AcceptHttp, AcceptGrpc, TurnAway, Call,
               Forward, Relay, Upgrade, HangUp, ReplyHttp, HandlerEnds, Abandon
    <1>2. CallRank(c) < CallRank(c)'
        BY DEF TypeOK, Client, SetConn, AtServer, Connect, AcceptHttp, AcceptGrpc, TurnAway,
               Call, Forward, Relay, Upgrade, HangUp, ReplyHttp, HandlerEnds, Abandon, CallRank
    <1>3. \A d \in Clients : CallRank(d) <= CallRank(d)'
        <2> SUFFICES ASSUME NEW d \in Clients, d # c PROVE CallRank(d) <= CallRank(d)'
            BY <1>2 DEF CallRank
        <2> QED BY <1>1 DEF CallRank
    <1> QED
        BY <1>1, <1>2, <1>3 DEF servers, NothingFalls, SomethingRises, CtxRank, MuxRank,
           HttpRank, GrpcRank, StarterRank, CleanerRank

\* No step is ever undone: no server, no stage of the start or of stop and no call
\* begins again, and no step leaves everything where it was.  So a process with
\* finitely many calls takes finitely many steps.
THEOREM EveryStepIsOnward == Spec => [][NothingFalls /\ SomethingRises]_vars
    <1>1. TypeOK /\ EndInOrder /\ [Next]_vars => [NothingFalls /\ SomethingRises]_vars
        BY ServerRises, ClientRises DEF Next
    <1> QED BY <1>1, AlwaysInOrder, PTL DEF Spec
=================================================================================
