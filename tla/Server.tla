------------------------------- MODULE Server -------------------------------
(***************************************************************************)
(* cmd/provisioner/main.go and pkg/controller/v1/cntrl.go: how the process *)
(* starts, serves and stops.  main waits for a signal, cancels the context *)
(* and waits for Run; Run serves gRPC and HTTP and returns when the three  *)
(* functions of its error group have returned; a goroutine of its own      *)
(* stops the gRPC server.  Every goroutine moves at its own speed.         *)
(***************************************************************************)
EXTENDS Integers

CONSTANTS
    Calls, \* gRPC calls that may be running
    Conns  \* HTTP requests that may be running

VARIABLES
    proc,  \* the process: "up", or how it ended
    main,  \* where main is
    ctx,   \* the context has been cancelled
    wg,    \* the wait group
    run,   \* where the goroutine of Run is
    err,   \* Run returns an error
    shut,  \* the function of the group that shuts the HTTP server down
    grpc,  \* the one that serves gRPC
    stop,  \* the goroutine it starts, for GracefulStop
    http,  \* the one that serves HTTP
    calls, conns, \* what is running
    fault  \* something has failed that is not part of stopping

groupVars == <<shut, grpc, stop, http>>
workVars == <<calls, conns>>
serverVars == <<proc, main, ctx, wg, run, err, groupVars, workVars, fault>>

Init ==
    /\ proc = "up" /\ main = "init" /\ ctx = FALSE /\ wg = 0
    /\ run = "none" /\ err = FALSE
    /\ shut = "none" /\ grpc = "none" /\ stop = "none" /\ http = "none"
    /\ calls = {} /\ conns = {} /\ fault = FALSE

Ends(how) ==
    /\ proc' = how
    /\ UNCHANGED <<main, ctx, wg, run, err, groupVars, workVars, fault>>

-----------------------------------------------------------------------------
(* main *)

\* No configuration, no client: os.Exit or panic.
InitFails == main = "init" /\ Ends("failed")

Notify ==
    /\ main = "init"
    /\ main' = "notified"
    /\ UNCHANGED <<proc, ctx, wg, run, err, groupVars, workVars, fault>>

AddForgotten(n) == n
Add(n) == n + 1

\* wg.Add, the goroutine that calls Run, and the receive from the channel.
StartRun ==
    /\ main = "notified"
    /\ main' = "receiving"
    /\ wg' = Add(wg)
    /\ run' = "setup"
    /\ UNCHANGED <<proc, ctx, err, groupVars, workVars, fault>>

(***************************************************************************)
(* A signal ends the process as long as nobody has asked for it.  The      *)
(* channel has no buffer: a signal that comes when main does not receive   *)
(* is dropped.                                                             *)
(***************************************************************************)
Signal ==
    \/ main = "init" /\ Ends("killed")
    \/ /\ main = "receiving"
       /\ main' = "received"
       /\ UNCHANGED <<proc, ctx, wg, run, err, groupVars, workVars, fault>>

CancelForgotten == FALSE
Cancel == TRUE

MainCancels ==
    /\ main = "received"
    /\ main' = "waiting"
    /\ ctx' = Cancel
    /\ UNCHANGED <<proc, wg, run, err, groupVars, workVars, fault>>

MainReturns == main = "waiting" /\ wg = 0 /\ Ends("exited")

-----------------------------------------------------------------------------
(* Run *)

\* Run returns, and its deferred Done comes before its caller sees the error.
Returns(e) ==
    /\ run' = "returned"
    /\ err' = e
    /\ wg' = wg - 1

SetupFails ==
    /\ run = "setup"
    /\ Returns(TRUE)
    /\ fault' = TRUE
    /\ UNCHANGED <<proc, main, ctx, groupVars, workVars>>

\* The socket, the listeners and the servers are there; the group starts.
Setup ==
    /\ run = "setup"
    /\ run' = "group"
    /\ shut' = "waiting" /\ grpc' = "starting" /\ http' = "starting"
    /\ UNCHANGED <<proc, main, ctx, wg, err, stop, workVars, fault>>

\* A step of the group leaves the rest of the process alone.
GroupStep == UNCHANGED <<proc, main, ctx, wg, run, err, workVars>>

ShutdownBegins ==
    /\ shut = "waiting" /\ ctx
    /\ shut' = "closing"
    /\ GroupStep /\ UNCHANGED <<grpc, stop, http, fault>>

\* httpSrv.Shutdown waits for the requests that are running.
ShutdownEnds ==
    /\ shut = "closing" /\ conns = {}
    /\ shut' = "returned"
    /\ GroupStep /\ UNCHANGED <<grpc, stop, http, fault>>

\* It fails when a listener cannot be closed.
ShutdownFails ==
    /\ shut = "closing" /\ conns = {}
    /\ shut' = "failed" /\ fault' = TRUE
    /\ GroupStep /\ UNCHANGED <<grpc, stop, http>>

StopStarts ==
    /\ grpc = "starting"
    /\ grpc' = "started" /\ stop' = "waiting"
    /\ GroupStep /\ UNCHANGED <<shut, http, fault>>

\* Serve fails when it comes after GracefulStop (grpc.ErrServerStopped).
GrpcServes ==
    /\ grpc = "started"
    /\ grpc' = IF stop = "waiting" THEN "serving" ELSE "stopped"
    /\ GroupStep /\ UNCHANGED <<shut, stop, http, fault>>

GrpcFails ==
    /\ grpc = "serving" /\ stop = "waiting"
    /\ grpc' = "failed" /\ fault' = TRUE
    /\ GroupStep /\ UNCHANGED <<shut, stop, http>>

GracefulStopBegins ==
    /\ stop = "waiting" /\ ctx
    /\ stop' = "stopping"
    /\ GroupStep /\ UNCHANGED <<shut, grpc, http, fault>>

\* GracefulStop waits for the calls that are running.
DrainedAlways == TRUE
Drained == calls = {}

GracefulStopEnds ==
    /\ stop = "stopping" /\ Drained
    /\ stop' = "done"
    /\ GroupStep /\ UNCHANGED <<shut, grpc, http, fault>>

\* Serve returns nil when GracefulStop is done.
GrpcReturns ==
    /\ grpc = "serving" /\ stop = "done"
    /\ grpc' = "returned"
    /\ GroupStep /\ UNCHANGED <<shut, stop, http, fault>>

\* ErrServerClosed, which Serve gives after Shutdown, is no error.
ServerClosedFails == "failed"
ServerClosed == "returned"

HttpServes ==
    /\ http = "starting"
    /\ http' = IF shut = "waiting" THEN "serving" ELSE ServerClosed
    /\ GroupStep /\ UNCHANGED <<shut, grpc, stop, fault>>

HttpReturns ==
    /\ http = "serving" /\ shut # "waiting"
    /\ http' = ServerClosed
    /\ GroupStep /\ UNCHANGED <<shut, grpc, stop, fault>>

HttpFails ==
    /\ http = "serving" /\ shut = "waiting"
    /\ http' = "failed" /\ fault' = TRUE
    /\ GroupStep /\ UNCHANGED <<shut, grpc, stop>>

\* eg.Wait waits for all three, also when one of them has failed.
GroupDone ==
    /\ shut \in {"returned", "failed"}
    /\ grpc \in {"returned", "failed", "stopped"}
    /\ http \in {"returned", "failed"}

GroupWait ==
    /\ run = "group" /\ GroupDone
    /\ Returns("failed" \in {shut, grpc, http} \/ grpc = "stopped")
    /\ UNCHANGED <<proc, main, ctx, groupVars, workVars, fault>>

\* The goroutine in main panics when Run has returned an error.
RunPanics == run = "returned" /\ err /\ Ends("panicked")

-----------------------------------------------------------------------------
(* The calls.  The connections of a server that no longer accepts new ones *)
(* stay open until GracefulStop.                                           *)

Work(cs, hs) ==
    /\ calls' = cs /\ conns' = hs
    /\ UNCHANGED <<proc, main, ctx, wg, run, err, groupVars, fault>>

CallBegins(c) ==
    /\ grpc \in {"serving", "failed"} /\ stop = "waiting" /\ c \notin calls
    /\ Work(calls \cup {c}, conns)
CallEnds(c) == c \in calls /\ Work(calls \ {c}, conns)

HttpBegins(h) ==
    /\ http = "serving" /\ shut = "waiting" /\ h \notin conns
    /\ Work(calls, conns \cup {h})
HttpEnds(h) == h \in conns /\ Work(calls, conns \ {h})

\* Nothing recovers from a panic in a handler.
CallPanics(c) ==
    /\ c \in calls
    /\ proc' = "panicked" /\ fault' = TRUE
    /\ UNCHANGED <<main, ctx, wg, run, err, groupVars, workVars>>

-----------------------------------------------------------------------------
MainStep == Notify \/ StartRun \/ MainCancels \/ MainReturns
RunStep == Setup \/ GroupWait \/ RunPanics
ShutStep == ShutdownBegins \/ ShutdownEnds
StopStep == GracefulStopBegins \/ GracefulStopEnds
GrpcStep == StopStarts \/ GrpcServes \/ GrpcReturns
HttpStep == HttpServes \/ HttpReturns
Faulty == InitFails \/ SetupFails \/ ShutdownFails \/ GrpcFails \/ HttpFails

Next ==
    /\ proc = "up"
    /\ \/ MainStep \/ Signal \/ Faulty
       \/ RunStep \/ ShutStep \/ StopStep \/ GrpcStep \/ HttpStep
       \/ \E c \in Calls : CallBegins(c) \/ CallEnds(c) \/ CallPanics(c)
       \/ \E h \in Conns : HttpBegins(h) \/ HttpEnds(h)

Up(A) == proc = "up" /\ A

\* Goroutines run, and what has begun ends.
Fairness ==
    /\ WF_serverVars(Up(MainStep)) /\ WF_serverVars(Up(RunStep))
    /\ WF_serverVars(Up(ShutStep)) /\ WF_serverVars(Up(StopStep))
    /\ WF_serverVars(Up(GrpcStep)) /\ WF_serverVars(Up(HttpStep))
    /\ \A c \in Calls : WF_serverVars(Up(CallEnds(c)))
    /\ \A h \in Conns : WF_serverVars(Up(HttpEnds(h)))

Spec == Init /\ [][Next]_serverVars
FairSpec == Spec /\ Fairness

-----------------------------------------------------------------------------
(* Properties *)

GroupStates == {"none", "waiting", "closing", "starting", "started", "serving",
                "stopping", "done", "stopped", "failed", "returned"}

\* The counter of the wait group is never negative, which would be a panic.
ServerTypeOK ==
    /\ proc \in {"up", "failed", "killed", "exited", "panicked"}
    /\ main \in {"init", "notified", "receiving", "received", "waiting"}
    /\ run \in {"none", "setup", "group", "returned"}
    /\ {shut, grpc, stop, http} \subseteq GroupStates
    /\ wg \in {0, 1}
    /\ {ctx, err, fault} \subseteq BOOLEAN
    /\ calls \subseteq Calls /\ conns \subseteq Conns

(***************************************************************************)
(* main does not return while a gRPC call still runs: the wait group, the  *)
(* error group and Serve wait for one another and for GracefulStop         *)
(* (main.go:87-100, cntrl.go:118-139).  After Serve has failed nothing     *)
(* waits for GracefulStop.                                                 *)
(***************************************************************************)
CallsEndBeforeExit == proc = "exited" /\ grpc # "failed" => calls = {}

(***************************************************************************)
(* Stopping alone is no reason to panic (main.go:90-93): the errors with   *)
(* which the servers say that they were stopped do not reach Run's caller, *)
(* except when GracefulStop comes before Serve (cntrl.go:119-128).         *)
(***************************************************************************)
StopsWithoutPanic == proc = "panicked" => fault \/ grpc = "stopped"

(***************************************************************************)
(* Once main has got its signal the process ends (main.go:96-100), at      *)
(* whatever point the servers are, also when one of them has failed.       *)
(***************************************************************************)
SignalStops == main = "received" ~> proc # "up"
=============================================================================
