---------------------------- MODULE ServerProofs ----------------------------
(***************************************************************************)
(* That the process stops in the right order, for any number of calls and  *)
(* requests.                                                               *)
(***************************************************************************)
EXTENDS Server, TLAPS

-----------------------------------------------------------------------------
(* The inductive invariant *)

\* The wait group counts Run, which main starts when it begins to receive.
WaitInv ==
    /\ wg = IF run \in {"setup", "group"} THEN 1 ELSE 0
    /\ run = "none" <=> main \in {"init", "notified"}

\* How far the functions of the group are.
GroupInv ==
    /\ run \in {"none", "setup"} =>
           shut = "none" /\ grpc = "none" /\ stop = "none" /\ http = "none"
    /\ stop = "none" <=> grpc \in {"none", "starting"}
    /\ grpc = "returned" => stop = "done"
    /\ run = "returned" => GroupDone \/ grpc = "none"

\* Calls run only behind a server that has begun to serve, and GracefulStop
\* has waited for them.
WorkInv == grpc \in {"none", "starting", "started", "stopped"} \/ stop = "done" => calls = {}

\* Where errors come from.
FaultInv ==
    /\ "failed" \in {shut, grpc, http} => fault
    /\ err => fault \/ grpc = "stopped"

EndInv ==
    /\ proc = "exited" => run = "returned"
    /\ proc = "panicked" => fault \/ grpc = "stopped"

ServerInv == ServerTypeOK /\ WaitInv /\ GroupInv /\ WorkInv /\ FaultInv /\ EndInv


-----------------------------------------------------------------------------
\* The process starts with nothing begun (main.go:23).
LEMMA ServerInvInit == Init => ServerInv
  BY DEF Init, ServerInv, ServerTypeOK, GroupStates, WaitInv, GroupInv, WorkInv,
         FaultInv, EndInv, GroupDone

\* main starts Run before it receives, and returns when Run has
\* (main.go:82-100).
LEMMA MainKeeps ==
  ASSUME ServerInv, proc = "up", MainStep \/ Signal \/ InitFails
  PROVE  ServerInv'
  <1> USE DEF ServerInv, ServerTypeOK, GroupStates, WaitInv, GroupInv, WorkInv,
              FaultInv, EndInv, GroupDone, groupVars, workVars
  <1>1. CASE Notify
    BY <1>1 DEF Notify
  <1>2. CASE StartRun
    BY <1>2 DEF StartRun, Add
  <1>3. CASE MainCancels
    BY <1>3 DEF MainCancels, Cancel
  <1>4. CASE MainReturns
    BY <1>4 DEF MainReturns, Ends
  <1>5. CASE Signal
    BY <1>5 DEF Signal, Ends
  <1>6. CASE InitFails
    BY <1>6 DEF InitFails, Ends
  <1>7. QED
    BY <1>1, <1>2, <1>3, <1>4, <1>5, <1>6 DEF MainStep

\* Run counts itself off once, when its group is done or was never started
\* (cntrl.go:57, 139).
LEMMA RunKeeps ==
  ASSUME ServerInv, proc = "up", RunStep \/ SetupFails
  PROVE  ServerInv'
  <1> USE DEF ServerInv, ServerTypeOK, GroupStates, WaitInv, GroupInv, WorkInv,
              FaultInv, EndInv, GroupDone, groupVars, workVars
  <1>1. CASE Setup
    BY <1>1 DEF Setup
  <1>2. CASE GroupWait
    BY <1>2 DEF GroupWait, Returns
  <1>3. CASE RunPanics
    BY <1>3 DEF RunPanics, Ends
  <1>4. CASE SetupFails
    BY <1>4 DEF SetupFails, Returns
  <1>5. QED
    BY <1>1, <1>2, <1>3, <1>4 DEF RunStep

\* The functions of the error group, and GracefulStop (cntrl.go:111-138).
LEMMA GroupKeeps ==
  ASSUME ServerInv, proc = "up",
         ShutStep \/ StopStep \/ GrpcStep \/ HttpStep
         \/ ShutdownFails \/ GrpcFails \/ HttpFails
  PROVE  ServerInv'
  <1> USE DEF ServerInv, ServerTypeOK, GroupStates, WaitInv, GroupInv, WorkInv,
              FaultInv, EndInv, GroupDone, groupVars, workVars, GroupStep
  <1>1. CASE ShutdownBegins \/ ShutdownEnds
    BY <1>1 DEF ShutdownBegins, ShutdownEnds
  <1>2. CASE GracefulStopBegins \/ GracefulStopEnds
    BY <1>2 DEF GracefulStopBegins, GracefulStopEnds, Drained
  <1>3. CASE StopStarts
    BY <1>3 DEF StopStarts
  <1>4. CASE GrpcServes
    BY <1>4 DEF GrpcServes
  <1>5. CASE GrpcReturns
    BY <1>5 DEF GrpcReturns
  <1>6. CASE GrpcFails
    BY <1>6 DEF GrpcFails
  <1>7. CASE HttpServes \/ HttpReturns
    BY <1>7 DEF HttpServes, HttpReturns, ServerClosed
  <1>8. CASE HttpFails
    BY <1>8 DEF HttpFails
  <1>9. CASE ShutdownFails
    BY <1>9 DEF ShutdownFails
  <1>10. QED
    BY <1>1, <1>2, <1>3, <1>4, <1>5, <1>6, <1>7, <1>8, <1>9
       DEF ShutStep, StopStep, GrpcStep, HttpStep

\* Calls and requests that begin, end or panic.
LEMMA WorkKeeps ==
  ASSUME ServerInv, proc = "up",
         \/ \E c \in Calls : CallBegins(c) \/ CallEnds(c) \/ CallPanics(c)
         \/ \E h \in Conns : HttpBegins(h) \/ HttpEnds(h)
  PROVE  ServerInv'
  <1> USE DEF ServerInv, ServerTypeOK, GroupStates, WaitInv, GroupInv, WorkInv,
              FaultInv, EndInv, GroupDone, groupVars, workVars
  <1>1. ASSUME NEW c \in Calls, CallBegins(c) PROVE ServerInv'
    BY <1>1 DEF CallBegins, Work
  <1>2. ASSUME NEW c \in Calls, CallEnds(c) PROVE ServerInv'
    BY <1>2 DEF CallEnds, Work
  <1>3. ASSUME NEW c \in Calls, CallPanics(c) PROVE ServerInv'
    BY <1>3 DEF CallPanics
  <1>4. ASSUME NEW h \in Conns, HttpBegins(h) \/ HttpEnds(h) PROVE ServerInv'
    BY <1>4 DEF HttpBegins, HttpEnds, Work
  <1>5. QED
    BY <1>1, <1>2, <1>3, <1>4

\* Every step keeps the invariant.
LEMMA ServerInvStep == ServerInv /\ [Next]_serverVars => ServerInv'
  <1> SUFFICES ASSUME ServerInv, [Next]_serverVars PROVE ServerInv'
    OBVIOUS
  <1>1. CASE Next
    BY <1>1, MainKeeps, RunKeeps, GroupKeeps, WorkKeeps DEF Next, Faulty
  <1>2. CASE UNCHANGED serverVars
    BY <1>2 DEF serverVars, ServerInv, ServerTypeOK, WaitInv, GroupInv, WorkInv,
                FaultInv, EndInv, GroupDone, groupVars, workVars
  <1>3. QED
    BY <1>1, <1>2

-----------------------------------------------------------------------------
(***************************************************************************)
(* main, Run and the functions of the error group stay in step: the        *)
(* counter of the wait group, the group and GracefulStop tell the truth    *)
(* about what still runs.                                                  *)
(***************************************************************************)
THEOREM ServerInvariant == Spec => []ServerInv
  <1>1. Init => ServerInv
    BY ServerInvInit
  <1>2. ServerInv /\ [Next]_serverVars => ServerInv'
    BY ServerInvStep
  <1>3. QED
    BY <1>1, <1>2, PTL DEF Spec

(***************************************************************************)
(* Every variable keeps its type; in particular wg.Done is never called    *)
(* too often (cntrl.go:57).                                                *)
(***************************************************************************)
THEOREM ServerTypeCorrect == Spec => []ServerTypeOK
  <1>1. ServerInv => ServerTypeOK
    BY DEF ServerInv
  <1>2. QED
    BY <1>1, ServerInvariant, PTL

(***************************************************************************)
(* main does not return before the last call (main.go:100), unless Serve   *)
(* had failed.                                                             *)
(***************************************************************************)
THEOREM ExitAfterCalls == Spec => []CallsEndBeforeExit
  <1>1. ServerInv => CallsEndBeforeExit
    BY DEF ServerInv, GroupInv, WorkInv, EndInv, GroupDone, CallsEndBeforeExit
  <1>2. QED
    BY <1>1, ServerInvariant, PTL

(***************************************************************************)
(* The panic of main's goroutine (main.go:92) has a cause other than the   *)
(* stop itself, or GracefulStop came before Serve.                         *)
(***************************************************************************)
THEOREM NoPanicByStopping == Spec => []StopsWithoutPanic
  <1>1. ServerInv => StopsWithoutPanic
    BY DEF ServerInv, EndInv, StopsWithoutPanic
  <1>2. QED
    BY <1>1, ServerInvariant, PTL
=============================================================================
