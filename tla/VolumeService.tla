---------------------------- MODULE VolumeService ----------------------------
(***************************************************************************)
(* What the interface VcdService (client.go:108-115) promises the driver:  *)
(* volumes, each at most once and at most at one VM, and calls that change *)
(* only the volume they name.  A call changes it in one or two steps (an   *)
(* attached volume is detached before it is deleted or attached anew) and  *)
(* may fail between them; a call that returns without an error has done    *)
(* what it was asked.  VDCs, references, the mutex and the tasks of the    *)
(* cloud are not seen at this level.                                       *)
(*                                                                         *)
(* Beyond the promise, a request may be left behind in the cloud, when the *)
(* answer to it is lost or the process ends: the cloud runs it at any later*)
(* moment, or never, and of its volume nothing is promised any more.       *)
(***************************************************************************)
EXTENDS Integers, FiniteSets

CONSTANTS
    Threads,    \* the callers
    Names,      \* the names of volumes
    Units,      \* the addresses a volume can have at a VM
    Requests,   \* the calls: records with fields m, name, vm and size
    Errs,       \* what a call can return, "nil" for success
    SureDelete, \* a DeleteDisk that succeeds has left no volume behind
    MaxLeft,    \* bound on the requests left behind in the cloud
    None

\* Unit 0 also stands for "no unit".
ASSUME ServiceAssumption ==
    SureDelete \in BOOLEAN /\ 0 \in Units /\ "other" \in Errs /\ MaxLeft \in Nat

VARIABLES
    vol,   \* the volume behind each name
    phase, \* of each caller: "idle", "busy" or "done"
    req,   \* its request
    res,   \* the result it gets
    left,  \* requests in the cloud that no call waits for any more
    stray  \* the volumes for which a request has ever been left behind

leftVars == <<left, stray>>
serviceVars == <<vol, phase, req, res, leftVars>>

NoVolume == [size |-> 0, vm |-> None, unit |-> 0, here |-> FALSE]
NoReq == [m |-> "none", name |-> None, vm |-> None, size |-> 0]
NoRes == [err |-> "nil", unit |-> 0, list |-> {}]

Listing == {[name |-> n, size |-> vol[n].size] : n \in {v \in Names : vol[v].here}}

ServiceInit ==
    /\ vol = [n \in Names |-> NoVolume]
    /\ phase = [t \in Threads |-> "idle"]
    /\ req = [t \in Threads |-> NoReq]
    /\ res = [t \in Threads |-> NoRes]
    /\ left = {}
    /\ stray = {}

Begin(t, r) ==
    /\ phase[t] = "idle"
    /\ phase' = [phase EXCEPT ![t] = "busy"]
    /\ req' = [req EXCEPT ![t] = r]
    /\ UNCHANGED <<vol, res, leftVars>>

Busy(t, ms) == phase[t] = "busy" /\ req[t].m \in ms

\* Caller t makes v of the volume it named.
Makes(t, v) ==
    /\ vol' = [vol EXCEPT ![req[t].name] = v]
    /\ UNCHANGED <<phase, req, res, leftVars>>

\* A unit at which no volume of the VM is.
FreeAt(vm, u) == \A n \in Names : vol[n].vm = vm => vol[n].unit # u

\* When a call may change its volume: AttachDisk takes it from any VM but the
\* one it is to attach it to.
MayCreate(t) == Busy(t, {"CreateDisk"}) /\ ~vol[req[t].name].here
MayDetach(t) == /\ Busy(t, {"DetachDisk", "DeleteDisk", "AttachDisk"})
                /\ vol[req[t].name].vm # None
                /\ req[t].m = "AttachDisk" => vol[req[t].name].vm # req[t].vm
Unattached(t, m) ==
    Busy(t, {m}) /\ vol[req[t].name].here /\ vol[req[t].name].vm = None

Created(t) ==
    /\ MayCreate(t)
    /\ Makes(t, [NoVolume EXCEPT !.here = TRUE, !.size = req[t].size])

Detached(t) ==
    /\ MayDetach(t)
    /\ Makes(t, [vol[req[t].name] EXCEPT !.vm = None, !.unit = 0])

Deleted(t) == Unattached(t, "DeleteDisk") /\ Makes(t, NoVolume)

Attached(t) ==
    /\ Unattached(t, "AttachDisk")
    /\ \E u \in Units :
          /\ FreeAt(req[t].vm, u)
          /\ Makes(t, [vol[req[t].name] EXCEPT !.vm = req[t].vm, !.unit = u])

ResizedAttached(t) ==
    /\ Busy(t, {"ResizeDisk"}) /\ vol[req[t].name].here
    /\ Makes(t, [vol[req[t].name] EXCEPT !.size = req[t].size])

Resized(t) ==
    /\ Unattached(t, "ResizeDisk")
    /\ Makes(t, [vol[req[t].name] EXCEPT !.size = req[t].size])

\* What holds when the call of t returns without an error.
Achieved(t) ==
    LET v == vol[req[t].name] IN
    CASE req[t].m = "CreateDisk" -> v.here
      [] req[t].m = "DeleteDisk" -> SureDelete => ~v.here
      [] req[t].m = "AttachDisk" -> v.here /\ v.vm = req[t].vm
      [] req[t].m = "DetachDisk" -> v.vm = None
      [] req[t].m = "ResizeDisk" -> v.here /\ v.vm = None /\ v.size = req[t].size
      [] OTHER -> TRUE

\* What it returns: where the volume is, or all volumes.
Answer(t) ==
    [NoRes EXCEPT
        !.unit = IF req[t].m = "AttachDisk" THEN vol[req[t].name].unit ELSE 0,
        !.list = IF req[t].m = "ListVolumes" THEN Listing ELSE {}]

Finish(t, r) ==
    /\ phase' = [phase EXCEPT ![t] = "done"]
    /\ res' = [res EXCEPT ![t] = r]
    /\ UNCHANGED <<vol, req, leftVars>>

Succeeds(t) == phase[t] = "busy" /\ Achieved(t) /\ Finish(t, Answer(t))

\* ErrDiskAttachedToVm says that the volume is attached.
Refuses(t) ==
    /\ phase[t] = "busy"
    /\ \E e \in Errs \ {"nil"} :
          /\ e = "ErrDiskAttachedToVm" =>
                req[t].m = "ResizeDisk" /\ vol[req[t].name].vm # None
          /\ Finish(t, [NoRes EXCEPT !.err = e])

Taken(t) ==
    /\ phase[t] = "done"
    /\ phase' = [phase EXCEPT ![t] = "idle"]
    /\ req' = [req EXCEPT ![t] = NoReq]
    /\ res' = [res EXCEPT ![t] = NoRes]
    /\ UNCHANGED <<vol, leftVars>>

ServiceStep(t) ==
    \/ Created(t) \/ Detached(t) \/ Deleted(t) \/ Attached(t) \/ Resized(t)

ServiceNext ==
    \E t \in Threads :
        \/ \E r \in Requests : Begin(t, r)
        \/ ServiceStep(t)
        \/ Succeeds(t) \/ Refuses(t)
        \/ Taken(t)

ServiceSpec == ServiceInit /\ [][ServiceNext]_serviceVars

-----------------------------------------------------------------------------
(* Requests left behind *)

\* Nobody waits any more for this request of t, which the cloud has.
Left(t, kind, vm, u) ==
    /\ left' = left \cup {[kind |-> kind, name |-> req[t].name, vm |-> vm, unit |-> u,
                           size |-> req[t].size]}
    /\ Cardinality(left') <= MaxLeft
    /\ stray' = stray \cup {req[t].name}

(***************************************************************************)
(* A call leaves behind the one request it may have in the cloud: those of *)
(* its method that the cloud has not run.                                  *)
(***************************************************************************)
Leaves(t) ==
    \/ MayCreate(t) /\ Left(t, "create", None, 0)
    \/ MayDetach(t) /\ Left(t, "detach", vol[req[t].name].vm, 0)
    \/ Unattached(t, "DeleteDisk") /\ Left(t, "delete", None, 0)
    \/ /\ Unattached(t, "AttachDisk")
       /\ \E u \in Units : FreeAt(req[t].vm, u) /\ Left(t, "attach", req[t].vm, u)
    \/ Unattached(t, "ResizeDisk") /\ Left(t, "resize", None, 0)

\* The answer to it is lost, and the call returns an error.
AnswerLost(t) ==
    /\ Leaves(t)
    /\ phase' = [phase EXCEPT ![t] = "done"]
    /\ res' = [res EXCEPT ![t] = [NoRes EXCEPT !.err = "other"]]
    /\ UNCHANGED <<vol, req>>

\* The cloud does what it was asked for if it still can; a resize does not look
\* at where the volume is.
LeftPossible(k) ==
    LET v == vol[k.name] IN
    CASE k.kind = "create" -> ~v.here
      [] k.kind = "delete" -> v.here /\ v.vm = None
      [] k.kind = "attach" -> v.here /\ v.vm = None /\ FreeAt(k.vm, k.unit)
      [] k.kind = "detach" -> v.vm # None /\ v.vm = k.vm
      [] k.kind = "resize" -> v.here

LeftResult(k) ==
    LET v == vol[k.name] IN
    CASE k.kind = "create" -> [NoVolume EXCEPT !.here = TRUE, !.size = k.size]
      [] k.kind = "delete" -> NoVolume
      [] k.kind = "attach" -> [v EXCEPT !.vm = k.vm, !.unit = k.unit]
      [] k.kind = "detach" -> [v EXCEPT !.vm = None, !.unit = 0]
      [] k.kind = "resize" -> [v EXCEPT !.size = k.size]

LeftRuns(k) ==
    /\ LeftPossible(k)
    /\ vol' = [vol EXCEPT ![k.name] = LeftResult(k)]
    /\ left' = left \ {k}
    /\ UNCHANGED <<phase, req, res, stray>>

LeftDropped(k) ==
    /\ left' = left \ {k}
    /\ UNCHANGED <<vol, phase, req, res, stray>>

\* What a call returns for a stray volume need not be true of it: a request
\* left behind may have changed it since the call looked.
Misled(t) ==
    /\ phase[t] = "busy" /\ req[t].name \in stray
    /\ \E e \in Errs, u \in Units :
          /\ u # 0 => e = "nil" /\ req[t].m = "AttachDisk"
          /\ Finish(t, [NoRes EXCEPT !.err = e, !.unit = u])
=============================================================================
