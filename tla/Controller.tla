----------------------------- MODULE Controller -----------------------------
(***************************************************************************)
(* internal/driver/disk.go with internal/locker/locker.go: the controller  *)
(* RPCs of the CSI driver, on top of what the client promises              *)
(* (VolumeService).  Three sidecars call them: the provisioner creates and *)
(* deletes, the attacher publishes and unpublishes, the resizer expands.   *)
(* A handler runs in its own goroutine and ignores its context, so it goes *)
(* on when its caller has given up and tries again.                        *)
(*                                                                         *)
(* An Expand of an attached volume puts the name into the locker, so that  *)
(* the next Publish is refused and the volume stays detached for a resize. *)
(***************************************************************************)
EXTENDS VolumeService, Capacity

CONSTANTS
    Vms,          \* node ids
    CreateRanges, \* the capacity ranges a volume may be created with
    Ranges,       \* the capacity ranges a volume may be expanded to
    Patient,      \* a sidecar waits for an answer before it calls again
    Crashes       \* the process may be killed, and answers of the cloud be lost

ASSUME ControllerAssumption ==
    /\ Ranges \subseteq CapacityRange
    /\ CreateRanges \subseteq CapacityRange
    /\ Patient \in BOOLEAN /\ Crashes \in BOOLEAN
    /\ None \notin Names \cup Vms

VARIABLES
    lock, \* SimpleLock.storage: the names in the locker
    at,   \* where each handler is
    rpc,  \* its request
    size, \* Expand: the bytes it resizes to (resizeBytes)
    reply \* its response

handlerVars == <<at, rpc, size, reply>>
controllerVars == <<serviceVars, lock, handlerVars>>

Codes == {"OK", "InvalidArgument", "AlreadyExists", "OutOfRange", "NotFound",
          "FailedPrecondition", "Internal", "Unknown"}

NoRange == [required |-> 0, limit |-> 0, given |-> FALSE]
NoRpc == [op |-> "none", name |-> None, vm |-> None, range |-> NoRange, valid |-> TRUE]
NoReply == [code |-> "OK", unit |-> 0, cap |-> 0]

ControllerInit ==
    /\ ServiceInit
    /\ lock = {}
    /\ at = [t \in Threads |-> "idle"]
    /\ rpc = [t \in Threads |-> NoRpc]
    /\ size = [t \in Threads |-> 0]
    /\ reply = [t \in Threads |-> NoReply]

-----------------------------------------------------------------------------
(* The sidecars. *)

Sidecar(op) == CASE op \in {"Create", "Delete"} -> "provisioner"
                 [] op \in {"Publish", "Unpublish"} -> "attacher"
                 [] OTHER -> op

\* valid: the request has the fields and capabilities the handler asks for.
Rpcs ==
    [op: {"Create"}, name: Names, vm: {None}, range: CreateRanges, valid: BOOLEAN]
    \cup [op: {"Delete"}, name: Names, vm: {None}, range: {NoRange}, valid: BOOLEAN]
    \cup [op: {"Publish", "Unpublish"}, name: Names, vm: Vms, range: {NoRange},
          valid: BOOLEAN]
    \cup [op: {"List"}, name: {None}, vm: {None}, range: {NoRange}, valid: {TRUE}]
    \cup [op: {"Expand"}, name: Names, vm: {None}, range: Ranges, valid: BOOLEAN]

\* Two calls that do not overlap when the sidecars wait for their answers: those
\* of one sidecar for one volume, and a Create and an Expand of it, since only a
\* volume that has been created is expanded, and no name is given out again.
Conflict(r, q) ==
    /\ r.name = q.name
    /\ Sidecar(r.op) = Sidecar(q.op) \/ {r.op, q.op} = {"Create", "Expand"}

Receive(t, r) ==
    /\ at[t] = "idle"
    /\ Patient => \A u \in Threads : at[u] # "idle" => ~Conflict(rpc[u], r)
    /\ at' = [at EXCEPT ![t] = "begin"]
    /\ rpc' = [rpc EXCEPT ![t] = r]
    /\ UNCHANGED <<serviceVars, lock, size, reply>>

-----------------------------------------------------------------------------
(* What handlers do. *)

\* The handler calls method m of the client and goes to location l.
CallClient(t, l, m, mb) ==
    /\ Begin(t, [m |-> m, name |-> IF m = "ListVolumes" THEN None ELSE rpc[t].name,
                 vm |-> rpc[t].vm, size |-> mb])
    /\ at' = [at EXCEPT ![t] = l]
    /\ UNCHANGED <<rpc, reply>>

Respond(t, code, unit, cap) ==
    /\ at' = [at EXCEPT ![t] = "done"]
    /\ reply' = [reply EXCEPT ![t] = [code |-> code, unit |-> unit, cap |-> cap]]
    /\ UNCHANGED <<rpc, size>>

Rejects(t, code) == Respond(t, code, 0, 0) /\ UNCHANGED <<serviceVars, lock>>

\* An Expand without a capacity range, which makes its handler panic before
\* it checks anything (disk.go:331).
NilRange(t) == at[t] = "begin" /\ rpc[t].op = "Expand" /\ ~rpc[t].range.given

\* The checks of the request at the start of every handler.  A Publish for
\* reading only is refused as AlreadyExists.
RejectInvalid(t) ==
    /\ at[t] = "begin" /\ ~rpc[t].valid /\ ~NilRange(t)
    /\ \/ Rejects(t, "InvalidArgument")
       \/ rpc[t].op = "Publish" /\ Rejects(t, "AlreadyExists")

\* The step of thread t at the start of a handler for op.
Enters(t, op) == at[t] = "begin" /\ rpc[t].valid /\ rpc[t].op = op

\* The client has answered the call made at location l.
ClientDone(t, l) == at[t] = l /\ phase[t] = "done"

CreateVolume(t) ==
    LET b == extractStorage(rpc[t].range) IN
    /\ Enters(t, "Create")
    /\ \/ b = Invalid /\ Rejects(t, "OutOfRange")
       \/ /\ b # Invalid
          /\ CallClient(t, "create", "CreateDisk", Mb(b))
          /\ UNCHANGED <<lock, size>>

CreateVolumeEnds(t) ==
    /\ ClientDone(t, "create")
    /\ Taken(t)
    /\ IF res[t].err = "nil"
       THEN Respond(t, "OK", 0, extractStorage(rpc[t].range))
       ELSE Respond(t, "Unknown", 0, 0)
    /\ UNCHANGED lock

\* DeleteVolume, ControllerUnpublishVolume and ListVolumes are one call each.
SimpleCall == [Delete |-> "DeleteDisk", Unpublish |-> "DetachDisk",
               List |-> "ListVolumes"]

PassOnInBackground(t) ==
    /\ \E op \in DOMAIN SimpleCall :
          /\ Enters(t, op)
          /\ CallClient(t, "done", SimpleCall[op], 0)
    /\ UNCHANGED <<lock, size>>

PassOn(t) ==
    /\ \E op \in DOMAIN SimpleCall :
          /\ Enters(t, op)
          /\ CallClient(t, "passed", SimpleCall[op], 0)
    /\ UNCHANGED <<lock, size>>

PassOnEnds(t) ==
    /\ ClientDone(t, "passed")
    /\ Taken(t)
    /\ Respond(t, IF res[t].err = "nil" THEN "OK"
                  ELSE IF rpc[t].op = "List" THEN "Unknown" ELSE "Internal", 0, 0)
    /\ UNCHANGED lock

-----------------------------------------------------------------------------
(* The locker. *)

\* IsLocked takes the name out of the locker when it finds it there.
IsLockedBlocks(n) == FALSE
IsLocked(n) == n \in lock /\ lock' = lock \ {n}
NotLocked(n) == n \notin lock /\ UNCHANGED lock

Put(n) == lock' = lock \cup {n}
Pop(n) == lock' = lock \ {n}

-----------------------------------------------------------------------------
(* ControllerPublishVolume *)

ControllerPublishVolume(t) ==
    /\ Enters(t, "Publish")
    /\ \/ /\ IsLocked(rpc[t].name)
          /\ Respond(t, "Internal", 0, 0)
          /\ UNCHANGED serviceVars
       \/ /\ NotLocked(rpc[t].name)
          /\ CallClient(t, "publish", "AttachDisk", 0)
          /\ UNCHANGED size

\* The code for an error of AttachDisk.
PublishCode(err) == CASE err = "ErrVmNotFound" -> "NotFound"
                      [] err = "ErrWrongDiskAttach" -> "FailedPrecondition"
                      [] OTHER -> "Internal"

\* PublishContext holds the unit number.
UnitPublishedNever(t) == 0
UnitPublishedUnset(t) == -1
UnitPublished(t) == res[t].unit

PublishEnds(t) ==
    /\ ClientDone(t, "publish")
    /\ Taken(t)
    /\ IF res[t].err = "nil"
       THEN Respond(t, "OK", UnitPublished(t), 0)
       ELSE Respond(t, PublishCode(res[t].err), 0, 0)
    /\ UNCHANGED lock

-----------------------------------------------------------------------------
(* ControllerExpandVolume *)

ExpandList(t) ==
    /\ Enters(t, "Expand") /\ ~NilRange(t)
    /\ CallClient(t, "list", "ListVolumes", 0)
    /\ UNCHANGED <<lock, size>>

\* currentDiskCap: what the list shows for the volume.
Listed(t) == {FromMb(v.size) : v \in {e \in res[t].list : e.name = rpc[t].name}}

SkipResizeNever(b, current) == FALSE
SkipResize(b, current) == b <= current

(***************************************************************************)
(* The list is there: the size is checked, a volume that is large enough   *)
(* is left alone, any other is resized.  (One that is not listed makes the *)
(* handler panic: disk.go:364.)                                            *)
(***************************************************************************)
ExpandDecide(t) ==
    LET b == extractStorage(rpc[t].range) IN
    /\ ClientDone(t, "list")
    /\ Taken(t)
    /\ \/ res[t].err # "nil" /\ Respond(t, "Unknown", 0, 0)
       \/ res[t].err = "nil" /\ b = Invalid /\ Respond(t, "OutOfRange", 0, 0)
       \/ /\ res[t].err = "nil" /\ b # Invalid
          /\ \E current \in Listed(t) :
                \/ SkipResize(b, current) /\ Respond(t, "OK", 0, current)
                \/ /\ ~SkipResize(b, current)
                   /\ at' = [at EXCEPT ![t] = "resize"]
                   /\ size' = [size EXCEPT ![t] = b]
                   /\ UNCHANGED <<rpc, reply>>
    /\ UNCHANGED lock

ExpandResize(t) ==
    /\ at[t] = "resize" /\ phase[t] = "idle"
    /\ CallClient(t, "resizing", "ResizeDisk", Mb(size[t]))
    /\ UNCHANGED <<lock, size>>

ExpandResizedUnchecked(t) ==
    /\ ClientDone(t, "resizing")
    /\ Taken(t)
    /\ at' = [at EXCEPT ![t] = "pop"]
    /\ UNCHANGED <<rpc, size, reply, lock>>

ExpandResized(t) ==
    /\ ClientDone(t, "resizing")
    /\ Taken(t)
    /\ \/ res[t].err = "nil" /\ at' = [at EXCEPT ![t] = "pop"]
                             /\ UNCHANGED <<rpc, size, reply>>
       \/ res[t].err = "ErrDiskAttachedToVm" /\ at' = [at EXCEPT ![t] = "put"]
                                             /\ UNCHANGED <<rpc, size, reply>>
       \/ res[t].err \notin {"nil", "ErrDiskAttachedToVm"} /\ Respond(t, "Internal", 0, 0)
    /\ UNCHANGED lock

ExpandPop(t) ==
    /\ at[t] = "pop"
    /\ Pop(rpc[t].name)
    /\ Respond(t, "OK", 0, size[t])
    /\ UNCHANGED serviceVars

ExpandPut(t) ==
    /\ at[t] = "put"
    /\ Put(rpc[t].name)
    /\ Respond(t, "Internal", 0, 0)
    /\ UNCHANGED serviceVars

-----------------------------------------------------------------------------
(* The end of a call, and of the process. *)

Answered(t) ==
    /\ at[t] = "done"
    /\ at' = [at EXCEPT ![t] = "idle"]
    /\ rpc' = [rpc EXCEPT ![t] = NoRpc]
    /\ size' = [size EXCEPT ![t] = 0]
    /\ reply' = [reply EXCEPT ![t] = NoReply]
    /\ UNCHANGED <<serviceVars, lock>>

(***************************************************************************)
(* The locker, the handlers and their calls are gone; the volumes stay,    *)
(* and so does the request that a call may have had in the cloud: there is *)
(* at most one, since a call holds the mutex of the client while it waits. *)
(***************************************************************************)
Restart ==
    /\ UNCHANGED leftVars \/ \E t \in Threads : Leaves(t)
    /\ lock' = {}
    /\ at' = [t \in Threads |-> "idle"]
    /\ rpc' = [t \in Threads |-> NoRpc]
    /\ size' = [t \in Threads |-> 0]
    /\ reply' = [t \in Threads |-> NoReply]
    /\ phase' = [t \in Threads |-> "idle"]
    /\ req' = [t \in Threads |-> NoReq]
    /\ res' = [t \in Threads |-> NoRes]
    /\ UNCHANGED vol

\* A nil dereference in a handler ends the process: nothing recovers from it.
ExpandPanics(t) ==
    /\ \/ NilRange(t)
       \/ /\ ClientDone(t, "list") /\ res[t].err = "nil"
          /\ extractStorage(rpc[t].range) # Invalid
          /\ Listed(t) = {}
    /\ Restart

(***************************************************************************)
(* Put writes the map without the mutex that IsLocked and Pop take, so it  *)
(* may meet another access, which the Go runtime may answer by ending the  *)
(* process ("concurrent map writes").                                      *)
(***************************************************************************)
AtMap(t) == at[t] \in {"put", "pop"} \/ Enters(t, "Publish")
MapRace ==
    /\ \E t, u \in Threads : t # u /\ at[t] = "put" /\ AtMap(u)
    /\ Restart

Killed == Crashes /\ Restart

Handler(t) ==
    \/ RejectInvalid(t)
    \/ CreateVolume(t) \/ CreateVolumeEnds(t)
    \/ PassOn(t) \/ PassOnEnds(t)
    \/ ControllerPublishVolume(t) \/ PublishEnds(t)
    \/ ExpandList(t) \/ ExpandDecide(t) \/ ExpandResize(t) \/ ExpandResized(t)
    \/ ExpandPop(t) \/ ExpandPut(t) \/ ExpandPanics(t)
    \/ Answered(t)

Client(t) ==
    /\ \/ ServiceStep(t) \/ Succeeds(t) \/ Refuses(t)
       \/ Crashes /\ AnswerLost(t)
       \/ Misled(t)
    /\ UNCHANGED <<lock, handlerVars>>

\* The cloud gets to a request left behind, or loses it.
Cloud ==
    /\ \E k \in left : LeftRuns(k) \/ LeftDropped(k)
    /\ UNCHANGED <<lock, handlerVars>>

ControllerNext ==
    \/ \E t \in Threads : (\E r \in Rpcs : Receive(t, r)) \/ Handler(t) \/ Client(t)
    \/ MapRace \/ Killed \/ Cloud

ControllerSpec == ControllerInit /\ [][ControllerNext]_controllerVars

\* Handlers run, and a call of the client returns (VcdClient!CallsReturn).
ControllerFairness ==
    \A t \in Threads : /\ WF_controllerVars(Handler(t))
                       /\ WF_controllerVars((Succeeds(t) \/ Refuses(t))
                                              /\ UNCHANGED <<lock, handlerVars>>)

FairControllerSpec == ControllerSpec /\ ControllerFairness

-----------------------------------------------------------------------------
(* Properties *)

ControllerTypeOK ==
    /\ lock \subseteq Names
    /\ at \in [Threads -> {"idle", "begin", "create", "passed", "publish", "list",
                           "resize", "resizing", "pop", "put", "done"}]
    /\ rpc \in [Threads -> Rpcs \cup {NoRpc}]
    /\ size \in [Threads -> Nat]
    /\ reply \in [Threads -> [code: Codes, unit: Units, cap: Nat]]
    /\ vol \in [Names -> [size: Nat, vm: Vms \cup {None}, unit: Units, here: BOOLEAN]]
    /\ stray \subseteq Names
    /\ left \subseteq [kind: {"create", "delete", "attach", "detach", "resize"}, name: stray,
                      vm: Vms \cup {None}, unit: Units, size: Nat]

\* The handler of t is about to answer op without an error.
AnswersOk(t, op) == at[t] = "done" /\ rpc[t].op = op /\ reply[t].code = "OK"

(***************************************************************************)
(* ControllerExpandVolume never makes a volume smaller: between the list   *)
(* it looks at and the resize, no other handler makes the volume larger    *)
(* (disk.go:364-368, "skipping volume resize because current volume size   *)
(* exceeds requested volume size"), and the truncation of Mb keeps what    *)
(* the volume has.  A resize left behind in the cloud may come later and   *)
(* undo another: a stray volume is left out.                               *)
(***************************************************************************)
ExpandNeverShrinks ==
    [][\A n \in Names \ stray :
          vol[n].here /\ vol'[n].here => vol'[n].size >= vol[n].size]_vol

(***************************************************************************)
(* A ControllerExpandVolume that answers without an error has given the    *)
(* volume all whole MBs that were required, whether it resized it or found *)
(* it large enough (disk.go:364-401), and whatever calls of others came    *)
(* between its list, its resize and its answer.                            *)
(***************************************************************************)
ExpandedIsLarge ==
    \A t \in Threads :
        LET n == rpc[t].name IN
        AnswersOk(t, "Expand") /\ n \notin stray /\ vol[n].here =>
            Mb(rpc[t].range.required) <= vol[n].size

(***************************************************************************)
(* The unit in the publish context (disk.go:194-200) is the one at which   *)
(* the node will find the volume, as long as the volume is there and no    *)
(* request for it has been left behind.                                    *)
(***************************************************************************)
PublishedUnit ==
    \A t \in Threads :
        LET n == rpc[t].name IN
        AnswersOk(t, "Publish") /\ n \notin stray /\ vol[n].vm = rpc[t].vm =>
            vol[n].unit = reply[t].unit

(***************************************************************************)
(* The capacity that is answered fits the request: CreateVolume reports    *)
(* what the range allows (disk.go:88-95), ControllerExpandVolume at least  *)
(* what is required, also when it leaves the volume alone (disk.go:371),   *)
(* and neither accepts a range in conflict with itself.                    *)
(***************************************************************************)
CapacityAnswered ==
    \A t \in Threads :
        /\ AnswersOk(t, "Create") => Satisfies(reply[t].cap, rpc[t].range)
        /\ AnswersOk(t, "Expand") => /\ reply[t].cap >= rpc[t].range.required
                                     /\ ~RefusedRange(rpc[t].range)

(***************************************************************************)
(* Every RPC is answered, or ends with the process: no handler waits for   *)
(* the locker or for another handler (disk.go:167-169).                    *)
(***************************************************************************)
RpcsAnswered == \A t \in Threads : at[t] # "idle" ~> at[t] = "idle"

(***************************************************************************)
(* "disk is attached, locking it with mutex, you have to delete pod"       *)
(* (disk.go:380) and "Resize required for volume, not publishing"          *)
(* (disk.go:168): a name stays in the locker until the volume is resized,  *)
(* or the process ends.                                                    *)
(***************************************************************************)
LockedUntilResized ==
    [][\A n \in lock \ lock' : \/ \E t \in Threads : at[t] = "pop" /\ rpc[t].name = n
                               \/ \A t \in Threads : at'[t] = "idle"]_lock
=============================================================================
