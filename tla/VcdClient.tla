------------------------------ MODULE VcdClient ------------------------------
(***************************************************************************)
(* pkg/vcd-client/client.go: the client through which the driver creates,  *)
(* deletes, attaches, detaches, resizes and lists the independent disks    *)
(* of vCloud Director.                                                     *)
(*                                                                         *)
(* Every public method takes v.mt, refreshes the authentication and then   *)
(* makes a sequence of API calls.  One call of the cloud API is one step   *)
(* here, so the reads of a method may be stale when it acts on them.       *)
(* A request that changes the cloud is sent (a task is started), runs in   *)
(* the cloud at some later moment, and is waited for.  When the client     *)
(* loses the answer, or the process crashes, the request stays behind as   *)
(* an orphan which the cloud may still run, or drop.                       *)
(***************************************************************************)
EXTENDS Integers, FiniteSets

CONSTANTS
    Threads,       \* goroutines of the gRPC server, one call each at a time
    Vdcs,          \* keys of v.VdcClients: the VDCs in the configuration
    Names,         \* disk names, the CSI volume ids
    Vms,           \* names of the Kubernetes nodes
    Hrefs,         \* references the cloud can give to disks (bounds the disks)
    HomeVdc,       \* the "vcd" parameter a volume is created with
    VmVdc,         \* the VDC that holds a VM (a value outside Vdcs: no VM)
    Sizes,         \* disk sizes, in MB
    ReservedUnits, \* the units of the bus kept for the driver: 8..15
    ForeignUnits,  \* units of the bus taken by disks of other owners, per VM
    Faults,        \* what can go wrong: see FaultKinds
    MaxOrphans,    \* bound on the requests left behind in the cloud
    None

(***************************************************************************)
(* "api": a read of the API or the authentication fails;  "lost": the      *)
(* answer to a request that changes the cloud is lost;  "crash": the       *)
(* process dies and is restarted.                                          *)
(***************************************************************************)
FaultKinds == {"api", "lost", "crash"}

ASSUME ConstantsAssumption ==
    /\ None \notin Threads \cup Vdcs \cup Names \cup Vms \cup Hrefs
    /\ DOMAIN HomeVdc = Names
    /\ DOMAIN VmVdc = Vms
    /\ Sizes \subseteq Nat \ {0}
    /\ ReservedUnits \subseteq Nat \ {0}
    /\ ForeignUnits \in [Vms -> SUBSET Nat]
    /\ Faults \subseteq FaultKinds
    /\ MaxOrphans \in Nat

VARIABLES
    disk,    \* the cloud: the disk behind each reference
    orphans, \* requests in the cloud that no thread waits for any more
    mt,      \* v.mt: the thread that holds the mutex
    pc,      \* where each thread is
    call,    \* the method each thread executes, with its arguments
    loc,     \* local variables of the method
    task,    \* the request a thread waits for
    tst,     \* the state of that request
    ret      \* the result of the method

vars == <<disk, orphans, mt, pc, call, loc, task, tst, ret>>

cloudVars == <<disk, orphans>>
taskVars == <<task, tst>>

Methods == {"CreateDisk", "DeleteDisk", "AttachDisk", "DetachDisk",
            "ResizeDisk", "ListVolumes"}

\* client.go:41-48; "other" stands for every error that no caller tells apart.
Errors == {"nil", "ErrVmNotFound", "ErrDiskNotExists", "ErrWrongDiskAttach",
           "ErrDiskAttachedToVm", "other"}

Disk == [name: Names \cup {None}, size: Sizes \cup {0},
         vm: Vms \cup {None}, unit: Nat]
NoDisk == [name |-> None, size |-> 0, vm |-> None, unit |-> 0]

Call == [m: Methods \cup {"none"}, name: Names \cup {None},
         vm: Vms \cup {None}, size: Sizes \cup {0}]
NoCall == [m |-> "none", name |-> None, vm |-> None, size |-> 0]

Request == [kind: {"none", "create", "delete", "attach", "detach", "resize"},
            href: Hrefs \cup {None}, name: Names \cup {None},
            vm: Vms \cup {None}, unit: Nat, size: Sizes \cup {0}]
NoRequest == [kind |-> "none", href |-> None, name |-> None,
              vm |-> None, unit |-> 0, size |-> 0]

Volume == [name: Names, size: Sizes \cup {0}]

(***************************************************************************)
(* todo: VDCs the loop has not visited;  cur: the VDC it is at;  spec: the *)
(* disks in the settings of the VM to attach to, as AttachDisk read them;  *)
(* disk: the disk the method found;  ddisk, avm: the disk and the VM that  *)
(* detachDisk found;  list: what ListVolumes has collected.                *)
(***************************************************************************)
Locals == [todo: SUBSET Vdcs, cur: Vdcs \cup {None},
           spec: SUBSET (Hrefs \X Nat), disk: Hrefs \cup {None},
           ddisk: Hrefs \cup {None}, avm: Vms \cup {None},
           list: SUBSET Volume]
NoLocals == [todo |-> {}, cur |-> None, spec |-> {}, disk |-> None,
             ddisk |-> None, avm |-> None, list |-> {}]

Result == [err: Errors, unit: Nat, list: SUBSET Volume]
NoResult == [err |-> "nil", unit |-> 0, list |-> {}]

\* Locations at which a thread holds v.mt, and those at which it waits for a task.
WaitLocations == {"CreateWait", "DeleteWait", "AttachWait", "DetachWait",
                  "ResizeWait"}
Inside == {"Auth", "Vdc", "Create", "DelDisk", "DelSend", "AttVm", "AttDisk",
           "AttSend", "DetDisk", "DetVm", "Resize", "List"} \cup WaitLocations
Locations == {"Idle", "Lock", "Done"} \cup Inside

Init ==
    /\ disk = [h \in Hrefs |-> NoDisk]
    /\ orphans = {}
    /\ mt = None
    /\ pc = [t \in Threads |-> "Idle"]
    /\ call = [t \in Threads |-> NoCall]
    /\ loc = [t \in Threads |-> NoLocals]
    /\ task = [t \in Threads |-> NoRequest]
    /\ tst = [t \in Threads |-> "none"]
    /\ ret = [t \in Threads |-> NoResult]

-----------------------------------------------------------------------------
(* What the API calls read. *)

\* GetDisksByName: names are not unique in the cloud, references are.
DisksNamed(w, n) == {h \in Hrefs : disk[h].name = n /\ HomeVdc[n] = w}

\* The independent disks in VmSpecSection.DiskSection.DiskSettings of a VM.
DisksAt(m) == {h \in Hrefs : disk[h].name # None /\ disk[h].vm = m}
DiskSettings(m) == {<<h, disk[h].unit>> : h \in DisksAt(m)}

UnitsOf(spec, m) == {p[2] : p \in spec} \cup ForeignUnits[m]

\* disksExists, which CreateDisk asks before it creates.
DiskExistsNever(n) == FALSE
DiskExists(n) == DisksNamed(HomeVdc[n], n) # {}

\* ResizeDisk refuses a disk that is attached.
ResizeAllowedAlways(h) == TRUE
ResizeAllowed(h) == disk[h].vm = None

\* getFreeUnitNum: the reserved units that the settings of the VM leave free.
FreeUnitsNoSettings(spec, m) == ReservedUnits \ ForeignUnits[m]
FreeUnits(spec, m) == ReservedUnits \ UnitsOf(spec, m)

(***************************************************************************)
(* The unit AttachDisk asks for.  getFreeUnitNum takes the first free one  *)
(* in the random order of a Go map.  Without a free unit it returns 0 and  *)
(* ErrNoFreeUnits, but AttachDisk assigns err again before it looks at it  *)
(* (client.go:425-426), so it goes on with unit 0.                         *)
(***************************************************************************)
UnitChoicesMinusOne(spec, m) ==
    IF FreeUnits(spec, m) = {} THEN {-1} ELSE FreeUnits(spec, m)
UnitChoices(spec, m) ==
    IF FreeUnits(spec, m) = {} THEN {0} ELSE FreeUnits(spec, m)

-----------------------------------------------------------------------------
(* Steps shared by the methods. *)

Goto(t, l) == pc' = [pc EXCEPT ![t] = l]

\* The deferred v.mt.Unlock().
UnlockForgotten == UNCHANGED mt
Unlock == mt' = None

\* The method returns.
Return(t, e, u, l) ==
    /\ ret' = [ret EXCEPT ![t] = [err |-> e, unit |-> u, list |-> l]]
    /\ Goto(t, "Done")
    /\ loc' = [loc EXCEPT ![t] = NoLocals]
    /\ task' = [task EXCEPT ![t] = NoRequest]
    /\ tst' = [tst EXCEPT ![t] = "none"]
    /\ Unlock
    /\ UNCHANGED call

Fails(t, e) == Return(t, e, 0, {})

\* The method goes on at location l with its local variables set to r.
Continue(t, l, r) ==
    /\ Goto(t, l)
    /\ loc' = [loc EXCEPT ![t] = r]
    /\ task' = [task EXCEPT ![t] = NoRequest]
    /\ tst' = [tst EXCEPT ![t] = "none"]
    /\ UNCHANGED <<mt, call, ret>>

\* A request to change the cloud is sent, and its task waited for at l.
Send(t, l, k) ==
    /\ Goto(t, l)
    /\ task' = [task EXCEPT ![t] = k]
    /\ tst' = [tst EXCEPT ![t] = "pending"]
    /\ UNCHANGED <<mt, call, loc, ret>>

(***************************************************************************)
(* detachDisk returns to its caller: DetachDisk itself, DeleteDisk before  *)
(* it deletes the disk, or AttachDisk before it attaches it elsewhere.     *)
(***************************************************************************)
DetachReturns(t) ==
    \/ call[t].m = "DetachDisk" /\ Return(t, "nil", 0, {})
    \/ call[t].m = "DeleteDisk" /\ Continue(t, "DelSend", loc[t])
    \/ call[t].m = "AttachDisk" /\ Continue(t, "AttSend", loc[t])

\* ... with an error: only DetachDisk tells a missing disk from other errors.
DetachFails(t, notFound) ==
    \/ call[t].m = "DetachDisk" /\ notFound /\ Continue(t, "Vdc", loc[t])
    \/ call[t].m = "DetachDisk" /\ ~notFound /\ Fails(t, "other")
    \/ call[t].m = "DeleteDisk" /\ Fails(t, "other")
    \/ call[t].m = "AttachDisk" /\ Fails(t, "ErrWrongDiskAttach")

-----------------------------------------------------------------------------
(* A call: the mutex, the authentication, the loop over the VDCs. *)

Invoke(t, c) ==
    /\ pc[t] = "Idle"
    /\ Goto(t, "Lock")
    /\ call' = [call EXCEPT ![t] = c]
    /\ UNCHANGED <<cloudVars, mt, loc, taskVars, ret>>

(***************************************************************************)
(* The calls the driver can make.  The vdc argument of CreateDisk and      *)
(* ResizeDisk is not in the record, it is HomeVdc[name]: a volume is       *)
(* always created with the same "vcd" parameter, and ListVolumes names the *)
(* VDC its disk is in.                                                     *)
(***************************************************************************)
Calls ==
    [m: {"CreateDisk", "ResizeDisk"}, name: Names, vm: {None}, size: Sizes]
    \cup [m: {"AttachDisk", "DetachDisk"}, name: Names, vm: Vms, size: {0}]
    \cup [m: {"DeleteDisk"}, name: Names, vm: {None}, size: {0}]
    \cup [m: {"ListVolumes"}, name: {None}, vm: {None}, size: {0}]

LockWithoutWaiting(t) ==
    /\ pc[t] = "Lock"
    /\ mt' = t
    /\ Goto(t, "Auth")
    /\ UNCHANGED <<cloudVars, call, loc, taskVars, ret>>

Lock(t) ==
    /\ pc[t] = "Lock"
    /\ mt = None
    /\ mt' = t
    /\ Goto(t, "Auth")
    /\ UNCHANGED <<cloudVars, call, loc, taskVars, ret>>

\* Where a method goes once it is authenticated: the methods that are not told
\* the VDC loop over all of them.
Body == [CreateDisk |-> "Create", ResizeDisk |-> "Resize", AttachDisk |-> "Vdc",
         DetachDisk |-> "Vdc", DeleteDisk |-> "Vdc", ListVolumes |-> "Vdc"]

\* refreshAuth, rebuilding the clients when the session has expired.
RefreshAuth(t) ==
    LET start == Body[call[t].m] IN
    /\ pc[t] = "Auth"
    /\ Continue(t, start,
                [loc[t] EXCEPT !.todo = IF start = "Vdc" THEN Vdcs ELSE {}])
    /\ UNCHANGED cloudVars

\* What a method does in each VDC.
LoopBody == [AttachDisk |-> "AttVm", DetachDisk |-> "DetDisk",
             DeleteDisk |-> "DelDisk", ListVolumes |-> "List"]

\* The next VDC, in the random order of a Go map, and its Refresh.
NextVdc(t) ==
    /\ pc[t] = "Vdc"
    /\ \E w \in loc[t].todo :
          Continue(t, LoopBody[call[t].m],
                   [loc[t] EXCEPT !.todo = @ \ {w}, !.cur = w])
    /\ UNCHANGED cloudVars

\* The loop ends.  A disk that no VDC has is as good as detached or deleted.
NoMoreVdcs(t) ==
    /\ pc[t] = "Vdc"
    /\ loc[t].todo = {}
    /\ IF call[t].m = "AttachDisk" THEN Fails(t, "ErrVmNotFound")
                                   ELSE Return(t, "nil", 0, loc[t].list)
    /\ UNCHANGED cloudVars

-----------------------------------------------------------------------------
(* CreateDisk *)

\* disksExists, FindStorageProfileReference, and the request.
CreateSend(t) ==
    LET n == call[t].name IN
    /\ pc[t] = "Create"
    /\ \/ HomeVdc[n] \notin Vdcs /\ Fails(t, "other")
       \/ HomeVdc[n] \in Vdcs /\ DiskExists(n) /\ Return(t, "nil", 0, {})
       \/ /\ HomeVdc[n] \in Vdcs /\ ~DiskExists(n)
          /\ Send(t, "CreateWait", [NoRequest EXCEPT !.kind = "create",
                                      !.name = n, !.size = call[t].size])
    /\ UNCHANGED cloudVars

-----------------------------------------------------------------------------
(* DeleteDisk *)

\* getDiskByName and AttachedVM.  Unless there is exactly one disk of that name
\* the loop goes on with the next VDC.
DeleteFind(t) ==
    LET found == DisksNamed(loc[t].cur, call[t].name) IN
    /\ pc[t] = "DelDisk"
    /\ \/ /\ \A h \in Hrefs : found # {h}
          /\ Continue(t, "Vdc", loc[t])
       \/ \E h \in Hrefs :
             /\ found = {h}
             /\ Continue(t, IF disk[h].vm # None THEN "DetDisk" ELSE "DelSend",
                         [loc[t] EXCEPT !.disk = h])
    /\ UNCHANGED cloudVars

DeleteSend(t) ==
    /\ pc[t] = "DelSend"
    /\ Send(t, "DeleteWait",
            [NoRequest EXCEPT !.kind = "delete", !.href = loc[t].disk])
    /\ UNCHANGED cloudVars

-----------------------------------------------------------------------------
(* detachDisk, the helper behind DetachDisk, DeleteDisk and AttachDisk. *)

\* getDiskByName and AttachedVM.
DetachFind(t) ==
    LET found == DisksNamed(loc[t].cur, call[t].name) IN
    /\ pc[t] = "DetDisk"
    /\ \/ /\ \A h \in Hrefs : found # {h}
          /\ DetachFails(t, found = {})
       \/ \E h \in Hrefs :
             /\ found = {h}
             /\ disk[h].vm = None
             /\ DetachReturns(t)
       \/ \E h \in Hrefs :
             /\ found = {h}
             /\ disk[h].vm # None
             /\ Continue(t, "DetVm",
                         [loc[t] EXCEPT !.ddisk = h, !.avm = disk[h].vm])
    /\ UNCHANGED cloudVars

\* getVMByName of the attached VM; its settings give the unit to detach from.
\* A disk they do not show any more counts as detached.
DetachSend(t) ==
    LET h == loc[t].ddisk
        m == loc[t].avm
        here == {p \in DiskSettings(m) : p[1] = h} IN
    /\ pc[t] = "DetVm"
    /\ IF VmVdc[m] # loc[t].cur THEN DetachFails(t, FALSE)
       ELSE \/ here = {} /\ DetachReturns(t)
            \/ \E p \in here :
                  Send(t, "DetachWait",
                       [NoRequest EXCEPT !.kind = "detach", !.href = h,
                                         !.vm = m, !.unit = p[2]])
    /\ UNCHANGED cloudVars

-----------------------------------------------------------------------------
(* AttachDisk *)

\* getVMByName: a VDC without the VM is skipped, otherwise its settings are read.
AttachFindVm(t) ==
    LET m == call[t].vm IN
    /\ pc[t] = "AttVm"
    /\ \/ VmVdc[m] # loc[t].cur /\ Continue(t, "Vdc", loc[t])
       \/ /\ VmVdc[m] = loc[t].cur
          /\ Continue(t, "AttDisk", [loc[t] EXCEPT !.spec = DiskSettings(m)])
    /\ UNCHANGED cloudVars

\* The units at which the settings read before show disk h.
UnitsSeenNever(t, h) == {}
UnitsSeenOfAnyDisk(t, h) == {p[2] : p \in loc[t].spec}
UnitsSeen(t, h) == {p[2] : p \in {q \in loc[t].spec : q[1] = h}}

(***************************************************************************)
(* getDiskByName and AttachedVM.  A disk that already is at this VM, and   *)
(* in the settings of the VM, is reported as it is; one that is attached   *)
(* otherwise is detached first.                                            *)
(***************************************************************************)
AttachFindDisk(t) ==
    LET found == DisksNamed(loc[t].cur, call[t].name)
        here(h) == disk[h].vm = call[t].vm /\ UnitsSeen(t, h) # {} IN
    /\ pc[t] = "AttDisk"
    /\ \/ found = {} /\ Fails(t, "ErrDiskNotExists")
       \/ found # {} /\ (\A h \in Hrefs : found # {h}) /\ Fails(t, "other")
       \/ \E h \in Hrefs :
             /\ found = {h}
             /\ here(h)
             /\ \E u \in UnitsSeen(t, h) : Return(t, "nil", u, {})
       \/ \E h \in Hrefs :
             /\ found = {h}
             /\ ~here(h)
             /\ Continue(t, IF disk[h].vm # None THEN "DetDisk" ELSE "AttSend",
                         [loc[t] EXCEPT !.disk = h])
    /\ UNCHANGED cloudVars

\* The unit is chosen from the settings as they were read at AttVm.
AttachSend(t) ==
    /\ pc[t] = "AttSend"
    /\ \E u \in UnitChoices(loc[t].spec, call[t].vm) :
          Send(t, "AttachWait",
               [NoRequest EXCEPT !.kind = "attach", !.href = loc[t].disk,
                                 !.vm = call[t].vm, !.unit = u])
    /\ UNCHANGED cloudVars

-----------------------------------------------------------------------------
(* ResizeDisk and ListVolumes *)

\* getDiskByName and AttachedVM, in the VDC that ListVolumes named.
ResizeSend(t) ==
    LET n == call[t].name
        found == DisksNamed(HomeVdc[n], n) IN
    /\ pc[t] = "Resize"
    /\ \/ /\ HomeVdc[n] \notin Vdcs \/ \A h \in Hrefs : found # {h}
          /\ Fails(t, "other")
       \/ \E h \in Hrefs :
             /\ HomeVdc[n] \in Vdcs /\ found = {h}
             /\ ~ResizeAllowed(h)
             /\ Fails(t, "ErrDiskAttachedToVm")
       \/ \E h \in Hrefs :
             /\ HomeVdc[n] \in Vdcs /\ found = {h}
             /\ ResizeAllowed(h)
             /\ Send(t, "ResizeWait", [NoRequest EXCEPT !.kind = "resize",
                                         !.href = h, !.size = call[t].size])
    /\ UNCHANGED cloudVars

\* One VDC of ListVolumes.
ListVdc(t) ==
    /\ pc[t] = "List"
    /\ Continue(t, "Vdc",
          [loc[t] EXCEPT !.list = @ \cup
              {[name |-> disk[h].name, size |-> disk[h].size] :
                  h \in {g \in Hrefs : /\ disk[g].name # None
                                       /\ HomeVdc[disk[g].name] = loc[t].cur}}])
    /\ UNCHANGED cloudVars

-----------------------------------------------------------------------------
(* WaitTaskCompletion *)

TaskDone(t) ==
    /\ pc[t] \in WaitLocations
    /\ tst[t] = "success"
    /\ \/ pc[t] = "DetachWait" /\ DetachReturns(t)
       \/ pc[t] = "AttachWait" /\ Return(t, "nil", task[t].unit, {})
       \/ pc[t] \notin {"DetachWait", "AttachWait"} /\ Return(t, "nil", 0, {})
    /\ UNCHANGED cloudVars

\* The method sees an error instead, and returns it.
WaitFailsUnnoticed(t) ==
    /\ pc[t] \in WaitLocations
    /\ IF pc[t] = "DetachWait" THEN DetachReturns(t) ELSE Return(t, "nil", task[t].unit, {})
WaitFails(t) ==
    /\ pc[t] \in WaitLocations
    /\ IF pc[t] = "DetachWait" THEN DetachFails(t, FALSE) ELSE Fails(t, "other")

TaskFailed(t) ==
    /\ tst[t] = "error"
    /\ WaitFails(t)
    /\ UNCHANGED cloudVars

\* Sending the request or polling its task fails, whatever became of it.
AnswerLost(t) ==
    /\ "lost" \in Faults
    /\ tst[t] \in {"pending", "success"}
    /\ WaitFails(t)
    /\ orphans' = IF tst[t] = "pending" THEN orphans \cup {task[t]} ELSE orphans
    /\ Cardinality(orphans') <= MaxOrphans
    /\ UNCHANGED disk

(***************************************************************************)
(* A read of the API fails: the method returns the error, except that      *)
(* DeleteDisk takes a failed getDiskByName for a missing disk and goes on  *)
(* with the next VDC (client.go:255-259).                                  *)
(***************************************************************************)
ApiError(t) ==
    /\ "api" \in Faults
    /\ \/ /\ \/ pc[t] \in {"Auth", "Create", "DelDisk", "AttVm", "AttDisk",
                           "Resize", "List"}
             \/ pc[t] = "Vdc" /\ loc[t].todo # {}
          /\ Fails(t, "other")
       \/ pc[t] \in {"DetDisk", "DetVm"} /\ DetachFails(t, FALSE)
       \/ pc[t] = "DelDisk" /\ Continue(t, "Vdc", loc[t])
    /\ UNCHANGED cloudVars

\* The caller takes the result.
Reply(t) ==
    /\ pc[t] = "Done"
    /\ Goto(t, "Idle")
    /\ call' = [call EXCEPT ![t] = NoCall]
    /\ ret' = [ret EXCEPT ![t] = NoResult]
    /\ UNCHANGED <<cloudVars, mt, loc, taskVars>>

(***************************************************************************)
(* The process dies: the requests it waited for stay in the cloud, its     *)
(* mutex and its threads are gone, and it is started again.                *)
(***************************************************************************)
Crash ==
    /\ "crash" \in Faults
    /\ orphans' = orphans \cup {task[t] : t \in {u \in Threads : tst[u] = "pending"}}
    /\ Cardinality(orphans') <= MaxOrphans
    /\ mt' = None
    /\ pc' = [t \in Threads |-> "Idle"]
    /\ call' = [t \in Threads |-> NoCall]
    /\ loc' = [t \in Threads |-> NoLocals]
    /\ task' = [t \in Threads |-> NoRequest]
    /\ tst' = [t \in Threads |-> "none"]
    /\ ret' = [t \in Threads |-> NoResult]
    /\ UNCHANGED disk

-----------------------------------------------------------------------------
(* vCloud Director (external): how it runs the requests of the driver. *)

\* The cloud never gives out a reference twice: one is used again here only
\* when nothing refers to the deleted disk any more.
FreshHrefs ==
    {h \in Hrefs :
        /\ disk[h].name = None
        /\ \A k \in orphans : k.href # h
        /\ \A t \in Threads : h \notin {loc[t].disk, loc[t].ddisk, task[t].href}}

CreateRuns(k) ==
    \E h \in FreshHrefs :
        disk' = [disk EXCEPT ![h] = [name |-> k.name, size |-> k.size,
                                     vm |-> None, unit |-> 0]]

\* An attached disk is not deleted.
DeleteRuns(k) ==
    /\ disk[k.href].name # None
    /\ disk[k.href].vm = None
    /\ disk' = [disk EXCEPT ![k.href] = NoDisk]

\* A disk is attached to one VM of its own VDC, at an address that is free.
AttachRuns(k) ==
    /\ disk[k.href].name # None
    /\ disk[k.href].vm = None
    /\ VmVdc[k.vm] = HomeVdc[disk[k.href].name]
    /\ k.unit \notin UnitsOf(DiskSettings(k.vm), k.vm)
    /\ disk' = [disk EXCEPT ![k.href].vm = k.vm, ![k.href].unit = k.unit]

DetachRuns(k) ==
    /\ disk[k.href].vm = k.vm
    /\ disk' = [disk EXCEPT ![k.href].vm = None, ![k.href].unit = 0]

ResizeRuns(k) ==
    /\ disk[k.href].name # None
    /\ disk' = [disk EXCEPT ![k.href].size = k.size]

Runs(k) ==
    \/ k.kind = "create" /\ CreateRuns(k)
    \/ k.kind = "delete" /\ DeleteRuns(k)
    \/ k.kind = "attach" /\ AttachRuns(k)
    \/ k.kind = "detach" /\ DetachRuns(k)
    \/ k.kind = "resize" /\ ResizeRuns(k)

TaskRuns(t) ==
    /\ tst[t] = "pending"
    /\ Runs(task[t])
    /\ tst' = [tst EXCEPT ![t] = "success"]
    /\ UNCHANGED <<orphans, mt, pc, call, loc, task, ret>>

\* Refused, or failed, without an effect.
TaskRejected(t) ==
    /\ tst[t] = "pending"
    /\ tst' = [tst EXCEPT ![t] = "error"]
    /\ UNCHANGED <<cloudVars, mt, pc, call, loc, task, ret>>

OrphanRuns(k) ==
    /\ Runs(k)
    /\ orphans' = orphans \ {k}
    /\ UNCHANGED <<mt, pc, call, loc, taskVars, ret>>

OrphanDropped(k) ==
    /\ orphans' = orphans \ {k}
    /\ UNCHANGED <<disk, mt, pc, call, loc, taskVars, ret>>

-----------------------------------------------------------------------------

\* A step of a method that holds v.mt.
MethodStep(t) ==
    \/ RefreshAuth(t) \/ NextVdc(t) \/ NoMoreVdcs(t)
    \/ CreateSend(t)
    \/ DeleteFind(t) \/ DeleteSend(t)
    \/ DetachFind(t) \/ DetachSend(t)
    \/ AttachFindVm(t) \/ AttachFindDisk(t) \/ AttachSend(t)
    \/ ResizeSend(t) \/ ListVdc(t)
    \/ TaskDone(t) \/ TaskFailed(t) \/ AnswerLost(t) \/ ApiError(t)

CloudStep ==
    \/ \E t \in Threads : TaskRuns(t) \/ TaskRejected(t)
    \/ \E k \in orphans : OrphanRuns(k) \/ OrphanDropped(k)

Next ==
    \/ \E t \in Threads : \E c \in Calls : Invoke(t, c)
    \/ \E t \in Threads : Lock(t) \/ MethodStep(t) \/ Reply(t)
    \/ CloudStep
    \/ Crash

Spec == Init /\ [][Next]_vars

(***************************************************************************)
(* A running goroutine is scheduled; a Go mutex hands itself over to a     *)
(* waiter that has starved; the cloud ends every task it has accepted,     *)
(* for which WaitTaskCompletion polls without a limit.                     *)
(***************************************************************************)
Fairness ==
    /\ \A t \in Threads : WF_vars(MethodStep(t))
    /\ \A t \in Threads : WF_vars(Reply(t))
    /\ \A t \in Threads : SF_vars(Lock(t))
    /\ \A t \in Threads : WF_vars(TaskRuns(t) \/ TaskRejected(t))

FairSpec == Spec /\ Fairness

-----------------------------------------------------------------------------
(* Properties *)

TypeOK ==
    /\ disk \in [Hrefs -> Disk]
    /\ orphans \in SUBSET Request
    /\ mt \in Threads \cup {None}
    /\ pc \in [Threads -> Locations]
    /\ call \in [Threads -> Call]
    /\ loc \in [Threads -> Locals]
    /\ task \in [Threads -> Request]
    /\ tst \in [Threads -> {"none", "pending", "success", "error"}]
    /\ ret \in [Threads -> Result]

(***************************************************************************)
(* v.mt keeps the requests of the threads apart: while one waits for a     *)
(* task of the cloud, no other has a task of its own.                      *)
(***************************************************************************)
RequestsSerialized ==
    \A t, u \in Threads : tst[t] # "none" /\ tst[u] # "none" => t = u

(***************************************************************************)
(* A name stands for at most one disk, as getDiskByName requires           *)
(* (client.go:593): no sequence of calls, retries and failed tasks makes   *)
(* CreateDisk create a second one.                                         *)
(***************************************************************************)
UniqueName ==
    \A g, h \in Hrefs :
        disk[g].name # None /\ disk[g].name = disk[h].name => g = h

(***************************************************************************)
(* What a method read is still true when its request reaches the cloud:    *)
(* the name to create is unused, the disk to delete or to resize is        *)
(* detached, the disk to detach is where it was seen, and the disk to      *)
(* attach is detached, in the VDC of the VM, and its unit free (unit 0,    *)
(* the value AttachDisk is left with when no unit is free, excepted).      *)
(***************************************************************************)
RequestsNeverStale ==
    \A t \in Threads : tst[t] = "pending" =>
        LET k == task[t] IN
        /\ k.kind = "create" => \A h \in Hrefs : disk[h].name # k.name
        /\ k.kind \in {"delete", "attach", "resize"} =>
              disk[k.href].name = call[t].name /\ disk[k.href].vm = None
        /\ k.kind = "detach" =>
              disk[k.href].name = call[t].name /\ disk[k.href].vm = k.vm
        /\ k.kind = "attach" =>
              /\ VmVdc[k.vm] = HomeVdc[disk[k.href].name]
              /\ k.unit # 0 => k.unit \notin UnitsOf(DiskSettings(k.vm), k.vm)

(***************************************************************************)
(* AttachDisk does not take a disk away from the VM it is to attach it to: *)
(* a repeated ControllerPublishVolume finds the disk in place              *)
(* (client.go:386-404).                                                    *)
(***************************************************************************)
AttachKeepsOwnDisk ==
    \A t \in Threads :
        pc[t] = "DetachWait" /\ call[t].m = "AttachDisk" => task[t].vm # call[t].vm

\* The step in which thread t returns without an error from method m.
ReturnsOk(t, m) ==
    /\ pc[t] \notin {"Idle", "Done"}
    /\ pc'[t] = "Done"
    /\ call[t].m = m
    /\ ret'[t].err = "nil"

(***************************************************************************)
(* When AttachDisk returns without an error, the disk is attached to the   *)
(* VM, at the unit it returns (which the node will look for), whether it   *)
(* was there before, was taken from another VM, or was attached anew.      *)
(***************************************************************************)
AttachReportsTruth ==
    [][\A t \in Threads : ReturnsOk(t, "AttachDisk") =>
          \E h \in Hrefs : /\ disk'[h].name = call[t].name
                           /\ disk'[h].vm = call[t].vm
                           /\ disk'[h].unit = ret'[t].unit]_vars

(***************************************************************************)
(* When DeleteDisk returns without an error, no disk of that name is left  *)
(* in the VDCs of the driver ("disk was deleted", client.go:288, and       *)
(* "seems like disk doesnt exists", client.go:291).                        *)
(***************************************************************************)
DeletedIsGone ==
    [][\A t \in Threads : ReturnsOk(t, "DeleteDisk") =>
          \A h \in Hrefs : disk'[h].name # call[t].name]_vars

(***************************************************************************)
(* Every call returns: no method waits for a mutex it holds itself (the    *)
(* warning at client.go:50-52), and every path releases the mutex.         *)
(***************************************************************************)
CallsReturn == \A t \in Threads : pc[t] # "Idle" ~> pc[t] = "Idle"

(***************************************************************************)
(* "maximum attached disk per vm is 8" (README.md:85): as many as there    *)
(* are reserved units.                                                     *)
(***************************************************************************)
AttachLimit ==
    \A m \in Vms :
        Cardinality({h \in Hrefs : disk[h].vm = m}) <= Cardinality(ReservedUnits)

-----------------------------------------------------------------------------
(***************************************************************************)
(* The inductive invariant behind the theorems.  Its first part is about   *)
(* control and holds whatever goes wrong: each location belongs to certain *)
(* methods, exactly the thread that holds v.mt is inside a method, and     *)
(* only a thread that waits has a task.                                    *)
(***************************************************************************)
MethodAt(m, l) ==
    \/ l = "Auth" /\ m \in Methods
    \/ l = "Vdc" /\ m \in {"AttachDisk", "DetachDisk", "DeleteDisk", "ListVolumes"}
    \/ l \in {"Create", "CreateWait"} /\ m = "CreateDisk"
    \/ l \in {"DelDisk", "DelSend", "DeleteWait"} /\ m = "DeleteDisk"
    \/ l \in {"DetDisk", "DetVm", "DetachWait"}
          /\ m \in {"AttachDisk", "DetachDisk", "DeleteDisk"}
    \/ l \in {"AttVm", "AttDisk", "AttSend", "AttachWait"} /\ m = "AttachDisk"
    \/ l \in {"Resize", "ResizeWait"} /\ m = "ResizeDisk"
    \/ l = "List" /\ m = "ListVolumes"

CallInv ==
    \A t \in Threads :
        /\ pc[t] # "Idle" => call[t] \in Calls
        /\ pc[t] \in Inside => MethodAt(call[t].m, pc[t])

MutexInv == \A t \in Threads : mt = t <=> pc[t] \in Inside

KindAt == [CreateWait |-> "create", DeleteWait |-> "delete",
           AttachWait |-> "attach", DetachWait |-> "detach",
           ResizeWait |-> "resize"]

TaskInv ==
    \A t \in Threads :
        IF pc[t] \in WaitLocations THEN task[t].kind = KindAt[pc[t]]
                                   ELSE tst[t] = "none"

ControlInv == TypeOK /\ CallInv /\ MutexInv /\ TaskInv

(***************************************************************************)
(* Its second part relates what the holder of v.mt has read and sent to    *)
(* the cloud.  It holds when no answer is lost and the process does not    *)
(* crash: then only the holder's own task changes the cloud.               *)
(***************************************************************************)
DetachLocations == {"DetDisk", "DetVm", "DetachWait"}

\* Thread t is in detachDisk on behalf of method m.
Detaching(t, m) == pc[t] \in DetachLocations /\ call[t].m = m

\* Reference h is the disk that the call of t names.
Named(t, h) == h \in Hrefs /\ disk[h].name = call[t].name

AbsentInv == \A h \in Hrefs : disk[h].name = None => disk[h] = NoDisk

\* AttachDisk: the settings it read are those of the VM.
SettingsInv(t) ==
    pc[t] \in {"AttDisk", "AttSend"} \/ Detaching(t, "AttachDisk") =>
        loc[t].spec = DiskSettings(call[t].vm) /\ VmVdc[call[t].vm] = loc[t].cur

\* The disk a method found is the one it was asked for, in the state it needs.
FoundInv(t) ==
    /\ pc[t] = "AttSend" \/ Detaching(t, "AttachDisk") =>
          /\ Named(t, loc[t].disk)
          /\ disk[loc[t].disk].vm # call[t].vm
          /\ HomeVdc[call[t].name] = loc[t].cur
    /\ pc[t] = "DelSend" \/ Detaching(t, "DeleteDisk") => Named(t, loc[t].disk)
    /\ pc[t] \in {"AttSend", "DelSend"} => disk[loc[t].disk].vm = None
    /\ pc[t] = "DetVm" =>
          /\ Named(t, loc[t].ddisk)
          /\ loc[t].avm # None /\ disk[loc[t].ddisk].vm = loc[t].avm

\* What the task of a method still needs, and what it has achieved.
RequestInv(t) ==
    /\ pc[t] \in WaitLocations \ {"CreateWait"} /\ tst[t] = "pending" =>
          Named(t, task[t].href)
    /\ pc[t] = "CreateWait" =>
          /\ task[t].name = call[t].name
          /\ tst[t] = "pending" => \A h \in Hrefs : disk[h].name # call[t].name
    /\ pc[t] \in {"DeleteWait", "AttachWait", "ResizeWait"} /\ tst[t] = "pending" =>
          disk[task[t].href].vm = None
    /\ pc[t] = "DetachWait" =>
          /\ Named(t, task[t].href)
          /\ tst[t] = "pending" => disk[task[t].href].vm = task[t].vm /\ task[t].vm # None
          /\ tst[t] = "success" => disk[task[t].href].vm = None
          /\ call[t].m = "AttachDisk" => task[t].vm # call[t].vm
    /\ pc[t] = "AttachWait" =>
          /\ Named(t, task[t].href) /\ task[t].vm = call[t].vm
          /\ VmVdc[call[t].vm] = HomeVdc[call[t].name]
          /\ tst[t] = "pending" /\ task[t].unit # 0 =>
                task[t].unit \notin UnitsOf(DiskSettings(call[t].vm), call[t].vm)
          /\ tst[t] = "success" => /\ disk[task[t].href].vm = call[t].vm
                                   /\ disk[task[t].href].unit = task[t].unit

(***************************************************************************)
(* The cloud holds each name once, and the thread inside a method knows    *)
(* the truth about the disk and the VM it works on.                        *)
(***************************************************************************)
CloudInv ==
    /\ orphans = {}
    /\ UniqueName
    /\ AbsentInv
    /\ \A t \in Threads : SettingsInv(t) /\ FoundInv(t) /\ RequestInv(t)
=============================================================================
