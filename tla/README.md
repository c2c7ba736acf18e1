# vcd-csi: models, checks and proofs

A TLA+ development for `vcd-csi`, a Kubernetes CSI driver that keeps volumes on
independent disks of VMware vCloud Director. Paths are relative to the
repository (`src/`); short names such as `client.go:425` mean
`src/pkg/vcd-client/client.go`, `disk.go` is `src/internal/driver/disk.go`,
`node.go` `src/internal/driver/node.go`, `locker.go`
`src/internal/locker/locker.go`.

## The system

| Component | State | Operations | Talks to |
|---|---|---|---|
| VcdClient (`client.go`) | `mt` (a mutex), the authenticated session, one client per VDC; the disks themselves are in the cloud | CreateDisk, DeleteDisk, AttachDisk, DetachDisk, ResizeDisk, ListVolumes | vCloud Director, by requests that start a task and by polling that task |
| Controller service (`disk.go`) | none of its own but the locker | CreateVolume, DeleteVolume, ControllerPublishVolume, ControllerUnpublishVolume, ListVolumes, ControllerExpandVolume; constants for the rest | called by the sidecars, calls VcdClient and the locker |
| Locker (`locker.go`) | a map of volume names, a mutex | Put, IsLocked, Pop | called by Publish and Expand |
| Sizes (`disk.go:405-456`, `types/disk.go`) | none | extractStorage, Mb, Bytes | called by CreateVolume and Expand |
| Node service (`node.go`) | none of its own; devices and mounts of the node | stage, unstage, publish, unpublish, statistics, info | called by the kubelet, calls the mounter |
| Mounter (`mount/mounter.go`) | none; runs `mkfs`, `mount`, `umount`, `blkid`, `findmnt` | Format, Mount, Unmount, IsFormatted, IsMounted, GetStatistics, GetDiskUnit | the node's kernel |
| Server (`cntrl.go`, `main.go`) | listeners, wait group, error group | Run, main | gRPC, HTTP, signals |
| Identity (`drv.go`), configuration (`conf.go`) | constants | | |

What is hard here:

* Every gRPC call runs in a goroutine of its own. The handlers ignore their
  contexts, so a handler goes on when its caller has timed out and calls again.
  The mutex of the client serialises its methods, not the handlers: Expand lists,
  compares, resizes and touches the locker in separate calls.
* A method of the client is a sequence of remote calls. What it read may be stale
  when it acts on it; a request may be accepted and its answer lost; the process
  may die while the cloud works on; a retry meets what the first try did.
* Names are not unique in the cloud, the client has to keep them so.
* A disk has to be at one of eight SCSI units, chosen from a copy of the
  settings of the VM; the node finds the device by that unit alone.
* Sizes are bytes in CSI, and MB, rounded down, in the cloud.
* The node handlers keep no state and take no lock: what is formatted and mounted
  they find out by commands, one command at a time, while other calls, restarts and
  devices that appear late come in between.
* A stop passes through five goroutines that wait for one another.

## Modules

| Module | Models | Composes |
|---|---|---|
| `VolumeService` | what `VcdService` (`client.go:108-115`) promises | |
| `VcdClient` | `client.go`, and the cloud as it uses it | |
| `VcdClientRefinement` | that the client keeps the promise | VcdClient, VolumeService by INSTANCE |
| `Capacity` | `extractStorage` and `StorageSize` | |
| `Controller` | the controller RPCs and the locker | VolumeService (for the client), Capacity |
| `NodeVolumes` | what controller and nodes promise together | |
| `NodeService` | `node.go` and `mounter.go`, and the kernel as they use it | NodeVolumes by INSTANCE, as its promise |
| `VolumeLifecycle` | attach, use, detach, move, resize, delete across nodes | Controller, and NodeVolumes by INSTANCE for the nodes |
| `Server` | `main.go` and `cntrl.go` | |
| `VcdClientProofs`, `VcdClientCloudProofs`, `VcdClientRefinementProofs`, `CapacityProofs`, `ControllerProofs`, `NodeServiceProofs`, `VolumeLifecycleProofs`, `ServerProofs` | theorems | each extends the one its invariant builds on: control, cloud, refinement; sizes, controller, lifecycle |
| `MCVcdClient`, `MCController`, `MCNodeService`, `MCVolumeLifecycle`, `MCServer` | instances for TLC | |

So the client is checked once, in detail, against `VolumeService`, and the
handlers are checked against `VolumeService`, which has far fewer states. In the
same way the node handlers are checked in detail, on one node, against
`NodeVolumes`, and several nodes are then composed with the controller as what
`NodeVolumes` says of them.

### VcdClient

`disk` maps each reference of the cloud to a disk (name, size, VM, unit). A thread
is a goroutine of the server with at most one call: `pc` says at which remote call
it is, `loc` holds the local variables it will still use (the settings read at
`AttVm`, the disk found, the VDCs the loop has not visited), `task` and `tst` the
request it waits for. One remote call is one step, and several calls in a row that
only read the same object are one step. The exits correspond to the code's early returns:
`Fails` for a returned error, `Continue` for going on, `Send` for a request whose
task is then waited for, `Return` with the deferred `Unlock`.

| Action | Code |
|---|---|
| `Lock`, `RefreshAuth`, `NextVdc`, `NoMoreVdcs` | the mutex, `refreshAuth`, the loop over `v.VdcClients` |
| `CreateSend` | `CreateDisk` |
| `DeleteFind`, `DeleteSend` | `DeleteDisk` |
| `DetachFind`, `DetachSend` | `detachDisk`, for `DetachDisk`, `DeleteDisk` and `AttachDisk` |
| `AttachFindVm`, `AttachFindDisk`, `AttachSend` | `AttachDisk` |
| `ResizeSend`, `ListVdc` | `ResizeDisk`, `ListVolumes` |
| `TaskDone`, `TaskFailed`, `AnswerLost` | `WaitTaskCompletion`, and errors of the request itself |
| `ApiError` | a failed read, or failed authentication |
| `Crash` | the process ends and starts again |
| `TaskRuns`, `TaskRejected`, `OrphanRuns`, `OrphanDropped` | the cloud (external) |

The cloud refuses to delete an attached disk, to attach one that is attached or in another
VDC, or to attach at a unit in use, and it may refuse anything else
(`TaskRejected`). A request that nobody waits for any more, after a lost answer or
a crash, is an orphan, which runs at any later moment or never.
References are never given out twice; the model uses one again only when nothing
refers to it.

`HomeVdc` gives the VDC of a name, in which the disk of that name is created, found
and resized. In the code that is an argument of `CreateDisk` and `ResizeDisk`: the
`vcd` parameter of the storage class, and what `ListVolumes` says of the disk. So the
model has no name that is created in two VDCs by two requests, where `CreateDisk`
would look in one only (`client.go:187-194`) and `DeleteDisk` delete one of two.

The constant `Faults` says what can go wrong: `"api"` (failed reads), `"lost"`
(lost answers) and `"crash"`. Tasks that the cloud rejects are always possible.

### VolumeService and the refinement

A volume exists or not, has a size, and is at one VM and unit or at none. A call
makes one or two permitted changes to the volume it names and then returns; with
no error only if its purpose is achieved at that moment. `VcdClientRefinement` maps
the disk of a name to the volume, a thread inside a method to a busy caller.
`SureDelete` is false when reads may fail, because `DeleteDisk` then reports
success for disks that exist (see the hazards).

The promise itself is `ServiceSpec`. Its last part is not promised by the client but
is what becomes of a request whose call is gone, as the orphans of `VcdClient` have it:
when the answer is lost (`AnswerLost`, the call returns an error), or when the process
ends, the request that the call had in the cloud may be left behind (`Leaves`). It
stays in `left` until the cloud runs it (`LeftRuns`), at any later moment and without
regard to the calls of that moment, or drops it (`LeftDropped`). `stray` keeps the
names for which that has ever happened. A call for such a volume may return anything
(`Misled`), since an old request may change the volume after the call has looked. A
request names its volume here, not the reference of a disk, so an old request also
meets a volume that has been deleted and created again, which is more than the
cloud does; the second disk of a name that an old create can make is not in
this module, but in `VcdClient` (`duplicate_name`).

### Controller

`at`, `rpc` and `reply` describe a handler; `lock` is the map of the locker. The
handlers call the client through `Begin` and collect its result with `Taken`.
`Sidecar` groups the RPCs by the sidecar that issues them
(`deploy/controller.yaml`: provisioner, attacher, resizer); with `Patient` calls
that `Conflict` do not overlap: a sidecar has one call per volume at a time, and a
volume is not expanded while a volume of its name is being created, because
the provisioner makes a new name for every claim. (An Expand that has listed a
volume, which is then deleted and created again larger, makes the new one smaller;
the handler does not look again, and only the names rule it out.) Without `Patient` a call may be
repeated while the first one runs, since the handlers do not stop when a caller gives up. The field `valid`
of a request stands for all checks of fields and capabilities at the start of a
handler. A panic (`ExpandPanics`), the fatal error of the Go runtime that
the unprotected `Put` can cause (`MapRace`), and a kill (`Killed`) end the process: nothing
recovers from a panic (`cntrl.go:77-86`), and Kubernetes starts it again. `Restart`
empties the locker and takes away the handlers and their calls, but not a request in
the cloud: it may leave one behind, the one of the call that holds the mutex of the
client. `Cloud` is the cloud getting to a request left behind, in the middle of
anything. With `Crashes` there are kills, and answers are lost.
An undetected race could also corrupt the map; that is not modelled.

The properties about volumes leave out those in `stray`. For these the code keeps
none of them, and without the exemption TLC finds each one violated: a resize to 1 MB
is sent, the process is killed, the retry asks for 3 MB and gets it, then the old
resize runs and the volume shrinks (`ExpandNeverShrinks`, `ExpandedIsLarge`); an
old attach or detach moves the volume after a Publish has been answered
(`PublishedUnit`), or takes it from its node. Nothing in the client looks for tasks that are
already under way (`client.go:210`, `437`, `485`, `541`). The kills, panics and
races themselves, and requests that ran although their call returned an error, are
covered for all volumes.

### NodeService

`att` is the unit at which the controller has attached a volume, `seen` the volumes
whose device the kernel shows (`Plug` comes after `Attach`), `fs` what is on a disk,
`mnt` the stack of mounts on the staging path and on the target path of a volume.
The node has disks of its own (`Locals`), at units outside the reserved ones. A
handler is one step per command: `at` is the command that comes next, `src` the
device it has found.

| Action | Code |
|---|---|
| `RejectInvalid`, `RejectContext` | the checks at the start of the handlers |
| `NodeStageVolume`, `StageIsFormatted`, `StageFormat`, `StageIsMounted`, `StageMount` | `NodeStageVolume`: GetDiskUnit, IsFormatted, Format, IsMounted, Mount |
| `NodeUnstageVolume`, `NodeUnpublishVolume`, `UnmountPath` | IsMounted, Unmount |
| `nodePublishVolumeForFileSystem`, `nodePublishVolumeForBlock`, `BlockIsMounted`, `PublishMount` | `NodePublishVolume` |
| `NodeGetVolumeStats`, `StatsAnswer` | IsMounted, GetStatistics |
| `CommandFails` | the error returns after a command |
| `Attach`, `Plug`, `Detach`, `PodWrites`, `Killed`, `Reboot` | the controller, the kernel, pods, the end of the process and of the node (external) |
| `Receive`, `Answered`, `NobodyWaits` | the kubelet (external) |

The commands do what the handlers rely on: `mkfs` refuses a mounted device, the
kernel does not mount a device twice on one path, bind mounts stack, `umount` takes
the topmost, and `blkid` finds nothing on a device it cannot read. `IsMounted` fails
on a mount without shared propagation; that is one of the failures of
`CommandFails`.

The kubelet (`known`) repeats a call that failed or whose answer it did not get,
and makes a different call for a volume only when the earlier ones have ended.
`Repeats` names the calls that may be repeated while the first still runs. The
code bears that for Stage, Unstage and Unpublish, but not for Publish: two publishes
that both find nothing mounted make two bind mounts, and one unpublish leaves one
of them (`node.go:382`, see the hazards). `Contexts` are the keys a publish context may have: both, as in `node_test.go:68`, or
only those of `ControllerPublishVolume`.

### NodeVolumes and VolumeLifecycle

`NodeVolumes` is the contract between the two halves of the driver: `where` a
volume is attached and the `use` each node makes of it; it is taken from a
node only when no node uses it, and goes from node to node only by way of nowhere. A
volume that has been let loose (`LetLoose`) is excepted from the first.
`NodeService` implements it with `use` read off the mounts, so that a mount left
behind at a detach is a violation; there nothing is loose. `VolumeLifecycle` implements it
with `where` read off the volumes of `VolumeService` and with `loose` the volumes in `stray`: there the steps of the nodes are those of
`NodeVolumes`, and everything else comes from the handlers of `Controller`.

`va` is the VolumeAttachment of Kubernetes (external): the attacher calls
ControllerPublishVolume until it succeeds, keeps the unit of the answer, and calls
ControllerUnpublishVolume once the kubelet has given the volume back. `Patient` is
assumed. Without it the contract is broken: an Unpublish on which the attacher has given up, and that
goes on while a retry succeeds and the volume moves, detaches it at
the new node, because `DetachDisk` ignores its VM (`client.go:315`). A restart can do
the same with `Patient`: the detach of a killed Unpublish stays in the cloud, the retry finds
the volume detached or detaches it, the volume is published again, and then the
old detach runs. That is what the exemption of `stray` is for in `NeverTakenFromUser`,
`ContextStaysTrue` and `ResizedOnlyUnused`.

### Server

`main` is at one of its statements after the initialisation; `run` is the goroutine of Run; `shut`,
`grpc` and `http` are the functions of the error group, `stop` the goroutine that
calls GracefulStop; `wg` is the wait group; `calls` and `conns` are what the servers
work on. GracefulStop and Shutdown wait for these, Serve of gRPC returns after
GracefulStop, and with an error if it comes later than that; Serve of HTTP returns as
soon as Shutdown begins. `fault` records that something other than the stop went
wrong. The deferred `wg.Done` runs before the caller of Run sees the error, so main
may return before the panic, or the panic comes first.

## Runs

Client (`MCVcdClient`):

| Run | Bounds | Shows |
|---|---|---|
| `client_reliable` | 2 callers, 1 VDC, failed reads | types; names are unique; no request acts on something stale; a repeated attach leaves the disk in place and tells the truth about its unit; refinement of `VolumeService` |
| `client_vdcs` | 2 VDCs, a third unknown one, 2 sizes | a successful delete has deleted; refinement with disks and VMs in different VDCs |
| `client_faults` | all faults, 1 orphan, 1 volume, `FairSpec` | the tasks of the running process do not overlap; every call returns |
| `attach_limit` | 1 reserved unit | violation of `README.md:85` |
| `duplicate_name` | lost answers | violation: two disks of one name |

Controller (`MCController`):

| Run | Bounds | Shows |
|---|---|---|
| `controller` | 2 handlers, 1 volume, 1 node, 2 units, 2 ranges to create and 3 to expand (one missing), kills, lost answers, 1 request left behind, `FairControllerSpec` | an Expand that succeeds has made the volume large enough; the unit published is the unit of the disk; the capacity answered fits the request; Expand never makes a volume smaller; every RPC is answered or ends with the process. The volume is exempt from the first, second and fourth once a request for it has been left behind |
| `expand_shrinks` | callers that do not wait | violation: concurrent Expands |
| `lock_consumed` | | violation: one refused Publish removes the lock |

Nodes and server (`MCVolumeLifecycle`, `MCNodeService`, `MCServer`):

| Run | Bounds | Shows |
|---|---|---|
| `lifecycle` | 2 handlers, 1 volume, 2 nodes, 2 units, 2 ranges to create and 2 to expand, kills, lost answers, 1 request left behind | as long as no request for it has been left behind: no volume is taken from a node that uses it; the publish context stays true; no resize under a user |
| `node` | 2 handlers, a filesystem and a block volume, 1 disk of the node, 2 units, both contexts | types; the paths of a volume hold its own disk, once; what is published is mounted; no data is formatted; refinement of `NodeVolumes` |
| `stage_context` | the context of the controller only | violation: it is refused by Stage |
| `server` | 2 calls, 1 HTTP request, `FairSpec` | types; main returns after the last call, unless Serve had failed; Run panics only if something had failed, or GracefulStop came before Serve; a signal that main has received ends the process |

Why the bounds are enough. The mutex admits one method at a time, so two callers
give every interleaving of one method with the waiting, sending and returning of another; two
names compete for one or two units, which makes the bus full within two attaches; two VMs are what a
move of a disk takes. One orphan suffices for everything an old request can do to a
new call. Two handlers suffice for the locker and for the list-compare-resize of Expand. One
request left behind suffices in the controller runs for the same reason as one orphan: once the
volume is stray its properties claim nothing, so what has to be checked is that the
step that leaves it behind marks it, and that calls, types and answers stay right while it runs.
`controller` has one node, since none of its properties compares two, `lifecycle` has both. A MB is two bytes in the instances, so that a size may lie between two
MBs. On a node, two handlers give a call with its repetition, or with a call for the
other volume; two volumes and two units give a unit that is used again by another
volume, and the disk at unit 0 is the one a wrong choice of the device meets. The two nodes of `lifecycle` are
what a move takes. In `server` two calls distinguish "one has ended" from "all
have". The handlers of `node`, and the handlers and nodes of `lifecycle`, are interchangeable and used as
symmetry sets, their properties being of safety only. The passing runs between them take every action of the models.

`server` does not check deadlock, because the process ends.

Fairness (`FairSpec`, `FairControllerSpec`). Weak fairness of the steps of a thread:
a goroutine that can run does. Strong fairness of `Lock`: a Go mutex hands itself
over to a waiter that starves. Weak fairness of the end of a task:
`WaitTaskCompletion` polls without a limit, so the calls return only if the cloud
ends its tasks, with success or an error; without this assumption no call need ever return. Nothing is
assumed about callers, faults, crashes or orphans. `FairControllerSpec` assumes that the
calls of the client return, which is what `client_faults` shows, and nothing about the
requests left behind. `FairSpec` of
`Server`: every goroutine that can run does, and gRPC calls and HTTP requests end,
the former by `RpcsAnswered`. Nothing is assumed about signals and failures.

## Proofs

All are for every value of the constants that satisfies the named assumptions of
the module (`ConstantsAssumption`, `CapacityAssumption`, `ServiceAssumption`,
`ControllerAssumption`, `NodeAssumption`): any number of threads, VDCs, volumes, VMs
and references, any units and any capacity ranges.

* `VcdClientProofs`: `ControlInvariant`, `TypeCorrect` (`TypeOK`), `Serialized`
  (`RequestsSerialized`), under all faults. `RequestsSerialized` is not inductive: it
  needs that only a thread at a wait location has a task (`TaskInv`), that a thread
  is at such a location only while it holds `v.mt` (`MutexInv`), and that each
  location belongs to certain methods (`CallInv`), because `detachDisk` returns to
  three different callers. Together with the types this is `ControlInv`. One lemma per ending of a step
  (`Return`, `Continue`, `Send`) carries most of the argument, one per method cites
  them, `ControlInvStep` puts them together.
* `VcdClientCloudProofs`: `CloudInvariant`, and from it `NamesUnique`,
  `RequestsFresh`, `OwnDiskKept`, `AttachTruthful`, under `Faults \subseteq {"api"}`.
  `CloudInv` says there are no orphans, each name is used once, and for the
  thread inside a method: the settings AttachDisk has read are those the VM has
  (`SettingsInv`), the disk found is the one named and in the state the next step
  needs (`FoundInv`), and the request it waits for is still right, or has been carried out
  (`RequestInv`). It is inductive because only the task of the holder of
  `v.mt` changes the cloud, and by `ControlInv` there is one holder. Without the
  restriction on the faults these properties are false: `duplicate_name` is a
  counterexample.
* `VcdClientRefinementProofs`: `ClientImplementsService`, the refinement of
  `VolumeService` (`ImplementsService`), under `Faults \subseteq {"api"}`, and `DeleteDeletes`
  (`DeletedIsGone`) for `Faults = {}`. `CloudInv` is about the disk a method has found; the
  promise is also about what it has not found. `ServeInv` adds that disks are only in the
  VDCs of the driver (`HomeInv`), that a loop has collected, or ruled out, exactly
  what is in the VDCs it is done with (`LoopInv`), and what a request asks for and
  has achieved (`ResultInv`). Every step of a method is then an
  error, a success with `Achieved`, or not seen; every task that runs is one of the steps of
  `VolumeService`. `DeletedIsGone` follows from the refinement; with failed reads it
  is false, and `SureDelete` is then false as well.
* `ServerProofs`: `ServerInvariant`, `ServerTypeCorrect`, `ExitAfterCalls`
  (`CallsEndBeforeExit`), `NoPanicByStopping` (`StopsWithoutPanic`), for any sets of
  calls and requests. That main has returned says only that the wait group was at
  zero, so the invariant ties it to Run (`WaitInv`), Run's return to the functions of the group
  (`GroupInv`), the return of Serve to GracefulStop and that to the calls
  (`WorkInv`), and every error to where it came from (`FaultInv`).
* `CapacityProofs`: a size that `extractStorage` accepts fits its range
  (`AcceptedSizeFits`), a supported size is accepted (`SupportedSizeAccepted`), and
  the rounding of `Mb` loses less than one MB (`TruncationBounded`).

* `ControllerProofs`, whatever the sidecars do: `CallsInvariant`,
  `ControllerTypeCorrect` (`ControllerTypeOK`), `CapacityFits`
  (`CapacityAnswered`). `CallsInv` ties the location of a handler to its RPC and to
  the call of the client it waits for (`CallInv`), and the size it works with to its range
  (`SizeInv`); that a size fits its range is a lemma of `CapacityProofs`.
  With `Patient`, and with kills, panics, races, lost answers and any number
  (`MaxLeft`) of requests left behind: `WaitInvariant`, `ExpandIsDone`
  (`ExpandedIsLarge`), `UnitIsPublished` (`PublishedUnit`), `NeverShrinks`
  (`ExpandNeverShrinks`).
  `WaitInv` says which calls run together (`PatientInv`); that a unit that AttachDisk has
  returned is the unit of the volume as long as it is at that VM (`PublishInv`); that
  what Expand has listed, the comparison it has made and the size its resize has
  given remain true of the volume until it resizes and answers (`GrowInv`). All but
  `PatientInv` is said of volumes that are not stray. Each is kept because whatever could disturb it is a
  call that conflicts, or a request left behind, and those belong to stray volumes
  (`left` is part of the types, and `LeftMade` says what a request left behind
  changes).
  Without `Patient` these are false: `expand_shrinks` is a counterexample.
* `VolumeLifecycleProofs`: `LifecycleIsController`, by which the composition has
  everything proved of the controller, and with `Patient` `ContextIsTrue`
  (`ContextStaysTrue`), `ResizesOnlyUnused` (`ResizedOnlyUnused`) and `UsersKeepVolumes`, the
  refinement of `NodeVolumes` (`NeverTakenFromUser`), which like those of the controller
  leave out stray volumes and allow every fault. The invariant `LifeInv`
  relates the use of a volume to its VolumeAttachment (`UseInv`), each
  running call to the state of that VolumeAttachment (`CallerInv`), and a Publish that has
  succeeded but is not yet answered to where the volume is (`DoneInv`). So a step of the client
  that moves or detaches a volume belongs to a call that can only run while no
  node uses it; a step of the cloud that does so concerns a stray volume, which is
  loose in `NodeVolumes`.
* `NodeServiceProofs`, for `"Publish" \notin Repeats`: `NodeInvariant`,
  `NodeTypeCorrect` (`NodeTypeOK`), `OwnDiskMounted` (`MountsOwnDisk`),
  `PublishedHasVolume` (`PublishedIsMounted`), `DataIsSafe` (`DataNeverFormatted`),
  and `NodeImplementsVolumes`, the refinement of `NodeVolumes`
  (`ImplementsNodeVolumes`). The mounts alone are not inductive. `NodeInv` says which
  mounts a volume has for each thing the kubelet knows about it (`VolInv`), that units
  identify volumes (`UnitInv`), which calls for a volume run together (`TogetherInv`), and of a handler
  that its device is that of its volume and holds no data when `mkfs` comes next
  (`DeviceInv`), and that its work is done when it is about to answer OK (`DoneInv`). A step
  concerns one volume; the lemma `OneVolume` leaves the others out. The hypothesis is
  needed: with overlapping publishes the mounts stack (`node.go:382`).

Every property of safety that a passing run checks is so proved. Only model-checked is
liveness (`CallsReturn`, `RpcsAnswered`, `SignalStops`), which needs fairness and is out of the
prover's reach.

How the results fit together: `ClientImplementsService` justifies the use of
`ServiceSpec` in `Controller` for as long as no answer is lost and the process does not
end. It says nothing of the rest: that a call may leave one request behind, which one, and that the
cloud then runs it or not (`Leaves`, `AnswerLost`, `LeftRuns`, `LeftDropped`, `Misled`) is
modelled on `AnswerLost`, `Crash` and `OrphanRuns` of `VcdClient` by hand. That the
calls returning afterwards for volumes that are not stray keep the promise is not
proved of the client either; it is plausible because an orphan changes one disk only and
`RequestsSerialized` and `TypeOK` are proved under all faults. One exception is
known: an orphan attach of one volume occupies a unit at the VM, so that the attach of
another volume may be refused, which is an error that `Refuses` allows. `LifecycleIsController` carries the results about the
controller over to `VolumeLifecycle`; `NodeImplementsVolumes` justifies the
steps of `NodeVolumes` that stand for the nodes there.

## What the violations say

Each is a place where the code and its documentation disagree, or where it loses
information; `PROJECT.json` quotes the lines.

1. `client.go:425`: the error of `getFreeUnitNum` is overwritten; a full bus gives unit 0.
2. `client.go:194`: look and then create; after a lost answer two disks may share a name, and every
   later call for it fails.
3. `disk.go:364`: compare and then resize; concurrent Expands make a volume smaller.
4. `locker.go:48`: asking whether a volume is locked unlocks it.
5. `node.go:51`: Stage requires `diskSizeB`, which `ControllerPublishVolume` no
   longer gives (`disk.go:197`), so no volume it publishes can be staged.

Other places where the code promises less than one might expect are hazards
without a run of their own, and the properties say what they leave out:

* client: `DetachDisk` ignores the VM (`client.go:315`); `DeleteDisk` takes a failed
  read for absence and reports success (`client.go:256`); a create repeated with another size reports
  that size (`client.go:199`);
* sizes: the capacity reported is not rounded down as the disk is (`disk.go:399`);
  the minimum is not compared with the required size when a limit is set
  (`disk.go:427`);
* node: overlapping publishes stack mounts (`node.go:382`); exit status 2 of `blkid`
  counts as unformatted, whatever its cause (`mounter.go:252`); a `findmnt` that
  fails without output counts as not mounted (`mounter.go:286`); `blockdev
  getsize64` always fails (`mounter.go:329`); NodeExpandVolume does nothing
  (`node.go:318`);
* server: a signal before main receives is dropped (`main.go:82`); a failed server
  does not end the process (`cntrl.go:139`) and its calls are cut at the stop; a stop before Serve
  makes Run fail, which may end in a panic (`cntrl.go:121`).

## Plan

Done: the client, its promise and the refinement; the controller RPCs with the
locker, the sizes, and the requests that faults leave behind in the cloud; the node RPCs with the mounter; the abstract `NodeVolumes` and its
two implementations; the server; all invariants, action properties and
refinements proved.

Left: what of these results remains without the hypotheses (`Faults \subseteq
{"api"}`, `Patient`, `"Publish" \notin Repeats`): a proof that `VcdClient` with all its faults
implements `VolumeService` with its requests left behind, and what holds of the
node when publishes overlap.

## What the properties leave out

The limits that a reader should have in mind, all of them places where the code
does not keep the property:

* `TypeOK` of the client admits unit 0, which `AttachDisk` uses when the bus is
  full; only `attach_limit` is about that, and `RequestsNeverStale` excepts it.
* `AttachKeepsOwnDisk`, `AttachReportsTruth`, `UniqueName` and `ImplementsService` are
  about runs without lost answers and crashes; `DeletedIsGone` also without failed reads.
* The properties of `controller` and `lifecycle` about a volume end with the first request
  left behind for it.
* `RpcsAnswered` counts the end of the process, also by a panic or a data race, as
  the end of an RPC.
* A name that has been put into the locker may stay there although the volume has been
  resized: by a late `Put`, or by a resize that ran and returned an error
  (`disk.go:371`, `379`). No property is about that.
* `MountsOwnDisk` relies on `NodeAssumption`, that no disk of the node is at a
  reserved unit, and on `Repeats` without `"Publish"`.
* `StopsWithoutPanic` excepts a GracefulStop that comes before Serve and says only that
  a panic has some other failure before it; `SignalStops` begins when main has received the signal.

## Not modelled

Identity and the capability RPCs return constants, NodeExpandVolume returns nothing.
The configuration is read once and appears as constants. The wording of errors and
logs (`formatBytes`) and the numbers of GetStatistics change nothing.
GetDiskgNameBySizeAndUnit is called by nothing. Mocks are generated. Storage
profiles and bus types are passed through; a missing profile is one of the errors of
`CreateSend`'s `ApiError`. VMs are neither created nor removed, and disks are not
changed by anyone but the driver, except for the foreign disks that occupy units.

Of the node: a device that outlives its detach, or whose name is given to another
disk between two commands; reads that fail for a moment without an error;
detaching by force; a kubelet that restarts and forgets what it
has called; one volume in several pods.
