----------------------------- MODULE NodeService -----------------------------
(***************************************************************************)
(* internal/driver/node.go with internal/mount/mounter.go: the node RPCs   *)
(* of the CSI driver on one node, the commands they run there (blkid,      *)
(* mkfs, findmnt, mount, umount) and the disks and mounts these act on.    *)
(*                                                                         *)
(* A handler takes no lock and keeps no state, so it is one step for each  *)
(* command, with anything in between.  The kubelet stages an attached      *)
(* volume, publishes it to a pod, and takes it back in the opposite order; *)
(* a call that failed, or whose answer it did not get, it repeats.         *)
(***************************************************************************)
EXTENDS Integers, FiniteSets, Sequences

CONSTANTS
    Volumes,
    Mode,      \* of a volume: "fs" or "block"
    Locals,    \* the node's own disks, on its other controllers
    LocalUnit, \* the units they are at
    Reserved,  \* the units for volumes, on every controller
    MaxVolumesPerNode,
    Threads,
    Contexts,  \* the sets of keys a publish context may have
    Repeats,   \* RPCs that may be repeated while the first call still runs
    None

ASSUME NodeAssumption ==
    /\ Mode \in [Volumes -> {"fs", "block"}]
    /\ LocalUnit \in [Locals -> Nat]
    /\ Volumes \cap Locals = {} /\ None \notin Volumes \cup Locals \cup Nat
    /\ Reserved \subseteq Nat /\ IsFiniteSet(Reserved) /\ IsFiniteSet(Volumes)
    /\ MaxVolumesPerNode \in 0..Cardinality(Reserved)
    /\ \A d \in Locals : LocalUnit[d] \notin Reserved
    /\ Contexts \subseteq SUBSET {"diskUnitNum", "diskSizeB"}

VARIABLES
    att,   \* the unit at which the controller has attached a volume, or None
    seen,  \* the volumes among the block devices that the kernel shows
    fs,    \* what is on a disk
    mnt,   \* the disks mounted on a path, the one that is seen last
    known, \* what the kubelet knows of a volume
    at,    \* where each handler is
    rpc,   \* its request
    src,   \* the device it has found (source)
    reply  \* the code it answers with

nodeState == <<att, seen, fs, mnt>>
callVars == <<at, rpc, src, reply>>
nodeVars == <<nodeState, known, callVars>>

Disks == Volumes \cup Locals
\* Nothing; a file system without and with data; data but no file system.
Contents == {"blank", "empty", "data", "raw"}
HoldsData(c) == c \in {"data", "raw"}

\* The paths of a volume: where it is staged, and in the pod.
Staging(v) == <<"staging", v>>
Target(v) == <<"target", v>>
Paths == {"staging", "target"} \X Volumes

Keys == {"diskUnitNum", "diskSizeB"}
Locations == {"idle", "begin", "blkid", "mkfs", "findmnt", "mount", "umount",
              "stat", "done"}
Codes == {"OK", "InvalidArgument", "NotFound", "Internal", "Unknown"}
\* valid: the request has its fields, and a known access type.
NodeRpcs ==
    [op: {"Stage", "Publish"}, vol: Volumes, keys: Contexts, valid: BOOLEAN]
    \cup [op: {"Unstage", "Unpublish", "Stats"}, vol: Volumes, keys: {{}}, valid: BOOLEAN]
NoRpc == [op |-> "none", vol |-> None, keys |-> {}, valid |-> FALSE]

NodeInit ==
    /\ att = [v \in Volumes |-> None]
    /\ seen = {}
    /\ fs \in [Disks -> Contents]
    /\ \A v \in Volumes : fs[v] \in {"blank", IF Mode[v] = "fs" THEN "data" ELSE "raw"}
    /\ \A d \in Locals : fs[d] = "data"
    /\ mnt = [p \in Paths |-> <<>>]
    /\ known = [v \in Volumes |-> "out"]
    /\ at = [t \in Threads |-> "idle"]
    /\ rpc = [t \in Threads |-> NoRpc]
    /\ src = [t \in Threads |-> None]
    /\ reply = [t \in Threads |-> "OK"]

-----------------------------------------------------------------------------
(* The controller attaches and detaches, the kernel notices. *)

\* The units that AttachDisk may choose.
FreeUnits == Reserved \ {att[v] : v \in Volumes}
UnitChoices == IF FreeUnits = {} THEN {0} ELSE FreeUnits

\* The keys that ControllerPublishVolume puts into the publish context.
ControllerContext == {"diskUnitNum"}

Idle(v) == \A t \in Threads : at[t] # "idle" => rpc[t].vol # v

\* The scheduler keeps to the number that NodeGetInfo gives.
NodeHasRoom == Cardinality({v \in Volumes : att[v] # None}) < MaxVolumesPerNode

Attach(v) ==
    /\ att[v] = None /\ NodeHasRoom
    /\ \E u \in UnitChoices : att' = [att EXCEPT ![v] = u]
    /\ UNCHANGED <<seen, fs, mnt, known, callVars>>

\* The new disk appears some time after the task has ended.
Plug(v) ==
    /\ att[v] # None /\ v \notin seen
    /\ seen' = seen \cup {v}
    /\ UNCHANGED <<att, fs, mnt, known, callVars>>

\* A volume is detached when the kubelet no longer has it in use.
Detach(v) ==
    /\ att[v] # None /\ known[v] = "out" /\ Idle(v)
    /\ att' = [att EXCEPT ![v] = None]
    /\ seen' = seen \ {v}
    /\ UNCHANGED <<fs, mnt, known, callVars>>

-----------------------------------------------------------------------------
(* The kubelet *)

\* From which states the kubelet makes a call, and what it knows then.
CalledFrom == [Stage |-> {"out", "staging", "unstaging"},
               Publish |-> {"staged", "publishing", "unpublishing"},
               Unpublish |-> {"publishing", "published", "unpublishing"},
               Unstage |-> {"staging", "staged", "unstaging"},
               Stats |-> {"publishing", "published", "unpublishing"}]
Calling == [Stage |-> "staging", Publish |-> "publishing",
            Unpublish |-> "unpublishing", Unstage |-> "unstaging"]
Succeeded == [Stage |-> "staged", Publish |-> "published",
              Unpublish |-> "staged", Unstage |-> "out"]

\* Two calls for one volume at a time: statistics, or one is a repetition.
Together(r, q) ==
    "Stats" \in {r.op, q.op} \/ (r.op = q.op /\ r.op \in Repeats)

Receive(t, r) ==
    /\ at[t] = "idle"
    /\ att[r.vol] # None
    /\ known[r.vol] \in CalledFrom[r.op]
    /\ \A u \in Threads : at[u] # "idle" /\ rpc[u].vol = r.vol => Together(r, rpc[u])
    /\ at' = [at EXCEPT ![t] = "begin"]
    /\ rpc' = [rpc EXCEPT ![t] = r]
    /\ known' = IF r.op = "Stats" THEN known
                ELSE [known EXCEPT ![r.vol] = Calling[r.op]]
    /\ UNCHANGED <<nodeState, src, reply>>

Hangup(t) ==
    /\ at' = [at EXCEPT ![t] = "idle"]
    /\ rpc' = [rpc EXCEPT ![t] = NoRpc]
    /\ src' = [src EXCEPT ![t] = None]
    /\ reply' = [reply EXCEPT ![t] = "OK"]
    /\ UNCHANGED nodeState

Answered(t) ==
    /\ at[t] = "done"
    /\ known' = IF reply[t] = "OK" /\ rpc[t].op # "Stats"
                THEN [known EXCEPT ![rpc[t].vol] = Succeeded[rpc[t].op]] ELSE known
    /\ Hangup(t)

\* The kubelet has given up on the call.
NobodyWaits(t) == at[t] = "done" /\ Hangup(t) /\ UNCHANGED known

NoHandlers ==
    /\ at' = [t \in Threads |-> "idle"]
    /\ rpc' = [t \in Threads |-> NoRpc]
    /\ src' = [t \in Threads |-> None]
    /\ reply' = [t \in Threads |-> "OK"]

\* The process ends, with the commands it runs; disks and mounts stay.
Killed == NoHandlers /\ UNCHANGED <<nodeState, known>>

\* The node starts again: no mounts, and a kubelet that knows of none.
Reboot ==
    /\ mnt' = [p \in Paths |-> <<>>]
    /\ known' = [v \in Volumes |-> "out"]
    /\ NoHandlers
    /\ UNCHANGED <<att, seen, fs>>

-----------------------------------------------------------------------------
(* What handlers do. *)

Vol(t) == rpc[t].vol
\* The path that the RPC is about.
Path(t) == IF rpc[t].op \in {"Stage", "Unstage"} THEN Staging(Vol(t)) ELSE Target(Vol(t))

\* The handler goes on to location l, with device d.
Goto(t, l, d) ==
    /\ at' = [at EXCEPT ![t] = l]
    /\ src' = [src EXCEPT ![t] = d]
    /\ UNCHANGED <<known, rpc, reply>>

Respond(t, code) ==
    /\ at' = [at EXCEPT ![t] = "done"]
    /\ reply' = [reply EXCEPT ![t] = code]
    /\ UNCHANGED <<known, rpc, src>>

Enters(t, ops) == at[t] = "begin" /\ rpc[t].valid /\ rpc[t].op \in ops

RejectInvalid(t) ==
    /\ at[t] = "begin" /\ ~rpc[t].valid
    /\ Respond(t, "InvalidArgument")
    /\ UNCHANGED nodeState

\* Stage, and the publish of a block volume, ask for both keys.
UsesContext(t) == rpc[t].op = "Stage" \/ Mode[Vol(t)] = "block"
ContextComplete(t) == Keys \subseteq rpc[t].keys

RejectContext(t) ==
    /\ Enters(t, {"Stage", "Publish"}) /\ UsesContext(t) /\ ~ContextComplete(t)
    /\ Respond(t, "InvalidArgument")
    /\ UNCHANGED nodeState

-----------------------------------------------------------------------------
(* The mounter *)

\* The block devices at unit u, on whatever controller.
UnitMatches(u) == {v \in seen : att[v] = u} \cup {d \in Locals : LocalUnit[d] = u}

\* GetDiskUnit asks for exactly one match.
GetDiskUnitUnset(u) == IF UnitMatches(u) = {} THEN {""} ELSE UnitMatches(u)
GetDiskUnitAny(u) == seen \cup Locals
GetDiskUnit(u) == IF Cardinality(UnitMatches(u)) = 1 THEN UnitMatches(u) ELSE {}

Visible(d) == d \in seen \cup Locals
Mounted(d) == \E p \in Paths : \E i \in DOMAIN mnt[p] : mnt[p][i] = d
\* What is seen at a path: a disk, or None for a directory of the node.
Seen(p) == IF mnt[p] = <<>> THEN None ELSE mnt[p][Len(mnt[p])]

\* blkid finds nothing (exit status 2) on a device it cannot read, either.
IsFormattedNever(d) == FALSE
IsFormatted(d) == Visible(d) /\ fs[d] \in {"empty", "data"}

\* mkfs refuses a device that is mounted.
Format(d) ==
    /\ Visible(d) /\ ~Mounted(d)
    /\ fs' = [fs EXCEPT ![d] = "empty"]
    /\ UNCHANGED <<att, seen, mnt>>

IsMountedNever(p) == FALSE
IsMounted(p) == mnt[p] # <<>>

MountOn(p, d) ==
    /\ mnt' = [mnt EXCEPT ![p] = Append(@, d)]
    /\ UNCHANGED <<att, seen, fs>>

\* The kernel does not mount a device twice on one path.
MountDevice(d, p) ==
    /\ Visible(d) /\ fs[d] \in {"empty", "data"} /\ Seen(p) # d
    /\ MountOn(p, d)

\* A bind mount, of a path or of a device, may be made again and again.
MountBind(d, p) == MountOn(p, d)

Unmount(p) ==
    /\ mnt[p] # <<>>
    /\ mnt' = [mnt EXCEPT ![p] = SubSeq(@, 1, Len(@) - 1)]
    /\ UNCHANGED <<att, seen, fs>>

\* For a block device GetStatistics runs "blockdev getsize64", which takes
\* its first argument for a device and fails.
GetStatistics(p, mode) == mode = "fs" \/ Seen(p) = None

-----------------------------------------------------------------------------
(* The handlers, one step for each command. *)

\* The path that a handler checks before it mounts or unmounts.
CheckedStaging(t) == Staging(Vol(t))
Checked(t) == Path(t)

\* IsMounted, and then Mount if it is not.
MountUnlessMounted(t) ==
    /\ IF IsMounted(Checked(t)) THEN Respond(t, "OK") ELSE Goto(t, "mount", src[t])
    /\ UNCHANGED nodeState

\* IsMounted, and then Unmount if it is.
UnmountIfMounted(t) ==
    /\ IF IsMounted(Checked(t)) THEN Goto(t, "umount", None) ELSE Respond(t, "OK")
    /\ UNCHANGED nodeState

\* NodeStageVolume up to GetDiskUnit; it does nothing for a block volume.
NodeStageVolume(t) ==
    /\ Enters(t, {"Stage"}) /\ ContextComplete(t)
    /\ \/ Mode[Vol(t)] = "block" /\ Respond(t, "OK")
       \/ /\ Mode[Vol(t)] = "fs"
          /\ \E d \in GetDiskUnit(att[Vol(t)]) : Goto(t, "blkid", d)
       \/ /\ Mode[Vol(t)] = "fs" /\ GetDiskUnit(att[Vol(t)]) = {}
          /\ Respond(t, "Unknown")
    /\ UNCHANGED nodeState

StageIsFormatted(t) ==
    /\ at[t] = "blkid"
    /\ Goto(t, IF IsFormatted(src[t]) THEN "findmnt" ELSE "mkfs", src[t])
    /\ UNCHANGED nodeState

StageFormat(t) ==
    /\ at[t] = "mkfs"
    /\ Format(src[t])
    /\ Goto(t, "findmnt", src[t])

StageIsMounted(t) ==
    /\ at[t] = "findmnt" /\ rpc[t].op = "Stage"
    /\ MountUnlessMounted(t)

StageMount(t) ==
    /\ at[t] = "mount" /\ rpc[t].op = "Stage"
    /\ MountDevice(src[t], Path(t))
    /\ Respond(t, "OK")

NodeUnstageVolume(t) == Enters(t, {"Unstage"}) /\ UnmountIfMounted(t)

\* The file system to publish is what is seen at the staging path.
nodePublishVolumeForFileSystem(t) ==
    /\ Enters(t, {"Publish"}) /\ Mode[Vol(t)] = "fs"
    /\ MountUnlessMounted(t)

nodePublishVolumeForBlock(t) ==
    /\ Enters(t, {"Publish"}) /\ Mode[Vol(t)] = "block" /\ ContextComplete(t)
    /\ \/ \E d \in GetDiskUnit(att[Vol(t)]) : Goto(t, "findmnt", d)
       \/ GetDiskUnit(att[Vol(t)]) = {} /\ Respond(t, "Internal")
    /\ UNCHANGED nodeState

BlockIsMounted(t) ==
    /\ at[t] = "findmnt" /\ rpc[t].op = "Publish"
    /\ MountUnlessMounted(t)

PublishMount(t) ==
    /\ at[t] = "mount" /\ rpc[t].op = "Publish"
    /\ MountBind(IF Mode[Vol(t)] = "block" THEN src[t] ELSE Seen(Staging(Vol(t))),
                 Path(t))
    /\ Respond(t, "OK")

NodeUnpublishVolume(t) == Enters(t, {"Unpublish"}) /\ UnmountIfMounted(t)

\* The umount of NodeUnstageVolume and NodeUnpublishVolume.
UnmountPath(t) == at[t] = "umount" /\ Unmount(Path(t)) /\ Respond(t, "OK")

NodeGetVolumeStats(t) ==
    /\ Enters(t, {"Stats"})
    /\ IF IsMounted(Path(t)) THEN Goto(t, "stat", None) ELSE Respond(t, "NotFound")
    /\ UNCHANGED nodeState

StatsAnswer(t) ==
    /\ at[t] = "stat"
    /\ Respond(t, IF GetStatistics(Path(t), Mode[Vol(t)]) THEN "OK" ELSE "Internal")
    /\ UNCHANGED nodeState

(***************************************************************************)
(* A command may fail at any time (IsMounted also because of a mount that  *)
(* is not shared), and the handler ends with its error.                    *)
(***************************************************************************)
CommandFails(t) ==
    /\ \/ at[t] \in {"blkid", "mkfs", "findmnt", "mount", "umount", "stat"}
       \/ Enters(t, {"Unstage", "Unpublish", "Stats"})
       \/ Enters(t, {"Publish"}) /\ Mode[Vol(t)] = "fs"
    /\ Respond(t, IF at[t] \in {"mkfs", "mount"} \/ rpc[t].op = "Stats"
                  THEN "Internal" ELSE "Unknown")
    /\ UNCHANGED nodeState

Handler(t) ==
    \/ RejectInvalid(t) \/ RejectContext(t)
    \/ NodeStageVolume(t) \/ StageIsFormatted(t) \/ StageFormat(t)
    \/ StageIsMounted(t) \/ StageMount(t)
    \/ nodePublishVolumeForFileSystem(t) \/ nodePublishVolumeForBlock(t)
    \/ BlockIsMounted(t) \/ PublishMount(t)
    \/ NodeUnstageVolume(t) \/ NodeUnpublishVolume(t) \/ UnmountPath(t)
    \/ NodeGetVolumeStats(t) \/ StatsAnswer(t)
    \/ CommandFails(t)

\* The pod writes to what it sees.
PodWrites(v) ==
    /\ Seen(Target(v)) # None
    /\ fs' = [fs EXCEPT ![Seen(Target(v))] = IF Mode[v] = "fs" THEN "data" ELSE "raw"]
    /\ UNCHANGED <<att, seen, mnt, known, callVars>>

NodeNext ==
    \/ \E v \in Volumes : Attach(v) \/ Plug(v) \/ Detach(v) \/ PodWrites(v)
    \/ \E t \in Threads : \/ \E r \in NodeRpcs : Receive(t, r)
                          \/ Handler(t) \/ Answered(t) \/ NobodyWaits(t)
    \/ Killed \/ Reboot

NodeSpec == NodeInit /\ [][NodeNext]_nodeVars

-----------------------------------------------------------------------------
(* Properties *)

NodeTypeOK ==
    /\ att \in [Volumes -> Reserved \cup {0, None}]
    /\ seen \subseteq Volumes
    /\ fs \in [Disks -> Contents]
    /\ mnt \in [Paths -> Seq(Disks \cup {None})]
    /\ known \in [Volumes -> {"out", "staging", "staged", "publishing", "published",
                              "unpublishing", "unstaging"}]
    /\ at \in [Threads -> Locations]
    /\ rpc \in [Threads -> NodeRpcs \cup {NoRpc}]
    /\ src \in [Threads -> Disks \cup {None}]
    /\ reply \in [Threads -> Codes]

(***************************************************************************)
(* NodeStageVolume formats no disk that holds data (node.go:86-98),        *)
(* neither a volume's nor one of the node itself, although the check and   *)
(* the mkfs are two commands and calls overlap, fail and are cut short.    *)
(***************************************************************************)
DataNeverFormatted == [][\A d \in Disks : HoldsData(fs[d]) => HoldsData(fs'[d])]_fs

(***************************************************************************)
(* Whatever is mounted on a volume's paths is the volume's own disk, once: *)
(* the device found by its unit (mounter.go:461-488) is the right one, and *)
(* no bind mount is made of an empty staging directory (node.go:368-404).  *)
(***************************************************************************)
MountsOwnDisk ==
    \A v \in Volumes : \A p \in {Staging(v), Target(v)} : mnt[p] \in {<<>>, <<v>>}

(***************************************************************************)
(* A pod whose publish has been answered has its volume: neither retries   *)
(* nor a restart in the middle of a call make NodePublishVolume answer OK  *)
(* without the mount (node.go:382-404, 430-450).                           *)
(***************************************************************************)
PublishedIsMounted ==
    \A v \in Volumes : known[v] = "published" => mnt[Target(v)] = <<v>>

\* A volume in use: its paths as NodeVolumes sees them.
UseOf(v) ==
    LET staged == mnt[Staging(v)] # <<>>
        published == mnt[Target(v)] # <<>>
    IN  CASE published /\ (staged \/ Mode[v] = "block") -> "published"
          [] published /\ ~staged /\ Mode[v] = "fs" -> "published without stage"
          [] ~published /\ staged -> "staged"
          [] OTHER -> "out"

Promise == INSTANCE NodeVolumes WITH
              Nodes <- {"node"},
              Block <- {v \in Volumes : Mode[v] = "block"},
              where <- [v \in Volumes |-> IF att[v] = None THEN None ELSE "node"],
              use <- [n \in {"node"} |-> [v \in Volumes |-> UseOf(v)]],
              loose <- {}

(***************************************************************************)
(* The node keeps its part of NodeVolumes: a volume is still mounted       *)
(* nowhere when it is detached, so NodeUnpublishVolume and                 *)
(* NodeUnstageVolume do not report success while a mount is left           *)
(* (node.go:134, 215), whatever was begun and cut short before; a pod gets *)
(* only what is staged, and the staging mount stays under it.              *)
(***************************************************************************)
ImplementsNodeVolumes == Promise!UseSpec

(***************************************************************************)
(* A volume that the controller has published can be staged: a complete    *)
(* request with the context of ControllerPublishVolume (disk.go:194-200)   *)
(* is not refused as invalid.                                              *)
(***************************************************************************)
PublishContextAccepted ==
    \A t \in Threads : at[t] = "done" /\ rpc[t].op = "Stage" /\ rpc[t].valid =>
                         reply[t] # "InvalidArgument"
=============================================================================
