-------------------------- MODULE NodeServiceProofs --------------------------
(***************************************************************************)
(* What the node RPCs keep when NodePublishVolume is not repeated while it *)
(* still runs, for any number of volumes, disks, handlers and units.       *)
(***************************************************************************)
EXTENDS NodeService, FiniteSetTheorems, TLAPS

-----------------------------------------------------------------------------
(* The inductive invariant *)

\* Volumes are at units of their own, and the kernel shows only attached ones.
UnitInv ==
    /\ \A v \in Volumes : att[v] # None => att[v] \in Reserved
    /\ \A v, w \in Volumes : att[v] # None /\ att[v] = att[w] => v = w
    /\ \A v \in seen : att[v] # None

\* What the mounts of a volume have to do with what the kubelet knows.
VolInv(v) ==
    LET staging == mnt[Staging(v)]
        target == mnt[Target(v)]
    IN  /\ staging \in {<<>>, <<v>>} /\ target \in {<<>>, <<v>>}
        /\ Mode[v] = "block" => staging = <<>>
        /\ Mode[v] = "fs" => fs[v] # "raw"
        /\ known[v] \in {"out", "staging", "staged", "unstaging"} => target = <<>>
        /\ known[v] \in {"staged", "publishing", "published", "unpublishing"}
             /\ Mode[v] = "fs" => staging = <<v>>
        /\ known[v] = "out" => staging = <<>>
        /\ known[v] = "published" => target = <<v>>

\* Where a handler may be.
LocationInv(t) ==
    LET op == rpc[t].op
        fsMode == Mode[rpc[t].vol] = "fs"
    IN  /\ at[t] \in {"blkid", "mkfs"} => op = "Stage" /\ fsMode
        /\ at[t] = "findmnt" => (op = "Stage" /\ fsMode) \/ (op = "Publish" /\ ~fsMode)
        /\ at[t] = "mount" => (op = "Stage" /\ fsMode) \/ op = "Publish"
        /\ at[t] = "umount" => op \in {"Unstage", "Unpublish"}
        /\ at[t] = "stat" => op = "Stats"

\* The device that a handler has found is the one of its volume, which is not
\* formatted if it holds data.
DeviceInv(t) ==
    LET v == rpc[t].vol IN
    /\ \/ at[t] \in {"blkid", "mkfs", "findmnt"}
       \/ at[t] = "mount" /\ (rpc[t].op = "Stage" \/ Mode[v] = "block")
       => src[t] = v /\ v \in seen
    /\ at[t] = "mkfs" => ~HoldsData(fs[v])
    /\ at[t] = "mount" /\ rpc[t].op = "Publish" => mnt[Target(v)] = <<>>

\* A handler that is about to answer OK has done its work.
DoneInv(t) ==
    LET v == rpc[t].vol IN
    at[t] = "done" /\ reply[t] = "OK" =>
        /\ rpc[t].op = "Stage" /\ Mode[v] = "fs" => mnt[Staging(v)] = <<v>>
        /\ rpc[t].op = "Publish" => mnt[Target(v)] = <<v>>
        /\ rpc[t].op = "Unpublish" => mnt[Target(v)] = <<>>
        /\ rpc[t].op = "Unstage" => mnt[Staging(v)] = <<>>

\* The kubelet makes calls for attached volumes, and waits for them or gets
\* their answers.
CallInv(t) ==
    LET v == rpc[t].vol IN
    /\ rpc[t] \in NodeRpcs /\ att[v] # None
    /\ rpc[t].op # "Stats" => known[v] \in {Calling[rpc[t].op], Succeeded[rpc[t].op]}

ThreadInv(t) ==
    at[t] # "idle" => CallInv(t) /\ LocationInv(t) /\ DeviceInv(t) /\ DoneInv(t)

\* The calls that run for a volume may do so together.
TogetherInv ==
    \A t, u \in Threads :
        t # u /\ at[t] # "idle" /\ at[u] # "idle" /\ rpc[t].vol = rpc[u].vol =>
            Together(rpc[t], rpc[u])

NodeInv ==
    /\ NodeTypeOK /\ UnitInv /\ TogetherInv
    /\ \A v \in Volumes : VolInv(v)
    /\ \A t \in Threads : ThreadInv(t)

-----------------------------------------------------------------------------
(* Paths, requests and what a step leaves alone *)

\* Every volume has two paths of its own, and there are no others.
LEMMA PathFacts ==
    /\ \A v \in Volumes : Staging(v) \in Paths /\ Target(v) \in Paths
    /\ \A v, w \in Volumes : /\ Staging(v) # Target(w)
                             /\ Staging(v) = Staging(w) => v = w
                             /\ Target(v) = Target(w) => v = w
    /\ \A p \in Paths : \E v \in Volumes : p = Staging(v) \/ p = Target(v)
BY DEF Staging, Target, Paths

\* The fields of a request (node.go:31-57, 115-121, 145-160, 198-204, 231-240).
LEMMA RpcFields ==
    ASSUME NEW r \in NodeRpcs
    PROVE  /\ r.op \in {"Stage", "Publish", "Unstage", "Unpublish", "Stats"}
           /\ r.vol \in Volumes /\ r.valid \in BOOLEAN /\ r # NoRpc
BY DEF NodeRpcs, NoRpc

\* What the invariant says of a volume and of a handler depends on these.
VolFrame(v) == <<mnt[Staging(v)], mnt[Target(v)], known[v], fs[v], att[v], v \in seen>>
CallFrame(t) == <<at[t], rpc[t], src[t], reply[t]>>

\* What is known of a volume depends on its own part of the node.
LEMMA VolInvFrame ==
    ASSUME NEW v, VolInv(v), VolFrame(v)' = VolFrame(v)
    PROVE  VolInv(v)'
BY DEF VolInv, VolFrame

\* What is known of a handler depends on itself and on its volume.
LEMMA ThreadInvFrame ==
    ASSUME NEW t, NEW v, ThreadInv(t), rpc[t].vol = v, CallFrame(t)' = CallFrame(t),
           VolFrame(v)' = VolFrame(v)
    PROVE  ThreadInv(t)'
<1>1. /\ at'[t] = at[t] /\ rpc'[t] = rpc[t] /\ src'[t] = src[t] /\ reply'[t] = reply[t]
  BY DEF CallFrame
<1>2. /\ mnt'[Staging(v)] = mnt[Staging(v)] /\ mnt'[Target(v)] = mnt[Target(v)]
      /\ known'[v] = known[v] /\ fs'[v] = fs[v] /\ att'[v] = att[v]
      /\ (v \in seen') = (v \in seen)
  BY DEF VolFrame
<1> QED
  BY <1>1, <1>2 DEF ThreadInv, CallInv, LocationInv, DeviceInv, DoneInv

\* It is enough to look at one volume and its handlers.
LEMMA OneVolume ==
    ASSUME NodeInv, NEW v \in Volumes, NodeTypeOK', UnitInv', TogetherInv', VolInv(v)',
           \A w \in Volumes \ {v} : VolFrame(w)' = VolFrame(w),
           \A u \in Threads : \/ ThreadInv(u)'
                              \/ CallFrame(u)' = CallFrame(u) /\ rpc[u].vol # v
    PROVE  NodeInv'
<1>1. ASSUME NEW w \in Volumes PROVE VolInv(w)'
  BY VolInvFrame DEF NodeInv
<1>2. ASSUME NEW u \in Threads PROVE ThreadInv(u)'
  <2>1. ThreadInv(u)
    BY DEF NodeInv
  <2>2. CASE CallFrame(u)' = CallFrame(u) /\ rpc[u].vol # v /\ at[u] # "idle"
    <3>1. PICK w \in Volumes \ {v} : rpc[u].vol = w
      BY <2>1, <2>2, RpcFields DEF ThreadInv, CallInv
    <3> QED
      BY <2>1, <2>2, <3>1, ThreadInvFrame
  <2>3. CASE CallFrame(u)' = CallFrame(u) /\ at[u] = "idle"
    BY <2>3 DEF ThreadInv, CallFrame
  <2> QED
    BY <2>2, <2>3
<1> QED
  BY <1>1, <1>2 DEF NodeInv

\* The calls that run keep being allowed together if none begins.
LEMMA TogetherKept ==
    ASSUME TogetherInv,
           \A t \in Threads : at'[t] # "idle" => at[t] # "idle" /\ rpc'[t] = rpc[t]
    PROVE  TogetherInv'
BY DEF TogetherInv

\* Handler t has moved, and nothing else.
CallMoves(t) ==
    /\ at[t] # "idle" /\ rpc' = rpc
    /\ at' \in [Threads -> Locations] /\ src' \in [Threads -> Disks \cup {None}]
    /\ reply' \in [Threads -> Codes]
    /\ \A u \in Threads \ {t} : CallFrame(u)' = CallFrame(u)

\* A handler that moves without changing the node.
LEMMA OnlyCallMoves ==
    ASSUME NodeInv, NEW t \in Threads, CallMoves(t), UNCHANGED <<nodeState, known>>,
           LocationInv(t)', DeviceInv(t)', DoneInv(t)'
    PROVE  NodeInv'
<1>1. UNCHANGED <<att, seen, fs, mnt, known, rpc>>
  BY DEF nodeState, CallMoves
<1>2. NodeTypeOK' /\ UnitInv'
  BY <1>1 DEF NodeInv, NodeTypeOK, UnitInv, CallMoves
<1>3. TogetherInv'
  BY <1>1, TogetherKept DEF NodeInv, CallMoves, CallFrame
<1>4. ASSUME NEW w \in Volumes PROVE VolInv(w)'
  BY <1>1 DEF NodeInv, VolInv
<1>5. ASSUME NEW u \in Threads PROVE ThreadInv(u)'
  <2>1. ThreadInv(u)
    BY DEF NodeInv
  <2>2. CASE u = t
    BY <1>1, <2>1, <2>2 DEF ThreadInv, CallInv, CallMoves
  <2>3. CASE u # t
    BY <1>1, <2>1, <2>3 DEF CallMoves, CallFrame, ThreadInv, CallInv, LocationInv,
                            DeviceInv, DoneInv
  <2> QED
    BY <2>2, <2>3
<1> QED
  BY <1>2, <1>3, <1>4, <1>5 DEF NodeInv

\* The two ways to move: on to another command, or to the answer.
LEMMA GotoMoves ==
    ASSUME NodeTypeOK, NEW t \in Threads, at[t] # "idle", NEW l \in Locations,
           NEW d \in Disks \cup {None}, Goto(t, l, d)
    PROVE  CallMoves(t) /\ UNCHANGED known /\ at'[t] = l /\ src'[t] = d
BY DEF NodeTypeOK, Goto, CallMoves, CallFrame

\* What answering changes.
LEMMA RespondMoves ==
    ASSUME NodeTypeOK, NEW t \in Threads, at[t] # "idle", NEW code \in Codes,
           Respond(t, code)
    PROVE  CallMoves(t) /\ UNCHANGED known /\ at'[t] = "done" /\ reply'[t] = code
BY DEF NodeTypeOK, Respond, CallMoves, CallFrame, Locations

\* Answering with an error, or for statistics, needs nothing to be done.
LEMMA RespondKeeps ==
    ASSUME NodeInv, NEW t \in Threads, at[t] # "idle", NEW code \in Codes,
           Respond(t, code), UNCHANGED nodeState, code # "OK" \/ DoneInv(t)'
    PROVE  NodeInv'
<1>1. CallMoves(t) /\ UNCHANGED known /\ at'[t] = "done" /\ reply'[t] = code
  BY RespondMoves DEF NodeInv
<1>2. LocationInv(t)' /\ DeviceInv(t)' /\ DoneInv(t)'
  BY <1>1 DEF LocationInv, DeviceInv, DoneInv
<1> QED
  BY <1>1, <1>2, OnlyCallMoves

-----------------------------------------------------------------------------
(* Finding the device *)

\* The only device at the unit of a volume is the volume, once the kernel shows
\* it (mounter.go:461-488): the node's own disks are at no unit for volumes.
LEMMA DeviceFound ==
    ASSUME NodeInv, NEW v \in Volumes, att[v] # None, NEW d \in GetDiskUnit(att[v])
    PROVE  d = v /\ v \in seen
<1>1. att[v] \in Reserved
  BY DEF NodeInv, UnitInv
<1>2. {x \in Locals : LocalUnit[x] = att[v]} = {}
  BY <1>1, NodeAssumption
<1>3. d \in seen /\ att[d] = att[v]
  BY <1>2 DEF GetDiskUnit, UnitMatches
<1> QED
  BY <1>3 DEF NodeInv, UnitInv, NodeTypeOK

\* What is known of a handler that runs.
LEMMA RunningCall ==
    ASSUME NodeInv, NEW t \in Threads, at[t] # "idle"
    PROVE  /\ rpc[t] \in NodeRpcs /\ Vol(t) \in Volumes /\ Vol(t) \in Disks
           /\ att[Vol(t)] # None /\ Mode[Vol(t)] \in {"fs", "block"}
           /\ VolInv(Vol(t)) /\ LocationInv(t) /\ DeviceInv(t) /\ DoneInv(t) /\ CallInv(t)
           /\ src[t] \in Disks \cup {None} /\ NodeTypeOK
<1>1. ThreadInv(t) /\ NodeTypeOK
  BY DEF NodeInv
<1>2. rpc[t] \in NodeRpcs /\ rpc[t].vol \in Volumes /\ att[rpc[t].vol] # None
  BY <1>1, RpcFields DEF ThreadInv, CallInv
<1> QED
  BY <1>1, <1>2, NodeAssumption DEF Vol, Disks, NodeInv, ThreadInv, NodeTypeOK

\* NodeStageVolume finds the device by its unit (node.go:71).
LEMMA StageBegins ==
    ASSUME NodeInv, NEW t \in Threads, NodeStageVolume(t)
    PROVE  NodeInv'
<1>1. /\ at[t] # "idle" /\ rpc[t].op = "Stage" /\ UNCHANGED nodeState
  BY DEF NodeStageVolume, Enters
<1>2. CASE Mode[Vol(t)] = "block" /\ Respond(t, "OK")
  <2>1. CallMoves(t) /\ UNCHANGED mnt
    BY <1>1, <1>2, RespondMoves DEF Codes, NodeInv, nodeState
  <2>2. DoneInv(t)'
    BY <1>1, <1>2, <2>1 DEF DoneInv, CallMoves, Vol
  <2> QED
    BY <1>1, <1>2, <2>2, RespondKeeps DEF Codes
<1>3. ASSUME Mode[Vol(t)] = "fs", NEW d \in GetDiskUnit(att[Vol(t)]), Goto(t, "blkid", d)
      PROVE  NodeInv'
  <2>1. d = Vol(t) /\ Vol(t) \in seen /\ d \in Disks
    BY <1>1, <1>3, RunningCall, DeviceFound
  <2>2. CallMoves(t) /\ UNCHANGED known /\ at'[t] = "blkid" /\ src'[t] = d
    BY <1>1, <1>3, <2>1, GotoMoves DEF NodeInv, Locations
  <2>3. LocationInv(t)' /\ DeviceInv(t)' /\ DoneInv(t)'
    BY <1>1, <1>3, <2>1, <2>2
       DEF LocationInv, DeviceInv, DoneInv, CallMoves, Vol, nodeState
  <2> QED
    BY <1>1, <2>2, <2>3, OnlyCallMoves
<1>4. CASE Respond(t, "Unknown")
  BY <1>1, <1>4, RespondKeeps DEF Codes
<1> QED
  BY <1>2, <1>3, <1>4 DEF NodeStageVolume

\* blkid tells a volume with data from one without: that of a file system
\* volume is always in a file system.
LEMMA StageIsFormattedKeeps ==
    ASSUME NodeInv, NEW t \in Threads, StageIsFormatted(t)
    PROVE  NodeInv'
<1> DEFINE l == IF IsFormatted(src[t]) THEN "findmnt" ELSE "mkfs"
<1>1. at[t] = "blkid" /\ Goto(t, l, src[t]) /\ UNCHANGED nodeState
  BY DEF StageIsFormatted
<1>2. /\ rpc[t].op = "Stage" /\ Mode[Vol(t)] = "fs" /\ src[t] = Vol(t) /\ Vol(t) \in seen
      /\ VolInv(Vol(t)) /\ Vol(t) \in Disks
  BY <1>1, RunningCall DEF LocationInv, DeviceInv, Vol
<1>3. /\ CallMoves(t) /\ UNCHANGED known /\ at'[t] = l /\ src'[t] = src[t]
      /\ l \in {"findmnt", "mkfs"}
  BY <1>1, <1>2, GotoMoves DEF NodeInv, Locations
<1>4. l = "mkfs" => ~HoldsData(fs[Vol(t)])
  <2>1. fs[Vol(t)] \in Contents /\ fs[Vol(t)] # "raw"
    BY <1>2 DEF VolInv, NodeInv, NodeTypeOK
  <2> QED
    BY <1>2, <2>1 DEF IsFormatted, Visible, HoldsData, Contents
<1> HIDE DEF l
<1>5. LocationInv(t)' /\ DeviceInv(t)' /\ DoneInv(t)'
  BY <1>1, <1>2, <1>3, <1>4 DEF LocationInv, DeviceInv, DoneInv, CallMoves, Vol, nodeState
<1> QED
  BY <1>1, <1>3, <1>5, OnlyCallMoves

-----------------------------------------------------------------------------
(* Checks before a mount or an unmount *)

\* A handler finds its path mounted, which is then its volume, or goes on.
LEMMA MountUnlessMountedKeeps ==
    ASSUME NodeInv, NEW t \in Threads, at[t] # "idle", MountUnlessMounted(t),
           \/ rpc[t].op = "Stage" /\ Mode[Vol(t)] = "fs"
           \/ rpc[t].op = "Publish",
           rpc[t].op = "Stage" \/ Mode[Vol(t)] = "block" =>
               src[t] = Vol(t) /\ Vol(t) \in seen
    PROVE  NodeInv'
<1> DEFINE v == Vol(t)
<1>1. /\ VolInv(v) /\ v = rpc[t].vol /\ UNCHANGED nodeState /\ NodeTypeOK
      /\ src[t] \in Disks \cup {None}
      /\ Checked(t) = IF rpc[t].op = "Stage" THEN Staging(v) ELSE Target(v)
  BY RunningCall DEF MountUnlessMounted, Checked, Path, Vol
<1> HIDE DEF v
<1>2. CASE IsMounted(Checked(t)) /\ Respond(t, "OK")
  <2>1. /\ rpc[t].op = "Stage" => mnt[Staging(v)] = <<v>>
        /\ rpc[t].op = "Publish" => mnt[Target(v)] = <<v>>
    BY <1>1, <1>2 DEF IsMounted, VolInv
  <2>2. CallMoves(t) /\ UNCHANGED mnt
    BY <1>1, <1>2, RespondMoves DEF nodeState, Codes
  <2>3. DoneInv(t)'
    BY <1>1, <2>1, <2>2 DEF DoneInv, CallMoves
  <2> QED
    BY <1>1, <1>2, <2>3, RespondKeeps DEF Codes
<1>3. CASE ~IsMounted(Checked(t)) /\ Goto(t, "mount", src[t])
  <2>1. rpc[t].op = "Publish" => mnt[Target(v)] = <<>>
    BY <1>1, <1>3 DEF IsMounted
  <2>2. CallMoves(t) /\ UNCHANGED known /\ at'[t] = "mount" /\ src'[t] = src[t]
    BY <1>1, <1>3, GotoMoves DEF Locations
  <2>3. LocationInv(t)' /\ DeviceInv(t)' /\ DoneInv(t)'
    BY <1>1, <2>1, <2>2 DEF LocationInv, DeviceInv, DoneInv, CallMoves, nodeState, v
  <2> QED
    BY <1>1, <2>2, <2>3, OnlyCallMoves
<1> QED
  BY <1>2, <1>3 DEF MountUnlessMounted

\* A handler finds nothing mounted, and is done, or goes on.
LEMMA UnmountIfMountedKeeps ==
    ASSUME NodeInv, NEW t \in Threads, at[t] # "idle", UnmountIfMounted(t),
           rpc[t].op \in {"Unstage", "Unpublish"}
    PROVE  NodeInv'
<1> DEFINE v == Vol(t)
<1>1. /\ v = rpc[t].vol /\ UNCHANGED nodeState /\ NodeTypeOK
      /\ Checked(t) = IF rpc[t].op = "Unstage" THEN Staging(v) ELSE Target(v)
  BY RunningCall DEF UnmountIfMounted, Checked, Path, Vol
<1> HIDE DEF v
<1>2. CASE ~IsMounted(Checked(t)) /\ Respond(t, "OK")
  <2>1. /\ rpc[t].op = "Unstage" => mnt[Staging(v)] = <<>>
        /\ rpc[t].op = "Unpublish" => mnt[Target(v)] = <<>>
    BY <1>1, <1>2 DEF IsMounted
  <2>2. CallMoves(t) /\ UNCHANGED mnt
    BY <1>1, <1>2, RespondMoves DEF nodeState, Codes
  <2>3. DoneInv(t)'
    BY <1>1, <2>1, <2>2 DEF DoneInv, CallMoves
  <2> QED
    BY <1>1, <1>2, <2>3, RespondKeeps DEF Codes
<1>3. CASE Goto(t, "umount", None)
  <2>1. CallMoves(t) /\ UNCHANGED known /\ at'[t] = "umount"
    BY <1>1, <1>3, GotoMoves DEF Locations
  <2>2. LocationInv(t)' /\ DeviceInv(t)' /\ DoneInv(t)'
    BY <2>1 DEF LocationInv, DeviceInv, DoneInv, CallMoves
  <2> QED
    BY <1>1, <2>1, <2>2, OnlyCallMoves
<1> QED
  BY <1>2, <1>3 DEF UnmountIfMounted

\* nodePublishVolumeForBlock finds the device by its unit.
LEMMA BlockBegins ==
    ASSUME NodeInv, NEW t \in Threads, nodePublishVolumeForBlock(t)
    PROVE  NodeInv'
<1>1. /\ at[t] # "idle" /\ rpc[t].op = "Publish" /\ Mode[Vol(t)] = "block"
      /\ UNCHANGED nodeState
  BY DEF nodePublishVolumeForBlock, Enters
<1>2. ASSUME NEW d \in GetDiskUnit(att[Vol(t)]), Goto(t, "findmnt", d)
      PROVE  NodeInv'
  <2>1. d = Vol(t) /\ Vol(t) \in seen /\ d \in Disks
    BY <1>1, <1>2, RunningCall, DeviceFound
  <2>2. CallMoves(t) /\ UNCHANGED known /\ at'[t] = "findmnt" /\ src'[t] = d
    BY <1>1, <1>2, <2>1, GotoMoves DEF NodeInv, Locations
  <2>3. LocationInv(t)' /\ DeviceInv(t)' /\ DoneInv(t)'
    BY <1>1, <2>1, <2>2 DEF LocationInv, DeviceInv, DoneInv, CallMoves, Vol, nodeState
  <2> QED
    BY <1>1, <2>2, <2>3, OnlyCallMoves
<1>3. CASE Respond(t, "Internal")
  BY <1>1, <1>3, RespondKeeps DEF Codes
<1> QED
  BY <1>2, <1>3 DEF nodePublishVolumeForBlock

\* NodeGetVolumeStats changes nothing.
LEMMA StatsKeeps ==
    ASSUME NodeInv, NEW t \in Threads, NodeGetVolumeStats(t) \/ StatsAnswer(t)
    PROVE  NodeInv'
<1>1. at[t] # "idle" /\ UNCHANGED nodeState /\ rpc[t].op = "Stats" /\ NodeTypeOK
  BY RunningCall DEF NodeGetVolumeStats, StatsAnswer, Enters, LocationInv, NodeInv
<1>2. CASE Goto(t, "stat", None)
  <2>1. CallMoves(t) /\ UNCHANGED known /\ at'[t] = "stat"
    BY <1>1, <1>2, GotoMoves DEF Locations
  <2>2. LocationInv(t)' /\ DeviceInv(t)' /\ DoneInv(t)'
    BY <1>1, <2>1 DEF LocationInv, DeviceInv, DoneInv, CallMoves
  <2> QED
    BY <1>1, <2>1, <2>2, OnlyCallMoves
<1>3. ASSUME NEW code \in {"OK", "Internal", "NotFound"}, Respond(t, code) PROVE NodeInv'
  <2>1. CallMoves(t)
    BY <1>1, <1>3, RespondMoves DEF Codes
  <2>2. DoneInv(t)'
    BY <1>1, <2>1 DEF DoneInv, CallMoves
  <2> QED
    BY <1>1, <1>3, <2>2, RespondKeeps DEF Codes
<1> QED
  BY <1>2, <1>3 DEF NodeGetVolumeStats, StatsAnswer

\* An error leaves everything as it is.
LEMMA FailureKeeps ==
    ASSUME NodeInv, NEW t \in Threads,
           RejectInvalid(t) \/ RejectContext(t) \/ CommandFails(t)
    PROVE  NodeInv'
<1>1. /\ at[t] # "idle" /\ UNCHANGED nodeState
      /\ \E code \in Codes \ {"OK"} : Respond(t, code)
  BY DEF RejectInvalid, RejectContext, CommandFails, Enters, Codes
<1> QED
  BY <1>1, RespondKeeps

-----------------------------------------------------------------------------
(* Commands that change a disk or a mount *)

\* Another call for the volume is for statistics, or a repetition.
LEMMA OtherCall ==
    ASSUME NodeInv, NEW t \in Threads, NEW u \in Threads \ {t}, at[t] # "idle",
           at[u] # "idle", rpc[u].vol = rpc[t].vol, rpc[t].op # "Stats"
    PROVE  rpc[u].op = "Stats" \/ (rpc[u].op = rpc[t].op /\ rpc[u].op \in Repeats)
BY DEF NodeInv, TogetherInv, Together

\* Statistics depend on nothing but that the volume stays attached.
LEMMA StatsStay ==
    ASSUME NodeInv, NEW u \in Threads, at[u] # "idle", rpc[u].op = "Stats",
           CallFrame(u)' = CallFrame(u), UNCHANGED att
    PROVE  ThreadInv(u)'
<1>1. CallInv(u) /\ LocationInv(u)
  BY RunningCall
<1>2. at'[u] = at[u] /\ rpc'[u] = rpc[u] /\ src'[u] = src[u] /\ reply'[u] = reply[u]
  BY DEF CallFrame
<1> QED
  BY <1>1, <1>2 DEF ThreadInv, CallInv, LocationInv, DeviceInv, DoneInv

\* The command of handler t changes its volume: what is left to look at.
LEMMA CommandKeeps ==
    ASSUME NodeInv, NEW t \in Threads, CallMoves(t), rpc[t].op # "Stats",
           UNCHANGED <<att, seen, known>>,
           fs' \in [Disks -> Contents], mnt' \in [Paths -> Seq(Disks \cup {None})],
           \A w \in Volumes \ {Vol(t)} : /\ mnt'[Staging(w)] = mnt[Staging(w)]
                                         /\ mnt'[Target(w)] = mnt[Target(w)]
                                         /\ fs'[w] = fs[w],
           NEW v \in Volumes, v = Vol(t), VolInv(v)',
           LocationInv(t)', DeviceInv(t)', DoneInv(t)',
           \A u \in Threads \ {t} :
               at[u] # "idle" /\ rpc[u].vol = v /\ rpc[u].op = rpc[t].op
                 /\ rpc[t].op \in Repeats => ThreadInv(u)'
    PROVE  NodeInv'
<1>1. rpc' = rpc /\ at[t] # "idle" /\ \A u \in Threads \ {t} : CallFrame(u)' = CallFrame(u)
  BY DEF CallMoves
<1>2. NodeTypeOK' /\ UnitInv'
  BY DEF NodeInv, NodeTypeOK, UnitInv, CallMoves
<1>3. TogetherInv'
  BY <1>1, TogetherKept DEF NodeInv, CallFrame
<1>4. \A w \in Volumes \ {v} : VolFrame(w)' = VolFrame(w)
  BY DEF VolFrame
<1>5. ThreadInv(t)'
  BY <1>1, RunningCall DEF ThreadInv, CallInv
<1>6. ASSUME NEW u \in Threads \ {t}
      PROVE  ThreadInv(u)' \/ (CallFrame(u)' = CallFrame(u) /\ rpc[u].vol # v)
  <2>1. CASE at[u] = "idle"
    BY <1>1, <2>1 DEF ThreadInv, CallFrame
  <2>2. CASE at[u] # "idle" /\ rpc[u].vol = v
    BY <1>1, <2>2, OtherCall, StatsStay DEF Vol
  <2> QED
    BY <1>1, <2>1, <2>2
<1> QED
  BY <1>2, <1>3, <1>4, <1>5, <1>6, OneVolume

\* What is seen at the path of a volume is the volume, or nothing.
LEMMA SeenAtPath ==
    ASSUME NEW v \in Volumes, NEW p, mnt[p] \in {<<>>, <<v>>}
    PROVE  /\ mnt[p] = <<>> => Seen(p) = None
           /\ mnt[p] = <<v>> => Seen(p) = v
           /\ v # None
BY NodeAssumption DEF Seen

\* Mounting on an empty path, and taking away the only mount.
LEMMA MountOne ==
    ASSUME NodeTypeOK, NEW p \in Paths, NEW d \in Disks, mnt[p] = <<>>, MountOn(p, d)
    PROVE  /\ mnt' \in [Paths -> Seq(Disks \cup {None})] /\ mnt'[p] = <<d>>
           /\ \A q \in Paths \ {p} : mnt'[q] = mnt[q]
           /\ UNCHANGED <<att, seen, fs>>
<1>1. Append(<<>>, d) = <<d>> /\ <<d>> \in Seq(Disks \cup {None})
  OBVIOUS
<1> QED
  BY <1>1 DEF NodeTypeOK, MountOn

\* umount takes the only mount of a path.
LEMMA UnmountOne ==
    ASSUME NodeTypeOK, NEW p \in Paths, NEW v, mnt[p] \in {<<>>, <<v>>}, Unmount(p)
    PROVE  /\ mnt' \in [Paths -> Seq(Disks \cup {None})] /\ mnt'[p] = <<>>
           /\ \A q \in Paths \ {p} : mnt'[q] = mnt[q]
           /\ UNCHANGED <<att, seen, fs>> /\ mnt[p] = <<v>>
<1>1. mnt[p] = <<v>>
  BY DEF Unmount
<1>2. SubSeq(<<v>>, 1, Len(<<v>>) - 1) = <<>>
  OBVIOUS
<1>3. mnt' = [mnt EXCEPT ![p] = <<>>]
  BY <1>1, <1>2 DEF Unmount
<1>4. <<>> \in Seq(Disks \cup {None})
  OBVIOUS
<1> QED
  BY <1>1, <1>3, <1>4 DEF NodeTypeOK, Unmount

\* mkfs
LEMMA StageFormatKeeps ==
    ASSUME NodeInv, NEW t \in Threads, StageFormat(t)
    PROVE  NodeInv'
<1>1. at[t] = "mkfs" /\ Format(src[t]) /\ Goto(t, "findmnt", src[t])
  BY DEF StageFormat
<1>2. PICK v \in Volumes : v = Vol(t)
  BY <1>1, RunningCall
<1>3. /\ v = rpc[t].vol /\ rpc[t].op = "Stage" /\ Mode[v] = "fs" /\ src[t] = v
      /\ v \in seen /\ v \in Disks /\ VolInv(v) /\ NodeTypeOK
  BY <1>1, <1>2, RunningCall DEF LocationInv, DeviceInv, Vol
<1>4. CallMoves(t) /\ UNCHANGED known /\ at'[t] = "findmnt" /\ src'[t] = v
  BY <1>1, <1>3, GotoMoves DEF Locations
<1>5. /\ fs' \in [Disks -> Contents] /\ fs'[v] = "empty" /\ UNCHANGED <<att, seen, mnt>>
      /\ \A w \in Volumes \ {v} : fs'[w] = fs[w]
  BY <1>1, <1>3 DEF Format, NodeTypeOK, Contents, Disks
<1>6. VolInv(v)'
  BY <1>3, <1>4, <1>5 DEF VolInv
<1>7. LocationInv(t)' /\ DeviceInv(t)' /\ DoneInv(t)'
  BY <1>3, <1>4, <1>5 DEF LocationInv, DeviceInv, DoneInv, CallMoves
<1>8. ASSUME NEW u \in Threads \ {t}, at[u] # "idle", rpc[u].vol = v
      PROVE  ThreadInv(u)'
  <2>1. at'[u] = at[u] /\ rpc'[u] = rpc[u] /\ src'[u] = src[u] /\ reply'[u] = reply[u]
    BY <1>4 DEF CallMoves, CallFrame
  <2>2. CallInv(u) /\ LocationInv(u) /\ DeviceInv(u) /\ DoneInv(u)
    BY <1>8, RunningCall
  <2> QED
    BY <1>4, <1>5, <1>8, <2>1, <2>2
       DEF ThreadInv, CallInv, LocationInv, DeviceInv, DoneInv, HoldsData
<1>9. mnt' \in [Paths -> Seq(Disks \cup {None})]
  BY <1>3, <1>5 DEF NodeTypeOK
<1> QED
  BY <1>2, <1>3, <1>4, <1>5, <1>6, <1>7, <1>8, <1>9, CommandKeeps

\* While a volume is staged or unstaged, no pod has it.
LEMMA StagingUnused ==
    ASSUME NodeInv, NEW t \in Threads, at[t] # "idle", rpc[t].op \in {"Stage", "Unstage"}
    PROVE  mnt[Target(Vol(t))] = <<>>
BY RunningCall DEF CallInv, VolInv, Calling, Succeeded, Vol

\* The mounts of volume v become these, and nothing else changes on the node.
Mounts(v, staging, target) ==
    /\ mnt' \in [Paths -> Seq(Disks \cup {None})]
    /\ mnt'[Staging(v)] = staging /\ mnt'[Target(v)] = target
    /\ \A w \in Volumes \ {v} : /\ mnt'[Staging(w)] = mnt[Staging(w)]
                                /\ mnt'[Target(w)] = mnt[Target(w)]
    /\ UNCHANGED <<att, seen, fs>>

\* mount of the device: it is the volume's, and mounted nowhere.
LEMMA StageMounts ==
    ASSUME NodeInv, NEW t \in Threads, StageMount(t), NEW v \in Volumes, v = Vol(t)
    PROVE  /\ Mode[v] = "fs" /\ known[v] \in {"staging", "staged"}
           /\ mnt[Staging(v)] = <<>> /\ mnt[Target(v)] = <<>>
           /\ Mounts(v, <<v>>, <<>>)
<1>1. at[t] = "mount" /\ rpc[t].op = "Stage" /\ MountDevice(src[t], Path(t))
  BY DEF StageMount
<1>2. /\ Mode[v] = "fs" /\ src[t] = v /\ Path(t) = Staging(v)
      /\ v \in Disks /\ VolInv(v) /\ NodeTypeOK
      /\ known[v] \in {"staging", "staged"} /\ mnt[Target(v)] = <<>>
  BY <1>1, RunningCall, StagingUnused
     DEF LocationInv, DeviceInv, Vol, Path, CallInv, Calling, Succeeded
<1>3. mnt[Staging(v)] = <<>>
  BY <1>1, <1>2, SeenAtPath DEF MountDevice, VolInv
<1>4. /\ mnt' \in [Paths -> Seq(Disks \cup {None})] /\ mnt'[Staging(v)] = <<v>>
      /\ \A q \in Paths \ {Staging(v)} : mnt'[q] = mnt[q]
      /\ UNCHANGED <<att, seen, fs>>
  BY <1>1, <1>2, <1>3, MountOne, PathFacts DEF MountDevice
<1>5. /\ mnt'[Target(v)] = mnt[Target(v)]
      /\ \A w \in Volumes \ {v} : /\ mnt'[Staging(w)] = mnt[Staging(w)]
                                  /\ mnt'[Target(w)] = mnt[Target(w)]
  BY <1>4, PathFacts
<1> QED
  BY <1>2, <1>3, <1>4, <1>5 DEF Mounts

\* bind mount for the pod: of the volume, staged before if it has a file system.
LEMMA PublishMounts ==
    ASSUME NodeInv, NEW t \in Threads, PublishMount(t), NEW v \in Volumes, v = Vol(t)
    PROVE  /\ mnt[Target(v)] = <<>> /\ known[v] \in {"publishing", "published"}
           /\ Mode[v] = "fs" => mnt[Staging(v)] = <<v>>
           /\ Mounts(v, mnt[Staging(v)], <<v>>)
<1>1. at[t] = "mount" /\ rpc[t].op = "Publish"
  BY DEF PublishMount
<1>2. /\ Path(t) = Target(v) /\ mnt[Target(v)] = <<>>
      /\ v \in Disks /\ VolInv(v) /\ NodeTypeOK /\ Mode[v] \in {"fs", "block"}
      /\ known[v] \in {"publishing", "published"}
  BY <1>1, RunningCall DEF LocationInv, DeviceInv, Vol, Path, CallInv, Calling, Succeeded
<1>3. MountOn(Target(v), v)
  <2>1. CASE Mode[v] = "block"
    <3>1. src[t] = v
      BY <1>1, <2>1, RunningCall DEF DeviceInv, Vol
    <3> QED
      BY <1>2, <2>1, <3>1 DEF PublishMount, MountBind
  <2>2. CASE Mode[v] = "fs"
    <3>1. Seen(Staging(v)) = v
      BY <1>2, <2>2, SeenAtPath DEF VolInv
    <3> QED
      BY <1>2, <2>2, <3>1 DEF PublishMount, MountBind
  <2> QED
    BY <1>2, <2>1, <2>2
<1>4. /\ mnt' \in [Paths -> Seq(Disks \cup {None})] /\ mnt'[Target(v)] = <<v>>
      /\ \A q \in Paths \ {Target(v)} : mnt'[q] = mnt[q]
      /\ UNCHANGED <<att, seen, fs>>
  BY <1>2, <1>3, MountOne, PathFacts
<1>5. /\ mnt'[Staging(v)] = mnt[Staging(v)]
      /\ \A w \in Volumes \ {v} : /\ mnt'[Staging(w)] = mnt[Staging(w)]
                                  /\ mnt'[Target(w)] = mnt[Target(w)]
  BY <1>4, PathFacts
<1> QED
  BY <1>2, <1>4, <1>5 DEF Mounts, VolInv

\* umount: of the only mount, and of the staging path only when no pod has the
\* volume.
LEMMA UnmountMounts ==
    ASSUME NodeInv, NEW t \in Threads, UnmountPath(t), NEW v \in Volumes, v = Vol(t)
    PROVE  \/ /\ rpc[t].op = "Unstage" /\ known[v] \in {"unstaging", "out"}
              /\ mnt[Staging(v)] = <<v>> /\ mnt[Target(v)] = <<>>
              /\ Mounts(v, <<>>, <<>>)
           \/ /\ rpc[t].op = "Unpublish" /\ known[v] \in {"unpublishing", "staged"}
              /\ mnt[Target(v)] = <<v>>
              /\ Mounts(v, mnt[Staging(v)], <<>>)
<1>1. at[t] = "umount" /\ Unmount(Path(t))
  BY DEF UnmountPath
<1>2. /\ rpc[t].op \in {"Unstage", "Unpublish"}
      /\ Path(t) = IF rpc[t].op = "Unstage" THEN Staging(v) ELSE Target(v)
      /\ VolInv(v) /\ NodeTypeOK
      /\ rpc[t].op = "Unstage" => /\ known[v] \in {"unstaging", "out"}
                                  /\ mnt[Target(v)] = <<>>
      /\ rpc[t].op = "Unpublish" => known[v] \in {"unpublishing", "staged"}
  BY <1>1, RunningCall, StagingUnused
     DEF LocationInv, Vol, Path, CallInv, Calling, Succeeded
<1>3. PICK p \in Paths : p = Path(t)
  BY <1>2, PathFacts
<1>4. mnt[p] \in {<<>>, <<v>>} /\ Unmount(p)
  BY <1>1, <1>2, <1>3 DEF VolInv, Unmount
<1>5. /\ mnt' \in [Paths -> Seq(Disks \cup {None})] /\ mnt'[p] = <<>>
      /\ \A q \in Paths \ {p} : mnt'[q] = mnt[q]
      /\ UNCHANGED <<att, seen, fs>> /\ mnt[p] = <<v>>
  BY <1>2, <1>4, UnmountOne
<1>6. CASE rpc[t].op = "Unstage"
  BY <1>2, <1>3, <1>5, <1>6, PathFacts DEF Mounts
<1>7. CASE rpc[t].op = "Unpublish"
  BY <1>2, <1>3, <1>5, <1>7, PathFacts DEF Mounts
<1> QED
  BY <1>2, <1>6, <1>7

\* What is left to show for a command that mounts or unmounts and answers OK.
LEMMA MountsKeep ==
    ASSUME NodeInv, NEW t \in Threads, NEW v \in Volumes, v = Vol(t), at[t] # "idle",
           rpc[t].op # "Stats", Respond(t, "OK"), NEW staging, NEW target,
           Mounts(v, staging, target), VolInv(v)', DoneInv(t)',
           \A u \in Threads \ {t} :
               at[u] # "idle" /\ rpc[u].vol = v /\ rpc[u].op = rpc[t].op
                 /\ rpc[t].op \in Repeats => DeviceInv(u)' /\ DoneInv(u)'
    PROVE  NodeInv'
<1>1. CallMoves(t) /\ UNCHANGED known /\ at'[t] = "done" /\ NodeTypeOK
  BY RespondMoves DEF Codes, NodeInv
<1>2. LocationInv(t)' /\ DeviceInv(t)'
  BY <1>1 DEF LocationInv, DeviceInv
<1>3. ASSUME NEW u \in Threads \ {t}, at[u] # "idle", rpc[u].vol = v,
             rpc[u].op = rpc[t].op, rpc[t].op \in Repeats
      PROVE  ThreadInv(u)'
  <2>1. at'[u] = at[u] /\ rpc'[u] = rpc[u]
    BY <1>1 DEF CallMoves, CallFrame
  <2>2. CallInv(u) /\ LocationInv(u)
    BY <1>3, RunningCall
  <2>3. CallInv(u)' /\ LocationInv(u)'
    BY <1>1, <2>1, <2>2 DEF CallInv, LocationInv, Mounts
  <2> QED
    BY <1>3, <2>3 DEF ThreadInv
<1>4. /\ fs' \in [Disks -> Contents] /\ mnt' \in [Paths -> Seq(Disks \cup {None})]
      /\ UNCHANGED <<att, seen, known>>
      /\ \A w \in Volumes \ {v} : /\ mnt'[Staging(w)] = mnt[Staging(w)]
                                  /\ mnt'[Target(w)] = mnt[Target(w)]
                                  /\ fs'[w] = fs[w]
  BY <1>1 DEF NodeTypeOK, Mounts
<1> QED
  BY <1>1, <1>2, <1>3, <1>4, CommandKeeps

\* NodeStageVolume mounts the device of its volume.
LEMMA StageMountKeeps ==
    ASSUME NodeInv, NEW t \in Threads, StageMount(t)
    PROVE  NodeInv'
<1>1. at[t] = "mount" /\ rpc[t].op = "Stage" /\ Respond(t, "OK")
  BY DEF StageMount
<1>2. PICK v \in Volumes : v = Vol(t)
  BY <1>1, RunningCall
<1>3. /\ Mode[v] = "fs" /\ known[v] \in {"staging", "staged"}
      /\ Mounts(v, <<v>>, <<>>) /\ mnt[Target(v)] = <<>>
  BY <1>2, StageMounts
<1>4. CallMoves(t) /\ UNCHANGED known /\ VolInv(v) /\ v = rpc[t].vol
  BY <1>1, <1>2, RespondMoves, RunningCall DEF Codes, Vol
<1>5. VolInv(v)' /\ DoneInv(t)'
  BY <1>1, <1>3, <1>4 DEF VolInv, DoneInv, Mounts, CallMoves
<1>6. ASSUME NEW u \in Threads \ {t}, at[u] # "idle", rpc[u].vol = v,
             rpc[u].op = rpc[t].op
      PROVE  DeviceInv(u)' /\ DoneInv(u)'
  <2>1. at'[u] = at[u] /\ rpc'[u] = rpc[u] /\ src'[u] = src[u] /\ reply'[u] = reply[u]
    BY <1>4 DEF CallMoves, CallFrame
  <2>2. DeviceInv(u)
    BY <1>6, RunningCall
  <2> QED
    BY <1>1, <1>3, <1>6, <2>1, <2>2 DEF DeviceInv, DoneInv, Mounts
<1> QED
  BY <1>1, <1>2, <1>3, <1>5, <1>6, MountsKeep

\* NodePublishVolume mounts once, if it is not repeated while it runs.
LEMMA PublishMountKeeps ==
    ASSUME NodeInv, "Publish" \notin Repeats, NEW t \in Threads, PublishMount(t)
    PROVE  NodeInv'
<1>1. at[t] = "mount" /\ rpc[t].op = "Publish" /\ Respond(t, "OK")
  BY DEF PublishMount
<1>2. PICK v \in Volumes : v = Vol(t)
  BY <1>1, RunningCall
<1>3. /\ known[v] \in {"publishing", "published"}
      /\ Mounts(v, mnt[Staging(v)], <<v>>)
  BY <1>2, PublishMounts
<1>4. CallMoves(t) /\ UNCHANGED known /\ VolInv(v) /\ v = rpc[t].vol
  BY <1>1, <1>2, RespondMoves, RunningCall DEF Codes, Vol
<1>5. VolInv(v)' /\ DoneInv(t)'
  BY <1>1, <1>3, <1>4 DEF VolInv, DoneInv, Mounts, CallMoves
<1> QED
  BY <1>1, <1>2, <1>3, <1>5, MountsKeep

\* Unmounting leaves a path empty.
LEMMA UnmountKeeps ==
    ASSUME NodeInv, NEW t \in Threads, UnmountPath(t)
    PROVE  NodeInv'
<1>1. at[t] = "umount" /\ Respond(t, "OK")
  BY DEF UnmountPath
<1>2. PICK v \in Volumes : v = Vol(t)
  BY <1>1, RunningCall
<1>3. CallMoves(t) /\ UNCHANGED known /\ VolInv(v) /\ v = rpc[t].vol
  BY <1>1, <1>2, RespondMoves, RunningCall DEF Codes, Vol
<1>4. ASSUME NEW u \in Threads \ {t}
      PROVE  at'[u] = at[u] /\ rpc'[u] = rpc[u] /\ src'[u] = src[u] /\ reply'[u] = reply[u]
  BY <1>3 DEF CallMoves, CallFrame
<1>5. CASE /\ rpc[t].op = "Unstage" /\ known[v] \in {"unstaging", "out"}
           /\ mnt[Target(v)] = <<>> /\ Mounts(v, <<>>, <<>>)
  <2>1. VolInv(v)' /\ DoneInv(t)'
    BY <1>3, <1>5 DEF VolInv, DoneInv, Mounts, CallMoves
  <2>2. ASSUME NEW u \in Threads \ {t}, at[u] # "idle", rpc[u].vol = v,
               rpc[u].op = rpc[t].op
        PROVE  DeviceInv(u)' /\ DoneInv(u)'
    BY <1>4, <1>5, <2>2, RunningCall DEF LocationInv, DeviceInv, DoneInv, Mounts
  <2> QED
    BY <1>1, <1>2, <1>5, <2>1, <2>2, MountsKeep
<1>6. CASE /\ rpc[t].op = "Unpublish" /\ known[v] \in {"unpublishing", "staged"}
           /\ Mounts(v, mnt[Staging(v)], <<>>)
  <2>1. VolInv(v)' /\ DoneInv(t)'
    BY <1>3, <1>6 DEF VolInv, DoneInv, Mounts, CallMoves
  <2>2. ASSUME NEW u \in Threads \ {t}, at[u] # "idle", rpc[u].vol = v,
               rpc[u].op = rpc[t].op
        PROVE  DeviceInv(u)' /\ DoneInv(u)'
    BY <1>4, <1>6, <2>2, RunningCall DEF LocationInv, DeviceInv, DoneInv, Mounts
  <2> QED
    BY <1>1, <1>2, <1>6, <2>1, <2>2, MountsKeep
<1> QED
  BY <1>2, <1>5, <1>6, UnmountMounts

\* The steps of the handlers keep the invariant.
LEMMA HandlerKeeps ==
    ASSUME NodeInv, "Publish" \notin Repeats, NEW t \in Threads, Handler(t)
    PROVE  NodeInv'
<1>1. CASE StageIsMounted(t) \/ BlockIsMounted(t)
  <2>1. /\ at[t] = "findmnt" /\ MountUnlessMounted(t)
        /\ rpc[t].op \in {"Stage", "Publish"}
    BY <1>1 DEF StageIsMounted, BlockIsMounted
  <2>2. /\ src[t] = Vol(t) /\ Vol(t) \in seen
        /\ rpc[t].op = "Stage" => Mode[Vol(t)] = "fs"
    BY <2>1, RunningCall DEF LocationInv, DeviceInv, Vol
  <2> QED
    BY <2>1, <2>2, MountUnlessMountedKeeps
<1>2. CASE nodePublishVolumeForFileSystem(t)
  BY <1>2, MountUnlessMountedKeeps DEF nodePublishVolumeForFileSystem, Enters
<1>3. CASE NodeUnstageVolume(t) \/ NodeUnpublishVolume(t)
  BY <1>3, UnmountIfMountedKeeps DEF NodeUnstageVolume, NodeUnpublishVolume, Enters
<1> QED
  BY <1>1, <1>2, <1>3, StageBegins, StageIsFormattedKeeps, StageFormatKeeps,
     StageMountKeeps, BlockBegins, PublishMountKeeps, UnmountKeeps, StatsKeeps, FailureKeeps
     DEF Handler

-----------------------------------------------------------------------------
(* The kubelet *)

\* The kubelet learns something about volume v, and handler t begins or ends.
LEMMA KubeletMoves ==
    ASSUME NodeInv, NEW t \in Threads, NEW v \in Volumes, NodeTypeOK', TogetherInv',
           UNCHANGED <<att, seen, fs, mnt>>, VolInv(v)', ThreadInv(t)',
           \A w \in Volumes \ {v} : known'[w] = known[w],
           \A u \in Threads \ {t} : CallFrame(u)' = CallFrame(u),
           \A u \in Threads \ {t} :
               at[u] # "idle" /\ rpc[u].vol = v /\ rpc[u].op # "Stats" => ThreadInv(u)'
    PROVE  NodeInv'
<1>1. UnitInv'
  BY DEF NodeInv, UnitInv
<1>2. \A w \in Volumes \ {v} : VolFrame(w)' = VolFrame(w)
  BY DEF VolFrame
<1>3. ASSUME NEW u \in Threads \ {t}
      PROVE  ThreadInv(u)' \/ (CallFrame(u)' = CallFrame(u) /\ rpc[u].vol # v)
  <2>1. CASE at[u] = "idle"
    BY <2>1 DEF ThreadInv, CallFrame
  <2> QED
    BY <2>1, StatsStay
<1> QED
  BY <1>1, <1>2, <1>3, OneVolume

\* The kubelet calls what may run with the calls that run.
LEMMA ReceiveKeeps ==
    ASSUME NodeInv, NEW t \in Threads, NEW r \in NodeRpcs, Receive(t, r)
    PROVE  NodeInv'
<1> DEFINE v == r.vol
<1>1. /\ v \in Volumes /\ att[v] # None /\ NodeTypeOK
      /\ UNCHANGED <<att, seen, fs, mnt, src, reply>> /\ at[t] = "idle"
      /\ at' = [at EXCEPT ![t] = "begin"] /\ rpc' = [rpc EXCEPT ![t] = r]
      /\ r.op \in {"Stage", "Publish", "Unstage", "Unpublish", "Stats"}
  BY RpcFields DEF Receive, nodeState, NodeInv
<1>2. /\ at'[t] = "begin" /\ rpc'[t] = r
      /\ \A u \in Threads \ {t} : CallFrame(u)' = CallFrame(u)
  BY <1>1 DEF NodeTypeOK, CallFrame
<1>3. /\ \A w \in Volumes \ {v} : known'[w] = known[w]
      /\ r.op = "Stats" => known'[v] = known[v]
      /\ r.op # "Stats" => known'[v] = Calling[r.op]
      /\ known[v] \in CalledFrom[r.op]
  BY <1>1 DEF Receive, NodeTypeOK
<1>4. NodeTypeOK'
  <2>1. known' \in [Volumes -> {"out", "staging", "staged", "publishing", "published",
                                "unpublishing", "unstaging"}]
    BY <1>1 DEF Receive, NodeTypeOK, Calling
  <2> QED
    BY <1>1, <2>1 DEF NodeTypeOK, Locations
<1>5. TogetherInv'
  <2>1. \A u \in Threads : at[u] # "idle" /\ rpc[u].vol = v => Together(r, rpc[u])
    BY DEF Receive
  <2>2. \A q : Together(r, q) <=> Together(q, r)
    BY DEF Together
  <2> QED
    BY <1>2, <2>1, <2>2 DEF NodeInv, TogetherInv, CallFrame
<1>6. VolInv(v)'
  <2>1. VolInv(v)
    BY <1>1 DEF NodeInv
  <2> QED
    BY <1>1, <1>3, <2>1 DEF VolInv, CalledFrom, Calling
<1>7. ThreadInv(t)'
  BY <1>1, <1>2, <1>3 DEF ThreadInv, CallInv, LocationInv, DeviceInv, DoneInv
<1>8. ASSUME NEW u \in Threads \ {t}, at[u] # "idle", rpc[u].vol = v, rpc[u].op # "Stats"
      PROVE  ThreadInv(u)'
  <2>1. r.op = "Stats" \/ r.op = rpc[u].op
    BY <1>8 DEF Receive, Together
  <2>2. at'[u] = at[u] /\ rpc'[u] = rpc[u] /\ src'[u] = src[u] /\ reply'[u] = reply[u]
    BY <1>2 DEF CallFrame
  <2>3. CallInv(u) /\ LocationInv(u) /\ DeviceInv(u) /\ DoneInv(u)
    BY <1>8, RunningCall
  <2> QED
    BY <1>1, <1>3, <1>8, <2>1, <2>2, <2>3
       DEF ThreadInv, CallInv, LocationInv, DeviceInv, DoneInv
<1> QED
  BY <1>1, <1>2, <1>3, <1>4, <1>5, <1>6, <1>7, <1>8, KubeletMoves

\* An answer, whether the kubelet still waits for it or not.
LEMMA HangupKeeps ==
    ASSUME NodeInv, NEW t \in Threads, Answered(t) \/ NobodyWaits(t)
    PROVE  NodeInv'
<1>1. at[t] = "done" /\ Hangup(t)
  BY DEF Answered, NobodyWaits
<1>2. PICK v \in Volumes : v = Vol(t)
  BY <1>1, RunningCall
<1>3. /\ v = rpc[t].vol /\ VolInv(v) /\ NodeTypeOK /\ rpc[t] \in NodeRpcs
      /\ CallInv(t) /\ DoneInv(t) /\ Mode[v] \in {"fs", "block"}
      /\ rpc[t].op \in {"Stage", "Publish", "Unstage", "Unpublish", "Stats"}
  BY <1>1, <1>2, RunningCall, RpcFields DEF Vol
<1>4. /\ UNCHANGED <<att, seen, fs, mnt>> /\ at'[t] = "idle"
      /\ \A u \in Threads \ {t} : CallFrame(u)' = CallFrame(u)
  BY <1>1, <1>3 DEF Hangup, nodeState, NodeTypeOK, CallFrame
<1>5. /\ \A w \in Volumes \ {v} : known'[w] = known[w]
      /\ \/ known'[v] = known[v]
         \/ /\ reply[t] = "OK" /\ rpc[t].op # "Stats"
            /\ known'[v] = Succeeded[rpc[t].op]
      /\ known' \in [Volumes -> {"out", "staging", "staged", "publishing", "published",
                                 "unpublishing", "unstaging"}]
  BY <1>3 DEF Answered, NobodyWaits, NodeTypeOK, Succeeded
<1>6. NodeTypeOK'
  BY <1>1, <1>3, <1>4, <1>5 DEF Hangup, NodeTypeOK, Locations, Codes
<1>7. TogetherInv'
  BY <1>1, <1>4, TogetherKept DEF NodeInv, CallFrame
<1>8. VolInv(v)'
  <2>1. CASE known'[v] = known[v]
    BY <1>3, <1>4, <2>1 DEF VolInv
  <2>2. CASE /\ reply[t] = "OK" /\ rpc[t].op # "Stats"
             /\ known'[v] = Succeeded[rpc[t].op]
    BY <1>1, <1>3, <1>4, <2>2 DEF VolInv, DoneInv, CallInv, Calling, Succeeded
  <2> QED
    BY <1>5, <2>1, <2>2
<1>9. ThreadInv(t)'
  BY <1>4 DEF ThreadInv
<1>10. ASSUME NEW u \in Threads \ {t}, at[u] # "idle", rpc[u].vol = v,
              rpc[u].op # "Stats"
       PROVE  ThreadInv(u)'
  <2>1. rpc[t].op = "Stats" \/ rpc[u].op = rpc[t].op
    BY <1>1, <1>3, <1>10, OtherCall
  <2>2. at'[u] = at[u] /\ rpc'[u] = rpc[u] /\ src'[u] = src[u] /\ reply'[u] = reply[u]
    BY <1>4 DEF CallFrame
  <2>3. CallInv(u) /\ LocationInv(u) /\ DeviceInv(u) /\ DoneInv(u)
    BY <1>10, RunningCall
  <2> QED
    BY <1>4, <1>5, <1>10, <2>1, <2>2, <2>3
       DEF ThreadInv, CallInv, LocationInv, DeviceInv, DoneInv
<1> QED
  BY <1>4, <1>5, <1>6, <1>7, <1>8, <1>9, <1>10, KubeletMoves

\* The end of the process, or of all processes.
LEMMA RestartKeeps ==
    ASSUME NodeInv, Killed \/ Reboot
    PROVE  NodeInv'
<1>1. /\ UNCHANGED <<att, seen, fs>> /\ NoHandlers
      /\ \/ UNCHANGED <<mnt, known>>
         \/ mnt' = [p \in Paths |-> <<>>] /\ known' = [v \in Volumes |-> "out"]
  BY DEF Killed, Reboot, nodeState
<1>2. NodeTypeOK' /\ UnitInv'
  <2>1. <<>> \in Seq(Disks \cup {None})
    OBVIOUS
  <2>2. mnt' \in [Paths -> Seq(Disks \cup {None})]
    BY <1>1, <2>1 DEF NodeInv, NodeTypeOK
  <2>3. known' \in [Volumes -> {"out", "staging", "staged", "publishing", "published",
                                "unpublishing", "unstaging"}]
    BY <1>1 DEF NodeInv, NodeTypeOK
  <2>4. /\ at' \in [Threads -> Locations] /\ rpc' \in [Threads -> NodeRpcs \cup {NoRpc}]
        /\ src' \in [Threads -> Disks \cup {None}] /\ reply' \in [Threads -> Codes]
    BY <1>1 DEF NoHandlers, Locations, Codes
  <2>5. UnitInv'
    BY <1>1 DEF NodeInv, UnitInv
  <2> QED
    BY <1>1, <2>2, <2>3, <2>4, <2>5 DEF NodeInv, NodeTypeOK
<1>3. TogetherInv'
  BY <1>1 DEF NoHandlers, TogetherInv
<1>4. ASSUME NEW v \in Volumes PROVE VolInv(v)'
  <2>1. VolInv(v) /\ Mode[v] \in {"fs", "block"}
    BY NodeAssumption DEF NodeInv
  <2>2. CASE UNCHANGED <<mnt, known>>
    BY <1>1, <2>1, <2>2 DEF VolInv
  <2>3. CASE mnt' = [p \in Paths |-> <<>>] /\ known' = [x \in Volumes |-> "out"]
    BY <1>1, <2>1, <2>3, PathFacts DEF VolInv
  <2> QED
    BY <1>1, <2>2, <2>3
<1>5. ASSUME NEW t \in Threads PROVE ThreadInv(t)'
  BY <1>1 DEF NoHandlers, ThreadInv
<1> QED
  BY <1>2, <1>3, <1>4, <1>5 DEF NodeInv

-----------------------------------------------------------------------------
(* The controller, the kernel and the pods *)

\* As long as the node has room there is a unit for another volume.
LEMMA UnitLeft ==
    ASSUME NodeInv, NodeHasRoom
    PROVE  FreeUnits # {}
<1> DEFINE S == {v \in Volumes : att[v] # None}
           f == [v \in S |-> att[v]]
<1>1. SUFFICES ASSUME FreeUnits = {} PROVE FALSE
  OBVIOUS
<1>2. \A u \in Reserved : \E v \in S : att[v] = u
  BY <1>1, NodeAssumption DEF FreeUnits
<1>3. f \in Surjection(S, Reserved)
  BY <1>2 DEF Surjection, NodeInv, UnitInv
<1>4. IsFiniteSet(S)
  BY NodeAssumption, FS_Subset
<1>5. Cardinality(Reserved) <= Cardinality(S)
  BY <1>3, <1>4, FS_Surjection
<1>6. Cardinality(S) \in Nat /\ Cardinality(Reserved) \in Nat
  BY <1>4, NodeAssumption, FS_CardinalityType
<1>7. Cardinality(S) < MaxVolumesPerNode
  BY DEF NodeHasRoom
<1> QED
  BY <1>5, <1>6, <1>7, NodeAssumption

\* A volume is attached at a free unit.
LEMMA AttachKeeps ==
    ASSUME NodeInv, NEW v \in Volumes, Attach(v)
    PROVE  NodeInv'
<1>1. /\ att[v] = None /\ UNCHANGED <<seen, fs, mnt, known, at, rpc, src, reply>>
      /\ NodeTypeOK
  BY DEF Attach, callVars, NodeInv
<1>2. PICK u \in FreeUnits : att' = [att EXCEPT ![v] = u]
  BY UnitLeft DEF Attach, UnitChoices
<1>3. /\ u \in Reserved /\ u # None /\ att'[v] = u /\ (\A w \in Volumes : att[w] # u)
      /\ \A w \in Volumes \ {v} : att'[w] = att[w]
  BY <1>1, <1>2, NodeAssumption DEF FreeUnits, NodeTypeOK
<1>4. NodeTypeOK'
  BY <1>1, <1>2, <1>3 DEF NodeTypeOK
<1>5. UnitInv'
  BY <1>1, <1>3 DEF NodeInv, NodeTypeOK, UnitInv
<1>6. TogetherInv'
  BY <1>1 DEF NodeInv, TogetherInv
<1>7. VolInv(v)'
  BY <1>1 DEF NodeInv, VolInv
<1>8. \A w \in Volumes \ {v} : VolFrame(w)' = VolFrame(w)
  BY <1>1, <1>3 DEF VolFrame
<1>9. ASSUME NEW t \in Threads
      PROVE  ThreadInv(t)' \/ (CallFrame(t)' = CallFrame(t) /\ rpc[t].vol # v)
  <2>1. CASE at[t] = "idle"
    BY <1>1, <2>1 DEF ThreadInv
  <2>2. CASE at[t] # "idle"
    BY <1>1, <2>2, RunningCall DEF CallFrame, Vol
  <2> QED
    BY <2>1, <2>2
<1> QED
  BY <1>4, <1>5, <1>6, <1>7, <1>8, <1>9, OneVolume

\* A device appears.
LEMMA PlugKeeps ==
    ASSUME NodeInv, NEW v \in Volumes, Plug(v)
    PROVE  NodeInv'
<1>1. /\ att[v] # None /\ UNCHANGED <<att, fs, mnt, known, at, rpc, src, reply>>
      /\ seen' = seen \cup {v}
  BY DEF Plug, callVars
<1>2. NodeTypeOK' /\ UnitInv' /\ TogetherInv'
  BY <1>1 DEF NodeInv, NodeTypeOK, UnitInv, TogetherInv
<1>3. ASSUME NEW w \in Volumes PROVE VolInv(w)'
  BY <1>1 DEF NodeInv, VolInv
<1>4. ASSUME NEW t \in Threads PROVE ThreadInv(t)'
  <2>1. ThreadInv(t)
    BY DEF NodeInv
  <2> QED
    BY <1>1, <2>1 DEF ThreadInv, CallInv, LocationInv, DeviceInv, DoneInv
<1> QED
  BY <1>2, <1>3, <1>4 DEF NodeInv

\* A volume is detached when the kubelet is done with it.
LEMMA DetachKeeps ==
    ASSUME NodeInv, NEW v \in Volumes, Detach(v)
    PROVE  NodeInv'
<1>1. /\ Idle(v) /\ UNCHANGED <<fs, mnt, known, at, rpc, src, reply>>
      /\ att' = [att EXCEPT ![v] = None] /\ seen' = seen \ {v} /\ NodeTypeOK
  BY DEF Detach, callVars, NodeInv
<1>2. NodeTypeOK' /\ TogetherInv'
  BY <1>1 DEF NodeInv, NodeTypeOK, TogetherInv
<1>3. att'[v] = None /\ \A w \in Volumes \ {v} : att'[w] = att[w]
  BY <1>1 DEF NodeTypeOK
<1>4. UnitInv'
  BY <1>1, <1>3 DEF NodeInv, NodeTypeOK, UnitInv
<1>5. VolInv(v)'
  BY <1>1 DEF NodeInv, VolInv
<1>6. \A w \in Volumes \ {v} : VolFrame(w)' = VolFrame(w)
  BY <1>1, <1>3 DEF VolFrame
<1>7. ASSUME NEW t \in Threads
      PROVE  ThreadInv(t)' \/ (CallFrame(t)' = CallFrame(t) /\ rpc[t].vol # v)
  BY <1>1 DEF ThreadInv, CallFrame, Idle
<1> QED
  BY <1>2, <1>4, <1>5, <1>6, <1>7, OneVolume

\* A pod writes to its own volume, which nobody formats meanwhile.
LEMMA PodWritesKeeps ==
    ASSUME NodeInv, NEW v \in Volumes, PodWrites(v)
    PROVE  NodeInv'
<1>1. VolInv(v) /\ NodeTypeOK /\ Mode[v] \in {"fs", "block"} /\ v \in Disks
  BY NodeAssumption DEF NodeInv, Disks
<1>2. Seen(Target(v)) = v /\ mnt[Target(v)] = <<v>>
  BY <1>1, SeenAtPath DEF PodWrites, VolInv
<1>3. /\ UNCHANGED <<att, seen, mnt, known, at, rpc, src, reply>>
      /\ fs' = [fs EXCEPT ![v] = IF Mode[v] = "fs" THEN "data" ELSE "raw"]
  BY <1>2 DEF PodWrites, callVars
<1>4. NodeTypeOK' /\ UnitInv' /\ TogetherInv'
  BY <1>1, <1>3 DEF NodeInv, NodeTypeOK, UnitInv, TogetherInv, Contents
<1>5. VolInv(v)'
  BY <1>1, <1>3 DEF VolInv, NodeTypeOK
<1>6. \A w \in Volumes \ {v} : VolFrame(w)' = VolFrame(w)
  BY <1>1, <1>3 DEF VolFrame, NodeTypeOK, Disks
<1>7. ASSUME NEW t \in Threads
      PROVE  ThreadInv(t)' \/ (CallFrame(t)' = CallFrame(t) /\ rpc[t].vol # v)
  <2>1. CASE at[t] = "idle" \/ rpc[t].vol # v
    BY <1>3, <2>1 DEF ThreadInv, CallFrame
  <2>2. CASE at[t] # "idle" /\ rpc[t].vol = v
    <3>1. CallInv(t) /\ LocationInv(t) /\ DeviceInv(t) /\ DoneInv(t)
      BY <2>2, RunningCall
    <3>2. at[t] # "mkfs"
      BY <1>2, <2>2, <3>1, StagingUnused DEF LocationInv, Vol
    <3> QED
      BY <1>3, <2>2, <3>1, <3>2
         DEF ThreadInv, CallInv, LocationInv, DeviceInv, DoneInv
  <2> QED
    BY <2>1, <2>2
<1> QED
  BY <1>4, <1>5, <1>6, <1>7, OneVolume

-----------------------------------------------------------------------------
(* The theorems *)

\* A new node has no volumes, mounts or calls.
LEMMA NodeInvInit == NodeInit => NodeInv
<1> SUFFICES ASSUME NodeInit PROVE NodeInv
  OBVIOUS
<1>1. NodeTypeOK
  <2>1. <<>> \in Seq(Disks \cup {None})
    OBVIOUS
  <2>2. mnt \in [Paths -> Seq(Disks \cup {None})]
    BY <2>1 DEF NodeInit
  <2> QED
    BY <2>2 DEF NodeInit, NodeTypeOK, Locations, Codes
<1>2. UnitInv /\ TogetherInv
  BY DEF NodeInit, UnitInv, TogetherInv
<1>3. ASSUME NEW v \in Volumes PROVE VolInv(v)
  BY NodeAssumption, PathFacts DEF NodeInit, VolInv
<1>4. ASSUME NEW t \in Threads PROVE ThreadInv(t)
  BY DEF NodeInit, ThreadInv
<1> QED
  BY <1>1, <1>2, <1>3, <1>4 DEF NodeInv

\* Every step keeps the invariant, if Publish is not repeated while it runs.
LEMMA NodeInvStep ==
    ASSUME "Publish" \notin Repeats, NodeInv, [NodeNext]_nodeVars
    PROVE  NodeInv'
<1>1. ASSUME NEW v \in Volumes, Attach(v) \/ Plug(v) \/ Detach(v) \/ PodWrites(v)
      PROVE  NodeInv'
  BY <1>1, AttachKeeps, PlugKeeps, DetachKeeps, PodWritesKeeps
<1>2. ASSUME NEW t \in Threads, \/ \E r \in NodeRpcs : Receive(t, r)
                                \/ Handler(t) \/ Answered(t) \/ NobodyWaits(t)
      PROVE  NodeInv'
  BY <1>2, ReceiveKeeps, HandlerKeeps, HangupKeeps
<1>3. CASE Killed \/ Reboot
  BY <1>3, RestartKeeps
<1>4. CASE UNCHANGED nodeVars
  <2>1. UNCHANGED <<att, seen, fs, mnt, known, at, rpc, src, reply>>
    BY <1>4 DEF nodeVars, nodeState, callVars
  <2>2. NodeTypeOK' /\ UnitInv' /\ TogetherInv'
    BY <2>1 DEF NodeInv, NodeTypeOK, UnitInv, TogetherInv
  <2>3. ASSUME NEW v \in Volumes PROVE VolInv(v)'
    BY <2>1 DEF NodeInv, VolInv
  <2>4. ASSUME NEW t \in Threads PROVE ThreadInv(t)'
    BY <2>1 DEF NodeInv, ThreadInv, CallInv, LocationInv, DeviceInv, DoneInv
  <2> QED
    BY <2>2, <2>3, <2>4 DEF NodeInv
<1> QED
  BY <1>1, <1>2, <1>3, <1>4 DEF NodeNext

(***************************************************************************)
(* The inductive invariant: calls, mounts, devices and what the kubelet    *)
(* knows go together (node.go:25-262, 364-450), however calls overlap,     *)
(* fail, are repeated or cut short.                                        *)
(***************************************************************************)
THEOREM NodeInvariant ==
    "Publish" \notin Repeats => (NodeSpec => []NodeInv)
<1> SUFFICES ASSUME "Publish" \notin Repeats PROVE NodeSpec => []NodeInv
  OBVIOUS
<1>1. NodeInit => NodeInv
  BY NodeInvInit
<1>2. NodeInv /\ [NodeNext]_nodeVars => NodeInv'
  BY NodeInvStep
<1> QED
  BY <1>1, <1>2, PTL DEF NodeSpec

(***************************************************************************)
(* The types of the node's state.  The units attached are among those for  *)
(* volumes, since there is one left as long as the node has room.          *)
(***************************************************************************)
THEOREM NodeTypeCorrect ==
    "Publish" \notin Repeats => (NodeSpec => []NodeTypeOK)
<1>1. NodeInv => NodeTypeOK
  BY DEF NodeInv
<1> QED
  BY <1>1, NodeInvariant, PTL

(***************************************************************************)
(* Only a volume's own disk is mounted on its paths, and once              *)
(* (mounter.go:461-488, node.go:86-110, 368-450).                          *)
(***************************************************************************)
THEOREM OwnDiskMounted ==
    "Publish" \notin Repeats => (NodeSpec => []MountsOwnDisk)
<1>1. NodeInv => MountsOwnDisk
  BY DEF NodeInv, VolInv, MountsOwnDisk
<1> QED
  BY <1>1, NodeInvariant, PTL

(***************************************************************************)
(* A pod whose publish has been answered has its volume (node.go:382-450). *)
(***************************************************************************)
THEOREM PublishedHasVolume ==
    "Publish" \notin Repeats => (NodeSpec => []PublishedIsMounted)
<1>1. NodeInv => PublishedIsMounted
  BY DEF NodeInv, VolInv, PublishedIsMounted
<1> QED
  BY <1>1, NodeInvariant, PTL

\* Only mkfs and pods change what is on a disk.
LEMMA DiskChanges ==
    ASSUME [NodeNext]_nodeVars, fs' # fs
    PROVE  \/ \E t \in Threads : StageFormat(t)
           \/ \E v \in Volumes : PodWrites(v)
<1>1. ASSUME NEW v \in Volumes, Attach(v) \/ Plug(v) \/ Detach(v) PROVE FALSE
  BY <1>1 DEF Attach, Plug, Detach
<1>2. ASSUME NEW t \in Threads, \/ \E r \in NodeRpcs : Receive(t, r)
                                \/ Answered(t) \/ NobodyWaits(t)
      PROVE  FALSE
  BY <1>2 DEF Receive, Answered, NobodyWaits, Hangup, nodeState
<1>3. ASSUME NEW t \in Threads, Handler(t), ~StageFormat(t) PROVE FALSE
  BY <1>3 DEF Handler, RejectInvalid, RejectContext, NodeStageVolume, StageIsFormatted,
              StageIsMounted, StageMount, nodePublishVolumeForFileSystem,
              nodePublishVolumeForBlock, BlockIsMounted, PublishMount, NodeUnstageVolume,
              NodeUnpublishVolume, UnmountPath, NodeGetVolumeStats, StatsAnswer,
              CommandFails, MountUnlessMounted, UnmountIfMounted, MountDevice, MountBind,
              MountOn, Unmount, nodeState
<1>4. ~(Killed \/ Reboot \/ UNCHANGED nodeVars)
  BY DEF Killed, Reboot, nodeVars, nodeState
<1> QED
  BY <1>1, <1>2, <1>3, <1>4 DEF NodeNext

\* A disk with data keeps them, whatever changes the disks.
LEMMA DataKept ==
    ASSUME NodeInv, [NodeNext]_nodeVars, fs' # fs, NEW d \in Disks, HoldsData(fs[d])
    PROVE  HoldsData(fs'[d])
<1>0. NodeTypeOK
  BY DEF NodeInv
<1>1. ASSUME NEW t \in Threads, StageFormat(t) PROVE HoldsData(fs'[d])
  <2>1. at[t] = "mkfs" /\ fs' = [fs EXCEPT ![src[t]] = "empty"]
    BY <1>1 DEF StageFormat, Format
  <2>2. src[t] = rpc[t].vol /\ ~HoldsData(fs[src[t]])
    BY <2>1, RunningCall DEF DeviceInv
  <2>3. fs'[d] = fs[d]
    BY <1>0, <2>1, <2>2 DEF NodeTypeOK
  <2> QED
    BY <2>3
<1>2. ASSUME NEW v \in Volumes, PodWrites(v) PROVE HoldsData(fs'[d])
  BY <1>0, <1>2 DEF PodWrites, NodeTypeOK, HoldsData
<1> QED
  BY <1>1, <1>2, DiskChanges

(***************************************************************************)
(* NodeStageVolume formats no disk that holds data (node.go:86-98): blkid  *)
(* and mkfs are two commands, but nobody writes in between.                *)
(***************************************************************************)
THEOREM DataIsSafe ==
    "Publish" \notin Repeats => (NodeSpec => DataNeverFormatted)
<1>1. NodeInv /\ [NodeNext]_nodeVars =>
         [\A d \in Disks : HoldsData(fs[d]) => HoldsData(fs'[d])]_fs
  BY DataKept
<1> QED
  BY <1>1, NodeInvariant, PTL DEF NodeSpec, DataNeverFormatted

-----------------------------------------------------------------------------
(* The refinement of NodeVolumes *)

\* The use of a volume follows from its mounts.
LEMMA UseOfVolume ==
    ASSUME NodeInv, NEW v \in Volumes
    PROVE  UseOf(v) = IF mnt[Target(v)] # <<>> THEN "published"
                      ELSE IF mnt[Staging(v)] # <<>> THEN "staged" ELSE "out"
<1>1. VolInv(v) /\ Mode[v] \in {"fs", "block"}
      /\ known[v] \in {"out", "staging", "staged", "publishing", "published",
                       "unpublishing", "unstaging"}
  BY NodeAssumption DEF NodeInv, NodeTypeOK
<1>2. mnt[Target(v)] # <<>> /\ Mode[v] = "fs" => mnt[Staging(v)] = <<v>>
  BY <1>1 DEF VolInv
<1>3. <<v>> # <<>>
  OBVIOUS
<1> QED
  BY <1>1, <1>2, <1>3 DEF UseOf

\* ... and after a step.
LEMMA UseOfVolumeNext ==
    ASSUME NodeInv', NEW v \in Volumes
    PROVE  UseOf(v)' = IF mnt'[Target(v)] # <<>> THEN "published"
                       ELSE IF mnt'[Staging(v)] # <<>> THEN "staged" ELSE "out"
<1>1. VolInv(v)' /\ Mode[v] \in {"fs", "block"}
      /\ known'[v] \in {"out", "staging", "staged", "publishing", "published",
                        "unpublishing", "unstaging"}
  BY NodeAssumption DEF NodeInv, NodeTypeOK
<1>2. mnt'[Target(v)] # <<>> /\ Mode[v] = "fs" => mnt'[Staging(v)] = <<v>>
  BY <1>1 DEF VolInv
<1>3. <<v>> # <<>>
  OBVIOUS
<1> QED
  BY <1>1, <1>2, <1>3 DEF UseOf

\* Only these steps change a mount or an attachment.
LEMMA MountChanges ==
    ASSUME [NodeNext]_nodeVars, mnt' # mnt
    PROVE  \/ \E t \in Threads : StageMount(t) \/ PublishMount(t) \/ UnmountPath(t)
           \/ Reboot
<1>1. ASSUME NEW v \in Volumes, Attach(v) \/ Plug(v) \/ Detach(v) \/ PodWrites(v)
      PROVE  FALSE
  BY <1>1 DEF Attach, Plug, Detach, PodWrites
<1>2. ASSUME NEW t \in Threads, \/ \E r \in NodeRpcs : Receive(t, r)
                                \/ Answered(t) \/ NobodyWaits(t)
      PROVE  FALSE
  BY <1>2 DEF Receive, Answered, NobodyWaits, Hangup, nodeState
<1>3. ASSUME NEW t \in Threads, Handler(t)
      PROVE  StageMount(t) \/ PublishMount(t) \/ UnmountPath(t)
  BY <1>3 DEF Handler, RejectInvalid, RejectContext, NodeStageVolume, StageIsFormatted,
              StageIsMounted, StageFormat, Format, nodePublishVolumeForFileSystem,
              nodePublishVolumeForBlock, BlockIsMounted, NodeUnstageVolume,
              NodeUnpublishVolume, NodeGetVolumeStats, StatsAnswer,
              CommandFails, MountUnlessMounted, UnmountIfMounted, nodeState
<1>4. ~(Killed \/ UNCHANGED nodeVars)
  BY DEF Killed, nodeVars, nodeState
<1> QED
  BY <1>1, <1>2, <1>3, <1>4 DEF NodeNext

\* Only the controller attaches and detaches.
LEMMA AttachmentChanges ==
    ASSUME [NodeNext]_nodeVars, att' # att
    PROVE  \E v \in Volumes : Attach(v) \/ Detach(v)
<1>1. ASSUME NEW v \in Volumes, Plug(v) \/ PodWrites(v) PROVE FALSE
  BY <1>1 DEF Plug, PodWrites
<1>2. ASSUME NEW t \in Threads, \/ \E r \in NodeRpcs : Receive(t, r)
                                \/ Answered(t) \/ NobodyWaits(t)
      PROVE  FALSE
  BY <1>2 DEF Receive, Answered, NobodyWaits, Hangup, nodeState
<1>3. ASSUME NEW t \in Threads, Handler(t) PROVE FALSE
  BY <1>3 DEF Handler, RejectInvalid, RejectContext, NodeStageVolume, StageIsFormatted,
              StageIsMounted, StageFormat, Format, StageMount, MountDevice, MountOn,
              nodePublishVolumeForFileSystem, nodePublishVolumeForBlock, BlockIsMounted,
              PublishMount, MountBind, NodeUnstageVolume, NodeUnpublishVolume,
              UnmountPath, Unmount, NodeGetVolumeStats, StatsAnswer,
              CommandFails, MountUnlessMounted, UnmountIfMounted, nodeState
<1>4. ~(Killed \/ Reboot \/ UNCHANGED nodeVars)
  BY DEF Killed, Reboot, nodeVars, nodeState
<1> QED
  BY <1>1, <1>2, <1>3, <1>4 DEF NodeNext

\* The state of NodeVolumes that belongs to a state of the node.
Where == [v \in Volumes |-> IF att[v] = None THEN None ELSE "node"]
Use == [n \in {"node"} |-> [v \in Volumes |-> UseOf(v)]]

\* A mount or an unmount is one step of the use of its volume.
LEMMA UseChanges ==
    ASSUME NodeInv, NodeInv', NEW v \in Volumes, NEW staging, NEW target,
           Mounts(v, staging, target)
    PROVE  Use' = [Use EXCEPT !["node"][v] = UseOf(v)'] /\ Where' = Where
<1>1. \A w \in Volumes \ {v} : UseOf(w)' = UseOf(w)
  BY UseOfVolume, UseOfVolumeNext DEF Mounts
<1>2. Use' = [Use EXCEPT !["node"][v] = UseOf(v)']
  BY <1>1 DEF Use
<1>3. Where' = Where
  BY DEF Where, Mounts
<1> QED
  BY <1>2, <1>3

\* Every step is one that NodeVolumes allows, or is not seen there.
LEMMA UseStep ==
    ASSUME NodeInv, NodeInv', [NodeNext]_nodeVars
    PROVE  [Promise!UseNext]_(Promise!useVars)
<1> DEFINE n == "node"
<1>0. /\ Where = [v \in Volumes |-> IF att[v] = None THEN None ELSE "node"]
      /\ Where' = [v \in Volumes |-> IF att'[v] = None THEN None ELSE "node"]
      /\ Use = [x \in {"node"} |-> [v \in Volumes |-> UseOf(v)]]
      /\ Use' = [x \in {"node"} |-> [v \in Volumes |-> UseOf(v)']]
  BY DEF Where, Use
<1>1. CASE mnt' = mnt /\ att' = att
  <2>1. \A v \in Volumes : UseOf(v)' = UseOf(v)
    BY <1>1, UseOfVolume, UseOfVolumeNext
  <2>2. Use' = Use /\ Where' = Where
    BY <1>0, <1>1, <2>1
  <2> QED
    BY <1>0, <2>2 DEF Promise!useVars
<1>2. CASE att' # att
  <2>1. PICK v \in Volumes : Attach(v) \/ Detach(v)
    BY <1>2, AttachmentChanges
  <2>2. UNCHANGED mnt
    BY <2>1 DEF Attach, Detach
  <2>3. \A w \in Volumes : UseOf(w)' = UseOf(w)
    BY <2>2, UseOfVolume, UseOfVolumeNext
  <2>4. Use' = Use
    BY <1>0, <2>3
  <2>5. CASE Attach(v)
    <3>1. /\ att[v] = None /\ att' \in [Volumes -> Reserved \cup {0, None}]
          /\ \E u : att' = [att EXCEPT ![v] = u]
      BY <2>5 DEF Attach, NodeInv, NodeTypeOK
    <3>2. att'[v] # None /\ \A w \in Volumes \ {v} : att'[w] = att[w]
      BY <1>2, <3>1 DEF NodeInv, NodeTypeOK
    <3>3. Where[v] = None /\ Where' = [Where EXCEPT ![v] = n]
      BY <1>0, <3>1, <3>2
    <3>4. Promise!Attach(v, n)
      BY <1>0, <2>4, <3>3 DEF Promise!Attach
    <3> QED
      BY <3>4 DEF Promise!UseNext
  <2>6. CASE Detach(v)
    <3>1. known[v] = "out" /\ att' = [att EXCEPT ![v] = None] /\ NodeTypeOK
      BY <2>6 DEF Detach, NodeInv
    <3>2. UseOf(v) = "out"
      BY <3>1, UseOfVolume DEF NodeInv, VolInv
    <3>3. Where' = [Where EXCEPT ![v] = None]
      BY <1>0, <3>1 DEF NodeTypeOK
    <3>4. Promise!Detach(v)
      BY <1>0, <2>4, <3>2, <3>3 DEF Promise!Detach
    <3> QED
      BY <3>4 DEF Promise!UseNext
  <2> QED
    BY <2>1, <2>5, <2>6
<1>3. CASE Reboot
  <2>1. mnt' = [p \in Paths |-> <<>>] /\ att' = att
    BY <1>3 DEF Reboot
  <2>2. \A v \in Volumes : UseOf(v)' = "out"
    BY <2>1, UseOfVolumeNext, PathFacts
  <2>3. Use' = [Use EXCEPT ![n] = [v \in Volumes |-> "out"]] /\ Where' = Where
    BY <1>0, <2>1, <2>2
  <2>4. Promise!Reboot(n)
    BY <1>0, <2>3 DEF Promise!Reboot
  <2> QED
    BY <2>4 DEF Promise!UseNext, Promise!NodeStep
<1>4. ASSUME NEW t \in Threads, StageMount(t) \/ PublishMount(t) \/ UnmountPath(t)
      PROVE  Promise!UseNext
  <2>1. at[t] # "idle"
    BY <1>4 DEF StageMount, PublishMount, UnmountPath
  <2>2. PICK v \in Volumes : v = Vol(t)
    BY <2>1, RunningCall
  <2>3. /\ Where[v] = n /\ Use[n][v] = UseOf(v) /\ VolInv(v) /\ <<v>> # <<>>
        /\ Mode[v] \in {"fs", "block"}
    BY <1>0, <2>1, <2>2, RunningCall
  <2>4. v \in {w \in Volumes : Mode[w] = "block"} <=> Mode[v] = "block"
    OBVIOUS
  <2>5. SUFFICES \/ Promise!Stage(n, v) \/ Promise!Publish(n, v)
                 \/ Promise!Unpublish(n, v) \/ Promise!Unstage(n, v)
    BY DEF Promise!UseNext, Promise!NodeStep
  <2>6. CASE StageMount(t)
    <3>1. /\ Mode[v] = "fs" /\ mnt[Staging(v)] = <<>> /\ mnt[Target(v)] = <<>>
          /\ Mounts(v, <<v>>, <<>>)
      BY <2>2, <2>6, StageMounts
    <3>2. UseOf(v) = "out" /\ UseOf(v)' = "staged"
      BY <2>3, <3>1, UseOfVolume, UseOfVolumeNext DEF Mounts
    <3>3. Use' = [Use EXCEPT ![n][v] = "staged"] /\ Where' = Where
      BY <3>1, <3>2, UseChanges
    <3> QED
      BY <1>0, <2>3, <2>4, <3>1, <3>2, <3>3 DEF Promise!Stage, Promise!Uses
  <2>7. CASE PublishMount(t)
    <3>1. /\ mnt[Target(v)] = <<>> /\ Mounts(v, mnt[Staging(v)], <<v>>)
          /\ Mode[v] = "fs" => mnt[Staging(v)] = <<v>>
      BY <2>2, <2>7, PublishMounts
    <3>2. /\ UseOf(v) = IF Mode[v] = "block" THEN "out" ELSE "staged"
          /\ UseOf(v)' = "published"
      BY <2>3, <3>1, UseOfVolume, UseOfVolumeNext DEF Mounts, VolInv
    <3>3. Use' = [Use EXCEPT ![n][v] = "published"] /\ Where' = Where
      BY <3>1, <3>2, UseChanges
    <3> QED
      BY <1>0, <2>3, <2>4, <3>2, <3>3
         DEF Promise!Publish, Promise!Uses, Promise!BeforePublish
  <2>8. CASE UnmountPath(t)
    <3>1. CASE /\ mnt[Staging(v)] = <<v>> /\ mnt[Target(v)] = <<>>
               /\ Mounts(v, <<>>, <<>>)
      <4>1. UseOf(v) = "staged" /\ UseOf(v)' = "out"
        BY <2>3, <3>1, UseOfVolume, UseOfVolumeNext DEF Mounts
      <4>2. Use' = [Use EXCEPT ![n][v] = "out"] /\ Where' = Where
        BY <3>1, <4>1, UseChanges
      <4> QED
        BY <1>0, <2>3, <4>1, <4>2 DEF Promise!Unstage, Promise!Uses
    <3>2. CASE mnt[Target(v)] = <<v>> /\ Mounts(v, mnt[Staging(v)], <<>>)
      <4>0. Mode[v] = "fs" => mnt[Staging(v)] = <<v>>
        BY <2>3, <3>2 DEF VolInv, NodeInv, NodeTypeOK
      <4>1. /\ UseOf(v) = "published"
            /\ UseOf(v)' = IF Mode[v] = "block" THEN "out" ELSE "staged"
        BY <2>3, <3>2, <4>0, UseOfVolume, UseOfVolumeNext DEF Mounts, VolInv
      <4>2. /\ Use' = [Use EXCEPT ![n][v] = IF Mode[v] = "block" THEN "out" ELSE "staged"]
            /\ Where' = Where
        BY <3>2, <4>1, UseChanges
      <4> QED
        BY <1>0, <2>3, <2>4, <4>1, <4>2
           DEF Promise!Unpublish, Promise!Uses, Promise!BeforePublish
    <3> QED
      BY <2>2, <2>8, <3>1, <3>2, UnmountMounts
  <2> QED
    BY <1>4, <2>6, <2>7, <2>8
<1> QED
  BY <1>1, <1>2, <1>3, <1>4, MountChanges

(***************************************************************************)
(* The node implements NodeVolumes: NodeUnpublishVolume and                *)
(* NodeUnstageVolume leave no mount behind when they succeed (node.go:134, *)
(* 215), so a volume is mounted nowhere when it is detached.               *)
(***************************************************************************)
THEOREM NodeImplementsVolumes ==
    "Publish" \notin Repeats => (NodeSpec => ImplementsNodeVolumes)
<1>1. NodeInit => Promise!UseInit
  <2> SUFFICES ASSUME NodeInit PROVE Promise!UseInit
    OBVIOUS
  <2>1. \A v \in Volumes : UseOf(v) = "out"
    BY NodeInvInit, UseOfVolume, PathFacts DEF NodeInit
  <2> QED
    BY <2>1 DEF NodeInit, Promise!UseInit
<1>2. NodeInv /\ NodeInv' /\ [NodeNext]_nodeVars => [Promise!UseNext]_(Promise!useVars)
  BY UseStep
<1> QED
  BY <1>1, <1>2, NodeInvariant, PTL DEF NodeSpec, ImplementsNodeVolumes, Promise!UseSpec
=============================================================================
