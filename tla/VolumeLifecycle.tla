--------------------------- MODULE VolumeLifecycle ---------------------------
(***************************************************************************)
(* The controller RPCs (Controller, on top of VolumeService) with the      *)
(* nodes (NodeVolumes): a volume is attached for a node, used there, given *)
(* back, detached, moved to another node, resized, deleted.  Kubernetes    *)
(* keeps a VolumeAttachment for a volume: the attacher calls               *)
(* ControllerPublishVolume until it succeeds and stores the publish        *)
(* context in it; the kubelet of that node uses the volume from then on;   *)
(* when it no longer does, the attacher calls ControllerUnpublishVolume    *)
(* until that succeeds.                                                    *)
(***************************************************************************)
EXTENDS Controller

VARIABLES
    va, \* the VolumeAttachment of a volume
    use \* what a node does with a volume

lifecycleVars == <<controllerVars, va, use>>

NoVa == [vm |-> None, st |-> "none", unit |-> 0]

Nodes == INSTANCE NodeVolumes WITH
            Nodes <- Vms, Volumes <- Names, Block <- {},
            where <- [n \in Names |-> vol[n].vm], loose <- stray

LifecycleInit ==
    /\ ControllerInit
    /\ va = [v \in Names |-> NoVa]
    /\ use = [n \in Vms |-> [v \in Names |-> "out"]]

-----------------------------------------------------------------------------
(* Kubernetes *)

Running(op, v) == \E t \in Threads : at[t] # "idle" /\ rpc[t].op = op /\ rpc[t].name = v

\* A pod on node n needs v, which is at no other node.
WantAttached(v, n) ==
    /\ va[v] = NoVa /\ vol[v].here /\ ~Running("Delete", v)
    /\ va' = [va EXCEPT ![v] = [NoVa EXCEPT !.vm = n, !.st = "attaching"]]
    /\ UNCHANGED <<controllerVars, use>>

\* The pod is gone, and the kubelet of the node has given the volume back.
WantDetached(v) ==
    /\ va[v].st \in {"attaching", "attached"}
    /\ use[va[v].vm][v] = "out"
    /\ va' = [va EXCEPT ![v].st = "detaching"]
    /\ UNCHANGED <<controllerVars, use>>

\* When the sidecars make their calls.
MayCall(r) ==
    CASE r.op = "Publish" -> va[r.name].vm = r.vm /\ va[r.name].st = "attaching"
      [] r.op = "Unpublish" -> va[r.name].vm = r.vm /\ va[r.name].st = "detaching"
      [] r.op = "Delete" -> va[r.name] = NoVa
      [] OTHER -> TRUE

\* The attacher has the answer of t.
Heard(t) ==
    LET v == rpc[t].name IN
    IF AnswersOk(t, "Publish") /\ va[v].st = "attaching"
    THEN [va EXCEPT ![v].st = "attached", ![v].unit = reply[t].unit]
    ELSE IF AnswersOk(t, "Unpublish") THEN [va EXCEPT ![v] = NoVa]
    ELSE va

\* The kubelet works with volumes that are attached for its node.
Kubelet(n) ==
    /\ UNCHANGED <<controllerVars, va>>
    /\ \/ \E v \in Names :
             \/ /\ va[v].vm = n /\ va[v].st = "attached"
                /\ Nodes!Stage(n, v) \/ Nodes!Publish(n, v)
             \/ Nodes!Unpublish(n, v) \/ Nodes!Unstage(n, v)
       \/ Nodes!Reboot(n)

-----------------------------------------------------------------------------
LifecycleNext ==
    \/ \E v \in Names : WantDetached(v) \/ \E n \in Vms : WantAttached(v, n)
    \/ \E n \in Vms : Kubelet(n)
    \/ \E t \in Threads :
          /\ UNCHANGED use
          /\ \/ \E r \in Rpcs : MayCall(r) /\ Receive(t, r) /\ UNCHANGED va
             \/ Handler(t) /\ va' = IF at[t] = "done" THEN Heard(t) ELSE va
             \/ Client(t) /\ UNCHANGED va
    \/ (MapRace \/ Killed \/ Cloud) /\ UNCHANGED <<va, use>>

LifecycleSpec == LifecycleInit /\ [][LifecycleNext]_lifecycleVars

-----------------------------------------------------------------------------
(* Properties *)

(***************************************************************************)
(* What the controller does to the disks is what the nodes count on:       *)
(* whatever calls fail, are repeated or end with the process, no handler   *)
(* (AttachDisk and DeleteDisk detach, too: client.go:267, 411) takes a     *)
(* volume from a node that has it staged or published, and none moves it   *)
(* from one node to another in one step.  Only a volume for which a        *)
(* request has been left behind (loose) can be taken away.                 *)
(***************************************************************************)
NeverTakenFromUser == Nodes!UseSpec

(***************************************************************************)
(* The publish context that the node is given stays true: as long as the   *)
(* volume is attached for the node it is at that node, at the unit of the  *)
(* context (disk.go:194-200), which is all the node has to find it by      *)
(* (mounter.go:461-488), unless a request for it has been left behind.     *)
(***************************************************************************)
ContextStaysTrue ==
    \A v \in Names \ stray : va[v].st = "attached" =>
        vol[v].vm = va[v].vm /\ vol[v].unit = va[v].unit

(***************************************************************************)
(* "disk will be detached and resized" (README.md:83): no volume changes   *)
(* its size under a node that uses it (disk.go:374-383), unless a resize   *)
(* or another request for it has been left behind.                         *)
(***************************************************************************)
ResizedOnlyUnused ==
    [][\A v \in Names \ stray :
          vol[v].here /\ vol'[v].here /\ vol'[v].size # vol[v].size =>
              \A n \in Vms : use[n][v] = "out"]_vol
=============================================================================
