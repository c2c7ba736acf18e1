------------------------ MODULE VolumeLifecycleProofs ------------------------
(***************************************************************************)
(* What controller and nodes keep together when the sidecars wait for      *)
(* their answers, for any number of handlers, volumes and nodes.           *)
(***************************************************************************)
EXTENDS VolumeLifecycle, ControllerProofs

-----------------------------------------------------------------------------
(* The inductive invariant *)

LifeTypeOK ==
    /\ va \in [Names -> [vm: Vms \cup {None},
                         st: {"none", "attaching", "attached", "detaching"}, unit: Units]]
    /\ \A v \in Names : va[v].st # "none" => va[v].vm \in Vms
    /\ \A v \in Names : va[v].st = "none" => va[v] = NoVa
    /\ use \in [Vms -> [Names -> {"out", "staged", "published"}]]

\* Only a volume that is there is attached.
HereInv == \A v \in Names : vol[v].vm # None => vol[v].here

\* A node uses what is attached for it.
UseInv ==
    \A n \in Vms, v \in Names :
        use[n][v] # "out" => va[v].vm = n /\ va[v].st = "attached"

\* The calls that run are those the VolumeAttachment asks for.
CallerInv(t) ==
    LET v == rpc[t].name IN
    at[t] # "idle" =>
        /\ rpc[t].op = "Publish" => /\ va[v].vm = rpc[t].vm
                                    /\ va[v].st \in {"attaching", "detaching"}
        /\ rpc[t].op = "Unpublish" => va[v].vm = rpc[t].vm /\ va[v].st = "detaching"
        /\ rpc[t].op = "Delete" => va[v].st = "none"

\* A Publish that has succeeded, and its volume, which nobody takes away but a
\* request left behind.
PublishDone(t) ==
    \/ at[t] = "publish" /\ phase[t] = "done" /\ res[t].err = "nil"
    \/ AnswersOk(t, "Publish")

DoneInv(t) ==
    PublishDone(t) /\ rpc[t].name \notin stray => vol[rpc[t].name].vm = rpc[t].vm

LifeInv ==
    /\ LifeTypeOK /\ HereInv /\ UseInv /\ ContextStaysTrue
    /\ \A t \in Threads : CallerInv(t) /\ DoneInv(t)

\* All that is known in a state that patient sidecars reach.
AllInv == CallsInv /\ WaitInv /\ LifeInv
-----------------------------------------------------------------------------
(* The lifecycle only restricts when the controller is called. *)

\* Every step is one of the controller, or leaves its variables alone.
LEMMA LifecycleSteps ==
    [LifecycleNext]_lifecycleVars => [ControllerNext]_controllerVars
BY DEF LifecycleNext, lifecycleVars, ControllerNext, WantDetached, WantAttached, Kubelet

(***************************************************************************)
(* Whatever is proved of the controller RPCs for any caller holds for the  *)
(* calls that Kubernetes makes during the life of a volume.                *)
(***************************************************************************)
THEOREM LifecycleIsController == LifecycleSpec => ControllerSpec
BY LifecycleSteps, PTL DEF LifecycleSpec, LifecycleInit, ControllerSpec

\* Nothing is attached, used or called when Kubernetes begins.
LEMMA LifeInvInit == LifecycleInit => LifeInv
<1> SUFFICES ASSUME LifecycleInit PROVE LifeInv
  OBVIOUS
<1>1. LifeTypeOK
  BY ServiceAssumption DEF LifecycleInit, LifeTypeOK, NoVa
<1>2. HereInv /\ UseInv
  BY DEF LifecycleInit, ControllerInit, ServiceInit, NoVolume, HereInv, UseInv
<1>3. ContextStaysTrue
  BY DEF LifecycleInit, NoVa, ContextStaysTrue
<1>4. ASSUME NEW t \in Threads PROVE CallerInv(t) /\ DoneInv(t)
  BY DEF LifecycleInit, ControllerInit, CallerInv, DoneInv, PublishDone, AnswersOk
<1> QED
  BY <1>1, <1>2, <1>3, <1>4 DEF LifeInv

-----------------------------------------------------------------------------
(* Kubernetes *)

\* What a VolumeAttachment may be.
LEMMA VaFields ==
    ASSUME LifeInv, NEW v \in Names
    PROVE  /\ va[v].st \in {"none", "attaching", "attached", "detaching"}
           /\ va[v].vm \in Vms \cup {None} /\ va[v].unit \in Units
           /\ va[v].st # "none" => va[v].vm \in Vms
           /\ va[v].st = "none" => va[v] = NoVa
BY DEF LifeInv, LifeTypeOK

\* A VolumeAttachment that is not "attached" is of a volume no node uses.
LEMMA NotAttachedUnused ==
    ASSUME LifeInv, NEW v \in Names, va[v].st # "attached"
    PROVE  \A n \in Vms : use[n][v] = "out"
BY DEF LifeInv, UseInv

\* A VolumeAttachment is made: its volume is used by no node.
LEMMA WantAttachedKeeps ==
    ASSUME LifeInv, NEW v \in Names, NEW n \in Vms, WantAttached(v, n)
    PROVE  LifeInv'
<1>1. /\ va[v] = NoVa /\ va[v].st = "none" /\ ~Running("Delete", v)
      /\ UNCHANGED <<use, vol, stray, at, rpc, reply, phase, res>>
  BY DEF WantAttached, NoVa, controllerVars, serviceVars, leftVars, handlerVars
<1>2. /\ va'[v] = [vm |-> n, st |-> "attaching", unit |-> 0]
      /\ \A x \in Names \ {v} : va'[x] = va[x]
  BY DEF WantAttached, NoVa, LifeInv, LifeTypeOK
<1>3. LifeTypeOK'
  BY <1>1, <1>2, ServiceAssumption DEF WantAttached, NoVa, LifeInv, LifeTypeOK
<1>4. UseInv'
  BY <1>1, <1>2, NotAttachedUnused DEF LifeInv, UseInv
<1>5. HereInv' /\ ContextStaysTrue'
  BY <1>1, <1>2 DEF LifeInv, HereInv, ContextStaysTrue
<1>6. ASSUME NEW t \in Threads PROVE CallerInv(t)' /\ DoneInv(t)'
  <2>1. CallerInv(t) /\ DoneInv(t)
    BY DEF LifeInv
  <2>2. CallerInv(t)'
    <3>1. CASE at[t] = "idle" \/ rpc[t].op \notin {"Publish", "Unpublish", "Delete"}
      BY <1>1, <3>1 DEF CallerInv
    <3>2. CASE rpc[t].name # v /\ rpc[t].name \in Names
      BY <1>1, <1>2, <2>1, <3>2 DEF CallerInv
    <3>3. CASE rpc[t].name # v /\ rpc[t].name \notin Names
      BY <1>1, <2>1, <3>3 DEF CallerInv, LifeInv, LifeTypeOK, WantAttached
    <3>4. CASE rpc[t].name = v /\ at[t] # "idle"
      BY <1>1, <2>1, <3>4 DEF CallerInv, Running
    <3> QED
      BY <3>1, <3>2, <3>3, <3>4
  <2>3. DoneInv(t)'
    BY <1>1, <2>1 DEF DoneInv, PublishDone, AnswersOk
  <2> QED
    BY <2>2, <2>3
<1> QED
  BY <1>3, <1>4, <1>5, <1>6 DEF LifeInv

\* A VolumeAttachment is deleted once its node has given the volume back.
LEMMA WantDetachedKeeps ==
    ASSUME LifeInv, NEW v \in Names, WantDetached(v)
    PROVE  LifeInv'
<1>1. /\ va[v].st \in {"attaching", "attached"} /\ use[va[v].vm][v] = "out"
      /\ UNCHANGED <<use, vol, stray, at, rpc, reply, phase, res>>
  BY DEF WantDetached, controllerVars, serviceVars, leftVars, handlerVars
<1>2. /\ va'[v].vm = va[v].vm /\ va'[v].st = "detaching"
      /\ \A x \in Names \ {v} : va'[x] = va[x]
  BY DEF WantDetached, LifeInv, LifeTypeOK
<1>3. LifeTypeOK'
  BY <1>1, <1>2 DEF WantDetached, LifeInv, LifeTypeOK
<1>4. UseInv'
  <2>1. \A n \in Vms : use[n][v] = "out"
    BY <1>1 DEF LifeInv, UseInv
  <2> QED
    BY <1>1, <1>2, <2>1 DEF LifeInv, UseInv
<1>5. HereInv' /\ ContextStaysTrue'
  BY <1>1, <1>2 DEF LifeInv, HereInv, ContextStaysTrue
<1>6. ASSUME NEW t \in Threads PROVE CallerInv(t)' /\ DoneInv(t)'
  <2>1. CallerInv(t) /\ DoneInv(t)
    BY DEF LifeInv
  <2>2. CallerInv(t)'
    <3>1. CASE rpc[t].name = v
      BY <1>1, <1>2, <2>1, <3>1 DEF CallerInv
    <3>2. CASE rpc[t].name # v
      BY <1>1, <1>2, <2>1, <3>2 DEF CallerInv, LifeInv, LifeTypeOK, WantDetached
    <3> QED
      BY <3>1, <3>2
  <2>3. DoneInv(t)'
    BY <1>1, <2>1 DEF DoneInv, PublishDone, AnswersOk
  <2> QED
    BY <2>2, <2>3
<1> QED
  BY <1>3, <1>4, <1>5, <1>6 DEF LifeInv

\* A node begins to use only what is attached for it.
LEMMA KubeletKeeps ==
    ASSUME LifeInv, NEW n \in Vms, Kubelet(n)
    PROVE  LifeInv'
<1>1. UNCHANGED <<va, vol, stray, at, rpc, reply, phase, res>>
  BY DEF Kubelet, controllerVars, serviceVars, leftVars, handlerVars
<1>2. use' \in [Vms -> [Names -> {"out", "staged", "published"}]] /\ UseInv'
  <2> USE DEF Nodes!Uses, Nodes!BeforePublish
  <2>0. use \in [Vms -> [Names -> {"out", "staged", "published"}]] /\ UseInv
    BY DEF LifeInv, LifeTypeOK
  <2>1. ASSUME NEW v \in Names, va[v].vm = n, va[v].st = "attached",
               Nodes!Stage(n, v) \/ Nodes!Publish(n, v)
        PROVE  use' \in [Vms -> [Names -> {"out", "staged", "published"}]] /\ UseInv'
    <3>1. PICK to \in {"staged", "published"} : use' = [use EXCEPT ![n][v] = to]
      BY <2>1 DEF Nodes!Stage, Nodes!Publish
    <3> QED
      BY <1>1, <2>0, <2>1, <3>1 DEF UseInv
  <2>2. ASSUME NEW v \in Names, Nodes!Unpublish(n, v) \/ Nodes!Unstage(n, v)
        PROVE  use' \in [Vms -> [Names -> {"out", "staged", "published"}]] /\ UseInv'
    <3>1. PICK to \in {"staged", "out"} : use' = [use EXCEPT ![n][v] = to]
      BY <2>2 DEF Nodes!Unpublish, Nodes!Unstage
    <3>2. use[n][v] # "out"
      BY <2>2 DEF Nodes!Unpublish, Nodes!Unstage
    <3> QED
      BY <1>1, <2>0, <3>1, <3>2 DEF UseInv
  <2>3. CASE Nodes!Reboot(n)
    BY <1>1, <2>0, <2>3 DEF Nodes!Reboot, UseInv
  <2> QED
    BY <2>1, <2>2, <2>3 DEF Kubelet
<1> QED
  BY <1>1, <1>2 DEF LifeInv, LifeTypeOK, HereInv, ContextStaysTrue, CallerInv, DoneInv,
                    PublishDone, AnswersOk

-----------------------------------------------------------------------------
(* Calls begin and end. *)

\* Without a change of volumes, attachments or uses only the handlers matter.
LEMMA HandlersMove ==
    ASSUME LifeInv, UNCHANGED <<vol, va, use>>, stray \subseteq stray',
           \A t \in Threads : CallerInv(t)' /\ DoneInv(t)'
    PROVE  LifeInv'
BY DEF LifeInv, LifeTypeOK, HereInv, UseInv, ContextStaysTrue

\* A sidecar calls what the VolumeAttachment asks for.
LEMMA CallMayBegin ==
    ASSUME AllInv, NEW t \in Threads, NEW r \in Rpcs, MayCall(r), Receive(t, r),
           UNCHANGED <<va, use>>
    PROVE  LifeInv'
<1>1. /\ UNCHANGED <<vol, stray, phase, res, reply>> /\ at'[t] = "begin" /\ rpc'[t] = r
      /\ \A u \in Threads \ {t} : at'[u] = at[u] /\ rpc'[u] = rpc[u]
  BY DEF Receive, serviceVars, leftVars, AllInv, CallsInv, ControllerTypeOK
<1>2. CallerInv(t)'
  <2>1. r.op = "Delete" => va[r.name].st = "none"
    BY DEF MayCall, NoVa
  <2>2. /\ r.op = "Publish" => va[r.name].vm = r.vm /\ va[r.name].st = "attaching"
        /\ r.op = "Unpublish" => va[r.name].vm = r.vm /\ va[r.name].st = "detaching"
    BY DEF MayCall
  <2> QED
    BY <1>1, <2>1, <2>2 DEF CallerInv
<1>3. DoneInv(t)'
  BY <1>1 DEF DoneInv, PublishDone, AnswersOk
<1>4. ASSUME NEW u \in Threads \ {t} PROVE CallerInv(u)' /\ DoneInv(u)'
  <2>1. CallerInv(u) /\ DoneInv(u)
    BY DEF AllInv, LifeInv
  <2> QED
    BY <1>1, <2>1 DEF CallerInv, DoneInv, PublishDone, AnswersOk
<1> QED
  BY <1>1, <1>2, <1>3, <1>4, HandlersMove DEF AllInv

\* Two calls of the attacher for a volume do not run together.
LEMMA OneAttacherCall ==
    ASSUME AllInv, NEW t \in Threads, NEW u \in Threads \ {t},
           at[t] # "idle", at[u] # "idle", rpc[t].name = rpc[u].name,
           rpc[t].op \in {"Publish", "Unpublish"}
    PROVE  rpc[u].op \notin {"Publish", "Unpublish"}
<1>1. ~Conflict(rpc[t], rpc[u])
  BY DEF AllInv, WaitInv, PatientInv
<1> QED
  BY <1>1, Conflicting

\* The attacher hears that its call has ended.
LEMMA AnsweredKeeps ==
    ASSUME AllInv, NEW t \in Threads, Answered(t), va' = Heard(t), UNCHANGED use
    PROVE  LifeInv'
<1> DEFINE v == rpc[t].name
<1> USE DEF AllInv
<1>0. /\ at[t] = "done" /\ at'[t] = "idle" /\ UNCHANGED <<vol, stray, phase, res>>
      /\ \A u \in Threads \ {t} : /\ at'[u] = at[u] /\ rpc'[u] = rpc[u]
                                  /\ reply'[u] = reply[u]
      /\ CallerInv(t) /\ DoneInv(t) /\ LifeInv
      /\ va \in [Names -> [vm: Vms \cup {None}, unit: Units,
                           st: {"none", "attaching", "attached", "detaching"}]]
  BY DEF Answered, serviceVars, leftVars, CallsInv, ControllerTypeOK, LifeInv, LifeTypeOK
<1>1. ASSUME NEW u \in Threads PROVE DoneInv(u)'
  BY <1>0 DEF DoneInv, PublishDone, AnswersOk, LifeInv
<1>2. CASE va' = va
  <2>1. ASSUME NEW u \in Threads PROVE CallerInv(u)'
    BY <1>0, <1>2 DEF CallerInv, LifeInv
  <2> QED
    BY <1>0, <1>1, <1>2, <2>1, HandlersMove
<1>3. CASE \/ AnswersOk(t, "Publish") /\ va[v].st = "attaching"
           \/ AnswersOk(t, "Unpublish")
  <2>1. /\ rpc[t].op \in {"Publish", "Unpublish"} /\ v \in Names
        /\ va[v].st \in {"attaching", "detaching"} /\ va[v].vm = rpc[t].vm
        /\ rpc[t].op = "Unpublish" => va[v].st = "detaching"
    BY <1>0, <1>3, HandlerTypes DEF AnswersOk, CallerInv
  <2>2. \A n \in Vms : use[n][v] = "out"
    BY <2>1, NotAttachedUnused
  <2>3. \A x \in Names \ {v} : va'[x] = va[x]
    BY <1>0 DEF Heard
  <2>4. /\ va' \in [Names -> [vm: Vms \cup {None}, unit: Units,
                              st: {"none", "attaching", "attached", "detaching"}]]
        /\ \/ va'[v] = NoVa
           \/ /\ va'[v].st = "attached" /\ va'[v].vm = va[v].vm
              /\ va'[v].unit = reply[t].unit /\ AnswersOk(t, "Publish")
    <3>1. reply[t].unit \in Units /\ NoVa \in [vm: Vms \cup {None}, unit: Units,
                              st: {"none", "attaching", "attached", "detaching"}]
      BY ServiceAssumption DEF CallsInv, ControllerTypeOK, NoVa
    <3>2. CASE AnswersOk(t, "Publish") /\ va[v].st = "attaching"
      BY <1>0, <2>1, <3>1, <3>2 DEF Heard
    <3>3. CASE AnswersOk(t, "Unpublish")
      BY <1>0, <2>1, <3>1, <3>3 DEF Heard, AnswersOk
    <3> QED
      BY <1>3, <3>2, <3>3
  <2>5. LifeTypeOK'
    <3>1. va[v].vm \in Vms
      BY <2>1, VaFields
    <3>2. /\ va'[v].st # "none" => va'[v].vm \in Vms
          /\ va'[v].st = "none" => va'[v] = NoVa
      BY <2>4, <3>1 DEF NoVa
    <3> QED
      BY <2>3, <2>4, <3>2 DEF LifeTypeOK, LifeInv, NoVa
  <2>6. UseInv' /\ HereInv'
    BY <1>0, <2>2, <2>3 DEF LifeInv, UseInv, HereInv
  <2>7. ContextStaysTrue'
    <3>1. AnswersOk(t, "Publish") /\ v \notin stray =>
             vol[v].vm = rpc[t].vm /\ vol[v].unit = reply[t].unit
      BY <1>0 DEF DoneInv, PublishDone, WaitInv, PublishedUnit
    <3> QED
      BY <1>0, <2>1, <2>3, <2>4, <3>1 DEF LifeInv, ContextStaysTrue, NoVa
  <2>8. ASSUME NEW u \in Threads PROVE CallerInv(u)'
    <3>1. CASE u = t \/ at[u] = "idle"
      BY <1>0, <3>1 DEF CallerInv
    <3>2. CASE u # t /\ at[u] # "idle" /\ rpc[u].name # v
      <4>1. CallerInv(u) /\ (rpc[u].op # "List" => rpc[u].name \in Names)
        BY <3>2, HandlerTypes DEF LifeInv
      <4> QED
        BY <1>0, <2>3, <3>2, <4>1 DEF CallerInv
    <3>3. CASE u # t /\ at[u] # "idle" /\ rpc[u].name = v
      <4>1. rpc[u].op \notin {"Publish", "Unpublish"}
        BY <1>0, <2>1, <3>3, OneAttacherCall
      <4>2. rpc[u].op # "Delete"
        BY <2>1, <3>3 DEF LifeInv, CallerInv
      <4> QED
        BY <1>0, <3>3, <4>1, <4>2 DEF CallerInv
    <3> QED
      BY <3>1, <3>2, <3>3
  <2> QED
    BY <1>1, <2>5, <2>6, <2>7, <2>8 DEF LifeInv
<1> QED
  BY <1>2, <1>3 DEF Heard

-----------------------------------------------------------------------------
(* Handlers at work *)

\* A handler leaves the volumes alone, and answers a Publish without an error
\* only when its call of the client has succeeded.
LEMMA HandlerAtWork ==
    ASSUME CallsInv, NEW t \in Threads, Handler(t), ~ExpandPanics(t), ~Answered(t)
    PROVE  /\ UNCHANGED <<vol, stray>> /\ at[t] # "done"
           /\ \A u \in Threads \ {t} : Frame(u)' = Frame(u)
           /\ at[t] # "idle" /\ rpc'[t] = rpc[t]
           /\ PublishDone(t)' => PublishDone(t)
<1>0. /\ DOMAIN at = Threads /\ DOMAIN rpc = Threads /\ DOMAIN reply = Threads
      /\ DOMAIN size = Threads /\ DOMAIN phase = Threads /\ DOMAIN req = Threads
      /\ DOMAIN res = Threads /\ CallInv(t)
  BY DEF CallsInv, ControllerTypeOK, ServiceTypeOK
<1> USE DEF Frame, PublishDone, AnswersOk, Respond, CallClient, Begin, Taken, serviceVars,
            leftVars
<1>1. CASE RejectInvalid(t)
  BY <1>0, <1>1 DEF RejectInvalid, Rejects
<1>2. CASE CreateVolume(t) \/ CreateVolumeEnds(t)
  BY <1>0, <1>2 DEF CreateVolume, CreateVolumeEnds, Rejects, Enters, ClientDone, CallInv
<1>3. CASE PassOn(t) \/ PassOnEnds(t)
  BY <1>0, <1>3 DEF PassOn, PassOnEnds, Enters, ClientDone, CallInv, SimpleCall
<1>4. CASE ControllerPublishVolume(t)
  BY <1>0, <1>4 DEF ControllerPublishVolume, Enters
<1>5. CASE PublishEnds(t)
  BY <1>0, <1>5 DEF PublishEnds, ClientDone, PublishCode
<1>6. CASE ExpandList(t) \/ ExpandResize(t)
  BY <1>0, <1>6 DEF ExpandList, ExpandResize, Enters
<1>7. CASE ExpandDecide(t) \/ ExpandResized(t)
  BY <1>0, <1>7 DEF ExpandDecide, ExpandResized, ClientDone, CallInv
<1>8. CASE ExpandPop(t) \/ ExpandPut(t)
  BY <1>0, <1>8 DEF ExpandPop, ExpandPut, CallInv
<1> QED
  BY <1>1, <1>2, <1>3, <1>4, <1>5, <1>6, <1>7, <1>8 DEF Handler

\* A handler at work changes no volume and makes no Publish succeed.
LEMMA WorkKeeps ==
    ASSUME AllInv, NEW t \in Threads, Handler(t), ~ExpandPanics(t), ~Answered(t),
           UNCHANGED <<va, use>>
    PROVE  LifeInv'
<1>1. /\ UNCHANGED <<vol, stray>> /\ at[t] # "idle" /\ rpc'[t] = rpc[t]
      /\ PublishDone(t)' => PublishDone(t)
      /\ \A u \in Threads \ {t} : Frame(u)' = Frame(u)
  BY HandlerAtWork DEF AllInv
<1>2. ASSUME NEW u \in Threads PROVE CallerInv(u)' /\ DoneInv(u)'
  <2>1. CallerInv(u) /\ DoneInv(u)
    BY DEF AllInv, LifeInv
  <2>2. CASE u = t
    BY <1>1, <2>1, <2>2 DEF CallerInv, DoneInv
  <2>3. CASE u # t
    BY <1>1, <2>1, <2>3 DEF CallerInv, DoneInv, PublishDone, AnswersOk, Frame
  <2> QED
    BY <2>2, <2>3
<1> QED
  BY <1>1, <1>2, HandlersMove DEF AllInv

-----------------------------------------------------------------------------
(* The client at work *)

\* AttachDisk succeeds when the volume is at the VM (client.go:255-340).
LEMMA FinishKeeps ==
    ASSUME AllInv, NEW t \in Threads, Succeeds(t) \/ Refuses(t),
           UNCHANGED <<lock, handlerVars, va, use>>
    PROVE  LifeInv'
<1>1. /\ UNCHANGED <<vol, stray, at, rpc, reply>> /\ phase[t] = "busy"
      /\ \A u \in Threads \ {t} : phase'[u] = phase[u] /\ res'[u] = res[u]
  BY DEF handlerVars, Succeeds, Refuses, Finish, leftVars, AllInv, CallsInv, ServiceTypeOK
<1>2. ASSUME NEW u \in Threads PROVE CallerInv(u)' /\ DoneInv(u)'
  <2>1. CallerInv(u) /\ DoneInv(u)
    BY DEF AllInv, LifeInv
  <2>2. CASE u # t
    BY <1>1, <2>1, <2>2 DEF CallerInv, DoneInv, PublishDone, AnswersOk
  <2>3. CASE u = t /\ Succeeds(t)
    <3>1. at[t] = "publish" => vol[rpc[t].name].vm = rpc[t].vm
      <4>1. at[t] = "publish" => /\ req[t].m = "AttachDisk"
                                 /\ req[t].name = rpc[t].name /\ req[t].vm = rpc[t].vm
        BY <1>1, CallOf DEF AllInv, CallsInv, CallInv
      <4> QED
        BY <2>3, <4>1 DEF Succeeds, Achieved
    <3>2. at[t] # "done"
      BY <1>1, CallOf DEF AllInv, Waiting
    <3> QED
      BY <1>1, <2>1, <2>3, <3>1, <3>2 DEF CallerInv, DoneInv, PublishDone, AnswersOk
  <2>4. CASE u = t /\ Refuses(t)
    <3>1. res'[t].err # "nil"
      BY <2>4 DEF Refuses, Finish, NoRes, AllInv, CallsInv, ServiceTypeOK
    <3> QED
      BY <1>1, <2>1, <2>4, <3>1 DEF CallerInv, DoneInv, PublishDone, AnswersOk
  <2> QED
    BY <2>2, <2>3, <2>4
<1> QED
  BY <1>1, <1>2, HandlersMove DEF AllInv

\* The volume of a call whose answer is lost, or may be false, has a request left
\* behind.
LEMMA LostIsStray ==
    ASSUME CallsInv, NEW t \in Threads, AnswerLost(t) \/ Misled(t)
    PROVE  /\ rpc[t].name \in stray' /\ stray \subseteq stray' /\ \E r : Returns(t, r)
           /\ stray' = stray \/ (stray' = stray \cup {rpc[t].name} /\ rpc[t].name \in Names)
           /\ vol' = vol
<1>1. CASE AnswerLost(t)
  BY <1>1, LeavesTypes DEF AnswerLost, Returns
<1>2. CASE Misled(t)
  <2>1. phase[t] = "busy" /\ req[t].name \in stray
    BY <1>2 DEF Misled
  <2>2. req[t].m # "ListVolumes"
    BY <2>1, CallOf, ControllerAssumption DEF CallsInv, CallInv, ControllerTypeOK
  <2>3. req[t].name = rpc[t].name
    BY <2>1, <2>2, CallOf
  <2>4. PICK r : Finish(t, r)
    BY <1>2 DEF Misled
  <2>5. Returns(t, r) /\ UNCHANGED <<left, stray>> /\ vol' = vol
    BY <2>4, FinishReturns DEF Finish
  <2> QED
    BY <2>1, <2>3, <2>5
<1> QED
  BY <1>1, <1>2

\* What a request left behind makes of a volume is there if it is at a VM, and
\* goes to a VM only from none.
LEMMA LeftHere ==
    ASSUME AllInv, NEW k \in left, LeftRuns(k)
    PROVE  LET w == LeftResult(k) IN
           /\ w.vm # None => w.here
           /\ w.vm \in {None, vol[k.name].vm} \/ vol[k.name].vm = None
           /\ w.vm \in Vms \cup {None}
<1>1. /\ k \in LeftSet(stray) /\ stray \subseteq Names
      /\ vol \in [Names -> VolumeSet]
  BY DEF AllInv, CallsInv, ControllerTypeOK, LeftSet, VolumeSet
<1>2. /\ k.kind \in {"create", "delete", "attach", "detach", "resize"}
      /\ k.name \in Names /\ k.vm \in Vms \cup {None}
      /\ vol[k.name] \in VolumeSet /\ vol[k.name].vm \in Vms \cup {None}
      /\ vol[k.name].vm # None => vol[k.name].here
      /\ LeftPossible(k)
  BY <1>1 DEF LeftSet, VolumeSet, LeftRuns, AllInv, LifeInv, HereInv
<1>3. CASE k.kind \in {"create", "delete"}
  BY <1>3 DEF LeftResult, NoVolume
<1>4. CASE k.kind = "attach"
  <2>1. LeftResult(k) = [vol[k.name] EXCEPT !.vm = k.vm, !.unit = k.unit]
    BY <1>4 DEF LeftResult
  <2>2. vol[k.name].here /\ vol[k.name].vm = None
    BY <1>2, <1>4 DEF LeftPossible
  <2> QED
    BY <1>2, <2>1, <2>2 DEF VolumeSet
<1>5. CASE k.kind = "detach"
  <2>1. LeftResult(k) = [vol[k.name] EXCEPT !.vm = None, !.unit = 0]
    BY <1>5 DEF LeftResult
  <2> QED
    BY <1>2, <2>1 DEF VolumeSet
<1>6. CASE k.kind = "resize"
  <2>1. LeftResult(k) = [vol[k.name] EXCEPT !.size = k.size]
    BY <1>6 DEF LeftResult
  <2> QED
    BY <1>2, <2>1 DEF VolumeSet
<1> QED
  BY <1>2, <1>3, <1>4, <1>5, <1>6

\* A lost answer is an error, and of a volume with a request left behind nothing
\* is known.
LEMMA LostKeeps ==
    ASSUME AllInv, NEW t \in Threads, AnswerLost(t) \/ Misled(t),
           UNCHANGED <<lock, handlerVars, va, use>>
    PROVE  LifeInv'
<1>1. /\ UNCHANGED <<vol, at, rpc, reply>> /\ stray \subseteq stray'
      /\ rpc[t].name \in stray'
      /\ \A u \in Threads \ {t} : phase'[u] = phase[u] /\ res'[u] = res[u]
  <2>1. rpc[t].name \in stray' /\ stray \subseteq stray' /\ \E r : Returns(t, r)
    BY LostIsStray DEF AllInv
  <2> QED
    BY <2>1 DEF handlerVars, Returns, AllInv, CallsInv, ServiceTypeOK
<1>2. ASSUME NEW u \in Threads PROVE CallerInv(u)' /\ DoneInv(u)'
  <2>1. CallerInv(u) /\ DoneInv(u)
    BY DEF AllInv, LifeInv
  <2> QED
    BY <1>1, <2>1 DEF CallerInv, DoneInv, PublishDone, AnswersOk
<1> QED
  BY <1>1, <1>2, HandlersMove DEF AllInv

\* A request left behind changes only volumes of which nothing is known, and
\* what it makes of a volume is there if it is at a VM.
LEMMA CloudKeepsLife ==
    ASSUME AllInv, Cloud, UNCHANGED <<va, use>>
    PROVE  LifeInv'
<1>1. PICK k \in left : LeftRuns(k) \/ LeftDropped(k)
  BY DEF Cloud
<1>2. UNCHANGED <<stray, at, rpc, reply, phase, res>>
  BY <1>1 DEF Cloud, handlerVars, LeftRuns, LeftDropped
<1>3. CASE LeftDropped(k)
  <2>1. ASSUME NEW u \in Threads PROVE CallerInv(u)' /\ DoneInv(u)'
    BY <1>2, <1>3 DEF LeftDropped, AllInv, LifeInv, CallerInv, DoneInv, PublishDone, AnswersOk
  <2> QED
    BY <1>2, <1>3, <2>1, HandlersMove DEF LeftDropped, AllInv
<1>4. CASE LeftRuns(k)
  <2>1. /\ k.name \in stray /\ k.name \in Names /\ vol'[k.name] = LeftResult(k)
        /\ \A x \in Names \ {k.name} : vol'[x] = vol[x]
    BY <1>4, LeftMade DEF AllInv
  <2>2. LifeTypeOK' /\ UseInv' /\ ContextStaysTrue'
    BY <1>2, <2>1 DEF AllInv, LifeInv, LifeTypeOK, UseInv, ContextStaysTrue
  <2>3. HereInv'
    BY <1>4, <2>1, LeftHere DEF AllInv, LifeInv, HereInv
  <2>4. ASSUME NEW u \in Threads PROVE CallerInv(u)' /\ DoneInv(u)'
    <3>1. CallerInv(u) /\ DoneInv(u)
      BY DEF AllInv, LifeInv
    <3>2. PublishDone(u) => rpc[u].name \in Names
      BY HandlerTypes DEF PublishDone, AnswersOk, AllInv, CallsInv, CallInv
    <3> QED
      BY <1>2, <2>1, <3>1, <3>2 DEF CallerInv, DoneInv, PublishDone, AnswersOk
  <2> QED
    BY <2>2, <2>3, <2>4 DEF LifeInv
<1> QED
  BY <1>1, <1>3, <1>4

\* The client takes a volume from a VM only for a call that no node's use stands
\* against, and creates and resizes only volumes that are at no VM.
LEMMA TakenOnlyUnused ==
    ASSUME AllInv, NEW t \in Threads, ServiceStep(t)
    PROVE  LET v == rpc[t].name IN
           /\ v \in Names
           /\ rpc[t].op \in {"Create", "Expand", "Publish", "Unpublish", "Delete"}
           /\ rpc[t].op \in {"Create", "Expand"} => vol[v].vm = None
           /\ v \notin stray \/ rpc[t].op \notin {"Create", "Expand"} =>
                 va[v].st # "attached" /\ \A n \in Vms : use[n][v] = "out"
<1> DEFINE v == rpc[t].name
<1>1. /\ v \in Names /\ at[t] # "idle"
      /\ rpc[t].op \in {"Create", "Expand", "Publish", "Unpublish", "Delete"}
      /\ rpc[t].op \in {"Create", "Expand"} => vol[v].vm = None
  <2>1. v \in Names /\ phase[t] = "busy"
    BY VolumeMade DEF AllInv
  <2>2. at[t] # "idle"
    BY <2>1, CallOf DEF AllInv, Waiting
  <2>3. ~vol[v].here => vol[v].vm = None
    BY <2>1 DEF AllInv, LifeInv, HereInv
  <2> QED
    BY <2>1, <2>2, <2>3, VolumeMade DEF AllInv
<1>2. ASSUME v \notin stray \/ rpc[t].op \notin {"Create", "Expand"}
      PROVE  va[v].st # "attached"
  <2>1. CASE v \notin stray /\ rpc[t].op \in {"Create", "Expand"}
    BY <1>1, <2>1, VaFields, ControllerAssumption DEF AllInv, LifeInv, ContextStaysTrue
  <2>2. CASE rpc[t].op \in {"Publish", "Unpublish", "Delete"}
    BY <1>1, <2>2 DEF AllInv, LifeInv, CallerInv
  <2> QED
    BY <1>1, <1>2, <2>1, <2>2
<1> QED
  BY <1>1, <1>2, NotAttachedUnused DEF AllInv

\* What the client makes of a volume is there if it is at a VM.
LEMMA MadeHere ==
    ASSUME AllInv, NEW t \in Threads, ServiceStep(t)
    PROVE  LET v == rpc[t].name IN vol'[v].vm # None => vol'[v].here
<1> DEFINE v == rpc[t].name
<1>1. vol[v] \in VolumeSet
  BY VolumeMade DEF AllInv, CallsInv, ControllerTypeOK, VolumeSet
<1>2. CASE vol'[v].vm = None
  BY <1>2
<1>3. CASE vol'[v] = [vol[v] EXCEPT !.vm = None, !.unit = 0]
  BY <1>1, <1>3 DEF VolumeSet
<1>4. CASE /\ vol[v].here
           /\ \E u \in Units : vol'[v] = [vol[v] EXCEPT !.vm = rpc[t].vm, !.unit = u]
  BY <1>1, <1>4 DEF VolumeSet
<1>5. CASE /\ vol[v].here /\ vol'[v] = [vol[v] EXCEPT !.size = Mb(size[t])]
  BY <1>1, <1>5 DEF VolumeSet
<1> QED
  BY <1>2, <1>3, <1>4, <1>5, VolumeMade DEF AllInv

\* No other call changes the volume of a Publish that has succeeded.
LEMMA VolumeKeeps ==
    ASSUME AllInv, NEW t \in Threads, ServiceStep(t),
           UNCHANGED <<lock, handlerVars, va, use>>
    PROVE  LifeInv'
<1> DEFINE v == rpc[t].name
<1>1. /\ v \in Names /\ phase[t] = "busy"
      /\ UNCHANGED <<stray, phase, res, at, rpc, reply>>
      /\ \A x \in Names \ {v} : vol'[x] = vol[x]
  BY VolumeMade DEF AllInv, handlerVars
<1>2. /\ at[t] # "idle" /\ at[t] # "done" /\ ~PublishDone(t)
      /\ v \notin stray => va[v].st # "attached"
  BY <1>1, CallOf, TakenOnlyUnused DEF AllInv, Waiting, PublishDone, AnswersOk
<1>3. LifeTypeOK' /\ UseInv'
  BY DEF AllInv, LifeInv, LifeTypeOK, UseInv
<1>4. HereInv'
  BY <1>1, MadeHere DEF AllInv, LifeInv, HereInv
<1>5. ContextStaysTrue'
  BY <1>1, <1>2 DEF AllInv, LifeInv, ContextStaysTrue
<1>6. ASSUME NEW u \in Threads PROVE CallerInv(u)' /\ DoneInv(u)'
  <2>1. CallerInv(u) /\ DoneInv(u)
    BY DEF AllInv, LifeInv
  <2>2. CallerInv(u)'
    BY <1>1, <2>1 DEF CallerInv
  <2>3. DoneInv(u)'
    <3>1. CASE ~PublishDone(u)
      BY <1>1, <3>1 DEF DoneInv, PublishDone, AnswersOk
    <3>2. CASE rpc[u].name \in stray
      BY <1>1, <3>2 DEF DoneInv
    <3>3. CASE PublishDone(u) /\ rpc[u].name \notin stray
      <4>1. /\ u # t /\ at[u] # "idle" /\ rpc[u].op = "Publish"
            /\ rpc[u].name \in Names /\ rpc[u].vm \in Vms
        <5>1. u # t /\ at[u] # "idle" /\ rpc[u].op = "Publish"
          BY <1>2, <3>3 DEF PublishDone, AnswersOk, AllInv, CallsInv, CallInv
        <5> QED
          BY <5>1, HandlerTypes, RpcFields DEF AllInv
      <4>2. vol[rpc[u].name].vm = rpc[u].vm /\ rpc[u].vm # None
        BY <2>1, <3>3, <4>1, ControllerAssumption DEF DoneInv
      <4>3. rpc[u].name # v
        <5>1. SUFFICES ASSUME rpc[u].name = v PROVE FALSE
          OBVIOUS
        <5>2. rpc[t].op \notin {"Publish", "Unpublish"}
          BY <1>2, <4>1, <5>1, OneAttacherCall
        <5>3. va[v].st # "none"
          BY <2>1, <4>1, <5>1 DEF CallerInv
        <5>4. rpc[t].op # "Delete"
          BY <1>2, <5>3 DEF AllInv, LifeInv, CallerInv
        <5>5. vol[v].vm # None /\ vol[v].here
          BY <1>1, <4>2, <5>1 DEF AllInv, LifeInv, HereInv
        <5> QED
          BY <5>2, <5>4, <5>5, VolumeMade DEF AllInv
      <4> QED
        BY <1>1, <4>1, <4>2, <4>3 DEF DoneInv
    <3> QED
      BY <3>1, <3>2, <3>3
  <2> QED
    BY <2>2, <2>3
<1> QED
  BY <1>3, <1>4, <1>5, <1>6 DEF LifeInv

\* A restart ends the calls; the volumes and their users remain.
LEMMA RestartKeepsLife ==
    ASSUME CallsInv, LifeInv, Restart, UNCHANGED <<va, use>>
    PROVE  LifeInv'
<1>1. stray \subseteq stray'
  BY LeavesTypes DEF Restart, leftVars
<1> QED
  BY <1>1, HandlersMove DEF Restart, CallerInv, DoneInv, PublishDone, AnswersOk

\* Every step keeps the part of the invariant about the life of volumes.
LEMMA LifeInvStep ==
    ASSUME AllInv, [LifecycleNext]_lifecycleVars
    PROVE  LifeInv'
<1>0. LifeInv /\ CallsInv
  BY DEF AllInv
<1>1. ASSUME NEW v \in Names, WantDetached(v) \/ \E n \in Vms : WantAttached(v, n)
      PROVE  LifeInv'
  BY <1>0, <1>1, WantDetachedKeeps, WantAttachedKeeps
<1>2. ASSUME NEW n \in Vms, Kubelet(n) PROVE LifeInv'
  BY <1>0, <1>2, KubeletKeeps
<1>3. ASSUME NEW t \in Threads, NEW r \in Rpcs, MayCall(r), Receive(t, r),
             UNCHANGED <<va, use>>
      PROVE  LifeInv'
  BY <1>3, CallMayBegin
<1>4. ASSUME NEW t \in Threads, Handler(t), va' = IF at[t] = "done" THEN Heard(t) ELSE va,
             UNCHANGED use
      PROVE  LifeInv'
  <2>1. CASE ExpandPanics(t)
    <3>1. at[t] # "done" /\ Restart
      BY <2>1 DEF ExpandPanics, NilRange, ClientDone
    <3> QED
      BY <1>0, <1>4, <3>1, RestartKeepsLife
  <2>2. CASE Answered(t)
    BY <1>4, <2>2, AnsweredKeeps DEF Answered
  <2>3. CASE ~ExpandPanics(t) /\ ~Answered(t)
    <3>1. at[t] # "done"
      BY <1>0, <1>4, <2>3, HandlerAtWork
    <3> QED
      BY <1>4, <2>3, <3>1, WorkKeeps
  <2> QED
    BY <2>1, <2>2, <2>3
<1>5. ASSUME NEW t \in Threads, Client(t), UNCHANGED <<va, use>> PROVE LifeInv'
  BY <1>5, VolumeKeeps, FinishKeeps, LostKeeps DEF Client
<1>6. CASE (MapRace \/ Killed) /\ UNCHANGED <<va, use>>
  BY <1>0, <1>6, RestartKeepsLife DEF MapRace, Killed
<1>7. CASE UNCHANGED lifecycleVars
  <2>1. UNCHANGED <<vol, stray, va, use, at, rpc, reply, phase, res>>
    BY <1>7 DEF lifecycleVars, controllerVars, serviceVars, leftVars, handlerVars
  <2> QED
    BY <1>0, <2>1, HandlersMove DEF LifeInv, CallerInv, DoneInv, PublishDone, AnswersOk
<1>8. CASE Cloud /\ UNCHANGED <<va, use>>
  BY <1>8, CloudKeepsLife
<1> QED
  BY <1>1, <1>2, <1>3, <1>4, <1>5, <1>6, <1>7, <1>8 DEF LifecycleNext

-----------------------------------------------------------------------------
(* The theorems *)

\* All of the invariant, for sidecars that wait for their answers.
LEMMA AllInvariant ==
    Patient => (LifecycleSpec => []AllInv)
<1> SUFFICES ASSUME Patient PROVE LifecycleSpec => []AllInv
  OBVIOUS
<1>1. LifecycleInit => AllInv
  BY CallsInvInit, WaitInvInit, LifeInvInit DEF LifecycleInit, AllInv
<1>2. AllInv /\ [LifecycleNext]_lifecycleVars => AllInv'
  BY LifecycleSteps, CallsInvStep, WaitInvStep, LifeInvStep DEF AllInv
<1> QED
  BY <1>1, <1>2, PTL DEF LifecycleSpec

(***************************************************************************)
(* The publish context stays true for as long as the volume is attached    *)
(* for the node (disk.go:194-200), whatever calls fail, are repeated or    *)
(* end with the process, and as long as no request for the volume has been *)
(* left behind in the cloud.                                               *)
(***************************************************************************)
THEOREM ContextIsTrue ==
    Patient => (LifecycleSpec => []ContextStaysTrue)
<1>1. AllInv => ContextStaysTrue
  BY DEF AllInv, LifeInv
<1> QED
  BY <1>1, AllInvariant, PTL

(***************************************************************************)
(* No volume is resized under a node that uses it (disk.go:374-383), as    *)
(* long as no request for it has been left behind in the cloud.            *)
(***************************************************************************)
THEOREM ResizesOnlyUnused ==
    Patient => (LifecycleSpec => ResizedOnlyUnused)
<1>1. ASSUME AllInv, [LifecycleNext]_lifecycleVars, vol' # vol, NEW v \in Names \ stray,
             vol[v].here, vol'[v].here, vol'[v].size # vol[v].size
      PROVE  \A n \in Vms : use[n][v] = "out"
  <2>1. CASE \E k \in left : LeftRuns(k)
    BY <1>1, <2>1, LeftMade DEF AllInv
  <2>2. ASSUME NEW t \in Threads, ServiceStep(t) PROVE \A n \in Vms : use[n][v] = "out"
    <3>1. v = rpc[t].name
      BY <1>1, <2>2, VolumeMade DEF AllInv
    <3> QED
      BY <1>1, <2>2, <3>1, TakenOnlyUnused
  <2> QED
    BY <1>1, <2>1, <2>2, LifecycleSteps, VolumesChange DEF AllInv
<1>2. AllInv /\ [LifecycleNext]_lifecycleVars =>
         [\A v \in Names \ stray :
             vol[v].here /\ vol'[v].here /\ vol'[v].size # vol[v].size =>
                 \A n \in Vms : use[n][v] = "out"]_vol
  BY <1>1
<1> QED
  BY <1>2, AllInvariant, PTL DEF LifecycleSpec, ResizedOnlyUnused

\* A step of the client attaches a volume that is at no VM, detaches one that
\* no node uses, or leaves it where it is.
LEMMA VolumeMoves ==
    ASSUME AllInv, NEW t \in Threads, ServiceStep(t), UNCHANGED use
    PROVE  [Nodes!UseNext]_(Nodes!useVars)
<1>0. PICK v \in Names : v = rpc[t].name
  BY VolumeMade DEF AllInv
<1> DEFINE w == [x \in Names |-> vol[x].vm]
           w2 == [x \in Names |-> vol'[x].vm]
<1>1. /\ v \in Names /\ \A x \in Names \ {v} : vol'[x] = vol[x]
      /\ vol \in [Names -> VolumeSet] /\ vol' \in [Names -> VolumeSet]
  BY <1>0, VolumeMade DEF AllInv, CallsInv, ControllerTypeOK, VolumeSet
<1>2. /\ stray' = stray
      /\ vol[v].vm = None \/ \A n \in Vms : use[n][v] = "out"
  BY <1>0, TakenOnlyUnused, VolumeMade DEF AllInv
<1>3. \/ vol'[v].vm = None /\ vol[v].vm # None
      \/ vol'[v].vm = vol[v].vm
      \/ vol[v].vm = None /\ rpc[t].op = "Publish" /\ vol'[v].vm = rpc[t].vm
  <2>1. vol[v] \in VolumeSet
    BY <1>1
  <2>2. CASE vol'[v] = [vol[v] EXCEPT !.vm = None, !.unit = 0]
    BY <2>1, <2>2 DEF VolumeSet
  <2>3. CASE vol'[v] = [vol[v] EXCEPT !.size = Mb(size[t])]
    BY <2>1, <2>3 DEF VolumeSet
  <2>4. CASE /\ rpc[t].op = "Publish" /\ vol[v].vm = None
             /\ \E u \in Units : vol'[v] = [vol[v] EXCEPT !.vm = rpc[t].vm, !.unit = u]
    BY <2>1, <2>4 DEF VolumeSet
  <2> QED
    BY <1>0, <2>2, <2>3, <2>4, VolumeMade DEF AllInv
<1>4. CASE vol'[v].vm = None /\ vol[v].vm # None
  <2>0. vol'[v].vm = None
    BY <1>4
  <2>1. w2 = [w EXCEPT ![v] = None]
    BY <1>1, <2>0
  <2>2. Nodes!Detach(v)
    BY <1>2, <1>4, <2>1 DEF Nodes!Detach
  <2> QED
    BY <1>1, <2>2 DEF Nodes!UseNext
<1>5. CASE vol'[v].vm = vol[v].vm
  <2>1. w2 = w
    BY <1>1, <1>5
  <2> QED
    BY <1>2, <2>1 DEF Nodes!useVars
<1>6. CASE vol[v].vm = None /\ rpc[t].op = "Publish" /\ vol'[v].vm = rpc[t].vm
  <2>1. PICK n \in Vms : n = rpc[t].vm
    BY <1>1, <1>6, VolumeMade, CallOf, RpcFields DEF AllInv
  <2>2. w2 = [w EXCEPT ![v] = n] /\ w[v] = None
    BY <1>1, <1>6, <2>1
  <2>3. Nodes!Attach(v, n)
    BY <1>2, <2>2 DEF Nodes!Attach
  <2> QED
    BY <1>1, <2>1, <2>3 DEF Nodes!UseNext
<1> QED
  BY <1>3, <1>4, <1>5, <1>6

\* A request left behind attaches a volume that is at no VM, or takes one away
\* that has been let loose.
LEMMA LeftMoves ==
    ASSUME AllInv, NEW k \in left, LeftRuns(k), UNCHANGED use
    PROVE  [Nodes!UseNext]_(Nodes!useVars)
<1> DEFINE v == k.name
           w == [x \in Names |-> vol[x].vm]
           w2 == [x \in Names |-> vol'[x].vm]
<1>1. /\ v \in Names /\ v \in stray /\ stray' = stray
      /\ vol \in [Names -> VolumeSet] /\ vol' \in [Names -> VolumeSet]
      /\ \A x \in Names \ {v} : vol'[x] = vol[x]
      /\ vol'[v] = LeftResult(k)
  BY LeftMade DEF AllInv, CallsInv, ControllerTypeOK, VolumeSet
<1>2. CASE vol'[v].vm = None
  <2>1. w2 = [w EXCEPT ![v] = None]
    BY <1>1, <1>2
  <2>2. Nodes!Detach(v)
    BY <1>1, <2>1 DEF Nodes!Detach
  <2> QED
    BY <1>1, <2>2 DEF Nodes!UseNext
<1>3. CASE vol'[v].vm = vol[v].vm
  <2>1. w2 = w
    BY <1>1, <1>3
  <2> QED
    BY <1>1, <2>1 DEF Nodes!useVars
<1>4. CASE vol[v].vm = None /\ vol'[v].vm \in Vms
  <2>1. PICK n \in Vms : n = vol'[v].vm
    BY <1>4
  <2>2. w2 = [w EXCEPT ![v] = n] /\ w[v] = None
    BY <1>1, <1>4, <2>1
  <2>3. Nodes!Attach(v, n)
    BY <1>1, <2>2 DEF Nodes!Attach
  <2> QED
    BY <1>1, <2>1, <2>3 DEF Nodes!UseNext
<1> QED
  BY <1>1, <1>2, <1>3, <1>4, LeftHere

\* A request is left behind in a step that moves no volume.
LEMMA StrayGrows ==
    ASSUME CallsInv, [ControllerNext]_controllerVars, stray' # stray
    PROVE  vol' = vol /\ \E v \in Names : stray' = stray \cup {v}
<1>1. ASSUME NEW t \in Threads, NEW r \in Rpcs, Receive(t, r) PROVE FALSE
  BY <1>1 DEF Receive, serviceVars, leftVars
<1>2. ASSUME Restart PROVE vol' = vol /\ \E v \in Names : stray' = stray \cup {v}
  BY <1>2, LeavesTypes DEF Restart, leftVars
<1>3. ASSUME NEW t \in Threads, Handler(t) PROVE Restart
  <2>1. CASE ExpandPanics(t)
    BY <2>1 DEF ExpandPanics
  <2>2. CASE Answered(t)
    BY <2>2 DEF Answered, serviceVars, leftVars
  <2>3. CASE ~ExpandPanics(t) /\ ~Answered(t)
    BY <1>3, <2>3, HandlerAtWork
  <2> QED
    BY <2>1, <2>2, <2>3
<1>4. ASSUME NEW t \in Threads, Client(t)
      PROVE  vol' = vol /\ \E v \in Names : stray' = stray \cup {v}
  <2>1. CASE ServiceStep(t)
    BY <2>1, VolumeMade
  <2>2. CASE Succeeds(t) \/ Refuses(t)
    BY <2>2 DEF Succeeds, Refuses, Finish, leftVars
  <2>3. CASE AnswerLost(t) \/ Misled(t)
    BY <2>3, LostIsStray
  <2> QED
    BY <1>4, <2>1, <2>2, <2>3 DEF Client
<1>5. CASE Cloud
  BY <1>5 DEF Cloud, LeftRuns, LeftDropped
<1>6. CASE UNCHANGED controllerVars
  BY <1>6 DEF controllerVars, serviceVars, leftVars
<1> QED
  BY <1>1, <1>2, <1>3, <1>4, <1>5, <1>6 DEF ControllerNext, MapRace, Killed

\* Every step is one that NodeVolumes allows, or is not seen there.
LEMMA UseStep ==
    ASSUME AllInv, [LifecycleNext]_lifecycleVars
    PROVE  [Nodes!UseNext]_(Nodes!useVars)
<1>0. vol' # vol \/ stray' # stray => UNCHANGED use
  BY DEF LifecycleNext, Kubelet, WantAttached, WantDetached, lifecycleVars,
         controllerVars, serviceVars, leftVars
<1>1. CASE vol' # vol
  <2>1. (\E t \in Threads : ServiceStep(t)) \/ (\E k \in left : LeftRuns(k))
    BY <1>1, LifecycleSteps, VolumesChange DEF AllInv
  <2> QED
    BY <1>0, <1>1, <2>1, VolumeMoves, LeftMoves
<1>2. CASE stray' # stray
  <2>1. PICK v \in Names : stray' = stray \cup {v} /\ vol' = vol
    BY <1>2, LifecycleSteps, StrayGrows DEF AllInv
  <2>2. Nodes!LetLoose(v)
    BY <1>0, <1>2, <2>1 DEF Nodes!LetLoose
  <2> QED
    BY <2>1, <2>2 DEF Nodes!UseNext
<1>3. CASE vol' = vol /\ stray' = stray
  <2>1. ASSUME NEW n \in Vms, Kubelet(n) PROVE Nodes!NodeStep(n)
    BY <2>1 DEF Kubelet, Nodes!NodeStep
  <2>2. CASE UNCHANGED use
    BY <1>3, <2>2 DEF Nodes!useVars
  <2> QED
    BY <2>1, <2>2 DEF LifecycleNext, WantAttached, WantDetached, lifecycleVars,
                      Nodes!UseNext
<1> QED
  BY <1>1, <1>2, <1>3

(***************************************************************************)
(* Controller and nodes together implement NodeVolumes: AttachDisk and     *)
(* DeleteDisk, which detach as well (client.go:267, 411), never take a     *)
(* volume from a node that has it staged or published, and none is moved   *)
(* between nodes in one step.  The exception is a volume for which a       *)
(* request has been left behind in the cloud.                              *)
(***************************************************************************)
THEOREM UsersKeepVolumes ==
    Patient => (LifecycleSpec => NeverTakenFromUser)
<1>1. LifecycleInit => Nodes!UseInit
  BY DEF LifecycleInit, ControllerInit, ServiceInit, NoVolume, Nodes!UseInit
<1>2. AllInv /\ [LifecycleNext]_lifecycleVars => [Nodes!UseNext]_(Nodes!useVars)
  BY UseStep
<1> QED
  BY <1>1, <1>2, AllInvariant, PTL DEF LifecycleSpec, NeverTakenFromUser, Nodes!UseSpec
=============================================================================
