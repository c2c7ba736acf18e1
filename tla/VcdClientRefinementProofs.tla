---------------------- MODULE VcdClientRefinementProofs ----------------------
(***************************************************************************)
(* VcdClient implements VolumeService, for any number of threads, disks,   *)
(* VMs and VDCs, as long as no answer is lost and the process does not     *)
(* crash.                                                                  *)
(***************************************************************************)
EXTENDS VcdClientRefinement, VcdClientCloudProofs

-----------------------------------------------------------------------------
(* The inductive invariant, beyond ControlInv and CloudInv *)

\* Disks are only created in the VDCs of the driver.
HomeInv == \A h \in Hrefs : disk[h].name # None => HomeVdc[disk[h].name] \in Vdcs

\* The VDCs that the loop of a method has not finished with.
Unseen(t) == loc[t].todo \cup (IF pc[t] = "Vdc" THEN {} ELSE {loc[t].cur})

\* What ListVolumes collects outside the VDCs ws.
ListWithout(ws) ==
    {[name |-> disk[h].name, size |-> disk[h].size] :
        h \in {g \in Hrefs : disk[g].name # None /\ HomeVdc[disk[g].name] \notin ws}}

\* The loops that end with success when no VDC has the disk.  DeleteDisk also
\* goes on to the next VDC when it could not read one.
Searching(t) ==
    \/ call[t].m = "DetachDisk" /\ pc[t] \in {"Vdc", "DetDisk"}
    \/ call[t].m = "DeleteDisk" /\ pc[t] \in {"Vdc", "DelDisk"} /\ "api" \notin Faults

LoopInv(t) ==
    /\ pc[t] \in {"Idle", "Lock", "Auth", "Done"} \/ call[t].m # "ListVolumes" =>
          loc[t].list = {}
    /\ pc[t] = "List" => loc[t].cur \notin loc[t].todo
    /\ pc[t] \in {"Vdc", "List"} /\ call[t].m = "ListVolumes" =>
          loc[t].list = ListWithout(Unseen(t))
    /\ Searching(t) => \A h \in Hrefs : Named(t, h) => HomeVdc[call[t].name] \in Unseen(t)

\* What a request asks for, and what it leaves when it has succeeded.
ResultInv(t) ==
    /\ pc[t] = "CreateWait" =>
          /\ task[t].size = call[t].size /\ HomeVdc[call[t].name] \in Vdcs
          /\ tst[t] = "success" => \E h \in Hrefs : Named(t, h)
    /\ pc[t] = "DeleteWait" /\ tst[t] = "success" => \A h \in Hrefs : ~Named(t, h)
    /\ pc[t] = "AttachWait" => task[t].unit \in ReservedUnits \cup {0}
    /\ pc[t] = "ResizeWait" =>
          /\ task[t].size = call[t].size
          /\ Named(t, task[t].href) /\ disk[task[t].href].vm = None
          /\ tst[t] = "success" => disk[task[t].href].size = call[t].size

ServeInv == HomeInv /\ \A t \in Threads : LoopInv(t) /\ ResultInv(t)

-----------------------------------------------------------------------------
(* Disks and volumes *)

\* The volume that a disk stands for.
VolumeOf(d) == [size |-> d.size, vm |-> d.vm, unit |-> d.unit, here |-> TRUE]

\* The volume of a name is the one disk of that name.
LEMMA NamedVolume ==
    ASSUME UniqueName, NEW n \in Names
    PROVE  /\ \A h \in Hrefs : disk[h].name = n => volumes[n] = VolumeOf(disk[h])
           /\ (\A h \in Hrefs : disk[h].name # n) => volumes[n] = Service!NoVolume
<1>1. n # None
  BY ConstantsAssumption
<1>2. ASSUME NEW h \in Hrefs, disk[h].name = n PROVE volumes[n] = VolumeOf(disk[h])
  <2>1. \A g \in Hrefs : disk[g].name = n => g = h
    BY <1>1, <1>2 DEF UniqueName
  <2>2. (CHOOSE g \in Hrefs : disk[g].name = n) = h
    BY <1>2, <2>1
  <2> QED
    BY <1>2, <2>2 DEF volumes, VolumeOf
<1>3. (\A h \in Hrefs : disk[h].name # n) => volumes[n] = Service!NoVolume
  BY DEF volumes, Service!NoVolume
<1> QED
  BY <1>2, <1>3

\* ... and after a step.
LEMMA NamedVolumeNext ==
    ASSUME UniqueName', NEW n \in Names
    PROVE  /\ \A h \in Hrefs : disk'[h].name = n => volumes'[n] = VolumeOf(disk'[h])
           /\ (\A h \in Hrefs : disk'[h].name # n) => volumes'[n] = Service!NoVolume
<1>1. n # None
  BY ConstantsAssumption
<1>2. ASSUME NEW h \in Hrefs, disk'[h].name = n PROVE volumes'[n] = VolumeOf(disk'[h])
  <2>1. \A g \in Hrefs : disk'[g].name = n => g = h
    BY <1>1, <1>2 DEF UniqueName
  <2>2. (CHOOSE g \in Hrefs : disk'[g].name = n) = h
    BY <1>2, <2>1
  <2> QED
    BY <1>2, <2>2 DEF volumes, VolumeOf
<1>3. (\A h \in Hrefs : disk'[h].name # n) => volumes'[n] = Service!NoVolume
  BY DEF volumes, Service!NoVolume
<1> QED
  BY <1>2, <1>3

\* What becomes of a volume that is attached or detached.
LEMMA MovedVolume ==
    ASSUME NEW d, NEW m, NEW u
    PROVE  [VolumeOf(d) EXCEPT !.vm = m, !.unit = u]
             = [size |-> d.size, vm |-> m, unit |-> u, here |-> TRUE]
<1> DEFINE r == [VolumeOf(d) EXCEPT !.vm = m, !.unit = u]
<1>1. r \in [size: {d.size}, vm: {m}, unit: {u}, here: {TRUE}]
  BY DEF VolumeOf
<1>2. r = [size |-> d.size, vm |-> m, unit |-> u, here |-> TRUE]
  <2> HIDE DEF r
  <2> QED
    BY <1>1
<1> QED
  BY <1>2

\* ... that is resized.
LEMMA ResizedVolume ==
    ASSUME NEW d, NEW x
    PROVE  [VolumeOf(d) EXCEPT !.size = x]
             = [size |-> x, vm |-> d.vm, unit |-> d.unit, here |-> TRUE]
<1> DEFINE r == [VolumeOf(d) EXCEPT !.size = x]
<1>1. r \in [size: {x}, vm: {d.vm}, unit: {d.unit}, here: {TRUE}]
  BY DEF VolumeOf
<1>2. r = [size |-> x, vm |-> d.vm, unit |-> d.unit, here |-> TRUE]
  <2> HIDE DEF r
  <2> QED
    BY <1>1
<1> QED
  BY <1>2

\* ... or that is created.
LEMMA CreatedVolume ==
    ASSUME NEW x
    PROVE  [Service!NoVolume EXCEPT !.here = TRUE, !.size = x]
             = [size |-> x, vm |-> None, unit |-> 0, here |-> TRUE]
<1> DEFINE r == [Service!NoVolume EXCEPT !.here = TRUE, !.size = x]
<1>1. r \in [size: {x}, vm: {None}, unit: {0}, here: {TRUE}]
  BY DEF Service!NoVolume
<1>2. r = [size |-> x, vm |-> None, unit |-> 0, here |-> TRUE]
  <2> HIDE DEF r
  <2> QED
    BY <1>1
<1> QED
  BY <1>2

\* A step that leaves the disks of other names alone changes one volume.
LEMMA OneVolumeChanges ==
    ASSUME UniqueName, UniqueName', NEW n \in Names, NEW v, volumes'[n] = v,
           \A h \in Hrefs : \/ disk'[h] = disk[h]
                            \/ disk[h].name \in {n, None} /\ disk'[h].name \in {n, None}
    PROVE  volumes' = [volumes EXCEPT ![n] = v]
<1>1. ASSUME NEW m \in Names, m # n PROVE volumes'[m] = volumes[m]
  <2>0. m # None
    BY ConstantsAssumption
  <2>1. CASE \E h \in Hrefs : disk[h].name = m
    <3>1. PICK h \in Hrefs : disk[h].name = m
      BY <2>1
    <3>2. disk'[h] = disk[h]
      BY <1>1, <2>0, <3>1
    <3> QED
      BY <3>1, <3>2, NamedVolume, NamedVolumeNext
  <2>2. CASE \A h \in Hrefs : disk[h].name # m
    <3>1. \A h \in Hrefs : disk'[h].name # m
      BY <1>1, <2>0, <2>2
    <3> QED
      BY <2>2, <3>1, NamedVolume, NamedVolumeNext
  <2> QED
    BY <2>1, <2>2
<1>2. /\ volumes = [m \in Names |-> volumes[m]]
      /\ volumes' = [m \in Names |-> volumes'[m]]
  BY DEF volumes
<1> QED
  BY <1>1, <1>2
-----------------------------------------------------------------------------
(* How the steps of a method end *)

\* The step of t is seen as what the promise allows.
Serves(t) ==
    \/ UNCHANGED <<volumes, phases, call, ret>>
    \/ Service!Succeeds(t) \/ Service!Refuses(t)

\* Every step of a method ends in one of three ways, for its own thread alone.
LEMMA OtherThreads ==
    ASSUME ControlInv, NEW t \in Threads,
           \/ \E e, n, l : Return(t, e, n, l)
           \/ \E l, r : Continue(t, l, r)
           \/ \E l, k : Send(t, l, k)
    PROVE  /\ call' = call
           /\ \A u \in Threads : u # t => pc'[u] = pc[u] /\ loc'[u] = loc[u]
BY DEF Return, Continue, Send, Goto, ControlInv, TypeOK

\* These are the three ways.
LEMMA MethodEnds ==
    ASSUME NEW t \in Threads, MethodStep(t)
    PROVE  \/ \E e, n, l : Return(t, e, n, l)
           \/ \E l, r : Continue(t, l, r)
           \/ \E l, k : Send(t, l, k)
<1>1. CASE TaskDone(t) \/ TaskFailed(t) \/ AnswerLost(t) \/ ApiError(t)
  BY <1>1 DEF TaskDone, TaskFailed, AnswerLost, WaitFails, ApiError, Fails,
     DetachReturns, DetachFails
<1>2. CASE RefreshAuth(t) \/ NextVdc(t) \/ NoMoreVdcs(t) \/ ListVdc(t)
  BY <1>2 DEF RefreshAuth, NextVdc, NoMoreVdcs, ListVdc, Fails
<1>3. CASE CreateSend(t) \/ ResizeSend(t)
  BY <1>3 DEF CreateSend, ResizeSend, Fails
<1>4. CASE DeleteFind(t) \/ DeleteSend(t)
  BY <1>4 DEF DeleteFind, DeleteSend
<1>5. CASE DetachFind(t) \/ DetachSend(t)
  BY <1>5 DEF DetachFind, DetachSend, DetachReturns, DetachFails, Fails
<1>6. CASE AttachFindVm(t) \/ AttachFindDisk(t) \/ AttachSend(t)
  BY <1>6 DEF AttachFindVm, AttachFindDisk, AttachSend, Fails
<1> QED
  BY <1>1, <1>2, <1>3, <1>4, <1>5, <1>6 DEF MethodStep

\* What the mapping makes of the steps of a thread.
LEMMA PhasesChange ==
    ASSUME ControlInv, NEW t \in Threads, NEW l,
           pc' = [pc EXCEPT ![t] = l]
    PROVE  /\ l = "Done" => phases' = [phases EXCEPT ![t] = "done"]
           /\ l = "Idle" => phases' = [phases EXCEPT ![t] = "idle"]
           /\ l \notin {"Idle", "Done"} => phases' = [phases EXCEPT ![t] = "busy"]
           /\ pc[t] \notin {"Idle", "Done"} => phases[t] = "busy"
           /\ pc[t] = "Done" => phases[t] = "done"
           /\ pc[t] = "Idle" => phases[t] = "idle"
           /\ phases = [phases EXCEPT ![t] = phases[t]]
<1>1. pc \in [Threads -> Locations]
  BY DEF ControlInv, TypeOK
<1>2. phases \in [Threads -> {"idle", "busy", "done"}]
  BY DEF phases
<1>3. phases' \in [Threads -> {"idle", "busy", "done"}]
  BY DEF phases
<1>4. \A u \in Threads \ {t} : phases'[u] = phases[u]
  BY <1>1 DEF phases
<1>5. /\ pc[t] = "Idle" => phases[t] = "idle"
      /\ pc[t] = "Done" => phases[t] = "done"
      /\ pc[t] \notin {"Idle", "Done"} => phases[t] = "busy"
  BY DEF phases
<1>6. /\ l = "Idle" => phases'[t] = "idle"
      /\ l = "Done" => phases'[t] = "done"
      /\ l \notin {"Idle", "Done"} => phases'[t] = "busy"
  BY <1>1 DEF phases
<1>7. phases' = [phases EXCEPT ![t] = phases'[t]]
  BY <1>2, <1>3, <1>4
<1>8. phases = [phases EXCEPT ![t] = phases[t]]
  BY <1>2
<1>9. CASE l = "Done"
  BY <1>5, <1>6, <1>7, <1>8, <1>9
<1>10. CASE l = "Idle"
  BY <1>5, <1>6, <1>7, <1>8, <1>10
<1>11. CASE l \notin {"Idle", "Done"}
  BY <1>5, <1>6, <1>7, <1>8, <1>11
<1> QED
  BY <1>9, <1>10, <1>11

\* A method that goes on is not seen.
LEMMA ContinueServes ==
    ASSUME ControlInv, NEW t \in Threads, pc[t] \in Inside, disk' = disk,
           NEW l \in Inside,
           (\E r : Continue(t, l, r)) \/ (\E k : Send(t, l, k))
    PROVE  Serves(t)
<1>1. /\ pc' = [pc EXCEPT ![t] = l] /\ UNCHANGED <<call, ret>>
      /\ pc[t] \notin {"Idle", "Done"} /\ l \notin {"Idle", "Done"}
  BY DEF Continue, Send, Goto, Inside, WaitLocations
<1>2. phases' = phases
  <2>1. /\ phases' = [phases EXCEPT ![t] = "busy"] /\ phases[t] = "busy"
        /\ phases = [phases EXCEPT ![t] = phases[t]]
    BY <1>1, PhasesChange
  <2> QED
    BY <2>1
<1>3. volumes' = volumes
  BY DEF volumes
<1> QED
  BY <1>1, <1>2, <1>3 DEF Serves

\* A method that returns an error promises nothing.
LEMMA FailsServes ==
    ASSUME ControlInv, NEW t \in Threads, pc[t] \in Inside, disk' = disk,
           NEW e \in Errors \ {"nil"}, Fails(t, e),
           e = "ErrDiskAttachedToVm" =>
               call[t].m = "ResizeDisk" /\ volumes[call[t].name].vm # None
    PROVE  Serves(t) /\ LoopInv(t)' /\ ResultInv(t)'
<1>1. /\ pc' = [pc EXCEPT ![t] = "Done"] /\ call' = call
      /\ ret' = [ret EXCEPT ![t] = [err |-> e, unit |-> 0, list |-> {}]]
      /\ pc[t] \notin {"Idle", "Done"}
      /\ pc'[t] = "Done" /\ loc'[t] = NoLocals
  BY DEF Fails, Return, Goto, Inside, WaitLocations, ControlInv, TypeOK
<1>2. phases[t] = "busy" /\ phases' = [phases EXCEPT ![t] = "done"]
  BY <1>1, PhasesChange
<1>3. volumes' = volumes
  BY DEF volumes
<1>4. [Service!NoRes EXCEPT !.err = e] = [err |-> e, unit |-> 0, list |-> {}]
  BY DEF Service!NoRes
<1>5. Service!Refuses(t)
  BY <1>1, <1>2, <1>3, <1>4 DEF Service!Refuses, Service!Finish, Service!leftVars
<1> QED
  BY <1>1, <1>5 DEF Serves, LoopInv, ResultInv, Searching, NoLocals

\* The result of a method that succeeds.
LEMMA ResultRecord ==
    ASSUME NEW n, NEW l
    PROVE  [Service!NoRes EXCEPT !.unit = n, !.list = l]
             = [err |-> "nil", unit |-> n, list |-> l]
<1> DEFINE r == [Service!NoRes EXCEPT !.unit = n, !.list = l]
<1>1. r.err = "nil" /\ r.unit = n /\ r.list = l
  BY DEF Service!NoRes
<1>2. r \in [err: {"nil"}, unit: {n}, list: {l}]
  BY DEF Service!NoRes
<1>3. r = [err |-> "nil", unit |-> n, list |-> l]
  <2> HIDE DEF r
  <2> QED
    BY <1>2
<1> QED
  BY <1>3

\* A method that returns without an error has done what it was asked.
LEMMA ReturnServes ==
    ASSUME ControlInv, NEW t \in Threads, pc[t] \in Inside, disk' = disk,
           NEW n, NEW l, Return(t, "nil", n, l), Service!Achieved(t),
           n = IF call[t].m = "AttachDisk" THEN volumes[call[t].name].unit ELSE 0,
           l = IF call[t].m = "ListVolumes" THEN Service!Listing ELSE {}
    PROVE  Serves(t) /\ LoopInv(t)' /\ ResultInv(t)'
<1>1. /\ pc' = [pc EXCEPT ![t] = "Done"] /\ call' = call
      /\ ret' = [ret EXCEPT ![t] = [err |-> "nil", unit |-> n, list |-> l]]
      /\ pc[t] \notin {"Idle", "Done"}
      /\ pc'[t] = "Done" /\ loc'[t] = NoLocals
  BY DEF Return, Goto, Inside, WaitLocations, ControlInv, TypeOK
<1>2. phases[t] = "busy" /\ phases' = [phases EXCEPT ![t] = "done"]
  BY <1>1, PhasesChange
<1>3. volumes' = volumes
  BY DEF volumes
<1>4. Service!Answer(t) = [err |-> "nil", unit |-> n, list |-> l]
  <2> DEFINE a == IF call[t].m = "AttachDisk" THEN volumes[call[t].name].unit ELSE 0
             b == IF call[t].m = "ListVolumes" THEN Service!Listing ELSE {}
  <2>1. Service!Answer(t) = [Service!NoRes EXCEPT !.unit = a, !.list = b]
    BY DEF Service!Answer
  <2>2. n = a /\ l = b
    OBVIOUS
  <2> HIDE DEF a, b
  <2>3. [Service!NoRes EXCEPT !.unit = a, !.list = b]
          = [err |-> "nil", unit |-> a, list |-> b]
    BY ResultRecord
  <2> QED
    BY <2>1, <2>2, <2>3
<1>5. Service!Succeeds(t)
  BY <1>1, <1>2, <1>3, <1>4 DEF Service!Succeeds, Service!Finish, Service!leftVars
<1> QED
  BY <1>1, <1>5 DEF Serves, LoopInv, ResultInv, Searching, NoLocals
-----------------------------------------------------------------------------
(* The steps of a method *)

\* A step of t keeps its part of the invariant and the promise.
Keeps(t) == Serves(t) /\ LoopInv(t)' /\ ResultInv(t)'

\* A method other than ListVolumes goes on, and has not overlooked a disk.
LEMMA GoesOn ==
    ASSUME ControlInv, NEW t \in Threads, pc[t] \in Inside, disk' = disk,
           NEW l \in Inside \ WaitLocations, NEW r, Continue(t, l, r),
           call[t].m # "ListVolumes", r.list = {}, l # "List",
           \/ l \notin {"Vdc", "DelDisk", "DetDisk"}
           \/ l = "DetDisk" /\ call[t].m # "DetachDisk"
           \/ call[t].m = "AttachDisk"
           \/ \A h \in Hrefs : Named(t, h) =>
                 HomeVdc[call[t].name] \in r.todo \cup (IF l = "Vdc" THEN {} ELSE {r.cur})
           \/ call[t].m = "DeleteDisk" /\ "api" \in Faults
    PROVE  Keeps(t)
<1>1. pc'[t] = l /\ loc'[t] = r /\ call' = call
  BY ContinueEffect
<1>2. LoopInv(t)'
  BY <1>1 DEF LoopInv, Searching, Named, Unseen
<1>3. ResultInv(t)'
  BY <1>1 DEF ResultInv, WaitLocations
<1>4. Serves(t)
  BY ContinueServes
<1> QED
  BY <1>2, <1>3, <1>4 DEF Keeps

\* A method has sent a request.
LEMMA Waits ==
    ASSUME ControlInv, ServeInv, NEW t \in Threads, pc[t] \in Inside, disk' = disk,
           NEW l \in WaitLocations, NEW k, Send(t, l, k), call[t].m # "ListVolumes",
           ResultInv(t)'
    PROVE  Keeps(t)
<1>1. pc'[t] = l /\ loc' = loc /\ call' = call
  BY SendEffect
<1>2. loc[t].list = {}
  BY DEF ServeInv, LoopInv
<1>3. LoopInv(t)'
  BY <1>1, <1>2 DEF LoopInv, Searching, WaitLocations
<1>4. Serves(t)
  BY ContinueServes DEF Inside
<1> QED
  BY <1>3, <1>4 DEF Keeps

\* A method returns an error.
LEMMA FailsKeeps ==
    ASSUME ControlInv, NEW t \in Threads, pc[t] \in Inside, disk' = disk,
           NEW e \in {"other", "ErrVmNotFound", "ErrDiskNotExists", "ErrWrongDiskAttach"},
           Fails(t, e)
    PROVE  Keeps(t)
<1>1. e \in Errors \ {"nil"} /\ e # "ErrDiskAttachedToVm"
  BY DEF Errors
<1> QED
  BY <1>1, FailsServes DEF Keeps

\* What is known of a thread inside a method.
LEMMA InsideFacts ==
    ASSUME ControlInv, CloudInv, ServeInv, NEW t \in Threads, pc[t] \in Inside
    PROVE  /\ call[t] \in Calls /\ MethodAt(call[t].m, pc[t]) /\ loc[t] \in Locals
           /\ UniqueName /\ HomeInv /\ LoopInv(t) /\ ResultInv(t)
           /\ SettingsInv(t) /\ FoundInv(t) /\ RequestInv(t)
           /\ call[t].m # "ListVolumes" =>
                 /\ call[t].name \in Names /\ call[t].name # None
                 /\ loc[t].list = {}
<1>1. call[t] \in Calls /\ MethodAt(call[t].m, pc[t]) /\ loc[t] \in Locals
  BY DEF ControlInv, CallInv, TypeOK, Inside, WaitLocations
<1>2. /\ UniqueName /\ HomeInv /\ LoopInv(t) /\ ResultInv(t)
      /\ SettingsInv(t) /\ FoundInv(t) /\ RequestInv(t)
  BY DEF CloudInv, ServeInv
<1>3. call[t].m # "ListVolumes" =>
         call[t].name \in Names /\ call[t].name # None /\ loc[t].list = {}
  BY <1>1, <1>2, CallNames, ConstantsAssumption DEF LoopInv
<1> QED
  BY <1>1, <1>2, <1>3

\* detachDisk hands a detached disk to its caller.
LEMMA DetachReturnsServes ==
    ASSUME ControlInv, CloudInv, ServeInv, NEW t \in Threads, pc[t] \in DetachLocations,
           NEW h \in Hrefs, Named(t, h), disk[h].vm = None, disk' = disk,
           DetachReturns(t)
    PROVE  Keeps(t)
<1>0. pc[t] \in Inside
  BY DEF DetachLocations, Inside, WaitLocations
<1>1. CASE call[t].m = "DetachDisk" /\ Return(t, "nil", 0, {})
  <2>1. volumes[call[t].name] = VolumeOf(disk[h])
    BY <1>0, <1>1, InsideFacts, NamedVolume DEF Named
  <2>2. Service!Achieved(t)
    BY <1>1, <2>1 DEF Service!Achieved, VolumeOf
  <2> QED
    BY <1>0, <1>1, <2>2, ReturnServes DEF Keeps
<1>2. CASE call[t].m = "DeleteDisk" /\ Continue(t, "DelSend", loc[t])
  BY <1>0, <1>2, InsideFacts, GoesOn DEF Inside, WaitLocations
<1>3. CASE call[t].m = "AttachDisk" /\ Continue(t, "AttSend", loc[t])
  BY <1>0, <1>3, InsideFacts, GoesOn DEF Inside, WaitLocations
<1> QED
  BY <1>1, <1>2, <1>3 DEF DetachReturns

\* detachDisk fails; only DetachDisk goes on then, if the VDC has no such disk.
LEMMA DetachFailsServes ==
    ASSUME ControlInv, CloudInv, ServeInv, NEW t \in Threads, pc[t] \in DetachLocations,
           NEW b, disk' = disk, DetachFails(t, b),
           b => pc[t] = "DetDisk" /\ DisksNamed(loc[t].cur, call[t].name) = {}
    PROVE  Keeps(t)
<1>0. pc[t] \in Inside
  BY DEF DetachLocations, Inside, WaitLocations
<1>1. CASE call[t].m = "DetachDisk" /\ b /\ Continue(t, "Vdc", loc[t])
  <2>1. \A h \in Hrefs : Named(t, h) => HomeVdc[call[t].name] \in loc[t].todo \cup {loc[t].cur}
    BY <1>0, <1>1, InsideFacts DEF LoopInv, Searching, Unseen
  <2>2. \A h \in Hrefs : Named(t, h) => HomeVdc[call[t].name] # loc[t].cur
    BY <1>1 DEF DisksNamed, Named
  <2>3. \A h \in Hrefs : Named(t, h) => HomeVdc[call[t].name] \in loc[t].todo
    BY <2>1, <2>2
  <2> QED
    BY <1>0, <1>1, <2>3, InsideFacts, GoesOn DEF Inside, WaitLocations
<1>2. CASE Fails(t, "other") \/ Fails(t, "ErrWrongDiskAttach")
  BY <1>0, <1>2, FailsKeeps
<1> QED
  BY <1>1, <1>2 DEF DetachFails

\* What ListVolumes has collected when it has been to all VDCs.
LEMMA ListingIsList ==
    ASSUME UniqueName, ControlInv
    PROVE  ListWithout({}) = Service!Listing
<1>1. ASSUME NEW n \in Names, NEW h \in Hrefs, disk[h].name = n
      PROVE  volumes[n].here /\ volumes[n].size = disk[h].size
  <2>1. volumes[n] = VolumeOf(disk[h])
    BY <1>1, NamedVolume
  <2> QED
    BY <2>1 DEF VolumeOf
<1>2. ASSUME NEW n \in Names, volumes[n].here
      PROVE  \E h \in Hrefs : disk[h].name = n
  BY <1>2, NamedVolume DEF Service!NoVolume
<1>3. \A h \in Hrefs : disk[h].name \in Names \cup {None}
  BY DEF ControlInv, TypeOK, Disk
<1>4. ASSUME NEW e \in ListWithout({}) PROVE e \in Service!Listing
  <2>1. PICK h \in Hrefs : /\ disk[h].name # None
                           /\ e = [name |-> disk[h].name, size |-> disk[h].size]
    BY DEF ListWithout
  <2> QED
    BY <1>1, <1>3, <2>1 DEF Service!Listing
<1>5. ASSUME NEW e \in Service!Listing PROVE e \in ListWithout({})
  <2>1. PICK n \in Names : volumes[n].here /\ e = [name |-> n, size |-> volumes[n].size]
    BY DEF Service!Listing
  <2>2. PICK h \in Hrefs : disk[h].name = n
    BY <1>2, <2>1
  <2>3. disk[h].name # None /\ e = [name |-> disk[h].name, size |-> disk[h].size]
    BY <1>1, <2>1, <2>2, ConstantsAssumption
  <2> QED
    BY <2>3 DEF ListWithout
<1> QED
  BY <1>4, <1>5

\* The steps of the loop over the VDCs.
LEMMA LoopServes ==
    ASSUME ControlInv, CloudInv, ServeInv, NEW t \in Threads, disk' = disk,
           RefreshAuth(t) \/ NextVdc(t) \/ NoMoreVdcs(t) \/ ListVdc(t)
    PROVE  Keeps(t)
<1> DEFINE n == call[t].name
<1>0. pc[t] \in {"Auth", "Vdc", "List"} /\ pc[t] \in Inside
  BY DEF RefreshAuth, NextVdc, NoMoreVdcs, ListVdc, Inside
<1>1. CASE RefreshAuth(t)
  <2> DEFINE start == Body[call[t].m]
             r == [loc[t] EXCEPT !.todo = IF start = "Vdc" THEN Vdcs ELSE {}]
  <2>1. /\ pc[t] = "Auth" /\ Continue(t, start, r) /\ call[t].m \in Methods
        /\ loc[t].list = {} /\ loc[t] \in Locals
    BY <1>0, <1>1, InsideFacts DEF RefreshAuth, MethodAt, LoopInv
  <2>2. start \in {"Create", "Resize", "Vdc"} /\ start \in Inside \ WaitLocations
    BY <2>1 DEF Body, Methods, Inside, WaitLocations
  <2>3. r.list = {} /\ (start = "Vdc" => r.todo = Vdcs)
    BY <2>1 DEF Locals
  <2>4. CASE call[t].m # "ListVolumes"
    <3>1. \A h \in Hrefs : Named(t, h) => HomeVdc[n] \in Vdcs
      BY <1>0, <2>4, InsideFacts DEF HomeInv, Named
    <3> HIDE DEF start, r
    <3> QED
      BY <1>0, <2>1, <2>2, <2>3, <2>4, <3>1, GoesOn
  <2>5. CASE call[t].m = "ListVolumes"
    <3>1. start = "Vdc"
      BY <2>5 DEF Body
    <3>2. pc'[t] = "Vdc" /\ loc'[t] = r /\ call' = call
      BY <2>1, <3>1, ContinueEffect
    <3>3. ListWithout(Unseen(t))' = {}
      BY <1>0, <2>3, <3>1, <3>2, InsideFacts DEF ListWithout, Unseen, HomeInv
    <3>4. LoopInv(t)'
      BY <2>3, <2>5, <3>2, <3>3 DEF LoopInv, Searching
    <3>5. ResultInv(t)'
      BY <3>2 DEF ResultInv
    <3>6. Serves(t)
      BY <1>0, <2>1, <2>2, ContinueServes
    <3> QED
      BY <3>4, <3>5, <3>6 DEF Keeps
  <2> QED
    BY <2>4, <2>5
<1>2. CASE NextVdc(t)
  <2> DEFINE l == LoopBody[call[t].m]
  <2>1. PICK w \in loc[t].todo : Continue(t, l, [loc[t] EXCEPT !.todo = @ \ {w}, !.cur = w])
    BY <1>2 DEF NextVdc
  <2> DEFINE r == [loc[t] EXCEPT !.todo = @ \ {w}, !.cur = w]
  <2>2. /\ pc[t] = "Vdc" /\ loc[t] \in Locals
        /\ call[t].m \in {"AttachDisk", "DetachDisk", "DeleteDisk", "ListVolumes"}
    BY <1>0, <1>2, InsideFacts DEF NextVdc, MethodAt, WaitLocations
  <2>3. /\ l \in {"AttVm", "DetDisk", "DelDisk", "List"} /\ l \in Inside \ WaitLocations
        /\ l = "List" <=> call[t].m = "ListVolumes"
    BY <2>2 DEF LoopBody, Inside, WaitLocations
  <2>4. r.list = loc[t].list /\ r.todo = loc[t].todo \ {w} /\ r.cur = w
    BY <2>2 DEF Locals
  <2>5. r.todo \cup {r.cur} = loc[t].todo
    BY <2>4
  <2>6. Continue(t, l, r)
    BY <2>1
  <2>7. CASE call[t].m # "ListVolumes"
    <3>1. \/ call[t].m = "AttachDisk"
          \/ \A h \in Hrefs : Named(t, h) => HomeVdc[n] \in loc[t].todo
          \/ call[t].m = "DeleteDisk" /\ "api" \in Faults
      BY <1>0, <2>2, <2>7, InsideFacts DEF LoopInv, Searching, Unseen
    <3>2. loc[t].list = {}
      BY <1>0, <2>7, InsideFacts
    <3> HIDE DEF l, r
    <3> QED
      BY <1>0, <2>3, <2>4, <2>5, <2>6, <2>7, <3>1, <3>2, GoesOn
  <2>8. CASE call[t].m = "ListVolumes"
    <3>1. pc'[t] = "List" /\ loc'[t] = r /\ call' = call
      BY <2>3, <2>6, <2>8, ContinueEffect
    <3>2. loc[t].list = ListWithout(Unseen(t)) /\ Unseen(t) = loc[t].todo
      BY <1>0, <2>2, <2>8, InsideFacts DEF LoopInv, Unseen
    <3> HIDE DEF r
    <3>3. Unseen(t)' = loc[t].todo
      BY <2>5, <3>1 DEF Unseen
    <3>4. ListWithout(Unseen(t))' = ListWithout(Unseen(t))
      BY <3>2, <3>3 DEF ListWithout
    <3>5. LoopInv(t)'
      BY <2>4, <2>8, <3>1, <3>2, <3>4 DEF LoopInv, Searching
    <3>6. ResultInv(t)'
      BY <3>1 DEF ResultInv
    <3>7. Serves(t)
      BY <1>0, <2>3, <2>6, ContinueServes
    <3> QED
      BY <3>5, <3>6, <3>7 DEF Keeps
  <2> QED
    BY <2>7, <2>8
<1>3. CASE NoMoreVdcs(t)
  <2>1. /\ pc[t] = "Vdc" /\ loc[t].todo = {} /\ Unseen(t) = {}
        /\ call[t].m \in {"AttachDisk", "DetachDisk", "DeleteDisk", "ListVolumes"}
    BY <1>0, <1>3, InsideFacts DEF NoMoreVdcs, MethodAt, WaitLocations, Unseen
  <2>2. CASE call[t].m = "AttachDisk"
    BY <1>0, <1>3, <2>2, FailsKeeps DEF NoMoreVdcs
  <2>3. CASE call[t].m \in {"DetachDisk", "DeleteDisk"}
    <3>1. Return(t, "nil", 0, {}) /\ n \in Names /\ UniqueName
      BY <1>0, <1>3, <2>3, InsideFacts DEF NoMoreVdcs
    <3>2. \/ call[t].m = "DeleteDisk" /\ "api" \in Faults
          \/ \A h \in Hrefs : disk[h].name # n
      BY <1>0, <2>1, <2>3, InsideFacts DEF LoopInv, Searching, Named
    <3>3. (\A h \in Hrefs : disk[h].name # n) => volumes[n] = Service!NoVolume
      BY <3>1, NamedVolume
    <3>4. Service!Achieved(t)
      BY <2>3, <3>2, <3>3 DEF Service!Achieved, Service!NoVolume
    <3> QED
      BY <1>0, <2>3, <3>1, <3>4, ReturnServes DEF Keeps
  <2>4. CASE call[t].m = "ListVolumes"
    <3>1. Return(t, "nil", 0, loc[t].list) /\ loc[t].list = ListWithout({})
      BY <1>0, <1>3, <2>1, <2>4, InsideFacts DEF NoMoreVdcs, LoopInv
    <3>2. ListWithout({}) = Service!Listing
      BY <1>0, InsideFacts, ListingIsList
    <3>3. Service!Achieved(t)
      BY <2>4 DEF Service!Achieved
    <3> QED
      BY <1>0, <2>4, <3>1, <3>2, <3>3, ReturnServes DEF Keeps
  <2> QED
    BY <2>1, <2>2, <2>3, <2>4
<1>4. CASE ListVdc(t)
  <2> DEFINE found == {[name |-> disk[h].name, size |-> disk[h].size] :
                          h \in {g \in Hrefs : /\ disk[g].name # None
                                               /\ HomeVdc[disk[g].name] = loc[t].cur}}
             r == [loc[t] EXCEPT !.list = @ \cup found]
  <2>1. /\ pc[t] = "List" /\ Continue(t, "Vdc", r) /\ loc[t] \in Locals
        /\ call[t].m = "ListVolumes"
    BY <1>0, <1>4, InsideFacts DEF ListVdc, MethodAt, WaitLocations
  <2>2. r.list = loc[t].list \cup found /\ r.todo = loc[t].todo
    BY <2>1 DEF Locals
  <2>3. /\ loc[t].list = ListWithout(loc[t].todo \cup {loc[t].cur})
        /\ loc[t].cur \notin loc[t].todo
    BY <1>0, <2>1, InsideFacts DEF LoopInv, Unseen
  <2>4. loc[t].list \cup found = ListWithout(loc[t].todo)
    BY <2>3 DEF ListWithout
  <2> HIDE DEF r
  <2>5. pc'[t] = "Vdc" /\ loc'[t] = r /\ call' = call
    BY <2>1, ContinueEffect
  <2>6. Unseen(t)' = loc[t].todo
    BY <2>2, <2>5 DEF Unseen
  <2>7. ListWithout(Unseen(t))' = ListWithout(loc[t].todo)
    BY <2>6 DEF ListWithout
  <2>8. LoopInv(t)'
    BY <2>1, <2>2, <2>4, <2>5, <2>7 DEF LoopInv, Searching
  <2>9. ResultInv(t)'
    BY <2>5 DEF ResultInv
  <2>10. Serves(t)
    BY <1>0, <2>1, ContinueServes DEF Inside
  <2> QED
    BY <2>8, <2>9, <2>10 DEF Keeps
<1> QED
  BY <1>1, <1>2, <1>3, <1>4

\* The step of CreateDisk.
LEMMA CreateServes ==
    ASSUME ControlInv, CloudInv, ServeInv, NEW t \in Threads, disk' = disk, CreateSend(t)
    PROVE  Keeps(t)
<1> DEFINE n == call[t].name
           k == [NoRequest EXCEPT !.kind = "create", !.name = n, !.size = call[t].size]
<1>0. /\ pc[t] = "Create" /\ pc[t] \in Inside /\ call[t].m = "CreateDisk"
      /\ n \in Names /\ UniqueName
  <2>1. pc[t] = "Create" /\ pc[t] \in Inside
    BY DEF CreateSend, Inside
  <2> QED
    BY <2>1, InsideFacts DEF MethodAt, WaitLocations
<1>1. CASE Fails(t, "other")
  BY <1>0, <1>1, FailsKeeps
<1>2. CASE DiskExists(n) /\ Return(t, "nil", 0, {})
  <2>1. PICK h \in Hrefs : disk[h].name = n
    BY <1>2 DEF DiskExists, DisksNamed
  <2>2. volumes[n] = VolumeOf(disk[h])
    BY <1>0, <2>1, NamedVolume
  <2>3. Service!Achieved(t)
    BY <1>0, <2>2 DEF Service!Achieved, VolumeOf
  <2> QED
    BY <1>0, <1>2, <2>3, ReturnServes DEF Keeps
<1>3. CASE HomeVdc[n] \in Vdcs /\ Send(t, "CreateWait", k)
  <2>1. pc'[t] = "CreateWait" /\ task'[t] = k /\ call' = call /\ tst'[t] = "pending"
    BY <1>3, SendEffect
  <2>2. k.size = call[t].size
    BY DEF NoRequest
  <2>3. ResultInv(t)'
    BY <1>3, <2>1, <2>2 DEF ResultInv
  <2> QED
    BY <1>0, <1>3, <2>3, Waits DEF WaitLocations
<1> QED
  BY <1>1, <1>2, <1>3 DEF CreateSend

\* The steps of DeleteDisk.
LEMMA DeleteServes ==
    ASSUME ControlInv, CloudInv, ServeInv, NEW t \in Threads, disk' = disk,
           DeleteFind(t) \/ DeleteSend(t)
    PROVE  Keeps(t)
<1> DEFINE found == DisksNamed(loc[t].cur, call[t].name)
<1>0. /\ pc[t] \in {"DelDisk", "DelSend"} /\ pc[t] \in Inside /\ call[t].m = "DeleteDisk"
      /\ loc[t].list = {} /\ loc[t] \in Locals /\ call[t].name # None
  <2>1. pc[t] \in {"DelDisk", "DelSend"} /\ pc[t] \in Inside
    BY DEF DeleteFind, DeleteSend, Inside
  <2> QED
    BY <2>1, InsideFacts DEF MethodAt, WaitLocations
<1>1. CASE DeleteFind(t)
  <2>1. CASE (\A h \in Hrefs : found # {h}) /\ Continue(t, "Vdc", loc[t])
    <3>1. \A h \in Hrefs : Named(t, h) => HomeVdc[call[t].name] # loc[t].cur
      <4>1. SUFFICES ASSUME NEW h \in Hrefs, Named(t, h),
                            HomeVdc[call[t].name] = loc[t].cur
                     PROVE  found = {h}
        BY <2>1
      <4>2. \A g \in Hrefs : disk[g].name = call[t].name => g = h
        BY <1>0, <4>1 DEF Named, CloudInv, UniqueName
      <4> QED
        BY <4>1, <4>2 DEF DisksNamed, Named
    <3>2. \/ "api" \in Faults
          \/ \A h \in Hrefs : Named(t, h) => HomeVdc[call[t].name] \in loc[t].todo \cup {loc[t].cur}
      BY <1>0, <1>1, InsideFacts DEF DeleteFind, LoopInv, Searching, Unseen
    <3> QED
      BY <1>0, <2>1, <3>1, <3>2, GoesOn DEF Inside, WaitLocations
  <2>2. ASSUME NEW h \in Hrefs,
               Continue(t, IF disk[h].vm # None THEN "DetDisk" ELSE "DelSend",
                        [loc[t] EXCEPT !.disk = h])
        PROVE  Keeps(t)
    <3> DEFINE r == [loc[t] EXCEPT !.disk = h]
               l == IF disk[h].vm # None THEN "DetDisk" ELSE "DelSend"
    <3>1. r.list = {} /\ l \in {"DetDisk", "DelSend"} /\ Continue(t, l, r)
      BY <1>0, <2>2 DEF Locals
    <3> HIDE DEF r, l
    <3> QED
      BY <1>0, <3>1, GoesOn DEF Inside, WaitLocations
  <2> QED
    BY <1>1, <2>1, <2>2 DEF DeleteFind
<1>2. CASE DeleteSend(t)
  <2> DEFINE k == [NoRequest EXCEPT !.kind = "delete", !.href = loc[t].disk]
  <2>1. Send(t, "DeleteWait", k) /\ pc'[t] = "DeleteWait" /\ tst'[t] = "pending"
    BY <1>2, SendEffect DEF DeleteSend
  <2>2. ResultInv(t)'
    BY <2>1 DEF ResultInv
  <2> QED
    BY <1>0, <2>1, <2>2, Waits DEF WaitLocations
<1> QED
  BY <1>1, <1>2

\* The steps of detachDisk.
LEMMA DetachServes ==
    ASSUME ControlInv, CloudInv, ServeInv, NEW t \in Threads, disk' = disk,
           DetachFind(t) \/ DetachSend(t)
    PROVE  Keeps(t)
<1> DEFINE found == DisksNamed(loc[t].cur, call[t].name)
<1>0. /\ pc[t] \in DetachLocations /\ pc[t] \in Inside /\ loc[t].list = {}
      /\ call[t].m # "ListVolumes" /\ loc[t] \in Locals /\ call[t].name # None
  <2>1. pc[t] \in {"DetDisk", "DetVm"} /\ pc[t] \in Inside
    BY DEF DetachFind, DetachSend, Inside
  <2> QED
    BY <2>1, InsideFacts DEF MethodAt, WaitLocations, DetachLocations
<1>1. CASE DetachFind(t)
  <2>1. CASE DetachFails(t, found = {})
    BY <1>0, <1>1, <2>1, DetachFailsServes DEF DetachFind
  <2>2. ASSUME NEW h \in Hrefs, found = {h}, disk[h].vm = None, DetachReturns(t)
        PROVE  Keeps(t)
    <3>1. Named(t, h)
      BY <2>2 DEF DisksNamed, Named
    <3> QED
      BY <1>0, <2>2, <3>1, DetachReturnsServes
  <2>3. ASSUME NEW h \in Hrefs,
               Continue(t, "DetVm", [loc[t] EXCEPT !.ddisk = h, !.avm = disk[h].vm])
        PROVE  Keeps(t)
    <3> DEFINE r == [loc[t] EXCEPT !.ddisk = h, !.avm = disk[h].vm]
    <3>1. r.list = {}
      BY <1>0 DEF Locals
    <3> HIDE DEF r
    <3>2. Continue(t, "DetVm", r)
      BY <2>3 DEF r
    <3> QED
      BY <1>0, <3>1, <3>2, GoesOn DEF Inside, WaitLocations
  <2> QED
    BY <1>1, <2>1, <2>2, <2>3 DEF DetachFind
<1>2. CASE DetachSend(t)
  <2> DEFINE h == loc[t].ddisk
             m == loc[t].avm
             here == {p \in DiskSettings(m) : p[1] = h}
  <2>0. pc[t] = "DetVm" /\ Named(t, h) /\ disk[h].vm = m
    BY <1>0, <1>2, InsideFacts DEF DetachSend, FoundInv
  <2>1. CASE DetachFails(t, FALSE)
    BY <1>0, <2>1, DetachFailsServes
  <2>2. here # {}
    <3>1. <<h, disk[h].unit>> \in DiskSettings(m)
      BY <1>0, <2>0 DEF DiskSettings, DisksAt, Named
    <3> QED
      BY <3>1
  <2>3. ASSUME NEW k, Send(t, "DetachWait", k) PROVE Keeps(t)
    <3>1. pc'[t] = "DetachWait"
      BY <2>3, SendEffect
    <3>2. ResultInv(t)'
      BY <3>1 DEF ResultInv
    <3> QED
      BY <1>0, <2>3, <3>2, Waits DEF WaitLocations
  <2> QED
    BY <1>2, <2>1, <2>2, <2>3 DEF DetachSend
<1> QED
  BY <1>1, <1>2

\* A disk that AttachDisk reports is at the VM, at the unit it reports.
LEMMA AttachedServes ==
    ASSUME ControlInv, CloudInv, NEW t \in Threads, pc[t] \in Inside, disk' = disk,
           call[t].m = "AttachDisk", call[t].name \in Names,
           NEW h \in Hrefs, Named(t, h), disk[h].vm = call[t].vm,
           NEW u, disk[h].unit = u, Return(t, "nil", u, {})
    PROVE  Keeps(t)
<1>1. volumes[call[t].name] = VolumeOf(disk[h])
  BY NamedVolume DEF CloudInv, Named
<1>2. Service!Achieved(t)
  BY <1>1 DEF Service!Achieved, VolumeOf
<1>3. volumes[call[t].name].unit = u
  BY <1>1 DEF VolumeOf
<1> QED
  BY <1>2, <1>3, ReturnServes DEF Keeps

\* The steps of AttachDisk.
LEMMA AttachServes ==
    ASSUME ControlInv, CloudInv, ServeInv, NEW t \in Threads, disk' = disk,
           AttachFindVm(t) \/ AttachFindDisk(t) \/ AttachSend(t)
    PROVE  Keeps(t)
<1>0. /\ pc[t] \in {"AttVm", "AttDisk", "AttSend"} /\ pc[t] \in Inside
      /\ call[t].m = "AttachDisk" /\ call[t].name \in Names
      /\ loc[t].list = {} /\ loc[t] \in Locals
  <2>1. pc[t] \in {"AttVm", "AttDisk", "AttSend"} /\ pc[t] \in Inside
    BY DEF AttachFindVm, AttachFindDisk, AttachSend, Inside
  <2> QED
    BY <2>1, InsideFacts DEF MethodAt, WaitLocations
<1>1. ASSUME NEW l \in {"Vdc", "AttDisk", "DetDisk", "AttSend"}, NEW r,
             r.list = {}, Continue(t, l, r)
      PROVE  Keeps(t)
  BY <1>0, <1>1, GoesOn DEF Inside, WaitLocations
<1>2. CASE AttachFindVm(t)
  <2> DEFINE r == [loc[t] EXCEPT !.spec = DiskSettings(call[t].vm)]
  <2>1. r.list = {}
    BY <1>0 DEF Locals
  <2>2. Continue(t, "Vdc", loc[t]) \/ Continue(t, "AttDisk", r)
    BY <1>2 DEF AttachFindVm
  <2> HIDE DEF r
  <2> QED
    BY <1>0, <1>1, <2>1, <2>2
<1>3. CASE AttachFindDisk(t)
  <2> DEFINE found == DisksNamed(loc[t].cur, call[t].name)
  <2>1. CASE Fails(t, "ErrDiskNotExists") \/ Fails(t, "other")
    BY <1>0, <2>1, FailsKeeps
  <2>2. ASSUME NEW h \in Hrefs, found = {h}, disk[h].vm = call[t].vm,
               NEW u \in UnitsSeen(t, h), Return(t, "nil", u, {})
        PROVE  Keeps(t)
    <3>1. Named(t, h)
      BY <2>2 DEF DisksNamed, Named
    <3>2. loc[t].spec = DiskSettings(call[t].vm)
      BY <1>3 DEF AttachFindDisk, CloudInv, SettingsInv
    <3>3. disk[h].unit = u
      BY <2>2, <3>2 DEF UnitsSeen, DiskSettings
    <3> QED
      BY <1>0, <2>2, <3>1, <3>3, AttachedServes
  <2>3. ASSUME NEW h \in Hrefs,
               Continue(t, IF disk[h].vm # None THEN "DetDisk" ELSE "AttSend",
                        [loc[t] EXCEPT !.disk = h])
        PROVE  Keeps(t)
    <3> DEFINE r == [loc[t] EXCEPT !.disk = h]
               l == IF disk[h].vm # None THEN "DetDisk" ELSE "AttSend"
    <3>1. r.list = {} /\ l \in {"DetDisk", "AttSend"} /\ Continue(t, l, r)
      BY <1>0, <2>3 DEF Locals
    <3> HIDE DEF r, l
    <3> QED
      BY <1>1, <3>1
  <2> QED
    BY <1>3, <2>1, <2>2, <2>3 DEF AttachFindDisk
<1>4. CASE AttachSend(t)
  <2>1. PICK u \in UnitChoices(loc[t].spec, call[t].vm) :
           Send(t, "AttachWait", [NoRequest EXCEPT !.kind = "attach", !.href = loc[t].disk,
                                                   !.vm = call[t].vm, !.unit = u])
    BY <1>4 DEF AttachSend
  <2> DEFINE k == [NoRequest EXCEPT !.kind = "attach", !.href = loc[t].disk,
                                    !.vm = call[t].vm, !.unit = u]
  <2>2. u \in ReservedUnits \cup {0}
    BY DEF UnitChoices, FreeUnits
  <2>3. k.unit = u
    BY DEF NoRequest
  <2>4. pc'[t] = "AttachWait" /\ task'[t] = k
    BY <2>1, SendEffect
  <2>5. ResultInv(t)'
    BY <2>2, <2>3, <2>4 DEF ResultInv
  <2> QED
    BY <1>0, <2>1, <2>5, Waits DEF WaitLocations
<1> QED
  BY <1>2, <1>3, <1>4

\* The step of ResizeDisk.
LEMMA ResizeServes ==
    ASSUME ControlInv, CloudInv, ServeInv, NEW t \in Threads, disk' = disk, ResizeSend(t)
    PROVE  Keeps(t)
<1> DEFINE n == call[t].name
<1>0. /\ pc[t] \in Inside /\ call[t].m = "ResizeDisk" /\ n \in Names /\ UniqueName
  <2>1. pc[t] = "Resize" /\ pc[t] \in Inside
    BY DEF ResizeSend, Inside
  <2> QED
    BY <2>1, InsideFacts DEF MethodAt, WaitLocations
<1>1. CASE Fails(t, "other")
  BY <1>0, <1>1, FailsKeeps
<1>2. ASSUME NEW h \in Hrefs, DisksNamed(HomeVdc[n], n) = {h}, ~ResizeAllowed(h),
             Fails(t, "ErrDiskAttachedToVm")
      PROVE  Keeps(t)
  <2>1. disk[h].name = n
    BY <1>2 DEF DisksNamed
  <2>2. volumes[n] = VolumeOf(disk[h])
    BY <1>0, <2>1, NamedVolume
  <2>3. volumes[n].vm # None
    BY <1>2, <2>2 DEF VolumeOf, ResizeAllowed
  <2>4. "ErrDiskAttachedToVm" \in Errors \ {"nil"}
    BY DEF Errors
  <2> QED
    BY <1>0, <1>2, <2>3, <2>4, FailsServes DEF Keeps
<1>3. ASSUME NEW h \in Hrefs, DisksNamed(HomeVdc[n], n) = {h}, ResizeAllowed(h),
             Send(t, "ResizeWait", [NoRequest EXCEPT !.kind = "resize",
                                      !.href = h, !.size = call[t].size])
      PROVE  Keeps(t)
  <2> DEFINE k == [NoRequest EXCEPT !.kind = "resize", !.href = h, !.size = call[t].size]
  <2>1. pc'[t] = "ResizeWait" /\ task'[t] = k /\ call' = call /\ tst'[t] = "pending"
    BY <1>3, SendEffect
  <2>2. k.href = h /\ k.size = call[t].size
    BY DEF NoRequest
  <2>3. Named(t, h) /\ disk[h].vm = None
    BY <1>3 DEF DisksNamed, Named, ResizeAllowed
  <2>4. ResultInv(t)'
    BY <2>1, <2>2, <2>3 DEF ResultInv, Named
  <2> QED
    BY <1>0, <1>3, <2>4, Waits DEF WaitLocations
<1> QED
  BY <1>1, <1>2, <1>3 DEF ResizeSend

\* A task has ended, and its method with it, or detachDisk.
LEMMA WaitServes ==
    ASSUME ControlInv, CloudInv, ServeInv, NEW t \in Threads, disk' = disk,
           TaskDone(t) \/ TaskFailed(t)
    PROVE  Keeps(t)
<1> DEFINE n == call[t].name
           h == task[t].href
<1>0. /\ pc[t] \in WaitLocations /\ pc[t] \in Inside /\ MethodAt(call[t].m, pc[t])
      /\ call[t].m # "ListVolumes" /\ n \in Names /\ UniqueName
      /\ RequestInv(t) /\ ResultInv(t)
  <2>1. pc[t] \in WaitLocations /\ pc[t] \in Inside
    BY DEF TaskDone, TaskFailed, WaitFails, Inside
  <2>2. MethodAt(call[t].m, pc[t]) /\ call[t].m # "ListVolumes"
    BY <2>1, InsideFacts DEF MethodAt, WaitLocations
  <2> QED
    BY <2>1, <2>2, InsideFacts
<1>1. CASE TaskFailed(t)
  <2>1. CASE pc[t] = "DetachWait" /\ DetachFails(t, FALSE)
    BY <2>1, DetachFailsServes DEF DetachLocations
  <2>2. CASE Fails(t, "other")
    BY <1>0, <2>2, FailsKeeps
  <2> QED
    BY <1>1, <2>1, <2>2 DEF TaskFailed, WaitFails
<1>2. CASE TaskDone(t)
  <2>1. CASE pc[t] = "DetachWait"
    <3>1. Named(t, h) /\ h \in Hrefs /\ disk[h].vm = None
      BY <1>0, <1>2, <2>1 DEF TaskDone, RequestInv, Named
    <3> QED
      BY <1>2, <2>1, <3>1, DetachReturnsServes DEF TaskDone, DetachLocations
  <2>2. CASE pc[t] = "AttachWait"
    <3>1. /\ Named(t, h) /\ h \in Hrefs /\ disk[h].vm = call[t].vm
          /\ disk[h].unit = task[t].unit /\ call[t].m = "AttachDisk"
          /\ Return(t, "nil", task[t].unit, {})
      BY <1>0, <1>2, <2>2 DEF TaskDone, RequestInv, Named, MethodAt
    <3> QED
      BY <1>0, <3>1, AttachedServes
  <2>3. CASE pc[t] = "CreateWait"
    <3>1. PICK g \in Hrefs : disk[g].name = n
      BY <1>0, <1>2, <2>3 DEF TaskDone, ResultInv, Named
    <3>2. volumes[n] = VolumeOf(disk[g]) /\ call[t].m = "CreateDisk"
      BY <1>0, <2>3, <3>1, NamedVolume DEF MethodAt
    <3>3. Service!Achieved(t)
      BY <3>2 DEF Service!Achieved, VolumeOf
    <3> QED
      BY <1>0, <1>2, <2>3, <3>2, <3>3, ReturnServes DEF TaskDone, Keeps
  <2>4. CASE pc[t] = "DeleteWait"
    <3>1. (\A g \in Hrefs : disk[g].name # n) /\ call[t].m = "DeleteDisk"
      BY <1>0, <1>2, <2>4 DEF TaskDone, ResultInv, Named, MethodAt
    <3>2. volumes[n] = Service!NoVolume
      BY <1>0, <3>1, NamedVolume
    <3>3. Service!Achieved(t)
      BY <3>1, <3>2 DEF Service!Achieved, Service!NoVolume
    <3> QED
      BY <1>0, <1>2, <2>4, <3>1, <3>3, ReturnServes DEF TaskDone, Keeps
  <2>5. CASE pc[t] = "ResizeWait"
    <3>1. /\ h \in Hrefs /\ disk[h].name = n /\ disk[h].vm = None
          /\ disk[h].size = call[t].size /\ call[t].m = "ResizeDisk"
      BY <1>0, <1>2, <2>5 DEF TaskDone, ResultInv, Named, MethodAt
    <3>2. volumes[n] = VolumeOf(disk[h])
      BY <1>0, <3>1, NamedVolume
    <3>3. Service!Achieved(t)
      BY <3>1, <3>2 DEF Service!Achieved, VolumeOf
    <3> QED
      BY <1>0, <1>2, <2>5, <3>1, <3>3, ReturnServes DEF TaskDone, Keeps
  <2> QED
    BY <1>0, <2>1, <2>2, <2>3, <2>4, <2>5 DEF WaitLocations
<1> QED
  BY <1>1, <1>2

\* A read fails: DeleteDisk may go on all the same, and then promises nothing.
LEMMA ApiErrorServes ==
    ASSUME ControlInv, CloudInv, ServeInv, NEW t \in Threads, disk' = disk, ApiError(t)
    PROVE  Keeps(t)
<1>0. pc[t] \in Inside /\ "api" \in Faults
  BY DEF ApiError, Inside
<1>1. CASE Fails(t, "other")
  BY <1>0, <1>1, FailsKeeps
<1>2. CASE pc[t] \in {"DetDisk", "DetVm"} /\ DetachFails(t, FALSE)
  BY <1>2, DetachFailsServes DEF DetachLocations
<1>3. CASE pc[t] = "DelDisk" /\ Continue(t, "Vdc", loc[t])
  <2>1. call[t].m = "DeleteDisk" /\ loc[t].list = {}
    BY <1>0, <1>3, InsideFacts DEF MethodAt, WaitLocations
  <2> QED
    BY <1>0, <1>3, <2>1, GoesOn DEF Inside, WaitLocations
<1> QED
  BY <1>1, <1>2, <1>3 DEF ApiError

\* Every step of a method keeps the promise.
LEMMA MethodStepServes ==
    ASSUME ControlInv, CloudInv, ServeInv, Faults \subseteq {"api"},
           NEW t \in Threads, MethodStep(t)
    PROVE  ServeInv' /\ Serves(t)
<1>0. ~AnswerLost(t)
  BY DEF AnswerLost
<1>1. disk' = disk
  BY <1>0, MethodStepCloud
<1>2. Keeps(t)
  BY <1>0, <1>1, LoopServes, CreateServes, DeleteServes, DetachServes, AttachServes,
     ResizeServes, WaitServes, ApiErrorServes DEF MethodStep
<1>3. ASSUME NEW u \in Threads, u # t PROVE LoopInv(u)' /\ ResultInv(u)'
  <2>1. pc'[u] = pc[u] /\ loc'[u] = loc[u] /\ call' = call
    BY <1>3, MethodEnds, OtherThreads
  <2>2. pc[u] \in {"Idle", "Lock", "Done"}
    <3>1. pc[u] \notin Inside /\ pc[u] \in Locations
      BY <1>3, InsideSteps DEF ControlInv, MutexInv, TypeOK
    <3> QED
      BY <3>1 DEF Locations
  <2>3. LoopInv(u)
    BY DEF ServeInv
  <2> QED
    BY <2>1, <2>2, <2>3 DEF LoopInv, ResultInv, Searching
<1>4. HomeInv'
  BY <1>1 DEF ServeInv, HomeInv
<1> QED
  BY <1>2, <1>3, <1>4 DEF ServeInv, Keeps
-----------------------------------------------------------------------------
(* The cloud runs a request *)

\* A task changes the volume that the call of its thread names, as the promise
\* allows, and leaves what the method counts on.
LEMMA TaskRunsServes ==
    ASSUME ControlInv, CloudInv, ServeInv, CloudInv', NEW t \in Threads, TaskRuns(t)
    PROVE  ServeInv' /\ Service!ServiceStep(t)
<1> DEFINE k == task[t]
           n == call[t].name
           h == k.href
           v == volumes[n]
<1>0. /\ tst[t] = "pending" /\ Runs(k) /\ tst'[t] = "success"
      /\ UNCHANGED <<orphans, mt, pc, call, loc, task, ret>>
      /\ disk \in [Hrefs -> Disk]
  BY DEF TaskRuns, ControlInv, TypeOK
<1>1. pc[t] \in WaitLocations /\ k.kind = KindAt[pc[t]] /\ pc[t] \in Inside
  BY <1>0 DEF ControlInv, TaskInv, Inside
<1>2. /\ call[t] \in Calls /\ MethodAt(call[t].m, pc[t]) /\ call[t].m # "ListVolumes"
      /\ n \in Names /\ n # None
      /\ UniqueName /\ HomeInv /\ LoopInv(t) /\ ResultInv(t) /\ RequestInv(t)
  <2>1. call[t] \in Calls /\ MethodAt(call[t].m, pc[t]) /\ call[t].m # "ListVolumes"
    BY <1>1, InsideFacts DEF MethodAt, WaitLocations
  <2> QED
    BY <1>1, <2>1, InsideFacts
<1>3. UniqueName'
  BY DEF CloudInv
<1>4. phases' = phases /\ phases[t] = "busy"
  BY <1>0, <1>1 DEF phases, WaitLocations
<1>5. ASSUME NEW u \in Threads PROVE LoopInv(u)'
  <2>1. CASE u = t
    BY <1>0, <1>1, <1>2, <2>1 DEF LoopInv, Searching, WaitLocations
  <2>2. CASE u # t
    <3>1. pc[u] \in {"Idle", "Lock", "Done"}
      BY <1>1, <2>2 DEF ControlInv, MutexInv, TypeOK, Locations
    <3> QED
      BY <1>0, <3>1 DEF ServeInv, LoopInv, Searching
  <2> QED
    BY <2>1, <2>2
<1>6. ASSUME NEW u \in Threads, u # t PROVE ResultInv(u)'
  <2>1. pc[u] \in {"Idle", "Lock", "Done"}
    BY <1>1, <1>6 DEF ControlInv, MutexInv, TypeOK, Locations
  <2> QED
    BY <1>0, <2>1 DEF ResultInv
<1>7. SUFFICES HomeInv' /\ ResultInv(t)' /\ Service!ServiceStep(t)
  BY <1>5, <1>6 DEF ServeInv
<1>8. CASE pc[t] = "CreateWait"
  <2>1. PICK g \in FreshHrefs :
            disk' = [disk EXCEPT ![g] = [name |-> k.name, size |-> k.size,
                                         vm |-> None, unit |-> 0]]
    BY <1>0, <1>1, <1>8 DEF Runs, CreateRuns, KindAt
  <2>2. /\ g \in Hrefs /\ disk[g].name = None /\ k.name = n /\ k.size = call[t].size
        /\ HomeVdc[n] \in Vdcs /\ call[t].m = "CreateDisk"
        /\ \A f \in Hrefs : disk[f].name # n
    BY <1>0, <1>2, <1>8 DEF FreshHrefs, RequestInv, ResultInv, MethodAt, WaitLocations
  <2>3. /\ disk'[g] = [name |-> n, size |-> call[t].size, vm |-> None, unit |-> 0]
        /\ \A f \in Hrefs : f # g => disk'[f] = disk[f]
    BY <1>0, <2>1, <2>2
  <2>4. disk'[g].name = n /\ VolumeOf(disk'[g]) = [size |-> call[t].size, vm |-> None,
                                                   unit |-> 0, here |-> TRUE]
    BY <2>3 DEF VolumeOf
  <2>5. v = Service!NoVolume /\ volumes'[n] = VolumeOf(disk'[g])
    BY <1>2, <1>3, <2>2, <2>4, NamedVolume, NamedVolumeNext
  <2>6. volumes' = [volumes EXCEPT ![n] = volumes'[n]]
    BY <1>2, <1>3, <2>2, <2>3, <2>4, OneVolumeChanges
  <2>7. /\ ~v.here
        /\ volumes'[n] = [Service!NoVolume EXCEPT !.here = TRUE, !.size = call[t].size]
    <3>1. ~Service!NoVolume.here
      BY DEF Service!NoVolume
    <3>2. [Service!NoVolume EXCEPT !.here = TRUE, !.size = call[t].size]
            = [size |-> call[t].size, vm |-> None, unit |-> 0, here |-> TRUE]
      BY CreatedVolume
    <3> QED
      BY <2>4, <2>5, <3>1, <3>2
  <2>8. Service!Created(t)
    BY <1>0, <1>4, <2>2, <2>6, <2>7 DEF Service!Created, Service!MayCreate, Service!Busy,
           Service!Makes, Service!leftVars
  <2>9. HomeInv'
    BY <1>2, <2>2, <2>3, <2>4 DEF HomeInv
  <2>10. ResultInv(t)'
    BY <1>0, <1>2, <1>8, <2>2, <2>4 DEF ResultInv, Named
  <2> QED
    BY <2>8, <2>9, <2>10 DEF Service!ServiceStep
<1>9. CASE pc[t] = "DeleteWait"
  <2>1. disk' = [disk EXCEPT ![h] = NoDisk]
    BY <1>0, <1>1, <1>9 DEF Runs, DeleteRuns, KindAt
  <2>2. /\ h \in Hrefs /\ disk[h].name = n /\ disk[h].vm = None /\ call[t].m = "DeleteDisk"
    BY <1>0, <1>2, <1>9 DEF RequestInv, Named, MethodAt, WaitLocations
  <2>3. /\ disk'[h].name = None
        /\ \A f \in Hrefs : f # h => disk'[f] = disk[f]
        /\ \A f \in Hrefs : disk'[f].name # n
    BY <1>0, <1>2, <2>1, <2>2 DEF NoDisk, UniqueName
  <2>4. v = VolumeOf(disk[h]) /\ volumes'[n] = Service!NoVolume
    BY <1>2, <1>3, <2>2, <2>3, NamedVolume, NamedVolumeNext
  <2>5. volumes' = [volumes EXCEPT ![n] = volumes'[n]]
    BY <1>2, <1>3, <2>2, <2>3, OneVolumeChanges
  <2>6. v.here /\ v.vm = None
    BY <2>2, <2>4 DEF VolumeOf
  <2>7. Service!Deleted(t)
    BY <1>0, <1>4, <2>2, <2>4, <2>5, <2>6 DEF Service!Deleted, Service!Unattached, Service!Busy,
           Service!Makes, Service!leftVars
  <2>8. HomeInv'
    BY <1>2, <2>3 DEF HomeInv
  <2>9. ResultInv(t)'
    BY <1>0, <1>9, <2>3 DEF ResultInv, Named
  <2> QED
    BY <2>7, <2>8, <2>9 DEF Service!ServiceStep
<1>10. CASE pc[t] = "AttachWait"
  <2>1. /\ disk' = [disk EXCEPT ![h].vm = k.vm, ![h].unit = k.unit]
        /\ k.unit \notin UnitsOf(DiskSettings(k.vm), k.vm)
    BY <1>0, <1>1, <1>10 DEF Runs, AttachRuns, KindAt
  <2>2. /\ h \in Hrefs /\ disk[h].name = n /\ disk[h].vm = None /\ k.vm = call[t].vm
        /\ call[t].m = "AttachDisk" /\ k.unit \in ReservedUnits \cup {0}
        /\ call[t].vm # None
    BY <1>0, <1>2, <1>10, CallNames, ConstantsAssumption
       DEF RequestInv, ResultInv, Named, MethodAt, WaitLocations
  <2>3. /\ disk'[h] = [disk[h] EXCEPT !.vm = k.vm, !.unit = k.unit]
        /\ \A f \in Hrefs : f # h => disk'[f] = disk[f]
    BY <1>0, <2>1, <2>2 DEF Disk
  <2>4. /\ disk'[h].name = n /\ disk'[h].size = disk[h].size
        /\ disk'[h].vm = call[t].vm /\ disk'[h].unit = k.unit
    BY <1>0, <2>2, <2>3 DEF Disk
  <2>5. v = VolumeOf(disk[h]) /\ volumes'[n] = VolumeOf(disk'[h])
    BY <1>2, <1>3, <2>2, <2>4, NamedVolume, NamedVolumeNext
  <2>6. volumes' = [volumes EXCEPT ![n] = volumes'[n]]
    BY <1>2, <1>3, <2>2, <2>3, <2>4, OneVolumeChanges
  <2>7. v.here /\ v.vm = None
    BY <2>2, <2>5 DEF VolumeOf
  <2>8. volumes'[n] = [v EXCEPT !.vm = call[t].vm, !.unit = k.unit]
    <3>1. VolumeOf(disk'[h]) = [size |-> disk[h].size, vm |-> call[t].vm,
                                unit |-> k.unit, here |-> TRUE]
      BY <2>4 DEF VolumeOf
    <3>2. [VolumeOf(disk[h]) EXCEPT !.vm = call[t].vm, !.unit = k.unit]
            = [size |-> disk[h].size, vm |-> call[t].vm, unit |-> k.unit, here |-> TRUE]
      BY MovedVolume
    <3> QED
      BY <2>5, <3>1, <3>2, Zenon
  <2>9. ASSUME NEW w \in Names, volumes[w].vm = call[t].vm PROVE volumes[w].unit # k.unit
    <3>1. PICK f \in Hrefs : disk[f].name = w
      <4>1. SUFFICES ASSUME \A f \in Hrefs : disk[f].name # w PROVE FALSE
        OBVIOUS
      <4>2. volumes[w] = Service!NoVolume
        BY <1>2, <4>1, NamedVolume
      <4> QED
        BY <2>2, <2>9, <4>2 DEF Service!NoVolume
    <3>2. volumes[w] = VolumeOf(disk[f]) /\ w # None
      BY <1>2, <3>1, NamedVolume, ConstantsAssumption
    <3>3. disk[f].vm = call[t].vm /\ volumes[w].unit = disk[f].unit
      BY <2>9, <3>2 DEF VolumeOf
    <3>4. <<f, disk[f].unit>> \in DiskSettings(call[t].vm)
      BY <3>1, <3>2, <3>3 DEF DiskSettings, DisksAt
    <3>5. disk[f].unit \in UnitsOf(DiskSettings(call[t].vm), call[t].vm)
      BY <3>4 DEF UnitsOf
    <3> QED
      BY <2>1, <2>2, <3>3, <3>5
  <2>10. Service!Attached(t)
    BY <1>0, <1>4, <2>2, <2>6, <2>7, <2>8, <2>9
       DEF Service!Attached, Service!Unattached, Service!FreeAt, Service!Busy,
           Service!Makes, Service!leftVars
  <2>11. HomeInv'
    BY <1>2, <2>2, <2>3, <2>4 DEF HomeInv
  <2>12. ResultInv(t)'
    BY <1>0, <1>10, <2>2 DEF ResultInv
  <2> QED
    BY <2>10, <2>11, <2>12 DEF Service!ServiceStep
<1>11. CASE pc[t] = "DetachWait"
  <2>1. disk' = [disk EXCEPT ![h].vm = None, ![h].unit = 0]
    BY <1>0, <1>1, <1>11 DEF Runs, DetachRuns, KindAt
  <2>2. /\ h \in Hrefs /\ disk[h].name = n /\ disk[h].vm = k.vm /\ k.vm # None
        /\ call[t].m \in {"DetachDisk", "DeleteDisk", "AttachDisk"}
        /\ call[t].m = "AttachDisk" => k.vm # call[t].vm
    BY <1>0, <1>2, <1>11 DEF RequestInv, Named, MethodAt, WaitLocations
  <2>3. /\ disk'[h] = [disk[h] EXCEPT !.vm = None, !.unit = 0]
        /\ \A f \in Hrefs : f # h => disk'[f] = disk[f]
    BY <1>0, <2>1, <2>2 DEF Disk
  <2>4. /\ disk'[h].name = n /\ disk'[h].size = disk[h].size
        /\ disk'[h].vm = None /\ disk'[h].unit = 0
    BY <1>0, <2>2, <2>3 DEF Disk
  <2>5. v = VolumeOf(disk[h]) /\ volumes'[n] = VolumeOf(disk'[h])
    BY <1>2, <1>3, <2>2, <2>4, NamedVolume, NamedVolumeNext
  <2>6. volumes' = [volumes EXCEPT ![n] = volumes'[n]]
    BY <1>2, <1>3, <2>2, <2>3, <2>4, OneVolumeChanges
  <2>7. v.vm = k.vm /\ volumes'[n] = [v EXCEPT !.vm = None, !.unit = 0]
    <3>1. VolumeOf(disk'[h]) = [size |-> disk[h].size, vm |-> None,
                                unit |-> 0, here |-> TRUE]
      BY <2>4 DEF VolumeOf
    <3>2. VolumeOf(disk[h]).vm = disk[h].vm
      BY DEF VolumeOf
    <3>3. [VolumeOf(disk[h]) EXCEPT !.vm = None, !.unit = 0]
            = [size |-> disk[h].size, vm |-> None, unit |-> 0, here |-> TRUE]
      BY MovedVolume
    <3> QED
      BY <2>2, <2>5, <3>1, <3>2, <3>3, Zenon
  <2>8. Service!Detached(t)
    BY <1>0, <1>4, <2>2, <2>6, <2>7 DEF Service!Detached, Service!MayDetach, Service!Busy,
           Service!Makes, Service!leftVars
  <2>9. HomeInv'
    BY <1>2, <2>2, <2>3, <2>4 DEF HomeInv
  <2>10. ResultInv(t)'
    BY <1>0, <1>11 DEF ResultInv
  <2> QED
    BY <2>8, <2>9, <2>10 DEF Service!ServiceStep
<1>12. CASE pc[t] = "ResizeWait"
  <2>1. disk' = [disk EXCEPT ![h].size = k.size]
    BY <1>0, <1>1, <1>12 DEF Runs, ResizeRuns, KindAt
  <2>2. /\ h \in Hrefs /\ disk[h].name = n /\ disk[h].vm = None
        /\ call[t].m = "ResizeDisk" /\ k.size = call[t].size
    BY <1>0, <1>2, <1>12 DEF ResultInv, Named, MethodAt, WaitLocations
  <2>3. /\ disk'[h] = [disk[h] EXCEPT !.size = k.size]
        /\ \A f \in Hrefs : f # h => disk'[f] = disk[f]
    BY <1>0, <2>1, <2>2
  <2>4. /\ disk'[h].name = n /\ disk'[h].size = call[t].size
        /\ disk'[h].vm = None /\ disk'[h].unit = disk[h].unit
    BY <1>0, <2>2, <2>3 DEF Disk
  <2>5. v = VolumeOf(disk[h]) /\ volumes'[n] = VolumeOf(disk'[h])
    BY <1>2, <1>3, <2>2, <2>4, NamedVolume, NamedVolumeNext
  <2>6. volumes' = [volumes EXCEPT ![n] = volumes'[n]]
    BY <1>2, <1>3, <2>2, <2>3, <2>4, OneVolumeChanges
  <2>7. v.here /\ v.vm = None
    BY <2>2, <2>5 DEF VolumeOf
  <2>8. volumes'[n] = [v EXCEPT !.size = call[t].size]
    <3>1. VolumeOf(disk'[h]) = [size |-> call[t].size, vm |-> disk[h].vm,
                                unit |-> disk[h].unit, here |-> TRUE]
      BY <2>2, <2>4 DEF VolumeOf
    <3>2. [VolumeOf(disk[h]) EXCEPT !.size = call[t].size]
            = [size |-> call[t].size, vm |-> disk[h].vm, unit |-> disk[h].unit, here |-> TRUE]
      BY ResizedVolume
    <3> QED
      BY <2>5, <3>1, <3>2, Zenon
  <2>9. Service!Resized(t)
    BY <1>0, <1>4, <2>2, <2>6, <2>7, <2>8 DEF Service!Resized, Service!Unattached, Service!Busy,
           Service!Makes, Service!leftVars
  <2>10. HomeInv'
    BY <1>2, <2>2, <2>3, <2>4 DEF HomeInv
  <2>11. ResultInv(t)'
    BY <1>0, <1>12, <2>2, <2>4 DEF ResultInv, Named
  <2> QED
    BY <2>9, <2>10, <2>11 DEF Service!ServiceStep
<1> QED
  BY <1>1, <1>8, <1>9, <1>10, <1>11, <1>12 DEF WaitLocations
-----------------------------------------------------------------------------
(* All steps *)

\* The part of the invariant about thread u depends on these alone.
LEMMA ServeFrame ==
    ASSUME NEW u \in Threads, LoopInv(u), ResultInv(u), disk' = disk,
           pc'[u] = pc[u], call'[u] = call[u], loc'[u] = loc[u], task'[u] = task[u],
           tst'[u] \in {tst[u], "error"}
    PROVE  LoopInv(u)' /\ ResultInv(u)'
<1>1. Unseen(u)' = Unseen(u)
  BY DEF Unseen
<1>2. ListWithout(Unseen(u))' = ListWithout(Unseen(u))
  BY <1>1 DEF ListWithout
<1>3. LoopInv(u)'
  BY <1>1, <1>2 DEF LoopInv, Searching, Named
<1>4. ResultInv(u)'
  BY DEF ResultInv, Named
<1> QED
  BY <1>3, <1>4

\* A call begins, takes the mutex, or hands its result over.
LEMMA CallerServes ==
    ASSUME ControlInv, ServeInv, NEW t \in Threads,
           (\E c \in Calls : Invoke(t, c)) \/ Lock(t) \/ Reply(t)
    PROVE  /\ ServeInv'
           /\ \/ \E c \in Calls : Service!Begin(t, c)
              \/ UNCHANGED <<volumes, phases, call, ret>>
              \/ Service!Taken(t)
<1>0. /\ pc \in [Threads -> Locations] /\ call \in [Threads -> Call]
      /\ LoopInv(t) /\ HomeInv
  BY DEF ControlInv, TypeOK, ServeInv
<1>1. /\ UNCHANGED <<disk, loc, task, tst>>
      /\ \A u \in Threads : u # t => pc'[u] = pc[u] /\ call'[u] = call[u]
      /\ pc[t] \in {"Idle", "Lock", "Done"} /\ pc'[t] \in {"Idle", "Lock", "Auth"}
  BY <1>0 DEF Invoke, Lock, Reply, Goto, cloudVars, taskVars
<1>2. LoopInv(t)' /\ ResultInv(t)'
  BY <1>0, <1>1 DEF LoopInv, ResultInv, Searching
<1>3. ASSUME NEW u \in Threads, u # t PROVE LoopInv(u)' /\ ResultInv(u)'
  BY <1>1, <1>3, ServeFrame DEF ServeInv
<1>4. HomeInv'
  BY <1>0, <1>1 DEF HomeInv
<1>5. ServeInv'
  BY <1>2, <1>3, <1>4 DEF ServeInv
<1>6. volumes' = volumes
  BY <1>1 DEF volumes
<1>7. ASSUME NEW c \in Calls, Invoke(t, c) PROVE Service!Begin(t, c)
  <2>1. /\ pc[t] = "Idle" /\ pc' = [pc EXCEPT ![t] = "Lock"]
        /\ call' = [call EXCEPT ![t] = c] /\ ret' = ret
        /\ "Lock" \notin {"Idle", "Done"}
    BY <1>7 DEF Invoke, Goto
  <2>2. phases[t] = "idle" /\ phases' = [phases EXCEPT ![t] = "busy"]
    BY <2>1, PhasesChange
  <2> QED
    BY <1>6, <2>1, <2>2 DEF Service!Begin, Service!leftVars
<1>8. CASE Lock(t)
  <2>1. /\ pc[t] = "Lock" /\ pc' = [pc EXCEPT ![t] = "Auth"] /\ UNCHANGED <<call, ret>>
        /\ "Auth" \notin {"Idle", "Done"} /\ "Lock" \notin {"Idle", "Done"}
    BY <1>8 DEF Lock, Goto
  <2>2. /\ phases' = [phases EXCEPT ![t] = "busy"] /\ phases[t] = "busy"
        /\ phases = [phases EXCEPT ![t] = phases[t]]
    BY <2>1, PhasesChange
  <2>3. phases' = phases
    BY <2>2
  <2> QED
    BY <1>5, <1>6, <2>1, <2>3
<1>9. CASE Reply(t)
  <2>1. /\ pc[t] = "Done" /\ pc' = [pc EXCEPT ![t] = "Idle"]
        /\ call' = [call EXCEPT ![t] = NoCall] /\ ret' = [ret EXCEPT ![t] = NoResult]
    BY <1>9 DEF Reply, Goto
  <2>2. phases[t] = "done" /\ phases' = [phases EXCEPT ![t] = "idle"]
    BY <2>1, PhasesChange
  <2>3. NoCall = Service!NoReq /\ NoResult = Service!NoRes
    BY DEF NoCall, NoResult, Service!NoReq, Service!NoRes
  <2>4. Service!Taken(t)
    BY <1>6, <2>1, <2>2, <2>3 DEF Service!Taken, Service!leftVars
  <2> QED
    BY <1>5, <2>4
<1> QED
  BY <1>5, <1>7, <1>8, <1>9

\* A new client has no volumes and no calls.
LEMMA ServiceInitially == Init => ServeInv /\ Service!ServiceInit
<1> SUFFICES ASSUME Init PROVE ServeInv /\ Service!ServiceInit
  OBVIOUS
<1>1. /\ \A h \in Hrefs : disk[h].name = None
      /\ pc = [t \in Threads |-> "Idle"]
      /\ call = [t \in Threads |-> Service!NoReq] /\ ret = [t \in Threads |-> Service!NoRes]
      /\ \A t \in Threads : loc[t].list = {}
  BY DEF Init, NoDisk, NoCall, NoResult, NoLocals, Service!NoReq, Service!NoRes
<1>2. ServeInv
  BY <1>1 DEF ServeInv, HomeInv, LoopInv, ResultInv, Searching
<1>3. phases = [t \in Threads |-> "idle"]
  BY <1>1 DEF phases
<1>4. volumes = [n \in Names |-> Service!NoVolume]
  BY <1>1, ConstantsAssumption DEF volumes, Service!NoVolume
<1> QED
  BY <1>1, <1>2, <1>3, <1>4 DEF Service!ServiceInit

\* Every step is one the promise allows, or is not seen.
LEMMA ServiceSteps ==
    ASSUME Faults \subseteq {"api"}
    PROVE  ControlInv /\ CloudInv /\ ServeInv /\ [Next]_vars =>
               ServeInv' /\ [Service!ServiceNext]_(Service!serviceVars)
<1> SUFFICES ASSUME ControlInv, CloudInv, ServeInv, [Next]_vars
             PROVE  ServeInv' /\ [Service!ServiceNext]_(Service!serviceVars)
  OBVIOUS
<1>0. CloudInv' /\ orphans = {}
  BY CloudInvStep DEF CloudInv
<1>1. ASSUME NEW t \in Threads, (\E c \in Calls : Invoke(t, c)) \/ Lock(t) \/ Reply(t)
      PROVE  ServeInv' /\ [Service!ServiceNext]_(Service!serviceVars)
  BY <1>1, CallerServes DEF Service!ServiceNext, Service!serviceVars, Service!leftVars
<1>2. ASSUME NEW t \in Threads, MethodStep(t)
      PROVE  ServeInv' /\ [Service!ServiceNext]_(Service!serviceVars)
  BY <1>2, MethodStepServes DEF Serves, Service!ServiceNext, Service!serviceVars, Service!leftVars
<1>3. ASSUME NEW t \in Threads, TaskRuns(t)
      PROVE  ServeInv' /\ [Service!ServiceNext]_(Service!serviceVars)
  BY <1>0, <1>3, TaskRunsServes DEF Service!ServiceNext
<1>4. CASE (\E t \in Threads : TaskRejected(t)) \/ UNCHANGED vars
  <2>1. /\ UNCHANGED <<disk, pc, call, loc, task, ret>>
        /\ \A u \in Threads : tst'[u] \in {tst[u], "error"}
    BY <1>4 DEF TaskRejected, cloudVars, vars, ControlInv, TypeOK
  <2>2. \A u \in Threads : LoopInv(u)' /\ ResultInv(u)'
    BY <2>1, ServeFrame DEF ServeInv
  <2>3. HomeInv'
    BY <2>1 DEF ServeInv, HomeInv
  <2>4. UNCHANGED <<volumes, phases, call, ret>>
    BY <2>1 DEF volumes, phases
  <2> QED
    BY <2>2, <2>3, <2>4 DEF ServeInv, Service!serviceVars, Service!leftVars
<1>5. ~Crash
  BY DEF Crash
<1> QED
  BY <1>0, <1>1, <1>2, <1>3, <1>4, <1>5 DEF Next, CloudStep

(***************************************************************************)
(* The client always knows which VDCs it has still to look into, and what  *)
(* the request it waits for will leave behind.                             *)
(***************************************************************************)
THEOREM ServeInvariant ==
    ASSUME Faults \subseteq {"api"}
    PROVE  Spec => [](ControlInv /\ CloudInv /\ ServeInv)
<1>1. Init => ControlInv /\ CloudInv /\ ServeInv
  BY ControlInvInit, CloudInvInit, ServiceInitially
<1>2. (ControlInv /\ CloudInv /\ ServeInv) /\ [Next]_vars
         => (ControlInv /\ CloudInv /\ ServeInv)'
  BY ControlInvStep, CloudInvStep, ServiceSteps
<1> QED
  BY <1>1, <1>2, PTL DEF Spec

(***************************************************************************)
(* The client keeps the promise of VcdService (client.go:108-115): each    *)
(* call changes only the volume it names, in the steps its method may      *)
(* take, and its result is true of the volumes at the moment it returns.   *)
(***************************************************************************)
THEOREM ClientImplementsService ==
    ASSUME Faults \subseteq {"api"}
    PROVE  Spec => ImplementsService
<1>1. Init => Service!ServiceInit
  BY ServiceInitially
<1>2. (ControlInv /\ CloudInv /\ ServeInv) /\ [Next]_vars
         => [Service!ServiceNext]_(Service!serviceVars)
  BY ServiceSteps
<1> QED
  BY <1>1, <1>2, ServeInvariant, PTL DEF Spec, ImplementsService, Service!ServiceSpec

(***************************************************************************)
(* When nothing fails, a DeleteDisk without an error has left no disk of   *)
(* that name behind (client.go:288, 291), in whichever VDC it was.         *)
(***************************************************************************)
THEOREM DeleteDeletes ==
    ASSUME Faults = {}
    PROVE  Spec => DeletedIsGone
<1> DEFINE A == \A t \in Threads : ReturnsOk(t, "DeleteDisk") =>
                   \A h \in Hrefs : disk'[h].name # call[t].name
<1>1. (ControlInv /\ CloudInv /\ ServeInv) /\ [Next]_vars => [A]_vars
  <2> SUFFICES ASSUME ControlInv, CloudInv, ServeInv, Next, NEW t \in Threads,
                      ReturnsOk(t, "DeleteDisk")
               PROVE  \A h \in Hrefs : disk'[h].name # call[t].name
    OBVIOUS
  <2>0. /\ pc'[t] = "Done" /\ pc[t] \notin {"Idle", "Done"} /\ ret'[t].err = "nil"
        /\ call[t].m = "DeleteDisk"
        /\ pc \in [Threads -> Locations] /\ ret \in [Threads -> Result] /\ orphans = {}
    BY DEF ReturnsOk, ControlInv, TypeOK, CloudInv
  <2>1. ASSUME NEW u \in Threads, (\E c \in Calls : Invoke(u, c)) \/ Lock(u) \/ Reply(u)
        PROVE  FALSE
    BY <2>0, <2>1 DEF Invoke, Lock, Reply, Goto
  <2>2. ~CloudStep /\ ~Crash
    BY <2>0 DEF CloudStep, TaskRuns, TaskRejected, Crash
  <2>3. PICK u \in Threads : MethodStep(u)
    BY <2>1, <2>2 DEF Next
  <2>4. u = t
    BY <2>0, <2>3, InsideSteps
  <2>5. disk' = disk /\ Serves(t) /\ pc[t] \in Inside
    BY <2>3, <2>4, MethodStepCloud, MethodStepServes, InsideSteps DEF AnswerLost
  <2>6. phases[t] = "busy" /\ phases'[t] = "done"
    BY <2>0 DEF phases
  <2>7. ~Service!Refuses(t)
    <3>1. SUFFICES ASSUME NEW e \in Errors \ {"nil"},
                          ret' = [ret EXCEPT ![t] = [Service!NoRes EXCEPT !.err = e]]
                   PROVE  FALSE
      BY DEF Service!Refuses, Service!Finish, Service!leftVars
    <3> QED
      BY <2>0, <3>1 DEF Service!NoRes
  <2>8. Service!Achieved(t)
    BY <2>5, <2>6, <2>7 DEF Serves, Service!Succeeds
  <2>9. ~volumes[call[t].name].here
    BY <2>0, <2>8 DEF Service!Achieved
  <2>10. SUFFICES ASSUME NEW h \in Hrefs, disk[h].name = call[t].name PROVE FALSE
    BY <2>5
  <2>11. volumes[call[t].name] = VolumeOf(disk[h])
    BY <2>0, <2>5, <2>10, InsideFacts, NamedVolume
  <2> QED
    BY <2>9, <2>11 DEF VolumeOf
<1>2. Faults \subseteq {"api"}
  OBVIOUS
<1> QED
  BY <1>1, <1>2, ServeInvariant, PTL DEF Spec, DeletedIsGone
=============================================================================
