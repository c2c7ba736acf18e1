------------------------- MODULE VcdClientCloudProofs -------------------------
(***************************************************************************)
(* What a method of VcdClient reads stays true until it acts on it, for    *)
(* any number of threads, disks, VMs and VDCs, as long as no answer is     *)
(* lost and the process does not crash.                                    *)
(***************************************************************************)
EXTENDS VcdClientProofs

LocalInv(t) == SettingsInv(t) /\ FoundInv(t) /\ RequestInv(t)

\* Locations at which a method knows nothing about the cloud.
Quiet == {"Idle", "Lock", "Done", "Auth", "Vdc", "Create", "DelDisk", "AttVm",
          "Resize", "List"}

\* A thread that no method has business with satisfies the local invariants.
LEMMA QuietLocal ==
    ASSUME NEW t \in Threads,
           \/ pc'[t] \in Quiet
           \/ pc'[t] = "DetDisk" /\ call'[t].m = "DetachDisk"
    PROVE  LocalInv(t)'
BY DEF Quiet, LocalInv, SettingsInv, FoundInv, RequestInv, Detaching,
       DetachLocations, WaitLocations

\* A thread outside v.mt is such a thread.
LEMMA OutsideIsQuiet ==
    ASSUME ControlInv, NEW t \in Threads, NEW u \in Threads, u # t,
           pc[t] \in Inside
    PROVE  pc[u] \in Quiet
<1>1. pc[u] \notin Inside /\ pc[u] \in Locations
  BY DEF ControlInv, MutexInv, TypeOK
<1> QED
  BY <1>1 DEF Locations, Quiet

(***************************************************************************)
(* What the three ways to end a step of a method leave of thread t.        *)
(***************************************************************************)
LEMMA ContinueEffect ==
    ASSUME ControlInv, NEW t \in Threads, NEW l, NEW r, Continue(t, l, r)
    PROVE  /\ pc'[t] = l /\ loc'[t] = r /\ tst'[t] = "none" /\ call' = call
           /\ \A u \in Threads : u # t => pc'[u] = pc[u]
BY DEF Continue, Goto, ControlInv, TypeOK

\* What Send changes.
LEMMA SendEffect ==
    ASSUME ControlInv, NEW t \in Threads, NEW l, NEW k, Send(t, l, k)
    PROVE  /\ pc'[t] = l /\ task'[t] = k /\ tst'[t] = "pending"
           /\ loc' = loc /\ call' = call
           /\ \A u \in Threads : u # t => pc'[u] = pc[u]
BY DEF Send, Goto, ControlInv, TypeOK

\* What Return changes.
LEMMA ReturnEffect ==
    ASSUME ControlInv, NEW t \in Threads, NEW e, NEW n, NEW l, Return(t, e, n, l)
    PROVE  /\ pc'[t] = "Done" /\ call' = call
           /\ \A u \in Threads : u # t => pc'[u] = pc[u]
BY DEF Return, Goto, ControlInv, TypeOK

\* The parts of the invariant that are about the cloud alone.
LEMMA SameCloud ==
    ASSUME disk' = disk
    PROVE  /\ \A m : DiskSettings(m)' = DiskSettings(m)
           /\ UniqueName => UniqueName'
           /\ AbsentInv => AbsentInv'
BY DEF DiskSettings, DisksAt, UniqueName, AbsentInv

\* What a call names.
LEMMA CallNames ==
    ASSUME NEW c \in Calls
    PROVE  /\ c.m # "ListVolumes" => c.name \in Names
           /\ c.m = "AttachDisk" => c.vm \in Vms
           /\ c.m \in Methods
BY DEF Calls, Methods

\* getDiskByName finds at most one disk.
LEMMA OneDisk ==
    ASSUME UniqueName, NEW t \in Threads, call[t].name \in Names,
           NEW g, Named(t, g), NEW h, Named(t, h)
    PROVE  g = h
<1>1. call[t].name # None
  BY ConstantsAssumption
<1> QED
  BY <1>1 DEF UniqueName, Named

(***************************************************************************)
(* detachDisk hands a detached disk to its caller.                         *)
(***************************************************************************)
LEMMA DetachReturnsLocal ==
    ASSUME ControlInv, CloudInv, NEW t \in Threads, pc[t] \in DetachLocations,
           NEW h \in Hrefs, Named(t, h), disk[h].vm = None,
           disk' = disk, DetachReturns(t)
    PROVE  LocalInv(t)'
<1>0. call[t] \in Calls /\ UniqueName
  BY DEF ControlInv, CallInv, DetachLocations, CloudInv
<1>1. CASE call[t].m = "DetachDisk" /\ Return(t, "nil", 0, {})
  BY <1>1, ReturnEffect, QuietLocal DEF Quiet
<1>2. CASE call[t].m = "DeleteDisk" /\ Continue(t, "DelSend", loc[t])
  <2>1. pc'[t] = "DelSend" /\ loc'[t] = loc[t] /\ call' = call
    BY <1>2, ContinueEffect
  <2>2. Named(t, loc[t].disk)
    BY <1>2 DEF CloudInv, FoundInv, Detaching
  <2>3. loc[t].disk = h
    BY <1>0, <1>2, <2>2, CallNames, OneDisk
  <2> QED
    BY <1>2, <2>1, <2>2, <2>3 DEF LocalInv, SettingsInv, FoundInv, RequestInv,
       Named, Detaching, DetachLocations, WaitLocations
<1>3. CASE call[t].m = "AttachDisk" /\ Continue(t, "AttSend", loc[t])
  <2>1. pc'[t] = "AttSend" /\ loc'[t] = loc[t] /\ call' = call
    BY <1>3, ContinueEffect
  <2>2. SettingsInv(t) /\ FoundInv(t) /\ Detaching(t, "AttachDisk")
    BY <1>3 DEF CloudInv, Detaching
  <2>3. Named(t, loc[t].disk)
    BY <2>2 DEF FoundInv
  <2>4. loc[t].disk = h
    BY <1>0, <1>3, <2>3, CallNames, OneDisk
  <2>5. SettingsInv(t)'
    BY <2>1, <2>2, SameCloud DEF SettingsInv
  <2>6. FoundInv(t)' /\ RequestInv(t)'
    BY <1>3, <2>1, <2>2, <2>3, <2>4 DEF FoundInv, RequestInv, Named, Detaching,
       DetachLocations, WaitLocations
  <2> QED
    BY <2>5, <2>6 DEF LocalInv
<1> QED
  BY <1>1, <1>2, <1>3 DEF DetachReturns

\* detachDisk returning with an error keeps the local invariants.
LEMMA DetachFailsLocal ==
    ASSUME ControlInv, NEW t \in Threads, NEW b, DetachFails(t, b)
    PROVE  LocalInv(t)'
<1>1. pc'[t] \in Quiet
  BY ReturnEffect, ContinueEffect DEF DetachFails, Fails, Quiet
<1> QED
  BY <1>1, QuietLocal

(***************************************************************************)
(* The steps of a method that end outside the quiet locations.             *)
(***************************************************************************)
LEMMA CreateLocal ==
    ASSUME ControlInv, CloudInv, NEW t \in Threads, disk' = disk, CreateSend(t)
    PROVE  LocalInv(t)'
<1> DEFINE n == call[t].name
           k == [NoRequest EXCEPT !.kind = "create", !.name = n, !.size = call[t].size]
<1>1. CASE Return(t, "nil", 0, {}) \/ Fails(t, "other")
  BY <1>1, ReturnEffect, QuietLocal DEF Fails, Quiet
<1>2. CASE ~DiskExists(n) /\ Send(t, "CreateWait", k)
  <2>1. pc'[t] = "CreateWait" /\ task'[t] = k /\ call' = call
    BY <1>2, SendEffect
  <2>2. k.name = n
    BY DEF NoRequest
  <2>3. \A h \in Hrefs : disk[h].name # n
    BY <1>2 DEF DiskExists, DisksNamed
  <2> QED
    BY <2>1, <2>2, <2>3 DEF LocalInv, SettingsInv, FoundInv, RequestInv, Detaching,
       DetachLocations, WaitLocations
<1> QED
  BY <1>1, <1>2 DEF CreateSend

\* The steps of DeleteDisk keep the local invariants.
LEMMA DeleteLocal ==
    ASSUME ControlInv, CloudInv, NEW t \in Threads, disk' = disk,
           DeleteFind(t) \/ DeleteSend(t)
    PROVE  LocalInv(t)'
<1>1. CASE DeleteFind(t)
  <2>0. call[t].m = "DeleteDisk" /\ loc[t] \in Locals
    BY <1>1 DEF DeleteFind, ControlInv, TypeOK, CallInv, MethodAt, Inside, WaitLocations
  <2>1. CASE Continue(t, "Vdc", loc[t])
    BY <2>1, ContinueEffect, QuietLocal DEF Quiet
  <2>2. ASSUME NEW h \in Hrefs, DisksNamed(loc[t].cur, call[t].name) = {h},
               Continue(t, IF disk[h].vm # None THEN "DetDisk" ELSE "DelSend",
                        [loc[t] EXCEPT !.disk = h])
        PROVE  LocalInv(t)'
    <3>1. /\ pc'[t] \in {"DetDisk", "DelSend"}
          /\ pc'[t] = "DelSend" => disk[h].vm = None
          /\ loc'[t] = [loc[t] EXCEPT !.disk = h] /\ call' = call
      BY <2>2, ContinueEffect
    <3>2. loc'[t].disk = h
      BY <2>0, <3>1 DEF Locals
    <3>3. Named(t, h)
      BY <2>2 DEF DisksNamed, Named
    <3> QED
      BY <2>0, <3>1, <3>2, <3>3 DEF LocalInv, SettingsInv, FoundInv, RequestInv,
         Named, Detaching, DetachLocations, WaitLocations
  <2> QED
    BY <1>1, <2>1, <2>2 DEF DeleteFind
<1>2. CASE DeleteSend(t)
  <2> DEFINE k == [NoRequest EXCEPT !.kind = "delete", !.href = loc[t].disk]
  <2>1. /\ pc[t] = "DelSend" /\ pc'[t] = "DeleteWait" /\ task'[t] = k
        /\ call' = call
    BY <1>2, SendEffect DEF DeleteSend
  <2>2. k.href = loc[t].disk
    BY DEF NoRequest
  <2>3. Named(t, loc[t].disk) /\ disk[loc[t].disk].vm = None
    BY <2>1 DEF CloudInv, FoundInv
  <2> QED
    BY <2>1, <2>2, <2>3 DEF LocalInv, SettingsInv, FoundInv, RequestInv, Named,
       Detaching, DetachLocations, WaitLocations
<1> QED
  BY <1>1, <1>2

\* The step of ResizeDisk keeps the local invariants.
LEMMA ResizeLocal ==
    ASSUME ControlInv, CloudInv, NEW t \in Threads, disk' = disk, ResizeSend(t)
    PROVE  LocalInv(t)'
<1>1. CASE Fails(t, "other") \/ Fails(t, "ErrDiskAttachedToVm")
  BY <1>1, ReturnEffect, QuietLocal DEF Fails, Quiet
<1>2. ASSUME NEW h \in Hrefs,
             DisksNamed(HomeVdc[call[t].name], call[t].name) = {h}, ResizeAllowed(h),
             Send(t, "ResizeWait", [NoRequest EXCEPT !.kind = "resize",
                                      !.href = h, !.size = call[t].size])
      PROVE  LocalInv(t)'
  <2> DEFINE k == [NoRequest EXCEPT !.kind = "resize", !.href = h,
                                    !.size = call[t].size]
  <2>1. pc'[t] = "ResizeWait" /\ task'[t] = k /\ call' = call
    BY <1>2, SendEffect
  <2>2. k.href = h
    BY DEF NoRequest
  <2>3. Named(t, h) /\ disk[h].vm = None
    BY <1>2 DEF DisksNamed, Named, ResizeAllowed
  <2> QED
    BY <2>1, <2>2, <2>3 DEF LocalInv, SettingsInv, FoundInv, RequestInv, Named,
       Detaching, DetachLocations, WaitLocations
<1> QED
  BY <1>1, <1>2 DEF ResizeSend

(***************************************************************************)
(* detachDisk finds the disk where its caller left it, and asks the cloud  *)
(* to detach it from the VM it is at.                                      *)
(***************************************************************************)
LEMMA DetachLocal ==
    ASSUME ControlInv, CloudInv, NEW t \in Threads, disk' = disk,
           DetachFind(t) \/ DetachSend(t)
    PROVE  LocalInv(t)'
<1>0. /\ pc[t] \in DetachLocations /\ loc[t] \in Locals
      /\ call[t].m \in {"AttachDisk", "DetachDisk", "DeleteDisk"}
      /\ call[t] \in Calls
      /\ SettingsInv(t) /\ FoundInv(t) /\ UniqueName
  BY DEF DetachFind, DetachSend, ControlInv, TypeOK, CallInv, MethodAt,
         DetachLocations, Inside, WaitLocations, CloudInv
<1>1. CASE DetachFind(t)
  <2>1. ASSUME NEW b, DetachFails(t, b) PROVE LocalInv(t)'
    BY <2>1, DetachFailsLocal
  <2>2. ASSUME NEW h \in Hrefs, DisksNamed(loc[t].cur, call[t].name) = {h},
               disk[h].vm = None, DetachReturns(t)
        PROVE  LocalInv(t)'
    <3>1. Named(t, h)
      BY <2>2 DEF DisksNamed, Named
    <3> QED
      BY <1>0, <2>2, <3>1, DetachReturnsLocal
  <2>3. ASSUME NEW h \in Hrefs, DisksNamed(loc[t].cur, call[t].name) = {h},
               disk[h].vm # None,
               Continue(t, "DetVm", [loc[t] EXCEPT !.ddisk = h, !.avm = disk[h].vm])
        PROVE  LocalInv(t)'
    <3>1. /\ pc[t] = "DetDisk" /\ pc'[t] = "DetVm" /\ call' = call
          /\ loc'[t] = [loc[t] EXCEPT !.ddisk = h, !.avm = disk[h].vm]
      BY <1>1, <2>3, ContinueEffect DEF DetachFind
    <3>2. /\ loc'[t].ddisk = h /\ loc'[t].avm = disk[h].vm
          /\ loc'[t].disk = loc[t].disk /\ loc'[t].spec = loc[t].spec
          /\ loc'[t].cur = loc[t].cur
      BY <1>0, <3>1 DEF Locals
    <3>3. Named(t, h)
      BY <2>3 DEF DisksNamed, Named
    <3>4. SettingsInv(t)'
      BY <1>0, <3>1, <3>2, SameCloud DEF SettingsInv, Detaching, DetachLocations
    <3>5. FoundInv(t)'
      BY <1>0, <2>3, <3>1, <3>2, <3>3 DEF FoundInv, Named, Detaching, DetachLocations
    <3>6. RequestInv(t)'
      BY <3>1 DEF RequestInv, WaitLocations
    <3> QED
      BY <3>4, <3>5, <3>6 DEF LocalInv
  <2> QED
    BY <1>1, <2>1, <2>2, <2>3 DEF DetachFind
<1>2. CASE DetachSend(t)
  <2> DEFINE h == loc[t].ddisk
             m == loc[t].avm
             here == {p \in DiskSettings(m) : p[1] = h}
  <2>0. pc[t] = "DetVm" /\ Named(t, h) /\ m # None /\ disk[h].vm = m /\ h \in Hrefs
    BY <1>0, <1>2 DEF DetachSend, FoundInv, Named
  <2>1. CASE DetachFails(t, FALSE)
    BY <2>1, DetachFailsLocal
  <2>2. here # {}
    <3>1. disk[h].name # None
      BY <1>0, <2>0, CallNames, ConstantsAssumption DEF Named
    <3>2. <<h, disk[h].unit>> \in DiskSettings(m)
      BY <2>0, <3>1 DEF DiskSettings, DisksAt
    <3> QED
      BY <3>2
  <2>3. ASSUME NEW p \in here,
               Send(t, "DetachWait",
                    [NoRequest EXCEPT !.kind = "detach", !.href = h,
                                      !.vm = m, !.unit = p[2]])
        PROVE  LocalInv(t)'
    <3> DEFINE k == [NoRequest EXCEPT !.kind = "detach", !.href = h,
                                      !.vm = m, !.unit = p[2]]
    <3>1. /\ pc'[t] = "DetachWait" /\ task'[t] = k /\ tst'[t] = "pending"
          /\ loc' = loc /\ call' = call
      BY <2>3, SendEffect
    <3>2. k.href = h /\ k.vm = m
      BY DEF NoRequest
    <3>3. SettingsInv(t)'
      BY <1>0, <2>0, <3>1, SameCloud DEF SettingsInv, Detaching, DetachLocations
    <3>4. FoundInv(t)'
      BY <1>0, <2>0, <3>1 DEF FoundInv, Named, Detaching, DetachLocations
    <3>5. call[t].m = "AttachDisk" => m # call[t].vm
      <4>1. SUFFICES ASSUME call[t].m = "AttachDisk" PROVE m # call[t].vm
        OBVIOUS
      <4>2. Named(t, loc[t].disk) /\ disk[loc[t].disk].vm # call[t].vm
        BY <1>0, <4>1 DEF FoundInv, Detaching
      <4>3. loc[t].disk = h
        BY <1>0, <2>0, <4>1, <4>2, CallNames, OneDisk
      <4> QED
        BY <2>0, <4>2, <4>3
    <3>6. RequestInv(t)'
      BY <2>0, <3>1, <3>2, <3>5 DEF RequestInv, Named, WaitLocations
    <3> QED
      BY <3>3, <3>4, <3>6 DEF LocalInv
  <2> QED
    BY <1>2, <2>1, <2>2, <2>3 DEF DetachSend
<1> QED
  BY <1>1, <1>2

(***************************************************************************)
(* AttachDisk: the settings of the VM are read first.  A disk at this VM   *)
(* is in them, so that only a disk at another VM is detached; the unit is  *)
(* chosen among those the settings leave free.                             *)
(***************************************************************************)
LEMMA AttachLocal ==
    ASSUME ControlInv, CloudInv, NEW t \in Threads, disk' = disk,
           AttachFindVm(t) \/ AttachFindDisk(t) \/ AttachSend(t)
    PROVE  LocalInv(t)'
<1>0. /\ loc[t] \in Locals /\ call[t].m = "AttachDisk" /\ call[t] \in Calls
      /\ SettingsInv(t) /\ FoundInv(t)
  BY DEF AttachFindVm, AttachFindDisk, AttachSend, ControlInv, TypeOK, CallInv,
         MethodAt, Inside, WaitLocations, CloudInv
<1>1. CASE AttachFindVm(t)
  <2>1. CASE Continue(t, "Vdc", loc[t])
    BY <2>1, ContinueEffect, QuietLocal DEF Quiet
  <2>2. CASE /\ VmVdc[call[t].vm] = loc[t].cur
             /\ Continue(t, "AttDisk", [loc[t] EXCEPT !.spec = DiskSettings(call[t].vm)])
    <3>1. /\ pc'[t] = "AttDisk" /\ call' = call
          /\ loc'[t] = [loc[t] EXCEPT !.spec = DiskSettings(call[t].vm)]
      BY <2>2, ContinueEffect
    <3>2. loc'[t].spec = DiskSettings(call[t].vm) /\ loc'[t].cur = loc[t].cur
      BY <1>0, <3>1 DEF Locals
    <3>3. SettingsInv(t)'
      BY <2>2, <3>1, <3>2, SameCloud DEF SettingsInv
    <3> QED
      BY <3>1, <3>3 DEF LocalInv, FoundInv, RequestInv, Detaching,
         DetachLocations, WaitLocations
  <2> QED
    BY <1>1, <2>1, <2>2 DEF AttachFindVm
<1>2. CASE AttachFindDisk(t)
  <2>0. pc[t] = "AttDisk"
    BY <1>2 DEF AttachFindDisk
  <2>1. CASE \E e, u, l : Return(t, e, u, l)
    BY <2>1, ReturnEffect, QuietLocal DEF Quiet
  <2>2. ASSUME NEW h \in Hrefs, DisksNamed(loc[t].cur, call[t].name) = {h},
               ~(disk[h].vm = call[t].vm /\ UnitsSeen(t, h) # {}),
               Continue(t, IF disk[h].vm # None THEN "DetDisk" ELSE "AttSend",
                        [loc[t] EXCEPT !.disk = h])
        PROVE  LocalInv(t)'
    <3>1. /\ pc'[t] \in {"DetDisk", "AttSend"} /\ call' = call
          /\ pc'[t] = "AttSend" => disk[h].vm = None
          /\ loc'[t] = [loc[t] EXCEPT !.disk = h]
      BY <2>2, ContinueEffect
    <3>2. /\ loc'[t].disk = h /\ loc'[t].spec = loc[t].spec
          /\ loc'[t].cur = loc[t].cur
      BY <1>0, <3>1 DEF Locals
    <3>3. Named(t, h) /\ HomeVdc[call[t].name] = loc[t].cur
      BY <2>2 DEF DisksNamed, Named
    <3>4. disk[h].vm # call[t].vm
      <4>1. SUFFICES ASSUME disk[h].vm = call[t].vm PROVE FALSE
        OBVIOUS
      <4>2. disk[h].name # None
        BY <1>0, <3>3, CallNames, ConstantsAssumption DEF Named
      <4>3. <<h, disk[h].unit>> \in loc[t].spec
        BY <1>0, <2>0, <4>1, <4>2 DEF SettingsInv, DiskSettings, DisksAt
      <4>4. disk[h].unit \in UnitsSeen(t, h)
        BY <4>3 DEF UnitsSeen
      <4> QED
        BY <2>2, <4>1, <4>4
    <3>5. SettingsInv(t)'
      BY <1>0, <2>0, <3>1, <3>2, SameCloud DEF SettingsInv
    <3>6. FoundInv(t)' /\ RequestInv(t)'
      BY <1>0, <3>1, <3>2, <3>3, <3>4 DEF FoundInv, RequestInv, Named, Detaching,
         DetachLocations, WaitLocations
    <3> QED
      BY <3>5, <3>6 DEF LocalInv
  <2> QED
    BY <1>2, <2>1, <2>2 DEF AttachFindDisk, Fails
<1>3. CASE AttachSend(t)
  <2>1. PICK u \in UnitChoices(loc[t].spec, call[t].vm) :
            Send(t, "AttachWait",
                 [NoRequest EXCEPT !.kind = "attach", !.href = loc[t].disk,
                                   !.vm = call[t].vm, !.unit = u])
    BY <1>3 DEF AttachSend
  <2> DEFINE k == [NoRequest EXCEPT !.kind = "attach", !.href = loc[t].disk,
                                    !.vm = call[t].vm, !.unit = u]
  <2>2. pc[t] = "AttSend" /\ pc'[t] = "AttachWait" /\ task'[t] = k
        /\ tst'[t] = "pending" /\ call' = call
    BY <1>3, <2>1, SendEffect DEF AttachSend
  <2>3. k.href = loc[t].disk /\ k.vm = call[t].vm /\ k.unit = u
    BY DEF NoRequest
  <2>4. /\ Named(t, loc[t].disk) /\ disk[loc[t].disk].vm = None
        /\ VmVdc[call[t].vm] = HomeVdc[call[t].name]
        /\ loc[t].spec = DiskSettings(call[t].vm)
    BY <1>0, <2>2 DEF SettingsInv, FoundInv
  <2>5. u # 0 => u \notin UnitsOf(DiskSettings(call[t].vm), call[t].vm)
    BY <2>1, <2>4 DEF UnitChoices, FreeUnits
  <2>6. DiskSettings(call[t].vm)' = DiskSettings(call[t].vm)
    BY <2>2, SameCloud
  <2>7. RequestInv(t)'
    BY <2>2, <2>3, <2>4, <2>5, <2>6 DEF RequestInv, Named, WaitLocations, UnitsOf
  <2> QED
    BY <2>2, <2>7 DEF LocalInv, SettingsInv, FoundInv, Detaching, DetachLocations
<1> QED
  BY <1>1, <1>2, <1>3

\* The ends of WaitTaskCompletion keep the local invariants.
LEMMA WaitLocal ==
    ASSUME ControlInv, CloudInv, NEW t \in Threads, disk' = disk,
           TaskDone(t) \/ WaitFails(t)
    PROVE  LocalInv(t)'
<1>1. CASE pc[t] = "DetachWait" /\ tst[t] = "success" /\ DetachReturns(t)
  <2>1. Named(t, task[t].href) /\ disk[task[t].href].vm = None
    BY <1>1 DEF CloudInv, RequestInv
  <2> QED
    BY <1>1, <2>1, DetachReturnsLocal DEF DetachLocations, Named
<1>2. CASE \E e, u, l : Return(t, e, u, l)
  BY <1>2, ReturnEffect, QuietLocal DEF Quiet
<1>3. CASE DetachFails(t, FALSE)
  BY <1>3, DetachFailsLocal
<1> QED
  BY <1>1, <1>2, <1>3 DEF TaskDone, WaitFails, Fails

\* Only a thread inside a method makes its steps, and it moves itself alone.
LEMMA InsideSteps ==
    ASSUME ControlInv, NEW t \in Threads, MethodStep(t)
    PROVE  pc[t] \in Inside /\ \A u \in Threads : u # t => pc'[u] = pc[u]
<1>1. CASE TaskDone(t) \/ TaskFailed(t) \/ AnswerLost(t)
  BY <1>1, ReturnEffect, ContinueEffect DEF TaskDone, TaskFailed, AnswerLost, WaitFails, Fails,
     DetachReturns, DetachFails, Inside
<1>2. CASE RefreshAuth(t) \/ NextVdc(t) \/ NoMoreVdcs(t) \/ ListVdc(t)
  BY <1>2, ReturnEffect, ContinueEffect DEF RefreshAuth, NextVdc, NoMoreVdcs,
     ListVdc, Fails, Inside
<1>3. CASE CreateSend(t) \/ ResizeSend(t)
  BY <1>3, ReturnEffect, SendEffect DEF CreateSend, ResizeSend, Fails, Inside
<1>4. CASE DeleteFind(t) \/ DeleteSend(t)
  BY <1>4, ContinueEffect, SendEffect DEF DeleteFind, DeleteSend, Inside
<1>5. CASE DetachFind(t) \/ DetachSend(t)
  BY <1>5, ReturnEffect, ContinueEffect, SendEffect DEF DetachFind, DetachSend,
     DetachReturns, DetachFails, Fails, Inside
<1>6. CASE AttachFindVm(t) \/ AttachFindDisk(t) \/ AttachSend(t)
  BY <1>6, ReturnEffect, ContinueEffect, SendEffect DEF AttachFindVm,
     AttachFindDisk, AttachSend, Fails, Inside
<1>7. CASE ApiError(t)
  BY <1>7, ReturnEffect, ContinueEffect DEF ApiError, DetachFails, Fails, Inside
<1> QED
  BY <1>1, <1>2, <1>3, <1>4, <1>5, <1>6, <1>7 DEF MethodStep

(***************************************************************************)
(* A step of a method keeps the invariant: what it has read is still true, *)
(* since it holds v.mt and no request is left behind.                      *)
(***************************************************************************)
LEMMA MethodStepCloudInv ==
    ASSUME ControlInv, CloudInv, Faults \subseteq {"api"},
           NEW t \in Threads, MethodStep(t)
    PROVE  CloudInv'
<1>0. ~AnswerLost(t)
  BY DEF AnswerLost
<1>1. disk' = disk /\ orphans' = orphans
  BY <1>0, MethodStepCloud
<1>2. pc[t] \in Inside /\ \A u \in Threads : u # t => pc'[u] = pc[u]
  BY InsideSteps
<1>3. LocalInv(t)'
  <2>1. CASE TaskDone(t) \/ TaskFailed(t)
    BY <1>1, <2>1, WaitLocal DEF TaskFailed
  <2>2. CASE RefreshAuth(t)
    <3>1. pc[t] = "Auth" /\ pc'[t] = Body[call[t].m]
      BY <2>2, ContinueEffect DEF RefreshAuth
    <3>2. call[t].m \in Methods
      BY <3>1 DEF ControlInv, CallInv, MethodAt, Inside, WaitLocations
    <3> QED
      BY <3>1, <3>2, QuietLocal DEF Body, Methods, Quiet
  <2>3. CASE NextVdc(t)
    <3>1. pc[t] = "Vdc" /\ pc'[t] = LoopBody[call[t].m] /\ call' = call
      BY <2>3, ContinueEffect DEF NextVdc
    <3>2. call[t].m \in {"AttachDisk", "DetachDisk", "DeleteDisk", "ListVolumes"}
      BY <3>1 DEF ControlInv, CallInv, MethodAt, Inside, WaitLocations
    <3> QED
      BY <3>1, <3>2, QuietLocal DEF LoopBody, Quiet
  <2>4. CASE NoMoreVdcs(t) \/ ListVdc(t)
    <3>1. pc'[t] \in Quiet
      BY <2>4, ReturnEffect, ContinueEffect DEF NoMoreVdcs, ListVdc, Fails, Quiet
    <3> QED
      BY <3>1, QuietLocal
  <2>5. CASE ApiError(t)
    <3>1. CASE DetachFails(t, FALSE)
      BY <3>1, DetachFailsLocal
    <3>2. CASE Fails(t, "other") \/ Continue(t, "Vdc", loc[t])
      BY <3>2, ReturnEffect, ContinueEffect, QuietLocal DEF Fails, Quiet
    <3> QED
      BY <2>5, <3>1, <3>2 DEF ApiError
  <2> QED
    BY <1>0, <1>1, <2>1, <2>2, <2>3, <2>4, <2>5, CreateLocal, DeleteLocal,
       ResizeLocal, DetachLocal, AttachLocal DEF MethodStep
<1>4. ASSUME NEW u \in Threads, u # t PROVE LocalInv(u)'
  BY <1>2, <1>4, OutsideIsQuiet, QuietLocal
<1> QED
  BY <1>1, <1>3, <1>4, SameCloud DEF CloudInv, LocalInv

(***************************************************************************)
(* A task that runs does what its method counts on.                        *)
(***************************************************************************)
LEMMA TaskRunsCloudInv ==
    ASSUME ControlInv, CloudInv, NEW t \in Threads, TaskRuns(t)
    PROVE  CloudInv'
<1> DEFINE k == task[t]
<1>0. /\ tst[t] = "pending" /\ Runs(k) /\ tst'[t] = "success"
      /\ UNCHANGED <<orphans, mt, pc, call, loc, task, ret>>
      /\ disk \in [Hrefs -> Disk]
  BY DEF TaskRuns, ControlInv, TypeOK
<1>1. /\ pc[t] \in WaitLocations /\ k.kind = KindAt[pc[t]] /\ pc[t] \in Inside
      /\ call[t] \in Calls
  BY <1>0 DEF ControlInv, TaskInv, CallInv, Inside, WaitLocations
<1>2. /\ UniqueName /\ AbsentInv /\ orphans' = {}
      /\ SettingsInv(t) /\ FoundInv(t) /\ RequestInv(t)
  BY <1>0 DEF CloudInv
<1>3. ASSUME NEW u \in Threads, u # t PROVE LocalInv(u)'
  BY <1>0, <1>1, <1>3, OutsideIsQuiet, QuietLocal
<1>4. call[t].m # "ListVolumes" /\ call[t].name \in Names /\ call[t].name # None
  <2>1. call[t].m # "ListVolumes"
    BY <1>1 DEF ControlInv, CallInv, MethodAt, WaitLocations, Inside
  <2> QED
    BY <1>1, <2>1, CallNames, ConstantsAssumption
<1>5. UniqueName' /\ AbsentInv' /\ LocalInv(t)'
  <2>1. CASE pc[t] = "CreateWait"
    <3>1. PICK h \in FreshHrefs :
              disk' = [disk EXCEPT ![h] = [name |-> k.name, size |-> k.size,
                                           vm |-> None, unit |-> 0]]
      BY <1>0, <1>1, <2>1 DEF Runs, CreateRuns, KindAt
    <3>2. /\ h \in Hrefs /\ k.name = call[t].name
          /\ \A g \in Hrefs : disk[g].name # call[t].name
      BY <1>0, <1>2, <2>1 DEF FreshHrefs, RequestInv
    <3>3. UniqueName' /\ AbsentInv'
      BY <1>0, <1>2, <1>4, <3>1, <3>2 DEF UniqueName, AbsentInv
    <3> QED
      BY <1>0, <2>1, <3>2, <3>3 DEF LocalInv, SettingsInv, FoundInv, RequestInv,
         Detaching, DetachLocations, WaitLocations
  <2>2. CASE pc[t] = "DeleteWait"
    <3>1. disk' = [disk EXCEPT ![k.href] = NoDisk]
      BY <1>0, <1>1, <2>2 DEF Runs, DeleteRuns, KindAt
    <3>2. UniqueName' /\ AbsentInv'
      BY <1>0, <1>2, <3>1 DEF UniqueName, AbsentInv, NoDisk
    <3> QED
      BY <1>0, <2>2, <3>2 DEF LocalInv, SettingsInv, FoundInv, RequestInv,
         Detaching, DetachLocations, WaitLocations
  <2>3. CASE pc[t] = "ResizeWait"
    <3>1. disk' = [disk EXCEPT ![k.href].size = k.size] /\ disk[k.href].name # None
      BY <1>0, <1>1, <2>3 DEF Runs, ResizeRuns, KindAt
    <3>2. UniqueName' /\ AbsentInv'
      BY <1>0, <1>2, <3>1 DEF UniqueName, AbsentInv, Disk
    <3> QED
      BY <1>0, <2>3, <3>2 DEF LocalInv, SettingsInv, FoundInv, RequestInv,
         Detaching, DetachLocations, WaitLocations
  <2>4. CASE pc[t] = "AttachWait"
    <3>1. /\ disk' = [disk EXCEPT ![k.href].vm = k.vm, ![k.href].unit = k.unit]
          /\ disk[k.href].name # None
      BY <1>0, <1>1, <2>4 DEF Runs, AttachRuns, KindAt
    <3>2. Named(t, k.href) /\ k.vm = call[t].vm /\ VmVdc[call[t].vm] = HomeVdc[call[t].name]
      BY <1>2, <2>4 DEF RequestInv
    <3>3. /\ disk'[k.href].vm = k.vm /\ disk'[k.href].unit = k.unit
          /\ \A g \in Hrefs : disk'[g].name = disk[g].name
          /\ \A g \in Hrefs : g # k.href => disk'[g] = disk[g]
      BY <1>0, <3>1, <3>2 DEF Disk, Named
    <3>4. UniqueName' /\ AbsentInv'
      BY <1>2, <1>4, <3>2, <3>3 DEF UniqueName, AbsentInv, Named
    <3> QED
      BY <1>0, <2>4, <3>2, <3>3, <3>4 DEF LocalInv, SettingsInv, FoundInv,
         RequestInv, Named, Detaching, DetachLocations, WaitLocations
  <2>5. CASE pc[t] = "DetachWait"
    <3>1. disk' = [disk EXCEPT ![k.href].vm = None, ![k.href].unit = 0]
      BY <1>0, <1>1, <2>5 DEF Runs, DetachRuns, KindAt
    <3>2. /\ Named(t, k.href) /\ disk[k.href].vm = k.vm
          /\ call[t].m = "AttachDisk" => k.vm # call[t].vm
      BY <1>0, <1>2, <2>5 DEF RequestInv
    <3>3. /\ disk'[k.href].vm = None
          /\ \A g \in Hrefs : disk'[g].name = disk[g].name
          /\ \A g \in Hrefs : g # k.href => disk'[g] = disk[g]
      BY <1>0, <3>1, <3>2 DEF Disk, Named
    <3>4. UniqueName' /\ AbsentInv'
      BY <1>2, <1>4, <3>2, <3>3 DEF UniqueName, AbsentInv, Named
    <3>5. call[t].m = "AttachDisk" => DiskSettings(call[t].vm)' = DiskSettings(call[t].vm)
      <4>1. SUFFICES ASSUME call[t].m = "AttachDisk"
                     PROVE  DiskSettings(call[t].vm)' = DiskSettings(call[t].vm)
        OBVIOUS
      <4>2. None # call[t].vm /\ call' = call
        BY <1>0, <1>1, <4>1, CallNames, ConstantsAssumption
      <4>3. DisksAt(call[t].vm)' = DisksAt(call[t].vm)
        BY <3>2, <3>3, <4>1, <4>2 DEF DisksAt
      <4>4. \A g \in DisksAt(call[t].vm) : disk'[g] = disk[g]
        BY <3>2, <3>3, <4>1 DEF DisksAt
      <4> QED
        BY <4>2, <4>3, <4>4 DEF DiskSettings
    <3>6. SettingsInv(t)'
      BY <1>0, <1>2, <2>5, <3>5 DEF SettingsInv, Detaching
    <3>7. FoundInv(t)'
      <4>1. call[t].m = "AttachDisk" => call[t].vm # None
        BY <1>1, CallNames, ConstantsAssumption
      <4> QED
        BY <1>0, <1>2, <2>5, <3>3, <4>1 DEF FoundInv, Named, Detaching, DetachLocations
    <3>8. RequestInv(t)'
      BY <1>0, <2>5, <3>2, <3>3 DEF RequestInv, Named, WaitLocations
    <3> QED
      BY <3>4, <3>6, <3>7, <3>8 DEF LocalInv
  <2> QED
    BY <1>1, <2>1, <2>2, <2>3, <2>4, <2>5 DEF WaitLocations
<1> QED
  BY <1>2, <1>3, <1>5 DEF CloudInv, LocalInv

\* The cloud invariant holds when the client has been built.
LEMMA CloudInvInit == Init => CloudInv
<1> SUFFICES ASSUME Init PROVE CloudInv
  OBVIOUS
<1>1. orphans = {} /\ UniqueName /\ AbsentInv
  BY DEF Init, UniqueName, AbsentInv, NoDisk
<1>2. ASSUME NEW t \in Threads PROVE SettingsInv(t) /\ FoundInv(t) /\ RequestInv(t)
  <2>1. pc[t] = "Idle"
    BY DEF Init
  <2> QED
    BY <2>1 DEF SettingsInv, FoundInv, RequestInv, Detaching, DetachLocations,
       WaitLocations
<1> QED
  BY <1>1, <1>2 DEF CloudInv

\* Every step keeps the cloud invariant, when no answer is lost and nothing crashes.
LEMMA CloudInvStep ==
    ASSUME Faults \subseteq {"api"}
    PROVE  ControlInv /\ CloudInv /\ [Next]_vars => CloudInv'
<1> SUFFICES ASSUME ControlInv, CloudInv, [Next]_vars PROVE CloudInv'
  OBVIOUS
<1>0. pc \in [Threads -> Locations] /\ orphans = {}
  BY DEF ControlInv, TypeOK, CloudInv
<1>1. ASSUME NEW t \in Threads,
             (\E c \in Calls : Invoke(t, c)) \/ Lock(t) \/ Reply(t)
      PROVE  CloudInv'
  <2>1. /\ UNCHANGED <<disk, orphans, loc, task, tst>>
        /\ pc'[t] \in Quiet
        /\ \A u \in Threads : u # t => pc'[u] = pc[u] /\ call'[u] = call[u]
    <3>1. CASE \E c \in Calls : Invoke(t, c)
      BY <1>0, <3>1 DEF Invoke, Goto, cloudVars, taskVars, Quiet, ControlInv, TypeOK
    <3>2. CASE Lock(t)
      BY <1>0, <3>2 DEF Lock, Goto, cloudVars, taskVars, Quiet
    <3>3. CASE Reply(t)
      BY <1>0, <3>3 DEF Reply, Goto, cloudVars, taskVars, Quiet, ControlInv, TypeOK
    <3> QED
      BY <1>1, <3>1, <3>2, <3>3
  <2>2. LocalInv(t)'
    BY <2>1, QuietLocal
  <2>3. ASSUME NEW u \in Threads, u # t PROVE LocalInv(u)'
    <3>1. SettingsInv(u) /\ FoundInv(u) /\ RequestInv(u)
      BY DEF CloudInv
    <3>2. pc'[u] = pc[u] /\ call'[u] = call[u] /\ UNCHANGED <<disk, loc, task, tst>>
      BY <2>1, <2>3
    <3>3. \A m : DiskSettings(m)' = DiskSettings(m)
      BY <3>2, SameCloud
    <3>4. SettingsInv(u)'
      BY <3>1, <3>2, <3>3 DEF SettingsInv, Detaching
    <3>5. FoundInv(u)'
      BY <3>1, <3>2 DEF FoundInv, Detaching, Named
    <3>6. RequestInv(u)'
      BY <3>1, <3>2, <3>3 DEF RequestInv, Named, UnitsOf
    <3> QED
      BY <3>4, <3>5, <3>6 DEF LocalInv
  <2> QED
    BY <2>1, <2>2, <2>3, SameCloud DEF CloudInv, LocalInv
<1>2. ASSUME NEW t \in Threads, MethodStep(t) PROVE CloudInv'
  BY <1>2, MethodStepCloudInv
<1>3. ASSUME NEW t \in Threads, TaskRuns(t) PROVE CloudInv'
  BY <1>3, TaskRunsCloudInv
<1>4. ASSUME NEW t \in Threads, TaskRejected(t) PROVE CloudInv'
  <2>1. /\ tst' = [tst EXCEPT ![t] = "error"]
        /\ UNCHANGED <<disk, orphans, pc, call, loc, task>>
        /\ tst \in [Threads -> {"none", "pending", "success", "error"}]
    BY <1>4 DEF TaskRejected, cloudVars, ControlInv, TypeOK
  <2>2. \A m : DiskSettings(m)' = DiskSettings(m)
    BY <2>1, SameCloud
  <2>3. ASSUME NEW u \in Threads PROVE LocalInv(u)'
    <3>1. SettingsInv(u) /\ FoundInv(u) /\ RequestInv(u)
      BY DEF CloudInv
    <3>2. SettingsInv(u)' /\ FoundInv(u)'
      BY <2>1, <2>2, <3>1 DEF SettingsInv, FoundInv, Detaching, Named
    <3>3. tst'[u] \in {tst[u], "error"}
      BY <2>1
    <3>4. RequestInv(u)'
      BY <2>1, <2>2, <3>1, <3>3 DEF RequestInv, Named, UnitsOf
    <3> QED
      BY <3>2, <3>4 DEF LocalInv
  <2> QED
    BY <2>1, <2>3, SameCloud DEF CloudInv, LocalInv
<1>5. ~Crash
  BY DEF Crash
<1>6. CASE UNCHANGED vars
  <2>1. UNCHANGED <<disk, orphans, pc, call, loc, task, tst>>
    BY <1>6 DEF vars
  <2>2. \A m : DiskSettings(m)' = DiskSettings(m)
    BY <2>1, SameCloud
  <2>3. ASSUME NEW u \in Threads PROVE LocalInv(u)'
    <3>1. SettingsInv(u) /\ FoundInv(u) /\ RequestInv(u)
      BY DEF CloudInv
    <3>2. SettingsInv(u)' /\ FoundInv(u)'
      BY <2>1, <2>2, <3>1 DEF SettingsInv, FoundInv, Detaching, Named
    <3>3. RequestInv(u)'
      BY <2>1, <2>2, <3>1 DEF RequestInv, Named, UnitsOf
    <3> QED
      BY <3>2, <3>3 DEF LocalInv
  <2> QED
    BY <2>1, <2>3, SameCloud DEF CloudInv, LocalInv
<1> QED
  BY <1>0, <1>1, <1>2, <1>3, <1>4, <1>5, <1>6 DEF Next, CloudStep

(***************************************************************************)
(* As long as no answer is lost and the process does not crash, the        *)
(* client's picture of the cloud is exact at every step.                   *)
(***************************************************************************)
THEOREM CloudInvariant ==
    ASSUME Faults \subseteq {"api"}
    PROVE  Spec => [](ControlInv /\ CloudInv)
<1>1. Init => ControlInv /\ CloudInv
  BY ControlInvInit, CloudInvInit
<1>2. (ControlInv /\ CloudInv) /\ [Next]_vars => (ControlInv /\ CloudInv)'
  BY ControlInvStep, CloudInvStep
<1> QED
  BY <1>1, <1>2, PTL DEF Spec

(***************************************************************************)
(* CreateDisk never gives a name to a second disk: between the check of    *)
(* disksExists and the end of the task, v.mt keeps every other method out. *)
(***************************************************************************)
THEOREM NamesUnique ==
    ASSUME Faults \subseteq {"api"}
    PROVE  Spec => []UniqueName
<1>1. ControlInv /\ CloudInv => UniqueName
  BY DEF CloudInv
<1> QED
  BY <1>1, CloudInvariant, PTL

(***************************************************************************)
(* A request that reaches the cloud is based on facts that are still true. *)
(***************************************************************************)
THEOREM RequestsFresh ==
    ASSUME Faults \subseteq {"api"}
    PROVE  Spec => []RequestsNeverStale
<1>1. ControlInv /\ CloudInv => RequestsNeverStale
  <2> SUFFICES ASSUME ControlInv, CloudInv, NEW t \in Threads, tst[t] = "pending"
               PROVE  LET k == task[t] IN
                      /\ k.kind = "create" => \A h \in Hrefs : disk[h].name # k.name
                      /\ k.kind \in {"delete", "attach", "resize"} =>
                            disk[k.href].name = call[t].name /\ disk[k.href].vm = None
                      /\ k.kind = "detach" =>
                            disk[k.href].name = call[t].name /\ disk[k.href].vm = k.vm
                      /\ k.kind = "attach" =>
                            /\ VmVdc[k.vm] = HomeVdc[disk[k.href].name]
                            /\ k.unit # 0 => k.unit \notin UnitsOf(DiskSettings(k.vm), k.vm)
    BY DEF RequestsNeverStale
  <2>1. pc[t] \in WaitLocations /\ task[t].kind = KindAt[pc[t]] /\ RequestInv(t)
    BY DEF ControlInv, TaskInv, CloudInv
  <2> QED
    BY <2>1 DEF RequestInv, KindAt, WaitLocations, Named
<1> QED
  BY <1>1, CloudInvariant, PTL

(***************************************************************************)
(* AttachDisk never detaches a disk from the VM it is to attach it to.     *)
(***************************************************************************)
THEOREM OwnDiskKept ==
    ASSUME Faults \subseteq {"api"}
    PROVE  Spec => []AttachKeepsOwnDisk
<1>1. ControlInv /\ CloudInv => AttachKeepsOwnDisk
  BY DEF CloudInv, RequestInv, AttachKeepsOwnDisk
<1> QED
  BY <1>1, CloudInvariant, PTL

\* The result that Return leaves.
LEMMA ReturnResult ==
    ASSUME ControlInv, NEW t \in Threads, NEW e, NEW n, NEW l, Return(t, e, n, l)
    PROVE  ret'[t].err = e /\ ret'[t].unit = n
BY DEF Return, ControlInv, TypeOK

\* The two steps in which AttachDisk returns without an error.
LEMMA AttachEnds ==
    ASSUME ControlInv, NEW t \in Threads, MethodStep(t), ReturnsOk(t, "AttachDisk")
    PROVE  \/ AttachFindDisk(t)
           \/ /\ pc[t] = "AttachWait" /\ tst[t] = "success"
              /\ ret'[t].unit = task[t].unit
<1>0. /\ pc'[t] = "Done" /\ call[t].m = "AttachDisk" /\ ret'[t].err = "nil"
      /\ pc[t] \notin {"Idle", "Done"}
  BY DEF ReturnsOk
<1>1. \A e : Fails(t, e) => e = "nil"
  BY <1>0, ReturnResult DEF Fails
<1>2. \A l, r : Continue(t, l, r) => l = "Done"
  BY <1>0, ContinueEffect
<1>3. \A l, k : Send(t, l, k) => l = "Done"
  BY <1>0, SendEffect
<1>4. ~DetachReturns(t) /\ \A b : ~DetachFails(t, b)
  BY <1>0, <1>1, <1>2 DEF DetachReturns, DetachFails
<1>5. pc[t] \in Inside => MethodAt("AttachDisk", pc[t])
  BY <1>0 DEF ControlInv, CallInv
<1>6. CASE TaskDone(t)
  <2>1. pc[t] = "AttachWait"
    BY <1>4, <1>5, <1>6 DEF TaskDone, MethodAt, Inside, WaitLocations
  <2>2. Return(t, "nil", task[t].unit, {}) /\ tst[t] = "success"
    BY <1>6, <2>1 DEF TaskDone
  <2> QED
    BY <2>1, <2>2, ReturnResult
<1>7. ~TaskFailed(t) /\ ~AnswerLost(t)
  BY <1>1, <1>4 DEF TaskFailed, AnswerLost, WaitFails
<1>8. ~RefreshAuth(t)
  BY <1>0, <1>2 DEF RefreshAuth, Body
<1>9. ~NextVdc(t) /\ ~NoMoreVdcs(t)
  <2>1. LoopBody[call[t].m] # "Done"
    BY <1>0 DEF LoopBody
  <2>2. ~NextVdc(t)
    BY <1>2, <2>1 DEF NextVdc
  <2>3. ~NoMoreVdcs(t)
    BY <1>0, <1>1 DEF NoMoreVdcs
  <2> QED
    BY <2>2, <2>3
<1>10. ~CreateSend(t) /\ ~ResizeSend(t) /\ ~ListVdc(t) /\ ~DeleteFind(t) /\ ~DeleteSend(t)
  BY <1>5 DEF CreateSend, ResizeSend, ListVdc, DeleteFind, DeleteSend, MethodAt,
     Inside, WaitLocations
<1>11. ~DetachFind(t) /\ ~DetachSend(t)
  BY <1>2, <1>3, <1>4 DEF DetachFind, DetachSend
<1>12. ~AttachFindVm(t) /\ ~AttachSend(t)
  BY <1>2, <1>3 DEF AttachFindVm, AttachSend
<1>13. ~ApiError(t)
  BY <1>1, <1>2, <1>4 DEF ApiError
<1> QED
  BY <1>6, <1>7, <1>8, <1>9, <1>10, <1>11, <1>12, <1>13 DEF MethodStep

(***************************************************************************)
(* What AttachDisk reports is true when it returns: the disk is at the VM, *)
(* at the unit the node is told to look for.                               *)
(***************************************************************************)
THEOREM AttachTruthful ==
    ASSUME Faults \subseteq {"api"}
    PROVE  Spec => AttachReportsTruth
<1> DEFINE A == \A t \in Threads : ReturnsOk(t, "AttachDisk") =>
                   \E h \in Hrefs : /\ disk'[h].name = call[t].name
                                    /\ disk'[h].vm = call[t].vm
                                    /\ disk'[h].unit = ret'[t].unit
<1>1. (ControlInv /\ CloudInv) /\ [Next]_vars => [A]_vars
  <2> SUFFICES ASSUME ControlInv, CloudInv, Next, NEW t \in Threads,
                      ReturnsOk(t, "AttachDisk")
               PROVE  \E h \in Hrefs : /\ disk'[h].name = call[t].name
                                       /\ disk'[h].vm = call[t].vm
                                       /\ disk'[h].unit = ret'[t].unit
    OBVIOUS
  <2>0. /\ pc'[t] = "Done" /\ pc[t] \notin {"Idle", "Done"}
        /\ pc \in [Threads -> Locations] /\ orphans = {}
    BY DEF ReturnsOk, ControlInv, TypeOK, CloudInv
  <2>1. ASSUME NEW u \in Threads, (\E c \in Calls : Invoke(u, c)) \/ Lock(u) \/ Reply(u)
        PROVE  FALSE
    BY <2>0, <2>1 DEF Invoke, Lock, Reply, Goto
  <2>2. ~CloudStep
    BY <2>0 DEF CloudStep, TaskRuns, TaskRejected
  <2>3. ~Crash
    BY DEF Crash
  <2>4. PICK u \in Threads : MethodStep(u)
    BY <2>1, <2>2, <2>3 DEF Next
  <2>5. MethodStep(t)
    <3>1. SUFFICES ASSUME u # t PROVE FALSE
      BY <2>4
    <3> QED
      BY <2>0, <2>4, <3>1, InsideSteps
  <2>6. disk' = disk
    BY <2>5, MethodStepCloud
  <2>7. CASE /\ pc[t] = "AttachWait" /\ tst[t] = "success"
             /\ ret'[t].unit = task[t].unit
    <3>1. RequestInv(t)
      BY DEF CloudInv
    <3> QED
      BY <2>6, <2>7, <3>1 DEF RequestInv, Named
  <2>8. CASE AttachFindDisk(t)
    <3>1. PICK h \in Hrefs : /\ DisksNamed(loc[t].cur, call[t].name) = {h}
                             /\ disk[h].vm = call[t].vm
                             /\ \E u1 \in UnitsSeen(t, h) : Return(t, "nil", u1, {})
      <4>1. ~Fails(t, "ErrDiskNotExists") /\ ~Fails(t, "other")
        BY ReturnResult DEF Fails, ReturnsOk
      <4>2. \A h \in Hrefs : ~Continue(t, IF disk[h].vm # None THEN "DetDisk" ELSE "AttSend",
                                        [loc[t] EXCEPT !.disk = h])
        BY <2>0, ContinueEffect
      <4> QED
        BY <2>8, <4>1, <4>2 DEF AttachFindDisk
    <3>2. disk[h].name = call[t].name
      BY <3>1 DEF DisksNamed
    <3>3. ret'[t].unit \in UnitsSeen(t, h)
      BY <3>1, ReturnResult
    <3>4. loc[t].spec = DiskSettings(call[t].vm)
      BY <2>8 DEF AttachFindDisk, CloudInv, SettingsInv
    <3>5. ret'[t].unit = disk[h].unit
      BY <3>3, <3>4 DEF UnitsSeen, DiskSettings
    <3> QED
      BY <2>6, <3>1, <3>2, <3>5
  <2> QED
    BY <2>5, <2>7, <2>8, AttachEnds
<1> QED
  BY <1>1, CloudInvariant, PTL DEF Spec, AttachReportsTruth
=============================================================================
