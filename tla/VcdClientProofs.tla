--------------------------- MODULE VcdClientProofs ---------------------------
(* Proofs about VcdClient, for every value of its constants. *)
EXTENDS VcdClient, TLAPS

\* What the steps of a method change, apart from the cloud.
MethodTypeOK ==
    /\ mt \in Threads \cup {None}
    /\ pc \in [Threads -> Locations]
    /\ call \in [Threads -> Call]
    /\ loc \in [Threads -> Locals]
    /\ task \in [Threads -> Request]
    /\ tst \in [Threads -> {"none", "pending", "success", "error"}]
    /\ ret \in [Threads -> Result]

MethodInv == MethodTypeOK /\ CallInv /\ MutexInv /\ TaskInv

(***************************************************************************)
(* The constants a thread's state is reset to have their types.            *)
(***************************************************************************)
LEMMA Defaults ==
    /\ NoDisk \in Disk /\ NoCall \in Call /\ NoRequest \in Request
    /\ NoLocals \in Locals /\ NoResult \in Result
BY DEF NoDisk, Disk, NoCall, Call, NoRequest, Request, NoLocals, Locals,
       NoResult, Result, Errors, Volume

(***************************************************************************)
(* A method that returns (its deferred Unlock included) keeps the          *)
(* invariant.                                                              *)
(***************************************************************************)
LEMMA ReturnKeeps ==
    ASSUME ControlInv, NEW t \in Threads, pc[t] \in Inside,
           NEW e \in Errors, NEW u \in Nat, NEW l \in SUBSET Volume,
           Return(t, e, u, l)
    PROVE  MethodInv'
<1> USE DEF ControlInv, TypeOK
<1>1. MethodTypeOK'
  <2>1. [err |-> e, unit |-> u, list |-> l] \in Result
    BY DEF Result
  <2>2. "Done" \in Locations
    BY DEF Locations
  <2> QED
    BY <2>1, <2>2, Defaults DEF MethodTypeOK, Return, Goto, Unlock
<1>2. pc' = [pc EXCEPT ![t] = "Done"] /\ call' = call /\ mt' = None
      /\ tst' = [tst EXCEPT ![t] = "none"] /\ task' = [task EXCEPT ![t] = NoRequest]
  BY DEF Return, Goto, Unlock
<1>3. CallInv'
  BY <1>2 DEF CallInv, Inside, WaitLocations
<1>4. MutexInv'
  BY <1>2, ConstantsAssumption DEF MutexInv, Inside, WaitLocations
<1>5. TaskInv'
  BY <1>2 DEF TaskInv, WaitLocations
<1> QED
  BY <1>1, <1>3, <1>4, <1>5 DEF MethodInv

(***************************************************************************)
(* A method that goes on to one of its own locations keeps the invariant.  *)
(***************************************************************************)
LEMMA ContinueKeeps ==
    ASSUME ControlInv, NEW t \in Threads, pc[t] \in Inside,
           NEW l \in Inside \ WaitLocations, MethodAt(call[t].m, l),
           NEW r \in Locals, Continue(t, l, r)
    PROVE  MethodInv'
<1> USE DEF ControlInv, TypeOK
<1>1. MethodTypeOK'
  BY Defaults DEF MethodTypeOK, Continue, Goto, Locations
<1>2. pc' = [pc EXCEPT ![t] = l] /\ call' = call /\ mt' = mt
      /\ tst' = [tst EXCEPT ![t] = "none"] /\ task' = [task EXCEPT ![t] = NoRequest]
  BY DEF Continue, Goto
<1>3. CallInv'
  BY <1>2 DEF CallInv, Inside, WaitLocations
<1>4. MutexInv'
  BY <1>2 DEF MutexInv
<1>5. TaskInv'
  BY <1>2 DEF TaskInv
<1> QED
  BY <1>1, <1>3, <1>4, <1>5 DEF MethodInv

(***************************************************************************)
(* So does a method that sends a request and waits for its task.           *)
(***************************************************************************)
LEMMA SendKeeps ==
    ASSUME ControlInv, NEW t \in Threads, pc[t] \in Inside,
           NEW l \in WaitLocations, MethodAt(call[t].m, l),
           NEW k \in Request, k.kind = KindAt[l], Send(t, l, k)
    PROVE  MethodInv'
<1> USE DEF ControlInv, TypeOK
<1>0. l \in Inside
  BY DEF Inside
<1>1. MethodTypeOK'
  BY <1>0 DEF MethodTypeOK, Send, Goto, Locations
<1>2. pc' = [pc EXCEPT ![t] = l] /\ call' = call /\ mt' = mt
      /\ tst' = [tst EXCEPT ![t] = "pending"] /\ task' = [task EXCEPT ![t] = k]
  BY DEF Send, Goto
<1>3. CallInv'
  BY <1>2, <1>0 DEF CallInv, Inside, WaitLocations
<1>4. MutexInv'
  BY <1>2, <1>0 DEF MutexInv
<1>5. TaskInv'
  BY <1>2 DEF TaskInv
<1> QED
  BY <1>1, <1>3, <1>4, <1>5 DEF MethodInv

\* detachDisk returning to its caller keeps the control invariant.
LEMMA DetachReturnsKeeps ==
    ASSUME ControlInv, NEW t \in Threads, pc[t] \in DetachLocations,
           DetachReturns(t)
    PROVE  MethodInv'
<1>0. pc[t] \in Inside /\ loc[t] \in Locals
  BY DEF DetachLocations, Inside, WaitLocations, ControlInv, TypeOK
<1>1. CASE call[t].m = "DetachDisk" /\ Return(t, "nil", 0, {})
  BY <1>0, <1>1, ReturnKeeps DEF Errors
<1>2. CASE call[t].m = "DeleteDisk" /\ Continue(t, "DelSend", loc[t])
  <2>1. MethodAt(call[t].m, "DelSend") /\ "DelSend" \in Inside \ WaitLocations
    BY <1>2 DEF MethodAt, Inside, WaitLocations
  <2> QED
    BY <1>0, <1>2, <2>1, ContinueKeeps
<1>3. CASE call[t].m = "AttachDisk" /\ Continue(t, "AttSend", loc[t])
  <2>1. MethodAt(call[t].m, "AttSend") /\ "AttSend" \in Inside \ WaitLocations
    BY <1>3 DEF MethodAt, Inside, WaitLocations
  <2> QED
    BY <1>0, <1>3, <2>1, ContinueKeeps
<1> QED
  BY <1>1, <1>2, <1>3 DEF DetachReturns

\* So does detachDisk returning with an error.
LEMMA DetachFailsKeeps ==
    ASSUME ControlInv, NEW t \in Threads, pc[t] \in DetachLocations,
           NEW notFound, DetachFails(t, notFound)
    PROVE  MethodInv'
<1>0. pc[t] \in Inside /\ loc[t] \in Locals
  BY DEF DetachLocations, Inside, WaitLocations, ControlInv, TypeOK
<1>1. CASE call[t].m = "DetachDisk" /\ Continue(t, "Vdc", loc[t])
  <2>1. MethodAt(call[t].m, "Vdc") /\ "Vdc" \in Inside \ WaitLocations
    BY <1>1 DEF MethodAt, Inside, WaitLocations
  <2> QED
    BY <1>0, <1>1, <2>1, ContinueKeeps
<1>2. CASE Fails(t, "other")
  BY <1>0, <1>2, ReturnKeeps DEF Errors, Fails
<1>3. CASE Fails(t, "ErrWrongDiskAttach")
  BY <1>0, <1>3, ReturnKeeps DEF Errors, Fails
<1> QED
  BY <1>1, <1>2, <1>3 DEF DetachFails

(***************************************************************************)
(* The steps of the methods, one lemma per step that does more than send   *)
(* or return.                                                              *)
(***************************************************************************)
LEMMA LoopKeeps ==
    ASSUME ControlInv, NEW t \in Threads,
           RefreshAuth(t) \/ NextVdc(t) \/ NoMoreVdcs(t)
    PROVE  MethodInv'
<1>0. loc[t] \in Locals /\ call \in [Threads -> Call]
  BY DEF ControlInv, TypeOK
<1>1. CASE RefreshAuth(t)
  <2> DEFINE start == Body[call[t].m]
             r == [loc[t] EXCEPT !.todo = IF start = "Vdc" THEN Vdcs ELSE {}]
  <2>1. pc[t] = "Auth" /\ pc[t] \in Inside /\ Continue(t, start, r)
    BY <1>1 DEF RefreshAuth, Inside
  <2>2. call[t].m \in Methods
    BY <2>1 DEF ControlInv, CallInv, MethodAt, WaitLocations
  <2>3. MethodAt(call[t].m, start) /\ start \in Inside \ WaitLocations
    BY <2>2 DEF Methods, Body, MethodAt, Inside, WaitLocations
  <2>4. r \in Locals
    BY <1>0 DEF Locals
  <2> QED
    BY <2>1, <2>3, <2>4, ContinueKeeps
<1>2. CASE NextVdc(t)
  <2>1. pc[t] = "Vdc" /\ pc[t] \in Inside
    BY <1>2 DEF NextVdc, Inside
  <2>2. PICK w \in loc[t].todo :
            Continue(t, LoopBody[call[t].m],
                     [loc[t] EXCEPT !.todo = @ \ {w}, !.cur = w])
    BY <1>2 DEF NextVdc
  <2>3. call[t].m \in {"AttachDisk", "DetachDisk", "DeleteDisk", "ListVolumes"}
    BY <2>1 DEF ControlInv, CallInv, MethodAt, WaitLocations
  <2>4. /\ MethodAt(call[t].m, LoopBody[call[t].m])
        /\ LoopBody[call[t].m] \in Inside \ WaitLocations
    BY <2>3 DEF LoopBody, MethodAt, Inside, WaitLocations
  <2>5. [loc[t] EXCEPT !.todo = @ \ {w}, !.cur = w] \in Locals
    BY <1>0 DEF Locals
  <2> QED
    BY <2>1, <2>2, <2>4, <2>5, ContinueKeeps
<1>3. CASE NoMoreVdcs(t)
  <2>1. pc[t] \in Inside /\ loc[t].list \in SUBSET Volume
    BY <1>0, <1>3 DEF NoMoreVdcs, Inside, Locals
  <2>2. CASE Fails(t, "ErrVmNotFound")
    BY <2>1, <2>2, ReturnKeeps DEF Fails, Errors
  <2>3. CASE Return(t, "nil", 0, loc[t].list)
    BY <2>1, <2>3, ReturnKeeps DEF Errors
  <2> QED
    BY <1>3, <2>2, <2>3 DEF NoMoreVdcs
<1> QED
  BY <1>1, <1>2, <1>3

\* The steps of CreateDisk (client.go:175-231) keep it.
LEMMA CreateKeeps ==
    ASSUME ControlInv, NEW t \in Threads, CreateSend(t)
    PROVE  MethodInv'
<1> DEFINE k == [NoRequest EXCEPT !.kind = "create", !.name = call[t].name,
                                  !.size = call[t].size]
<1>1. pc[t] = "Create" /\ pc[t] \in Inside
  BY DEF CreateSend, Inside
<1>2. CASE Return(t, "nil", 0, {}) \/ Fails(t, "other")
  BY <1>1, <1>2, ReturnKeeps DEF Fails, Errors
<1>3. CASE Send(t, "CreateWait", k)
  <2>1. call[t].m = "CreateDisk" /\ call[t] \in Call
    BY <1>1 DEF ControlInv, TypeOK, CallInv, MethodAt, WaitLocations
  <2>2. k \in Request /\ k.kind = KindAt["CreateWait"]
    BY <2>1, Defaults DEF NoRequest, Request, Call, KindAt
  <2>3. MethodAt(call[t].m, "CreateWait") /\ "CreateWait" \in WaitLocations
    BY <2>1 DEF MethodAt, WaitLocations
  <2> QED
    BY <1>1, <1>3, <2>2, <2>3, SendKeeps
<1> QED
  BY <1>2, <1>3 DEF CreateSend

\* The steps of DeleteDisk (client.go:233-293) keep it.
LEMMA DeleteKeeps ==
    ASSUME ControlInv, NEW t \in Threads, DeleteFind(t) \/ DeleteSend(t)
    PROVE  MethodInv'
<1>0. loc[t] \in Locals
  BY DEF ControlInv, TypeOK
<1>1. CASE DeleteFind(t)
  <2>1. pc[t] \in Inside /\ call[t].m = "DeleteDisk"
    BY <1>1 DEF DeleteFind, ControlInv, CallInv, MethodAt, Inside, WaitLocations
  <2>2. \A l \in {"Vdc", "DetDisk", "DelSend"} :
            MethodAt(call[t].m, l) /\ l \in Inside \ WaitLocations
    BY <2>1 DEF MethodAt, Inside, WaitLocations
  <2>3. CASE Continue(t, "Vdc", loc[t])
    BY <1>0, <2>1, <2>2, <2>3, ContinueKeeps
  <2>4. ASSUME NEW h \in Hrefs,
               Continue(t, IF disk[h].vm # None THEN "DetDisk" ELSE "DelSend",
                        [loc[t] EXCEPT !.disk = h])
        PROVE  MethodInv'
    <3>1. [loc[t] EXCEPT !.disk = h] \in Locals
      BY <1>0 DEF Locals
    <3> QED
      BY <2>1, <2>2, <2>4, <3>1, ContinueKeeps
  <2> QED
    BY <1>1, <2>3, <2>4 DEF DeleteFind
<1>2. CASE DeleteSend(t)
  <2> DEFINE k == [NoRequest EXCEPT !.kind = "delete", !.href = loc[t].disk]
  <2>1. pc[t] \in Inside /\ call[t].m = "DeleteDisk" /\ Send(t, "DeleteWait", k)
    BY <1>2 DEF DeleteSend, ControlInv, CallInv, MethodAt, Inside, WaitLocations
  <2>2. k \in Request /\ k.kind = KindAt["DeleteWait"]
    BY <1>0, Defaults DEF NoRequest, Request, Locals, KindAt
  <2>3. MethodAt(call[t].m, "DeleteWait") /\ "DeleteWait" \in WaitLocations
    BY <2>1 DEF MethodAt, WaitLocations
  <2> QED
    BY <2>1, <2>2, <2>3, SendKeeps
<1> QED
  BY <1>1, <1>2

\* The steps of detachDisk (client.go:504-553) keep it.
LEMMA DetachKeeps ==
    ASSUME ControlInv, NEW t \in Threads, DetachFind(t) \/ DetachSend(t)
    PROVE  MethodInv'
<1>0. /\ pc[t] \in DetachLocations /\ pc[t] \in Inside
      /\ loc[t] \in Locals /\ disk \in [Hrefs -> Disk]
      /\ call[t].m \in {"AttachDisk", "DetachDisk", "DeleteDisk"}
  BY DEF DetachFind, DetachSend, ControlInv, TypeOK, CallInv, MethodAt,
         DetachLocations, Inside, WaitLocations
<1>1. CASE \E b \in BOOLEAN : DetachFails(t, b)
  BY <1>0, <1>1, DetachFailsKeeps
<1>2. CASE DetachReturns(t)
  BY <1>0, <1>2, DetachReturnsKeeps
<1>3. CASE DetachFind(t)
  <2>1. ASSUME NEW h \in Hrefs,
               Continue(t, "DetVm", [loc[t] EXCEPT !.ddisk = h, !.avm = disk[h].vm])
        PROVE  MethodInv'
    <3>1. [loc[t] EXCEPT !.ddisk = h, !.avm = disk[h].vm] \in Locals
      BY <1>0 DEF Locals, Disk
    <3>2. MethodAt(call[t].m, "DetVm") /\ "DetVm" \in Inside \ WaitLocations
      BY <1>0 DEF MethodAt, Inside, WaitLocations
    <3> QED
      BY <1>0, <2>1, <3>1, <3>2, ContinueKeeps
  <2>2. (DisksNamed(loc[t].cur, call[t].name) = {}) \in BOOLEAN
    OBVIOUS
  <2> QED
    BY <1>1, <1>2, <1>3, <2>1, <2>2 DEF DetachFind
<1>4. CASE DetachSend(t)
  <2>1. ASSUME NEW p \in DiskSettings(loc[t].avm),
               Send(t, "DetachWait",
                    [NoRequest EXCEPT !.kind = "detach", !.href = loc[t].ddisk,
                                      !.vm = loc[t].avm, !.unit = p[2]])
        PROVE  MethodInv'
    <3> DEFINE k == [NoRequest EXCEPT !.kind = "detach", !.href = loc[t].ddisk,
                                      !.vm = loc[t].avm, !.unit = p[2]]
    <3>1. p[2] \in Nat
      BY <1>0 DEF DiskSettings, DisksAt, Disk
    <3>2. k \in Request /\ k.kind = KindAt["DetachWait"]
      BY <1>0, <3>1, Defaults DEF NoRequest, Request, Locals, KindAt
    <3>3. MethodAt(call[t].m, "DetachWait") /\ "DetachWait" \in WaitLocations
      BY <1>0 DEF MethodAt, WaitLocations
    <3> QED
      BY <1>0, <2>1, <3>2, <3>3, SendKeeps
  <2> QED
    BY <1>1, <1>2, <1>4, <2>1 DEF DetachSend
<1> QED
  BY <1>3, <1>4

\* The unit AttachDisk asks for is a number.
LEMMA UnitChoicesType ==
    ASSUME NEW spec, NEW m PROVE UnitChoices(spec, m) \subseteq Nat
<1>1. FreeUnits(spec, m) \subseteq Nat
  <2>1. ReservedUnits \subseteq Nat
    BY ConstantsAssumption
  <2> QED
    BY <2>1 DEF FreeUnits
<1>2. {0} \subseteq Nat
  OBVIOUS
<1> QED
  BY <1>1, <1>2 DEF UnitChoices

\* The steps of AttachDisk (client.go:337-453) keep it.
LEMMA AttachKeeps ==
    ASSUME ControlInv, NEW t \in Threads,
           AttachFindVm(t) \/ AttachFindDisk(t) \/ AttachSend(t)
    PROVE  MethodInv'
<1>0. /\ pc[t] \in Inside /\ call[t].m = "AttachDisk" /\ call[t] \in Call
      /\ loc[t] \in Locals /\ disk \in [Hrefs -> Disk]
  BY DEF AttachFindVm, AttachFindDisk, AttachSend, ControlInv, TypeOK, CallInv,
         MethodAt, Inside, WaitLocations
<1>1. \A l \in {"Vdc", "AttDisk", "DetDisk", "AttSend"} :
          MethodAt(call[t].m, l) /\ l \in Inside \ WaitLocations
  BY <1>0 DEF MethodAt, Inside, WaitLocations
<1>2. CASE AttachFindVm(t)
  <2>1. CASE Continue(t, "Vdc", loc[t])
    BY <1>0, <1>1, <2>1, ContinueKeeps
  <2>2. CASE Continue(t, "AttDisk", [loc[t] EXCEPT !.spec = DiskSettings(call[t].vm)])
    <3>1. DiskSettings(call[t].vm) \in SUBSET (Hrefs \X Nat)
      BY <1>0 DEF DiskSettings, DisksAt, Disk
    <3>2. [loc[t] EXCEPT !.spec = DiskSettings(call[t].vm)] \in Locals
      BY <1>0, <3>1 DEF Locals
    <3> QED
      BY <1>0, <1>1, <2>2, <3>2, ContinueKeeps
  <2> QED
    BY <1>2, <2>1, <2>2 DEF AttachFindVm
<1>3. CASE AttachFindDisk(t)
  <2>1. CASE Fails(t, "ErrDiskNotExists") \/ Fails(t, "other")
    BY <1>0, <2>1, ReturnKeeps DEF Fails, Errors
  <2>2. ASSUME NEW h \in Hrefs, NEW u \in UnitsSeen(t, h), Return(t, "nil", u, {})
        PROVE  MethodInv'
    <3>1. u \in Nat
      BY <1>0 DEF UnitsSeen, Locals
    <3> QED
      BY <1>0, <2>2, <3>1, ReturnKeeps DEF Errors
  <2>3. ASSUME NEW h \in Hrefs,
               Continue(t, IF disk[h].vm # None THEN "DetDisk" ELSE "AttSend",
                        [loc[t] EXCEPT !.disk = h])
        PROVE  MethodInv'
    <3>1. [loc[t] EXCEPT !.disk = h] \in Locals
      BY <1>0 DEF Locals
    <3> QED
      BY <1>0, <1>1, <2>3, <3>1, ContinueKeeps
  <2> QED
    BY <1>3, <2>1, <2>2, <2>3 DEF AttachFindDisk
<1>4. CASE AttachSend(t)
  <2>1. PICK u \in UnitChoices(loc[t].spec, call[t].vm) :
            Send(t, "AttachWait",
                 [NoRequest EXCEPT !.kind = "attach", !.href = loc[t].disk,
                                   !.vm = call[t].vm, !.unit = u])
    BY <1>4 DEF AttachSend
  <2> DEFINE k == [NoRequest EXCEPT !.kind = "attach", !.href = loc[t].disk,
                                    !.vm = call[t].vm, !.unit = u]
  <2>2. u \in Nat
    BY UnitChoicesType
  <2>3. k \in Request /\ k.kind = KindAt["AttachWait"]
    BY <1>0, <2>2, Defaults DEF NoRequest, Request, Locals, Call, KindAt
  <2>4. MethodAt(call[t].m, "AttachWait") /\ "AttachWait" \in WaitLocations
    BY <1>0 DEF MethodAt, WaitLocations
  <2> QED
    BY <1>0, <2>1, <2>3, <2>4, SendKeeps
<1> QED
  BY <1>2, <1>3, <1>4

\* The step of ResizeDisk (client.go:455-501) keeps it.
LEMMA ResizeKeeps ==
    ASSUME ControlInv, NEW t \in Threads, ResizeSend(t)
    PROVE  MethodInv'
<1>0. pc[t] \in Inside /\ call[t].m = "ResizeDisk" /\ call[t] \in Call
  BY DEF ResizeSend, ControlInv, TypeOK, CallInv, MethodAt, Inside, WaitLocations
<1>1. CASE Fails(t, "other") \/ Fails(t, "ErrDiskAttachedToVm")
  BY <1>0, <1>1, ReturnKeeps DEF Fails, Errors
<1>2. ASSUME NEW h \in Hrefs,
             Send(t, "ResizeWait", [NoRequest EXCEPT !.kind = "resize",
                                      !.href = h, !.size = call[t].size])
      PROVE  MethodInv'
  <2> DEFINE k == [NoRequest EXCEPT !.kind = "resize", !.href = h,
                                    !.size = call[t].size]
  <2>1. k \in Request /\ k.kind = KindAt["ResizeWait"]
    BY <1>0, Defaults DEF NoRequest, Request, Call, KindAt
  <2>2. MethodAt(call[t].m, "ResizeWait") /\ "ResizeWait" \in WaitLocations
    BY <1>0 DEF MethodAt, WaitLocations
  <2> QED
    BY <1>0, <1>2, <2>1, <2>2, SendKeeps
<1> QED
  BY <1>1, <1>2 DEF ResizeSend

\* The step of ListVolumes (client.go:133-172) keeps it.
LEMMA ListKeeps ==
    ASSUME ControlInv, NEW t \in Threads, ListVdc(t)
    PROVE  MethodInv'
<1>0. /\ pc[t] \in Inside /\ call[t].m = "ListVolumes"
      /\ loc[t] \in Locals /\ disk \in [Hrefs -> Disk]
  BY DEF ListVdc, ControlInv, TypeOK, CallInv, MethodAt, Inside, WaitLocations
<1> DEFINE new == {[name |-> disk[h].name, size |-> disk[h].size] :
                      h \in {g \in Hrefs : /\ disk[g].name # None
                                           /\ HomeVdc[disk[g].name] = loc[t].cur}}
           r == [loc[t] EXCEPT !.list = @ \cup new]
<1>1. new \subseteq Volume
  BY <1>0 DEF Volume, Disk
<1>2. r \in Locals
  <2> HIDE DEF new
  <2> QED
    BY <1>0, <1>1 DEF Locals
<1>3. MethodAt(call[t].m, "Vdc") /\ "Vdc" \in Inside \ WaitLocations
  BY <1>0 DEF MethodAt, Inside, WaitLocations
<1>4. Continue(t, "Vdc", r)
  BY DEF ListVdc
<1> QED
  BY <1>0, <1>2, <1>3, <1>4, ContinueKeeps

\* The ends of WaitTaskCompletion keep it.
LEMMA WaitKeeps ==
    ASSUME ControlInv, NEW t \in Threads,
           TaskDone(t) \/ WaitFails(t)
    PROVE  MethodInv'
<1>0. /\ pc[t] \in Inside /\ task[t] \in Request
      /\ pc[t] = "DetachWait" => pc[t] \in DetachLocations
  BY DEF TaskDone, WaitFails, ControlInv, TypeOK, Inside, DetachLocations
<1>1. CASE TaskDone(t)
  <2>1. CASE pc[t] = "DetachWait" /\ DetachReturns(t)
    BY <1>0, <2>1, DetachReturnsKeeps
  <2>2. CASE Return(t, "nil", task[t].unit, {})
    <3>1. task[t].unit \in Nat
      BY <1>0 DEF Request
    <3> QED
      BY <1>0, <2>2, <3>1, ReturnKeeps DEF Errors
  <2>3. CASE Return(t, "nil", 0, {})
    BY <1>0, <2>3, ReturnKeeps DEF Errors
  <2> QED
    BY <1>1, <2>1, <2>2, <2>3 DEF TaskDone
<1>2. CASE WaitFails(t)
  <2>1. CASE pc[t] = "DetachWait" /\ DetachFails(t, FALSE)
    BY <1>0, <2>1, DetachFailsKeeps
  <2>2. CASE Fails(t, "other")
    BY <1>0, <2>2, ReturnKeeps DEF Fails, Errors
  <2> QED
    BY <1>2, <2>1, <2>2 DEF WaitFails
<1> QED
  BY <1>1, <1>2

\* A read that fails keeps it.
LEMMA ApiErrorKeeps ==
    ASSUME ControlInv, NEW t \in Threads, ApiError(t)
    PROVE  MethodInv'
<1>0. /\ pc[t] \in Inside /\ loc[t] \in Locals
      /\ pc[t] \in {"DetDisk", "DetVm"} => pc[t] \in DetachLocations
  BY DEF ApiError, ControlInv, TypeOK, Inside, DetachLocations
<1>1. CASE Fails(t, "other")
  BY <1>0, <1>1, ReturnKeeps DEF Fails, Errors
<1>2. CASE pc[t] \in {"DetDisk", "DetVm"} /\ DetachFails(t, FALSE)
  BY <1>0, <1>2, DetachFailsKeeps
<1>3. CASE pc[t] = "DelDisk" /\ Continue(t, "Vdc", loc[t])
  <2>1. MethodAt(call[t].m, "Vdc") /\ "Vdc" \in Inside \ WaitLocations
    BY <1>0, <1>3 DEF ControlInv, CallInv, MethodAt, Inside, WaitLocations
  <2> QED
    BY <1>0, <1>3, <2>1, ContinueKeeps
<1> QED
  BY <1>1, <1>2, <1>3 DEF ApiError

(***************************************************************************)
(* Every step of a method keeps the control invariant.                     *)
(***************************************************************************)
LEMMA MethodStepKeeps ==
    ASSUME ControlInv, NEW t \in Threads, MethodStep(t)
    PROVE  MethodInv'
<1>1. CASE TaskDone(t) \/ TaskFailed(t) \/ AnswerLost(t)
  <2>1. TaskDone(t) \/ WaitFails(t)
    BY <1>1 DEF TaskFailed, AnswerLost
  <2> QED
    BY <2>1, WaitKeeps
<1>2. CASE RefreshAuth(t) \/ NextVdc(t) \/ NoMoreVdcs(t)
  BY <1>2, LoopKeeps
<1>3. CASE DeleteFind(t) \/ DeleteSend(t)
  BY <1>3, DeleteKeeps
<1>4. CASE DetachFind(t) \/ DetachSend(t)
  BY <1>4, DetachKeeps
<1>5. CASE AttachFindVm(t) \/ AttachFindDisk(t) \/ AttachSend(t)
  BY <1>5, AttachKeeps
<1> QED
  BY <1>1, <1>2, <1>3, <1>4, <1>5, CreateKeeps, ResizeKeeps, ListKeeps,
     ApiErrorKeeps DEF MethodStep

(***************************************************************************)
(* No step of a method changes the cloud; AnswerLost leaves its request    *)
(* behind.                                                                 *)
(***************************************************************************)
LEMMA MethodStepCloud ==
    ASSUME NEW t \in Threads, MethodStep(t)
    PROVE  /\ disk' = disk
           /\ orphans' = orphans \/ AnswerLost(t)
<1>1. CASE AnswerLost(t)
  BY <1>1 DEF AnswerLost
<1>2. CASE UNCHANGED cloudVars
  BY <1>2 DEF cloudVars
<1>3. AnswerLost(t) \/ UNCHANGED cloudVars
  BY ZenonT(60) DEF MethodStep, RefreshAuth, NextVdc, NoMoreVdcs, CreateSend, DeleteFind,
         DeleteSend, DetachFind, DetachSend, AttachFindVm, AttachFindDisk,
         AttachSend, ResizeSend, ListVdc, TaskDone, TaskFailed, ApiError
<1> QED
  BY <1>1, <1>2, <1>3

(***************************************************************************)
(* A request that runs in the cloud leaves well-formed disks behind.       *)
(***************************************************************************)
LEMMA RunsType ==
    ASSUME disk \in [Hrefs -> Disk], NEW k \in Request, Runs(k)
    PROVE  disk' \in [Hrefs -> Disk]
<1>0. /\ k.name \in Names \cup {None} /\ k.size \in Sizes \cup {0}
      /\ k.vm \in Vms \cup {None} /\ k.unit \in Nat
  BY DEF Request
<1>1. CASE CreateRuns(k)
  <2>1. [name |-> k.name, size |-> k.size, vm |-> None, unit |-> 0] \in Disk
    BY <1>0 DEF Disk
  <2> QED
    BY <1>1, <2>1 DEF CreateRuns
<1>2. CASE DeleteRuns(k)
  BY <1>2, Defaults DEF DeleteRuns
<1>3. CASE AttachRuns(k)
  <2>1. \A d \in Disk : [d EXCEPT !.vm = k.vm, !.unit = k.unit] \in Disk
    BY <1>0 DEF Disk
  <2> QED
    BY <1>3, <2>1 DEF AttachRuns
<1>4. CASE DetachRuns(k)
  <2>1. \A d \in Disk : [d EXCEPT !.vm = None, !.unit = 0] \in Disk
    BY DEF Disk
  <2> QED
    BY <1>4, <2>1 DEF DetachRuns
<1>5. CASE ResizeRuns(k)
  <2>1. \A d \in Disk : [d EXCEPT !.size = k.size] \in Disk
    BY <1>0 DEF Disk
  <2> QED
    BY <1>5, <2>1 DEF ResizeRuns
<1> QED
  BY <1>1, <1>2, <1>3, <1>4, <1>5 DEF Runs

\* The control invariant holds when the client has been built.
LEMMA ControlInvInit == Init => ControlInv
<1> SUFFICES ASSUME Init PROVE ControlInv
  OBVIOUS
<1>1. TypeOK
  BY Defaults DEF Init, TypeOK, Locations
<1>2. CallInv /\ MutexInv /\ TaskInv
  BY ConstantsAssumption DEF Init, CallInv, MutexInv, TaskInv, Inside, WaitLocations
<1> QED
  BY <1>1, <1>2 DEF ControlInv

\* The calls of the driver are calls.
LEMMA CallsType == Calls \subseteq Call
BY DEF Calls, Call, Methods

\* Every step keeps the control invariant.
LEMMA ControlInvStep == ControlInv /\ [Next]_vars => ControlInv'
<1> SUFFICES ASSUME ControlInv, [Next]_vars PROVE ControlInv'
  OBVIOUS
<1> USE DEF ControlInv
<1>0. /\ disk \in [Hrefs -> Disk] /\ orphans \in SUBSET Request
      /\ MethodTypeOK
  BY DEF TypeOK, MethodTypeOK
<1>q. SUFFICES /\ disk' \in [Hrefs -> Disk] /\ orphans' \in SUBSET Request
               /\ MethodInv'
  BY DEF MethodInv, MethodTypeOK, TypeOK
<1>1. ASSUME NEW t \in Threads, NEW c \in Calls, Invoke(t, c)
      PROVE  disk' \in [Hrefs -> Disk] /\ orphans' \in SUBSET Request /\ MethodInv'
  <2>1. /\ pc[t] = "Idle" /\ pc' = [pc EXCEPT ![t] = "Lock"]
        /\ call' = [call EXCEPT ![t] = c]
        /\ UNCHANGED <<disk, orphans, mt, loc, task, tst, ret>>
    BY <1>1 DEF Invoke, Goto, cloudVars, taskVars
  <2>2. MethodTypeOK'
    BY <1>0, <2>1, CallsType DEF MethodTypeOK, Locations
  <2>3. CallInv' /\ MutexInv' /\ TaskInv'
    BY <1>0, <2>1 DEF MethodTypeOK, CallInv, MutexInv, TaskInv, Inside, WaitLocations
  <2> QED
    BY <1>0, <2>1, <2>2, <2>3 DEF MethodInv
<1>2. ASSUME NEW t \in Threads, Lock(t)
      PROVE  disk' \in [Hrefs -> Disk] /\ orphans' \in SUBSET Request /\ MethodInv'
  <2>1. /\ pc[t] = "Lock" /\ mt = None /\ mt' = t
        /\ pc' = [pc EXCEPT ![t] = "Auth"]
        /\ UNCHANGED <<disk, orphans, call, loc, task, tst, ret>>
    BY <1>2 DEF Lock, Goto, cloudVars, taskVars
  <2>2. MethodTypeOK'
    BY <1>0, <2>1 DEF MethodTypeOK, Locations, Inside
  <2>3. call[t].m \in Methods
    BY <2>1 DEF CallInv, Calls, Methods
  <2>4. CallInv'
    BY <1>0, <2>1, <2>3 DEF MethodTypeOK, CallInv, MethodAt, Inside, WaitLocations
  <2>5. MutexInv' /\ TaskInv'
    BY <1>0, <2>1, ConstantsAssumption
       DEF MethodTypeOK, MutexInv, TaskInv, Inside, WaitLocations
  <2> QED
    BY <1>0, <2>1, <2>2, <2>4, <2>5 DEF MethodInv
<1>3. ASSUME NEW t \in Threads, MethodStep(t)
      PROVE  disk' \in [Hrefs -> Disk] /\ orphans' \in SUBSET Request /\ MethodInv'
  <2>1. AnswerLost(t) => orphans' \in SUBSET Request
    BY <1>0 DEF AnswerLost, MethodTypeOK
  <2> QED
    BY <1>0, <1>3, <2>1, MethodStepKeeps, MethodStepCloud
<1>4. ASSUME NEW t \in Threads, Reply(t)
      PROVE  disk' \in [Hrefs -> Disk] /\ orphans' \in SUBSET Request /\ MethodInv'
  <2>1. /\ pc[t] = "Done" /\ pc' = [pc EXCEPT ![t] = "Idle"]
        /\ call' = [call EXCEPT ![t] = NoCall]
        /\ ret' = [ret EXCEPT ![t] = NoResult]
        /\ UNCHANGED <<disk, orphans, mt, loc, task, tst>>
    BY <1>4 DEF Reply, Goto, cloudVars, taskVars
  <2>2. MethodTypeOK'
    BY <1>0, <2>1, Defaults DEF MethodTypeOK, Locations
  <2>3. CallInv' /\ MutexInv' /\ TaskInv'
    BY <1>0, <2>1 DEF MethodTypeOK, CallInv, MutexInv, TaskInv, Inside, WaitLocations
  <2> QED
    BY <1>0, <2>1, <2>2, <2>3 DEF MethodInv
<1>5. ASSUME NEW t \in Threads, TaskRuns(t) \/ TaskRejected(t)
      PROVE  disk' \in [Hrefs -> Disk] /\ orphans' \in SUBSET Request /\ MethodInv'
  <2>1. /\ tst[t] = "pending"
        /\ \E s \in {"success", "error"} : tst' = [tst EXCEPT ![t] = s]
        /\ UNCHANGED <<orphans, mt, pc, call, loc, task, ret>>
        /\ disk' = disk \/ Runs(task[t])
    BY <1>5 DEF TaskRuns, TaskRejected, cloudVars
  <2>2. disk' \in [Hrefs -> Disk]
    BY <1>0, <2>1, RunsType DEF MethodTypeOK
  <2>3. MethodTypeOK' /\ CallInv' /\ MutexInv' /\ TaskInv'
    BY <1>0, <2>1 DEF MethodTypeOK, CallInv, MutexInv, TaskInv
  <2> QED
    BY <1>0, <2>1, <2>2, <2>3 DEF MethodInv
<1>6. ASSUME NEW k \in orphans, OrphanRuns(k) \/ OrphanDropped(k)
      PROVE  disk' \in [Hrefs -> Disk] /\ orphans' \in SUBSET Request /\ MethodInv'
  <2>1. /\ orphans' = orphans \ {k}
        /\ UNCHANGED <<mt, pc, call, loc, task, tst, ret>>
        /\ disk' = disk \/ Runs(k)
    BY <1>6 DEF OrphanRuns, OrphanDropped, taskVars
  <2>2. disk' \in [Hrefs -> Disk]
    BY <1>0, <2>1, RunsType
  <2>3. MethodTypeOK' /\ CallInv' /\ MutexInv' /\ TaskInv'
    BY <1>0, <2>1 DEF MethodTypeOK, CallInv, MutexInv, TaskInv
  <2> QED
    BY <1>0, <2>1, <2>2, <2>3 DEF MethodInv
<1>7. CASE Crash
  <2>1. MethodTypeOK'
    BY <1>7, Defaults DEF Crash, MethodTypeOK, Locations
  <2>2. CallInv' /\ MutexInv' /\ TaskInv'
    BY <1>7, ConstantsAssumption
       DEF Crash, CallInv, MutexInv, TaskInv, Inside, WaitLocations
  <2>3. orphans' \in SUBSET Request /\ disk' = disk
    BY <1>0, <1>7 DEF Crash, MethodTypeOK
  <2> QED
    BY <1>0, <2>1, <2>2, <2>3 DEF MethodInv
<1>8. CASE UNCHANGED vars
  <2>1. UNCHANGED <<disk, orphans, mt, pc, call, loc, task, tst, ret>>
    BY <1>8 DEF vars
  <2>2. MethodTypeOK' /\ CallInv' /\ MutexInv' /\ TaskInv'
    BY <1>0, <2>1 DEF MethodTypeOK, CallInv, MutexInv, TaskInv
  <2> QED
    BY <1>0, <2>1, <2>2 DEF MethodInv
<1> QED
  BY <1>1, <1>2, <1>3, <1>4, <1>5, <1>6, <1>7, <1>8 DEF Next, CloudStep

(***************************************************************************)
(* Whatever goes wrong, each location of a thread belongs to the method it *)
(* executes, exactly the holder of v.mt is inside a method                 *)
(* (client.go:178-179 and its like), and only a thread that waits for the  *)
(* cloud has a task.                                                       *)
(***************************************************************************)
THEOREM ControlInvariant == Spec => []ControlInv
<1>1. Init => ControlInv
  BY ControlInvInit
<1>2. ControlInv /\ [Next]_vars => ControlInv'
  BY ControlInvStep
<1> QED
  BY <1>1, <1>2, PTL DEF Spec

(***************************************************************************)
(* Type correctness.  It is not inductive alone: that a method reaches its *)
(* own locations only is needed to know where the loop over the VDCs goes. *)
(***************************************************************************)
THEOREM TypeCorrect == Spec => []TypeOK
<1>1. ControlInv => TypeOK
  BY DEF ControlInv
<1> QED
  BY <1>1, ControlInvariant, PTL

(***************************************************************************)
(* v.mt serialises the requests of any number of callers, whatever fails,  *)
(* is lost or crashes: a thread has a task only while it waits inside a    *)
(* method, and only the holder of v.mt is inside one.                      *)
(***************************************************************************)
THEOREM Serialized == Spec => []RequestsSerialized
<1>1. ControlInv => RequestsSerialized
  BY DEF ControlInv, MutexInv, TaskInv, RequestsSerialized, Inside
<1> QED
  BY <1>1, ControlInvariant, PTL
=============================================================================
