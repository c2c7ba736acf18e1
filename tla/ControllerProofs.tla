-------------------------- MODULE ControllerProofs --------------------------
(***************************************************************************)
(* What the controller RPCs keep, for any number of handlers, volumes,     *)
(* nodes, units and capacity ranges.                                       *)
(***************************************************************************)
EXTENDS Controller, CapacityProofs

-----------------------------------------------------------------------------
(* The inductive invariant *)

Methods == {"CreateDisk", "DeleteDisk", "AttachDisk", "DetachDisk", "ResizeDisk",
            "ListVolumes", "none"}
ReqSet == [m: Methods, name: Names \cup {None}, vm: Vms \cup {None}, size: Nat]
ResSet == [err: Errs \cup {"nil"}, unit: Units, list: SUBSET [name: Names, size: Nat]]

\* The types of the promise's variables.
ServiceTypeOK ==
    /\ phase \in [Threads -> {"idle", "busy", "done"}]
    /\ req \in [Threads -> ReqSet]
    /\ res \in [Threads -> ResSet]

\* The locations at which a handler waits for the client.
Waiting == {"create", "passed", "publish", "list", "resizing"}

\* The call a handler has made belongs to its location and to its request.
CallInv(t) ==
    /\ at[t] \in Waiting <=> phase[t] # "idle"
    /\ at[t] = "idle" => rpc[t] = NoRpc
    /\ at[t] # "idle" => rpc[t] \in Rpcs
    /\ at[t] = "create" => rpc[t].op = "Create" /\ req[t].m = "CreateDisk"
    /\ at[t] = "passed" => rpc[t].op \in DOMAIN SimpleCall /\ req[t].m = SimpleCall[rpc[t].op]
    /\ at[t] = "publish" => rpc[t].op = "Publish" /\ req[t].m = "AttachDisk"
    /\ at[t] \in {"list", "resize", "resizing", "pop", "put"} =>
           rpc[t].op = "Expand" /\ rpc[t].range.given
    /\ at[t] = "list" => req[t].m = "ListVolumes"
    /\ at[t] = "resizing" => req[t].m = "ResizeDisk" /\ req[t].size = Mb(size[t])
    /\ at[t] \in Waiting =>
           IF req[t].m = "ListVolumes" THEN req[t].name = None
           ELSE req[t].name = rpc[t].name /\ req[t].vm = rpc[t].vm

\* The size a handler works with is the one of its range.
SizeInv(t) ==
    LET b == extractStorage(rpc[t].range) IN
    /\ at[t] = "create" => b # Invalid
    /\ at[t] \in {"idle", "begin", "list"} => size[t] = 0
    /\ at[t] \in {"resize", "resizing", "pop"} => b # Invalid /\ size[t] = b

\* The part of the invariant that holds however the sidecars call.
CallsInv ==
    /\ ControllerTypeOK /\ ServiceTypeOK
    /\ \A t \in Threads : CallInv(t) /\ SizeInv(t)
    /\ CapacityAnswered

-----------------------------------------------------------------------------
(* Requests and sizes *)

\* The RPCs a request can be for.
Ops == {"Create", "Delete", "Publish", "Unpublish", "List", "Expand"}

\* The fields of a request (disk.go:70-92, 126-135, 145-173, 204-215, 328-346).
LEMMA RpcFields ==
    ASSUME NEW r \in Rpcs
    PROVE  /\ r.op \in Ops
           /\ r.name \in Names \cup {None} /\ r.vm \in Vms \cup {None}
           /\ r.op # "List" => r.name \in Names
           /\ r.op = "Publish" => r.vm \in Vms
           /\ r.range \in CapacityRange
           /\ r.valid \in BOOLEAN
<1>1. NoRange \in CapacityRange
  BY DEF NoRange, CapacityRange
<1>2. QED
  BY <1>1, ControllerAssumption DEF Rpcs, Ops

\* A handler that is not idle has a request.
LEMMA NoRpcIdle == NoRpc \notin Rpcs
BY RpcFields DEF NoRpc, Ops

\* A size that is accepted is a number of bytes, and a number of MB.
LEMMA AcceptedSize ==
    ASSUME NEW r \in CapacityRange, extractStorage(r) # Invalid
    PROVE  /\ extractStorage(r) \in Nat /\ 0 < extractStorage(r)
           /\ Mb(extractStorage(r)) \in Nat
           /\ Satisfies(extractStorage(r), r)
           /\ ~RefusedRange(r)
           /\ r.given => r.required <= extractStorage(r)
<1>1. Satisfies(extractStorage(r), r)
  BY AcceptedSizeFits
<1>2. extractStorage(r) \in Int
  BY RangeTypes DEF extractStorage, Invalid
<1>3. ~RefusedRange(r)
  BY DEF extractStorage
<1>4. extractStorage(r) \in Nat /\ 0 < extractStorage(r)
  BY <1>1, <1>2 DEF Satisfies
<1>5. r.given => r.required <= extractStorage(r)
  BY <1>2, <1>3, <1>4, RangeTypes DEF extractStorage, requiredSet, RefusedRange, limitSet
<1>6. Mb(extractStorage(r)) \in Nat
  BY <1>4, CapacityAssumption DEF Mb
<1>7. QED
  BY <1>1, <1>3, <1>4, <1>5, <1>6

\* Bytes to MB and back.
LEMMA FromMbNat ==
    ASSUME NEW m \in Nat
    PROVE  FromMb(m) \in Nat
BY CapacityAssumption DEF FromMb

\* Mb yields a number of MB (types/disk.go:36).
LEMMA MbNat ==
    ASSUME NEW b \in Nat
    PROVE  Mb(b) \in Nat
BY CapacityAssumption DEF Mb

\* A size of at least m MB has at least m whole MB.
LEMMA MbMonotone ==
    ASSUME NEW b \in Nat, NEW m \in Nat, FromMb(m) <= b
    PROVE  m <= Mb(b)
<1>1. MiB \in Nat /\ 0 < MiB
  BY CapacityAssumption
<1>2. Mb(b) \in Nat /\ b < FromMb(Mb(b)) + MiB
  BY MbNat, TruncationBounded
<1>3. SUFFICES ASSUME Mb(b) + 1 <= m PROVE FALSE
  BY <1>2
<1>4. (Mb(b) + 1) * MiB <= m * MiB
  BY <1>1, <1>2, <1>3
<1>5. (Mb(b) + 1) * MiB = Mb(b) * MiB + MiB
  BY <1>1, <1>2
<1>6. QED
  BY <1>1, <1>2, <1>4, <1>5 DEF FromMb

\* A size below m MB and one more has at most m whole MB.
LEMMA MbAtMost ==
    ASSUME NEW b \in Int, NEW m \in Nat, b < FromMb(m) + MiB
    PROVE  Mb(b) <= m
<1>1. MiB \in Nat /\ 0 < MiB
  BY CapacityAssumption
<1>2. Mb(b) \in Int /\ Mb(b) * MiB <= b
  BY <1>1 DEF Mb
<1>3. SUFFICES ASSUME m + 1 <= Mb(b) PROVE FALSE
  BY <1>2
<1>4. (m + 1) * MiB <= Mb(b) * MiB
  BY <1>1, <1>2, <1>3
<1>5. (m + 1) * MiB = m * MiB + MiB
  BY <1>1
<1>6. m * MiB \in Int /\ Mb(b) * MiB \in Int
  BY <1>1, <1>2
<1>7. QED
  BY <1>1, <1>2, <1>4, <1>5, <1>6 DEF FromMb

-----------------------------------------------------------------------------
(* The initial states, and what a step leaves alone. *)

\* The process begins without calls.
LEMMA CallsInvInit == ControllerInit => CallsInv
<1> SUFFICES ASSUME ControllerInit PROVE CallsInv
  OBVIOUS
<1>1. ControllerTypeOK
  BY ServiceAssumption
     DEF ControllerInit, ServiceInit, ControllerTypeOK, NoVolume, NoRpc, NoReply, Codes
<1>2. ServiceTypeOK
  BY ServiceAssumption
     DEF ControllerInit, ServiceInit, ServiceTypeOK, NoReq, NoRes, ReqSet, ResSet, Methods
<1>3. ASSUME NEW t \in Threads PROVE CallInv(t) /\ SizeInv(t)
  BY DEF ControllerInit, ServiceInit, CallInv, SizeInv, Waiting
<1>4. CapacityAnswered
  BY DEF ControllerInit, CapacityAnswered, AnswersOk
<1>5. QED
  BY <1>1, <1>2, <1>3, <1>4 DEF CallsInv

\* What the invariant says of handler t, as one formula.
ThreadInv(t) ==
    /\ CallInv(t) /\ SizeInv(t)
    /\ AnswersOk(t, "Create") => Satisfies(reply[t].cap, rpc[t].range)
    /\ AnswersOk(t, "Expand") => /\ reply[t].cap >= rpc[t].range.required
                                 /\ ~RefusedRange(rpc[t].range)

\* CallsInv, thread by thread.
LEMMA CallsInvParts ==
    CallsInv <=> ControllerTypeOK /\ ServiceTypeOK /\ \A t \in Threads : ThreadInv(t)
BY DEF CallsInv, ThreadInv, CapacityAnswered

\* The variables of thread t.
Frame(t) == <<at[t], rpc[t], size[t], reply[t], phase[t], req[t], res[t]>>

\* What is known of a thread depends on its own variables.
LEMMA ThreadInvFrame ==
    ASSUME NEW t \in Threads, ThreadInv(t), Frame(t)' = Frame(t)
    PROVE  ThreadInv(t)'
BY DEF ThreadInv, CallInv, SizeInv, AnswersOk, Frame

\* It is enough to look at the thread that moves.
LEMMA OneMoves ==
    ASSUME CallsInv, NEW t \in Threads,
           \A u \in Threads \ {t} : Frame(u)' = Frame(u),
           ControllerTypeOK', ServiceTypeOK', ThreadInv(t)'
    PROVE  CallsInv'
<1>1. ASSUME NEW u \in Threads PROVE ThreadInv(u)'
  BY ThreadInvFrame, CallsInvParts
<1>2. QED
  BY <1>1 DEF CallsInv, ThreadInv, CapacityAnswered

-----------------------------------------------------------------------------
(* The endings of a step: a handler answers, calls the client, or takes its  *)
(* result.                                                                   *)

\* Taking a result, or leaving the client alone, keeps the types.
LEMMA TakenTypes ==
    ASSUME ServiceTypeOK, NEW t \in Threads, UNCHANGED serviceVars \/ Taken(t)
    PROVE  /\ ServiceTypeOK' /\ UNCHANGED <<vol, left, stray>>
           /\ phase'[t] = IF Taken(t) THEN "idle" ELSE phase[t]
           /\ \A u \in Threads \ {t} :
                 phase'[u] = phase[u] /\ req'[u] = req[u] /\ res'[u] = res[u]
<1>1. NoReq \in ReqSet /\ NoRes \in ResSet
  BY ServiceAssumption DEF NoReq, NoRes, ReqSet, ResSet, Methods
<1>2. CASE Taken(t)
  BY <1>1, <1>2 DEF Taken, ServiceTypeOK, leftVars
<1>3. CASE UNCHANGED serviceVars /\ ~Taken(t)
  BY <1>3 DEF serviceVars, leftVars, ServiceTypeOK
<1> QED
  BY <1>2, <1>3

\* Answering keeps the invariant if the capacity answered is right.
LEMMA RespondKeeps ==
    ASSUME CallsInv, NEW t \in Threads, at[t] # "idle",
           NEW code \in Codes, NEW unit \in Units, NEW cap \in Nat,
           Respond(t, code, unit, cap),
           lock' \subseteq Names,
           (UNCHANGED serviceVars /\ phase[t] = "idle") \/ Taken(t),
           code = "OK" /\ rpc[t].op = "Create" => Satisfies(cap, rpc[t].range),
           code = "OK" /\ rpc[t].op = "Expand" =>
               cap >= rpc[t].range.required /\ ~RefusedRange(rpc[t].range)
    PROVE  CallsInv'
<1>1. /\ ServiceTypeOK' /\ UNCHANGED <<vol, left, stray>> /\ phase'[t] = "idle"
      /\ \A u \in Threads \ {t} :
            phase'[u] = phase[u] /\ req'[u] = req[u] /\ res'[u] = res[u]
  BY TakenTypes DEF CallsInv
<1>2. ControllerTypeOK'
  BY <1>1 DEF CallsInv, ControllerTypeOK, Respond
<1>3. /\ at'[t] = "done" /\ rpc'[t] = rpc[t] /\ rpc[t] \in Rpcs
      /\ reply'[t] = [code |-> code, unit |-> unit, cap |-> cap]
  BY DEF CallsInv, ControllerTypeOK, Respond, CallInv
<1>4. ThreadInv(t)'
  BY <1>1, <1>3 DEF ThreadInv, CallInv, SizeInv, AnswersOk, Waiting
<1>5. \A u \in Threads \ {t} : Frame(u)' = Frame(u)
  BY <1>1 DEF CallsInv, ControllerTypeOK, Respond, Frame
<1> QED
  BY <1>1, <1>2, <1>4, <1>5, OneMoves

\* Calling the client keeps it if the call belongs to the location.
LEMMA CallKeeps ==
    ASSUME CallsInv, NEW t \in Threads, at[t] # "idle",
           NEW l \in Waiting, NEW m \in Methods \ {"none"}, NEW mb \in Nat,
           CallClient(t, l, m, mb), UNCHANGED size, lock' \subseteq Names,
           m # "ListVolumes" => rpc[t].name \in Names,
           l = "create" => /\ rpc[t].op = "Create" /\ m = "CreateDisk"
                           /\ extractStorage(rpc[t].range) # Invalid,
           l = "passed" => rpc[t].op \in DOMAIN SimpleCall /\ m = SimpleCall[rpc[t].op],
           l = "publish" => rpc[t].op = "Publish" /\ m = "AttachDisk",
           l \in {"list", "resizing"} => rpc[t].op = "Expand" /\ rpc[t].range.given,
           l = "list" => m = "ListVolumes" /\ size[t] = 0,
           l = "resizing" => /\ m = "ResizeDisk" /\ mb = Mb(size[t])
                             /\ extractStorage(rpc[t].range) # Invalid
                             /\ size[t] = extractStorage(rpc[t].range)
    PROVE  CallsInv'
<1> DEFINE q == [m |-> m, name |-> IF m = "ListVolumes" THEN None ELSE rpc[t].name,
                 vm |-> rpc[t].vm, size |-> mb]
<1>1. rpc[t] \in Rpcs /\ rpc[t].vm \in Vms \cup {None}
  BY RpcFields DEF CallsInv, CallInv
<1>2. q \in ReqSet
  BY <1>1 DEF ReqSet
<1>3. Begin(t, q) /\ at' = [at EXCEPT ![t] = l] /\ UNCHANGED <<rpc, reply, size>>
  BY DEF CallClient
<1> HIDE DEF q
<1>4. ServiceTypeOK'
  BY <1>2, <1>3 DEF CallsInv, ServiceTypeOK, Begin
<1>5. ControllerTypeOK'
  BY <1>3 DEF CallsInv, ControllerTypeOK, Begin, leftVars, Waiting
<1>6. /\ at'[t] = l /\ rpc'[t] = rpc[t] /\ phase'[t] = "busy" /\ req'[t] = q
      /\ size'[t] = size[t]
  BY <1>3 DEF CallsInv, ControllerTypeOK, ServiceTypeOK, Begin
<1>7. ThreadInv(t)'
  BY <1>1, <1>6 DEF ThreadInv, CallInv, SizeInv, AnswersOk, Waiting, q
<1>8. \A u \in Threads \ {t} : Frame(u)' = Frame(u)
  BY <1>3 DEF CallsInv, ControllerTypeOK, ServiceTypeOK, Begin, Frame
<1> QED
  BY <1>4, <1>5, <1>7, <1>8, OneMoves

\* Going on to another location of Expand keeps it.
LEMMA ExpandGoesOn ==
    ASSUME CallsInv, NEW t \in Threads, NEW l \in {"resize", "pop", "put"},
           rpc[t].op = "Expand", rpc[t].range.given, at[t] # "idle",
           Taken(t), at' = [at EXCEPT ![t] = l],
           UNCHANGED <<rpc, reply, lock>>,
           size' \in [Threads -> Nat], \A u \in Threads \ {t} : size'[u] = size[u],
           l # "put" => /\ extractStorage(rpc[t].range) # Invalid
                        /\ size'[t] = extractStorage(rpc[t].range)
    PROVE  CallsInv'
<1>1. /\ ServiceTypeOK' /\ UNCHANGED <<vol, left, stray>> /\ phase'[t] = "idle"
      /\ \A u \in Threads \ {t} :
            phase'[u] = phase[u] /\ req'[u] = req[u] /\ res'[u] = res[u]
  BY TakenTypes DEF CallsInv
<1>2. ControllerTypeOK'
  BY <1>1 DEF CallsInv, ControllerTypeOK
<1>3. at'[t] = l /\ rpc'[t] = rpc[t] /\ rpc[t] \in Rpcs
  BY DEF CallsInv, ControllerTypeOK, CallInv
<1>4. ThreadInv(t)'
  BY <1>1, <1>3 DEF ThreadInv, CallInv, SizeInv, AnswersOk, Waiting
<1>5. \A u \in Threads \ {t} : Frame(u)' = Frame(u)
  BY <1>1 DEF CallsInv, ControllerTypeOK, Frame
<1> QED
  BY <1>1, <1>2, <1>4, <1>5, OneMoves

\* A thread in the middle of a handler, and its request.
LEMMA HandlerTypes ==
    ASSUME CallsInv, NEW t \in Threads, at[t] # "idle"
    PROVE  /\ rpc[t] \in Rpcs /\ rpc[t].range \in CapacityRange
           /\ rpc[t].op # "List" => rpc[t].name \in Names
           /\ lock \subseteq Names /\ 0 \in Units
           /\ vol \in [Names -> [size: Nat, vm: Vms \cup {None}, unit: Units, here: BOOLEAN]]
           /\ res[t] \in ResSet /\ size[t] \in Nat
           /\ CallInv(t) /\ SizeInv(t)
BY RpcFields, ServiceAssumption DEF CallsInv, CallInv, ControllerTypeOK, ServiceTypeOK

-----------------------------------------------------------------------------
(* The handlers *)

\* RejectInvalid: a request that is refused (disk.go:45-55, 144-160).
LEMMA RejectKeeps ==
    ASSUME CallsInv, NEW t \in Threads, NEW code \in Codes \ {"OK"},
           at[t] = "begin", Rejects(t, code)
    PROVE  CallsInv'
<1>1. phase[t] = "idle" /\ lock' \subseteq Names /\ 0 \in Units
  BY HandlerTypes DEF CallInv, Waiting, Rejects
<1>2. Respond(t, code, 0, 0) /\ UNCHANGED serviceVars
  BY DEF Rejects
<1> QED
  BY <1>1, <1>2, RespondKeeps

\* CreateVolume (disk.go:40-103)
LEMMA CreateVolumeKeeps ==
    ASSUME CallsInv, NEW t \in Threads, CreateVolume(t) \/ CreateVolumeEnds(t)
    PROVE  CallsInv'
<1> DEFINE b == extractStorage(rpc[t].range)
<1>1. CASE CreateVolume(t)
  <2>1. at[t] = "begin" /\ rpc[t].op = "Create"
    BY <1>1 DEF CreateVolume, Enters
  <2>2. CASE Rejects(t, "OutOfRange")
    BY <2>1, <2>2, RejectKeeps DEF Codes
  <2>3. CASE b # Invalid /\ CallClient(t, "create", "CreateDisk", Mb(b)) /\ UNCHANGED <<lock, size>>
    <3>1. Mb(b) \in Nat /\ rpc[t].name \in Names /\ lock' \subseteq Names
      BY <2>1, <2>3, HandlerTypes, AcceptedSize
    <3> QED
      BY <2>1, <2>3, <3>1, CallKeeps DEF Waiting, Methods
  <2> QED
    BY <1>1, <2>2, <2>3 DEF CreateVolume
<1>2. CASE CreateVolumeEnds(t)
  <2>1. at[t] = "create" /\ Taken(t) /\ UNCHANGED lock
    BY <1>2 DEF CreateVolumeEnds, ClientDone
  <2>2. b # Invalid /\ b \in Nat /\ Satisfies(b, rpc[t].range) /\ rpc[t].op = "Create"
        /\ lock' \subseteq Names /\ 0 \in Units
    BY <2>1, HandlerTypes, AcceptedSize DEF SizeInv, CallInv
  <2>3. CASE Respond(t, "OK", 0, b)
    BY <2>1, <2>2, <2>3, RespondKeeps DEF Codes
  <2>4. CASE Respond(t, "Unknown", 0, 0)
    BY <2>1, <2>2, <2>4, RespondKeeps DEF Codes
  <2> QED
    BY <1>2, <2>3, <2>4 DEF CreateVolumeEnds
<1> QED
  BY <1>1, <1>2

\* DeleteVolume, ControllerUnpublishVolume and ListVolumes
\* (disk.go:106-142, 203-281)
LEMMA PassOnKeeps ==
    ASSUME CallsInv, NEW t \in Threads, PassOn(t) \/ PassOnEnds(t)
    PROVE  CallsInv'
<1>1. CASE PassOn(t)
  <2>1. PICK op \in DOMAIN SimpleCall :
            Enters(t, op) /\ CallClient(t, "passed", SimpleCall[op], 0)
    BY <1>1 DEF PassOn
  <2>2. at[t] = "begin" /\ rpc[t].op = op /\ UNCHANGED size /\ lock' = lock
    BY <1>1, <2>1 DEF Enters, PassOn
  <2>3. SimpleCall[op] \in Methods \ {"none"} /\ (SimpleCall[op] # "ListVolumes" => op # "List")
    BY DEF SimpleCall, Methods
  <2> QED
    BY <2>1, <2>2, <2>3, HandlerTypes, CallKeeps DEF Waiting
<1>2. CASE PassOnEnds(t)
  <2>1. /\ at[t] = "passed" /\ Taken(t) /\ UNCHANGED lock
        /\ \E code \in {"OK", "Unknown", "Internal"} : Respond(t, code, 0, 0)
    BY <1>2 DEF PassOnEnds, ClientDone
  <2>2. /\ rpc[t].op \notin {"Create", "Expand"}
        /\ lock' \subseteq Names /\ 0 \in Units
    BY <2>1, HandlerTypes DEF CallInv, SimpleCall
  <2> QED
    BY <2>1, <2>2, RespondKeeps DEF Codes
<1> QED
  BY <1>1, <1>2

\* ControllerPublishVolume (disk.go:144-201)
LEMMA PublishKeeps ==
    ASSUME CallsInv, NEW t \in Threads, ControllerPublishVolume(t) \/ PublishEnds(t)
    PROVE  CallsInv'
<1>1. CASE ControllerPublishVolume(t)
  <2>1. at[t] = "begin" /\ rpc[t].op = "Publish"
    BY <1>1 DEF ControllerPublishVolume, Enters
  <2>2. phase[t] = "idle" /\ lock \subseteq Names /\ 0 \in Units /\ rpc[t].name \in Names
    BY <2>1, HandlerTypes DEF CallInv, Waiting
  <2>3. CASE IsLocked(rpc[t].name) /\ Respond(t, "Internal", 0, 0) /\ UNCHANGED serviceVars
    <3>1. lock' \subseteq Names
      BY <2>2, <2>3 DEF IsLocked
    <3> QED
      BY <2>1, <2>2, <2>3, <3>1, RespondKeeps DEF Codes
  <2>4. CASE /\ NotLocked(rpc[t].name) /\ CallClient(t, "publish", "AttachDisk", 0)
             /\ UNCHANGED size
    <3>1. lock' \subseteq Names
      BY <2>2, <2>4 DEF NotLocked
    <3> QED
      BY <2>1, <2>2, <2>4, <3>1, CallKeeps DEF Waiting, Methods
  <2> QED
    BY <1>1, <2>3, <2>4 DEF ControllerPublishVolume
<1>2. CASE PublishEnds(t)
  <2>1. at[t] = "publish" /\ Taken(t) /\ UNCHANGED lock
    BY <1>2 DEF PublishEnds, ClientDone
  <2>2. rpc[t].op = "Publish" /\ lock' \subseteq Names /\ 0 \in Units /\ res[t].unit \in Units
    BY <2>1, HandlerTypes DEF CallInv, ResSet
  <2>3. CASE Respond(t, "OK", UnitPublished(t), 0)
    BY <2>1, <2>2, <2>3, RespondKeeps DEF Codes, UnitPublished
  <2>4. CASE Respond(t, PublishCode(res[t].err), 0, 0)
    <3>1. PublishCode(res[t].err) \in Codes
      BY DEF PublishCode, Codes
    <3> QED
      BY <2>1, <2>2, <2>4, <3>1, RespondKeeps
  <2> QED
    BY <1>2, <2>3, <2>4 DEF PublishEnds
<1> QED
  BY <1>1, <1>2

\* What the list shows for the volume is a number of bytes.
LEMMA ListedNat ==
    ASSUME CallsInv, NEW t \in Threads, at[t] = "list", NEW c \in Listed(t)
    PROVE  /\ c \in Nat
           /\ \E e \in res[t].list : e.name = rpc[t].name /\ e.size \in Nat /\ c = FromMb(e.size)
<1>1. res[t].list \subseteq [name: Names, size: Nat]
  BY HandlerTypes DEF ResSet
<1>2. PICK e \in res[t].list : e.name = rpc[t].name /\ c = FromMb(e.size)
  BY DEF Listed
<1> QED
  BY <1>1, <1>2, FromMbNat

\* ControllerExpandVolume up to the resize (disk.go:328-372)
LEMMA ExpandDecideKeeps ==
    ASSUME CallsInv, NEW t \in Threads, ExpandList(t) \/ ExpandDecide(t)
    PROVE  CallsInv'
<1> DEFINE b == extractStorage(rpc[t].range)
<1>1. CASE ExpandList(t)
  <2>1. /\ at[t] = "begin" /\ rpc[t].op = "Expand" /\ rpc[t].range.given
        /\ CallClient(t, "list", "ListVolumes", 0) /\ UNCHANGED <<lock, size>>
    BY <1>1 DEF ExpandList, Enters, NilRange
  <2>2. lock' \subseteq Names /\ size[t] = 0
    BY <2>1, HandlerTypes DEF SizeInv
  <2> QED
    BY <2>1, <2>2, CallKeeps DEF Waiting, Methods
<1>2. CASE ExpandDecide(t)
  <2>1. at[t] = "list" /\ Taken(t) /\ UNCHANGED lock
    BY <1>2 DEF ExpandDecide, ClientDone
  <2>2. /\ rpc[t].op = "Expand" /\ rpc[t].range.given /\ lock' \subseteq Names
        /\ 0 \in Units /\ rpc[t].range \in CapacityRange
    BY <2>1, HandlerTypes DEF CallInv
  <2>3. CASE \E code \in {"Unknown", "OutOfRange"} : Respond(t, code, 0, 0)
    BY <2>1, <2>2, <2>3, RespondKeeps DEF Codes
  <2>4. ASSUME b # Invalid, NEW c \in Listed(t), SkipResize(b, c), Respond(t, "OK", 0, c)
        PROVE  CallsInv'
    <3>1. c \in Nat
      BY <2>1, ListedNat
    <3>2. c >= rpc[t].range.required /\ ~RefusedRange(rpc[t].range)
      BY <2>2, <2>4, <3>1, AcceptedSize, RangeTypes DEF SkipResize
    <3> QED
      BY <2>1, <2>2, <2>4, <3>1, <3>2, RespondKeeps DEF Codes
  <2>5. ASSUME b # Invalid, at' = [at EXCEPT ![t] = "resize"],
               size' = [size EXCEPT ![t] = b], UNCHANGED <<rpc, reply>>
        PROVE  CallsInv'
    <3>1. b \in Nat /\ size \in [Threads -> Nat]
      BY <2>2, <2>5, AcceptedSize DEF CallsInv, ControllerTypeOK
    <3>2. /\ size' \in [Threads -> Nat] /\ size'[t] = b
          /\ \A u \in Threads \ {t} : size'[u] = size[u]
      BY <2>5, <3>1
    <3> QED
      BY <2>1, <2>2, <2>5, <3>2, ExpandGoesOn
  <2> QED
    BY <1>2, <2>3, <2>4, <2>5 DEF ExpandDecide
<1> QED
  BY <1>1, <1>2

\* ControllerExpandVolume, the resize and what follows it (disk.go:374-402)
LEMMA ExpandResizeKeeps ==
    ASSUME CallsInv, NEW t \in Threads,
           ExpandResize(t) \/ ExpandResized(t) \/ ExpandPop(t) \/ ExpandPut(t)
    PROVE  CallsInv'
<1> DEFINE b == extractStorage(rpc[t].range)
<1>0. /\ rpc[t].op = "Expand" /\ rpc[t].range.given /\ lock \subseteq Names
      /\ 0 \in Units /\ rpc[t].range \in CapacityRange
      /\ rpc[t].name \in Names /\ at[t] # "idle"
  BY HandlerTypes DEF CallInv, ExpandResize, ExpandResized, ExpandPop, ExpandPut, ClientDone
<1>1. CASE ExpandResize(t)
  <2>1. /\ at[t] = "resize" /\ CallClient(t, "resizing", "ResizeDisk", Mb(size[t]))
        /\ UNCHANGED <<lock, size>>
    BY <1>1 DEF ExpandResize
  <2>2. b # Invalid /\ size[t] = b /\ Mb(size[t]) \in Nat
    BY <1>0, <2>1, HandlerTypes, AcceptedSize DEF SizeInv
  <2> QED
    BY <1>0, <2>1, <2>2, CallKeeps DEF Waiting, Methods
<1>2. CASE ExpandResized(t)
  <2>1. at[t] = "resizing" /\ Taken(t) /\ UNCHANGED lock
    BY <1>2 DEF ExpandResized, ClientDone
  <2>2. b # Invalid /\ size[t] = b /\ size \in [Threads -> Nat]
    BY <2>1 DEF CallsInv, ControllerTypeOK, SizeInv
  <2>3. ASSUME NEW l \in {"pop", "put"}, at' = [at EXCEPT ![t] = l],
               UNCHANGED <<rpc, size, reply>>
        PROVE  CallsInv'
    BY <1>0, <2>1, <2>2, <2>3, ExpandGoesOn
  <2>4. CASE Respond(t, "Internal", 0, 0)
    BY <1>0, <2>1, <2>4, RespondKeeps DEF Codes
  <2> QED
    BY <1>2, <2>3, <2>4 DEF ExpandResized
<1>3. CASE ExpandPop(t)
  <2>1. /\ at[t] = "pop" /\ Respond(t, "OK", 0, size[t]) /\ UNCHANGED serviceVars
        /\ lock' = lock \ {rpc[t].name}
    BY <1>3 DEF ExpandPop, Pop
  <2>2. b # Invalid /\ size[t] = b /\ size[t] \in Nat /\ phase[t] = "idle"
    BY <2>1, HandlerTypes DEF SizeInv, CallInv, Waiting
  <2>3. size[t] >= rpc[t].range.required /\ ~RefusedRange(rpc[t].range)
    BY <1>0, <2>2, AcceptedSize, RangeTypes
  <2>4. lock' \subseteq Names
    BY <1>0, <2>1
  <2> QED
    BY <1>0, <2>1, <2>2, <2>3, <2>4, RespondKeeps DEF Codes
<1>4. CASE ExpandPut(t)
  <2>1. /\ at[t] = "put" /\ Respond(t, "Internal", 0, 0) /\ UNCHANGED serviceVars
        /\ lock' = lock \cup {rpc[t].name}
    BY <1>4 DEF ExpandPut, Put
  <2>2. lock' \subseteq Names /\ phase[t] = "idle"
    BY <1>0, <2>1, HandlerTypes DEF CallInv, Waiting
  <2> QED
    BY <1>0, <2>1, <2>2, RespondKeeps DEF Codes
<1> QED
  BY <1>1, <1>2, <1>3, <1>4

\* A new call, and an answer that is taken.
LEMMA ReceiveKeeps ==
    ASSUME CallsInv, NEW t \in Threads,
           (\E r \in Rpcs : Receive(t, r)) \/ Answered(t)
    PROVE  CallsInv'
<1>1. ASSUME NEW r \in Rpcs, Receive(t, r) PROVE CallsInv'
  <2>1. ServiceTypeOK' /\ ControllerTypeOK'
    BY <1>1 DEF Receive, CallsInv, ServiceTypeOK, ControllerTypeOK, serviceVars, leftVars
  <2>2. /\ at[t] = "idle" /\ at'[t] = "begin" /\ rpc'[t] = r /\ phase'[t] = phase[t]
        /\ size'[t] = size[t]
    BY <1>1 DEF Receive, CallsInv, ControllerTypeOK, serviceVars
  <2>3. ThreadInv(t)'
    BY <2>2 DEF CallsInv, ThreadInv, CallInv, SizeInv, AnswersOk, Waiting
  <2>4. \A u \in Threads \ {t} : Frame(u)' = Frame(u)
    BY <1>1 DEF Receive, CallsInv, ControllerTypeOK, serviceVars, Frame
  <2> QED
    BY <2>1, <2>3, <2>4, OneMoves
<1>2. CASE Answered(t)
  <2>1. ServiceTypeOK' /\ ControllerTypeOK'
    BY <1>2, ServiceAssumption
       DEF Answered, CallsInv, ServiceTypeOK, ControllerTypeOK, serviceVars, leftVars,
           NoReply, Codes
  <2>2. /\ at[t] = "done" /\ at'[t] = "idle" /\ rpc'[t] = NoRpc /\ phase'[t] = phase[t]
        /\ size'[t] = 0
    BY <1>2 DEF Answered, CallsInv, ControllerTypeOK, serviceVars
  <2>3. ThreadInv(t)'
    BY <2>2 DEF CallsInv, ThreadInv, CallInv, SizeInv, AnswersOk, Waiting
  <2>4. \A u \in Threads \ {t} : Frame(u)' = Frame(u)
    BY <1>2 DEF Answered, CallsInv, ControllerTypeOK, serviceVars, Frame
  <2> QED
    BY <2>1, <2>3, <2>4, OneMoves
<1> QED
  BY <1>1, <1>2

-----------------------------------------------------------------------------
(* The client *)

\* Which request a call of the client belongs to.
LEMMA CallOf ==
    ASSUME CallsInv, NEW t \in Threads, phase[t] # "idle"
    PROVE  /\ at[t] \in Waiting /\ rpc[t] \in Rpcs
           /\ req[t].m = "CreateDisk" => at[t] = "create" /\ rpc[t].op = "Create"
           /\ req[t].m = "DeleteDisk" => at[t] = "passed" /\ rpc[t].op = "Delete"
           /\ req[t].m = "DetachDisk" => at[t] = "passed" /\ rpc[t].op = "Unpublish"
           /\ req[t].m = "AttachDisk" => at[t] = "publish" /\ rpc[t].op = "Publish"
           /\ req[t].m = "ResizeDisk" => at[t] = "resizing" /\ rpc[t].op = "Expand"
           /\ req[t].m \in Methods \ {"none"}
           /\ req[t].m # "ListVolumes" => /\ req[t].name = rpc[t].name
                                          /\ req[t].vm = rpc[t].vm
                                          /\ req[t].name \in Names
           /\ req[t].size \in Nat /\ req[t].vm \in Vms \cup {None}
<1>1. CallInv(t) /\ req[t] \in ReqSet
  BY DEF CallsInv, ServiceTypeOK
<1>2. at[t] \in Waiting /\ rpc[t] \in Rpcs
  BY <1>1 DEF CallInv, Waiting
<1>3. \A op \in DOMAIN SimpleCall : \/ op = "Delete" /\ SimpleCall[op] = "DeleteDisk"
                                    \/ op = "Unpublish" /\ SimpleCall[op] = "DetachDisk"
                                    \/ op = "List" /\ SimpleCall[op] = "ListVolumes"
  BY DEF SimpleCall
<1>4. req[t].m # "ListVolumes" => rpc[t].op # "List"
  BY <1>1, <1>2, <1>3 DEF CallInv, Waiting
<1> QED
  BY <1>1, <1>2, <1>3, <1>4, RpcFields DEF CallInv, Waiting, ReqSet, Methods

\* A volume is a record of these.
VolumeSet == [size: Nat, vm: Vms \cup {None}, unit: Units, here: BOOLEAN]

\* And a request left behind is a record of these.
LeftSet(names) == [kind: {"create", "delete", "attach", "detach", "resize"}, name: names,
                   vm: Vms \cup {None}, unit: Units, size: Nat]

\* A step of the client changes at most the volume it was called for
\* (client.go:175-502), and to this.
LEMMA VolumeMade ==
    ASSUME CallsInv, NEW t \in Threads, ServiceStep(t)
    PROVE  LET n == rpc[t].name IN
           /\ n \in Names /\ phase[t] = "busy" /\ req[t].name = n
           /\ UNCHANGED <<phase, req, res, left, stray>>
           /\ vol' \in [Names -> VolumeSet]
           /\ \A x \in Names \ {n} : vol'[x] = vol[x]
           /\ \/ /\ rpc[t].op = "Create" /\ ~vol[n].here
                 /\ vol'[n].vm = None
              \/ /\ rpc[t].op \in {"Unpublish", "Delete", "Publish"}
                 /\ vol[n].vm # None
                 /\ rpc[t].op = "Publish" => vol[n].vm # rpc[t].vm
                 /\ vol'[n] = [vol[n] EXCEPT !.vm = None, !.unit = 0]
              \/ /\ rpc[t].op = "Delete" /\ vol[n].vm = None
                 /\ ~vol'[n].here /\ vol'[n].vm = None
              \/ /\ rpc[t].op = "Publish" /\ vol[n].here /\ vol[n].vm = None
                 /\ at[t] = "publish"
                 /\ \E u \in Units : vol'[n] = [vol[n] EXCEPT !.vm = rpc[t].vm, !.unit = u]
              \/ /\ rpc[t].op = "Expand" /\ at[t] = "resizing"
                 /\ vol[n].here /\ vol[n].vm = None
                 /\ vol'[n] = [vol[n] EXCEPT !.size = Mb(size[t])]
<1> DEFINE n == rpc[t].name
<1>0. phase[t] = "busy" /\ req[t].m # "ListVolumes"
  BY DEF ServiceStep, Created, Detached, Deleted, Attached, Resized, MayCreate, MayDetach,
         Unattached, Busy
<1>1. /\ n \in Names /\ req[t].name = n /\ req[t].vm = rpc[t].vm
      /\ req[t].size \in Nat /\ rpc[t].vm \in Vms \cup {None}
      /\ vol \in [Names -> VolumeSet] /\ 0 \in Units
      /\ req[t].m = "ResizeDisk" => req[t].size = Mb(size[t])
  BY <1>0, CallOf, ServiceAssumption DEF CallsInv, ControllerTypeOK, VolumeSet, CallInv
<1>2. vol[n] \in VolumeSet /\ NoVolume \in VolumeSet
  BY <1>1 DEF VolumeSet, NoVolume
<1>3. ASSUME NEW v \in VolumeSet, Makes(t, v)
      PROVE  /\ UNCHANGED <<phase, req, res, left, stray>> /\ vol' \in [Names -> VolumeSet]
             /\ vol'[n] = v /\ \A x \in Names \ {n} : vol'[x] = vol[x]
  BY <1>1, <1>3 DEF Makes, leftVars
<1>4. CASE Created(t)
  <2> DEFINE v == [NoVolume EXCEPT !.here = TRUE, !.size = req[t].size]
  <2>1. v \in VolumeSet /\ v.vm = None
    BY <1>1 DEF VolumeSet, NoVolume
  <2>2. Makes(t, v) /\ ~vol[n].here /\ req[t].m = "CreateDisk"
    BY <1>1, <1>4 DEF Created, MayCreate, Busy
  <2> HIDE DEF v
  <2> QED
    BY <1>0, <1>1, <1>3, <2>1, <2>2, CallOf
<1>5. CASE Detached(t)
  <2> DEFINE v == [vol[n] EXCEPT !.vm = None, !.unit = 0]
  <2>1. v \in VolumeSet
    BY <1>1, <1>2 DEF VolumeSet
  <2>2. /\ Makes(t, v) /\ req[t].m \in {"DetachDisk", "DeleteDisk", "AttachDisk"}
        /\ vol[n].vm # None /\ (req[t].m = "AttachDisk" => vol[n].vm # req[t].vm)
    BY <1>1, <1>5 DEF Detached, MayDetach, Busy
  <2>3. vol'[n] = v
    BY <1>3, <2>1, <2>2
  <2> HIDE DEF v
  <2>4. /\ rpc[t].op \in {"Unpublish", "Delete", "Publish"}
        /\ rpc[t].op = "Publish" => req[t].m = "AttachDisk"
    BY <1>0, <2>2, CallOf
  <2> QED
    BY <1>0, <1>1, <1>3, <2>1, <2>2, <2>3, <2>4 DEF v
<1>6. CASE Deleted(t)
  <2>1. Makes(t, NoVolume) /\ vol[n].vm = None /\ req[t].m = "DeleteDisk"
    BY <1>1, <1>6 DEF Deleted, Unattached, Busy
  <2>2. vol'[n] = NoVolume /\ rpc[t].op = "Delete"
    BY <1>0, <1>2, <1>3, <2>1, CallOf
  <2>3. ~vol'[n].here /\ vol'[n].vm = None
    BY <2>2 DEF NoVolume
  <2> QED
    BY <1>0, <1>1, <1>2, <1>3, <2>1, <2>2, <2>3
<1>7. CASE Attached(t)
  <2>1. req[t].m = "AttachDisk" /\ vol[n].here /\ vol[n].vm = None
    BY <1>1, <1>7 DEF Attached, Unattached, Busy
  <2>2. PICK u \in Units : Makes(t, [vol[n] EXCEPT !.vm = req[t].vm, !.unit = u])
    BY <1>1, <1>7 DEF Attached
  <2>3. [vol[n] EXCEPT !.vm = req[t].vm, !.unit = u] \in VolumeSet
    BY <1>1, <1>2 DEF VolumeSet
  <2>4. vol'[n] = [vol[n] EXCEPT !.vm = rpc[t].vm, !.unit = u]
    BY <1>1, <1>3, <2>2, <2>3
  <2>5. rpc[t].op = "Publish" /\ at[t] = "publish"
    BY <1>0, <2>1, CallOf
  <2>6. \E w \in Units : vol'[n] = [vol[n] EXCEPT !.vm = rpc[t].vm, !.unit = w]
    BY <2>4
  <2>7. /\ UNCHANGED <<phase, req, res, left, stray>> /\ vol' \in [Names -> VolumeSet]
        /\ \A x \in Names \ {n} : vol'[x] = vol[x]
    BY <1>3, <2>2, <2>3
  <2> QED
    BY <1>0, <1>1, <2>1, <2>5, <2>6, <2>7
<1>8. CASE Resized(t)
  <2>1. /\ req[t].m = "ResizeDisk" /\ vol[n].here /\ vol[n].vm = None
        /\ Makes(t, [vol[n] EXCEPT !.size = req[t].size])
    BY <1>1, <1>8 DEF Resized, Unattached, Busy
  <2>2. [vol[n] EXCEPT !.size = req[t].size] \in VolumeSet
    BY <1>1, <1>2 DEF VolumeSet
  <2>3. vol'[n] = [vol[n] EXCEPT !.size = Mb(size[t])]
    BY <1>1, <1>3, <2>1, <2>2
  <2> QED
    BY <1>0, <1>1, <1>3, <2>1, <2>2, <2>3, CallOf
<1> QED
  BY <1>4, <1>5, <1>6, <1>7, <1>8 DEF ServiceStep

\* The request that a call leaves behind is one for its own volume.
LEMMA LeavesTypes ==
    ASSUME CallsInv, NEW t \in Threads, Leaves(t)
    PROVE  /\ phase[t] = "busy" /\ req[t].m \notin {"ListVolumes", "none"}
           /\ stray' = stray \cup {rpc[t].name} /\ rpc[t].name \in Names
           /\ left' \subseteq LeftSet(stray')
<1>1. phase[t] = "busy" /\ req[t].m \notin {"ListVolumes", "none"}
  BY DEF Leaves, MayCreate, MayDetach, Unattached, Busy
<1>2. /\ req[t].name = rpc[t].name /\ rpc[t].name \in Names
      /\ req[t].vm \in Vms \cup {None} /\ req[t].size \in Nat /\ 0 \in Units
      /\ vol[req[t].name].vm \in Vms \cup {None}
  BY <1>1, CallOf, ServiceAssumption DEF CallsInv, ControllerTypeOK
<1>3. PICK kind \in {"create", "delete", "attach", "detach", "resize"},
           vm \in Vms \cup {None}, u \in Units : Left(t, kind, vm, u)
  BY <1>2 DEF Leaves
<1>4. left \subseteq LeftSet(stray)
  BY DEF CallsInv, ControllerTypeOK, LeftSet
<1>5. stray' = stray \cup {rpc[t].name}
  BY <1>2, <1>3 DEF Left
<1>6. LeftSet(stray) \subseteq LeftSet(stray')
  BY <1>5 DEF LeftSet
<1>7. left' = left \cup {[kind |-> kind, name |-> rpc[t].name, vm |-> vm, unit |-> u,
                           size |-> req[t].size]}
  BY <1>2, <1>3 DEF Left
<1>8. [kind |-> kind, name |-> rpc[t].name, vm |-> vm, unit |-> u, size |-> req[t].size]
         \in LeftSet(stray')
  BY <1>2, <1>3, <1>5 DEF LeftSet
<1> QED
  BY <1>1, <1>2, <1>4, <1>5, <1>6, <1>7, <1>8

\* A request left behind makes a volume of its volume.
LEMMA LeftMade ==
    ASSUME CallsInv, NEW k \in left, LeftRuns(k)
    PROVE  /\ k.name \in stray /\ k.name \in Names
           /\ vol' \in [Names -> VolumeSet] /\ vol'[k.name] = LeftResult(k)
           /\ \A x \in Names \ {k.name} : vol'[x] = vol[x]
           /\ left' = left \ {k} /\ UNCHANGED <<phase, req, res, stray>>
<1>1. /\ k \in LeftSet(stray) /\ stray \subseteq Names /\ 0 \in Units
      /\ vol \in [Names -> VolumeSet]
  BY ServiceAssumption DEF CallsInv, ControllerTypeOK, LeftSet, VolumeSet
<1>2. /\ k.kind \in {"create", "delete", "attach", "detach", "resize"}
      /\ k.name \in stray /\ k.name \in Names /\ k.vm \in Vms \cup {None}
      /\ k.unit \in Units /\ k.size \in Nat
  BY <1>1 DEF LeftSet
<1>3. vol[k.name] \in VolumeSet /\ NoVolume \in VolumeSet
  BY <1>1, <1>2 DEF VolumeSet, NoVolume
<1>4. LeftResult(k) \in VolumeSet
  <2>1. CASE k.kind = "create"
    <3>1. [NoVolume EXCEPT !.here = TRUE, !.size = k.size] \in VolumeSet
      BY <1>1, <1>2 DEF VolumeSet, NoVolume
    <3> QED
      BY <2>1, <3>1 DEF LeftResult
  <2>2. CASE k.kind = "delete"
    BY <1>3, <2>2 DEF LeftResult
  <2>3. CASE k.kind = "attach"
    <3>1. [vol[k.name] EXCEPT !.vm = k.vm, !.unit = k.unit] \in VolumeSet
      BY <1>2, <1>3 DEF VolumeSet
    <3> QED
      BY <2>3, <3>1 DEF LeftResult
  <2>4. CASE k.kind = "detach"
    <3>1. [vol[k.name] EXCEPT !.vm = None, !.unit = 0] \in VolumeSet
      BY <1>1, <1>3 DEF VolumeSet
    <3> QED
      BY <2>4, <3>1 DEF LeftResult
  <2>5. CASE k.kind = "resize"
    <3>1. [vol[k.name] EXCEPT !.size = k.size] \in VolumeSet
      BY <1>2, <1>3 DEF VolumeSet
    <3> QED
      BY <2>5, <3>1 DEF LeftResult
  <2> QED
    BY <1>2, <2>1, <2>2, <2>3, <2>4, <2>5
<1>5. /\ vol' = [vol EXCEPT ![k.name] = LeftResult(k)] /\ left' = left \ {k}
      /\ UNCHANGED <<phase, req, res, stray>>
  BY DEF LeftRuns
<1> QED
  BY <1>1, <1>2, <1>4, <1>5

\* The cloud keeps the invariant.
LEMMA CloudKeeps ==
    ASSUME CallsInv, Cloud
    PROVE  CallsInv'
<1>0. UNCHANGED <<lock, at, rpc, size, reply>>
  BY DEF Cloud, handlerVars
<1>1. PICK k \in left : LeftRuns(k) \/ LeftDropped(k)
  BY DEF Cloud
<1>2. /\ UNCHANGED <<phase, req, res, stray>> /\ left' \subseteq left
      /\ vol' \in [Names -> VolumeSet]
  BY <1>1, LeftMade DEF LeftDropped, CallsInv, ControllerTypeOK, VolumeSet
<1>3. ServiceTypeOK' /\ ControllerTypeOK'
  BY <1>0, <1>2 DEF CallsInv, ServiceTypeOK, ControllerTypeOK, VolumeSet
<1>4. ASSUME NEW u \in Threads PROVE ThreadInv(u)'
  BY <1>0, <1>2, ThreadInvFrame, CallsInvParts DEF Frame
<1> QED
  BY <1>3, <1>4 DEF CallsInv, ThreadInv, CapacityAnswered

\* The end of the process (ExpandPanics, MapRace, Killed).
LEMMA RestartKeeps ==
    ASSUME CallsInv, Restart
    PROVE  CallsInv'
<1>1. NoReq \in ReqSet /\ NoRes \in ResSet
  BY ServiceAssumption DEF NoReq, NoRes, ReqSet, ResSet, Methods
<1>2. ServiceTypeOK'
  BY <1>1 DEF Restart, ServiceTypeOK
<1>3. stray' \subseteq Names /\ left' \subseteq LeftSet(stray')
  <2>1. stray \subseteq Names /\ left \subseteq LeftSet(stray)
    BY DEF CallsInv, ControllerTypeOK, LeftSet
  <2>2. CASE UNCHANGED leftVars
    BY <2>1, <2>2 DEF leftVars, LeftSet
  <2>3. CASE \E t \in Threads : Leaves(t)
    BY <2>1, <2>3, LeavesTypes
  <2> QED
    BY <2>2, <2>3 DEF Restart
<1>4. ControllerTypeOK'
  BY <1>3, ServiceAssumption DEF Restart, CallsInv, ControllerTypeOK, LeftSet, NoReply, Codes
<1>5. ASSUME NEW t \in Threads PROVE ThreadInv(t)'
  BY DEF Restart, ThreadInv, CallInv, SizeInv, AnswersOk, Waiting
<1> QED
  BY <1>2, <1>4, <1>5 DEF CallsInv, ThreadInv, CapacityAnswered

\* The call of t returns r.
Returns(t, r) ==
    /\ phase' = [phase EXCEPT ![t] = "done"]
    /\ res' = [res EXCEPT ![t] = r]
    /\ UNCHANGED <<vol, req>>

\* A call that returns leaves no request behind, unless its answer is lost.
LEMMA FinishReturns ==
    ASSUME CallsInv, NEW t \in Threads, NEW r, Finish(t, r)
    PROVE  /\ Returns(t, r) /\ UNCHANGED <<left, stray>>
           /\ stray' \subseteq Names /\ left' \subseteq LeftSet(stray')
BY DEF Finish, Returns, leftVars, CallsInv, ControllerTypeOK, LeftSet

\* The steps of the client keep the invariant.
LEMMA ClientKeeps ==
    ASSUME CallsInv, NEW t \in Threads, Client(t)
    PROVE  CallsInv'
<1>0. UNCHANGED <<lock, at, rpc, size, reply>>
  BY DEF Client, handlerVars
<1>1. CASE ServiceStep(t)
  <2>1. UNCHANGED <<phase, req, res, left, stray>> /\ vol' \in [Names -> VolumeSet]
    BY <1>1, VolumeMade
  <2>2. ServiceTypeOK' /\ ControllerTypeOK'
    BY <1>0, <2>1 DEF CallsInv, ServiceTypeOK, ControllerTypeOK, VolumeSet
  <2>3. ASSUME NEW u \in Threads PROVE ThreadInv(u)'
    BY <1>0, <2>1, ThreadInvFrame, CallsInvParts DEF Frame
  <2> QED
    BY <2>2, <2>3 DEF CallsInv, ThreadInv, CapacityAnswered
<1>2. ASSUME phase[t] = "busy", NEW r \in ResSet, Returns(t, r),
             stray' \subseteq Names, left' \subseteq LeftSet(stray')
      PROVE  CallsInv'
  <2>1. ServiceTypeOK' /\ ControllerTypeOK'
    BY <1>0, <1>2 DEF CallsInv, ServiceTypeOK, ControllerTypeOK, LeftSet, Returns
  <2>2. phase'[t] = "done" /\ req'[t] = req[t]
    BY <1>2 DEF CallsInv, ServiceTypeOK, Returns
  <2>3. ThreadInv(t)'
    BY <1>0, <1>2, <2>2, CallsInvParts DEF ThreadInv, CallInv, SizeInv, AnswersOk
  <2>4. \A u \in Threads \ {t} : Frame(u)' = Frame(u)
    BY <1>0, <1>2 DEF CallsInv, ServiceTypeOK, Returns, Frame
  <2> QED
    BY <2>1, <2>3, <2>4, OneMoves
<1>3. CASE Succeeds(t)
  <2>1. phase[t] = "busy" /\ Finish(t, Answer(t))
    BY <1>3 DEF Succeeds
  <2>2. vol \in [Names -> VolumeSet] /\ 0 \in Units
    BY ServiceAssumption DEF CallsInv, ControllerTypeOK, VolumeSet
  <2>3. Listing \in SUBSET [name: Names, size: Nat]
    BY <2>2 DEF Listing, VolumeSet
  <2>4. req[t].m = "AttachDisk" => vol[req[t].name].unit \in Units
    BY <2>1, <2>2, CallOf DEF VolumeSet
  <2>5. Answer(t) \in ResSet
    BY <2>2, <2>3, <2>4 DEF Answer, NoRes, ResSet
  <2> QED
    BY <1>2, <2>1, <2>5, FinishReturns
<1>4. CASE Refuses(t)
  <2>1. PICK e \in Errs \ {"nil"} : Finish(t, [NoRes EXCEPT !.err = e])
    BY <1>4 DEF Refuses
  <2>2. [NoRes EXCEPT !.err = e] \in ResSet
    BY ServiceAssumption DEF NoRes, ResSet
  <2> QED
    BY <1>2, <1>4, <2>1, <2>2, FinishReturns DEF Refuses
<1>5. CASE AnswerLost(t)
  <2>1. phase[t] = "busy" /\ stray' \subseteq Names /\ left' \subseteq LeftSet(stray')
    BY <1>5, LeavesTypes DEF AnswerLost, CallsInv, ControllerTypeOK
  <2>2. [NoRes EXCEPT !.err = "other"] \in ResSet
    BY ServiceAssumption DEF NoRes, ResSet
  <2> QED
    BY <1>2, <1>5, <2>1, <2>2 DEF AnswerLost, Returns
<1>6. CASE Misled(t)
  <2>1. PICK e \in Errs, u \in Units : Finish(t, [NoRes EXCEPT !.err = e, !.unit = u])
    BY <1>6 DEF Misled
  <2>2. [NoRes EXCEPT !.err = e, !.unit = u] \in ResSet
    BY DEF NoRes, ResSet
  <2> QED
    BY <1>2, <1>6, <2>1, <2>2, FinishReturns DEF Misled
<1> QED
  BY <1>1, <1>3, <1>4, <1>5, <1>6 DEF Client

-----------------------------------------------------------------------------
(* The invariant, and what follows from it however the sidecars call. *)

\* The steps of the handlers keep CallsInv.
LEMMA HandlerKeeps ==
    ASSUME CallsInv, NEW t \in Threads, Handler(t)
    PROVE  CallsInv'
<1>1. CASE RejectInvalid(t)
  <2>1. at[t] = "begin" /\ \E code \in Codes \ {"OK"} : Rejects(t, code)
    BY <1>1 DEF RejectInvalid, Codes
  <2> QED
    BY <2>1, RejectKeeps
<1>2. CASE ExpandPanics(t)
  BY <1>2, RestartKeeps DEF ExpandPanics
<1> QED
  BY <1>1, <1>2, CreateVolumeKeeps, PassOnKeeps, PublishKeeps, ExpandDecideKeeps,
     ExpandResizeKeeps, ReceiveKeeps DEF Handler

\* Every step keeps CallsInv.
LEMMA CallsInvStep == CallsInv /\ [ControllerNext]_controllerVars => CallsInv'
<1> SUFFICES ASSUME CallsInv, [ControllerNext]_controllerVars PROVE CallsInv'
  OBVIOUS
<1>1. ASSUME NEW t \in Threads,
             (\E r \in Rpcs : Receive(t, r)) \/ Handler(t) \/ Client(t)
      PROVE  CallsInv'
  BY <1>1, ReceiveKeeps, HandlerKeeps, ClientKeeps
<1>2. CASE MapRace \/ Killed
  BY <1>2, RestartKeeps DEF MapRace, Killed
<1>3. CASE UNCHANGED controllerVars
  BY <1>3 DEF controllerVars, serviceVars, leftVars, handlerVars, CallsInv, ControllerTypeOK,
              ServiceTypeOK, CallInv, SizeInv, CapacityAnswered, AnswersOk
<1>4. CASE Cloud
  BY <1>4, CloudKeeps
<1> QED
  BY <1>1, <1>2, <1>3, <1>4 DEF ControllerNext

(***************************************************************************)
(* Every handler that waits for the client has made the call that belongs  *)
(* to its place in the code and to its request, and works with the size    *)
(* of its own range, however calls overlap, fail and are cut short.        *)
(***************************************************************************)
THEOREM CallsInvariant == ControllerSpec => []CallsInv
<1>1. ControllerInit => CallsInv
  BY CallsInvInit
<1>2. CallsInv /\ [ControllerNext]_controllerVars => CallsInv'
  BY CallsInvStep
<1> QED
  BY <1>1, <1>2, PTL DEF ControllerSpec

(***************************************************************************)
(* The handlers and the locker (disk.go, locker.go) keep the types of      *)
(* their variables, with any sidecars.                                     *)
(***************************************************************************)
THEOREM ControllerTypeCorrect == ControllerSpec => []ControllerTypeOK
<1>1. CallsInv => ControllerTypeOK
  BY DEF CallsInv
<1> QED
  BY <1>1, CallsInvariant, PTL

(***************************************************************************)
(* The capacity that CreateVolume and ControllerExpandVolume answer        *)
(* (disk.go:88-95, 371, 399) fits the request, for all ranges and all      *)
(* supported sizes, with any sidecars.                                     *)
(***************************************************************************)
THEOREM CapacityFits == ControllerSpec => []CapacityAnswered
<1>1. CallsInv => CapacityAnswered
  BY DEF CallsInv
<1> QED
  BY <1>1, CallsInvariant, PTL

-----------------------------------------------------------------------------
(* Sidecars that wait for their answers. *)

\* The calls that run together are those that may.
PatientInv ==
    \A t, u \in Threads : t # u /\ at[t] # "idle" /\ at[u] # "idle" =>
                             ~Conflict(rpc[t], rpc[u])

\* The result that a Publish is about to answer with is true, if no request for
\* the volume has been left behind.
PublishInv(t) ==
    LET n == rpc[t].name IN
    at[t] = "publish" /\ phase[t] = "done" /\ res[t].err = "nil"
      /\ n \notin stray /\ vol[n].vm = rpc[t].vm => vol[n].unit = res[t].unit

\* The resize of t is done.
HasResized(t) ==
    \/ at[t] = "resizing" /\ phase[t] = "done" /\ res[t].err = "nil"
    \/ at[t] = "pop"

\* What an Expand has listed is still the size of the volume, it will not make
\* it smaller, and the volume keeps the size it has made; again, if no request
\* for the volume has been left behind.
GrowInv(t) ==
    LET n == rpc[t].name IN
    n \notin stray /\ vol[n].here =>
       /\ at[t] = "list" /\ phase[t] = "done" /\ res[t].err = "nil" =>
             \A e \in res[t].list : e.name = n => e.size = vol[n].size
       /\ at[t] \in {"resize", "resizing"} => FromMb(vol[n].size) <= size[t]
       /\ HasResized(t) => vol[n].size = Mb(size[t])

WaitInv ==
    /\ PatientInv
    /\ ExpandedIsLarge /\ PublishedUnit
    /\ \A t \in Threads : PublishInv(t) /\ GrowInv(t)

\* Conflict is symmetric.
LEMMA ConflictSymmetric ==
    ASSUME NEW r, NEW q PROVE Conflict(r, q) <=> Conflict(q, r)
BY DEF Conflict

\* The calls that conflict.
LEMMA Conflicting ==
    ASSUME NEW r, NEW q, r.name = q.name, ~Conflict(r, q)
    PROVE  /\ r.op # q.op
           /\ r.op \in {"Create", "Delete"} => q.op \notin {"Create", "Delete"}
           /\ r.op \in {"Publish", "Unpublish"} => q.op \notin {"Publish", "Unpublish"}
           /\ r.op = "Create" => q.op # "Expand"
           /\ r.op = "Expand" => q.op # "Create"
BY DEF Conflict, Sidecar

\* What WaitInv says of thread t.
OneWaits(t) ==
    LET n == rpc[t].name IN
    /\ PublishInv(t) /\ GrowInv(t)
    /\ AnswersOk(t, "Expand") /\ n \notin stray /\ vol[n].here =>
           Mb(rpc[t].range.required) <= vol[n].size
    /\ AnswersOk(t, "Publish") /\ n \notin stray /\ vol[n].vm = rpc[t].vm =>
           vol[n].unit = reply[t].unit

\* WaitInv, thread by thread.
LEMMA WaitInvParts ==
    WaitInv <=> PatientInv /\ \A t \in Threads : OneWaits(t)
BY DEF WaitInv, OneWaits, ExpandedIsLarge, PublishedUnit

\* The process begins without calls that could conflict.
LEMMA WaitInvInit == ControllerInit => WaitInv
BY DEF ControllerInit, WaitInv, PatientInv, ExpandedIsLarge, PublishedUnit, AnswersOk,
       PublishInv, GrowInv, HasResized

\* A step that begins no call keeps the calls that run together.
LEMMA PatientKept ==
    ASSUME PatientInv,
           \A t \in Threads : at'[t] # "idle" => at[t] # "idle" /\ rpc'[t] = rpc[t]
    PROVE  PatientInv'
BY DEF PatientInv

\* What a step of a handler leaves alone: the volumes and the other handlers.
HandlerFrame(t) ==
    /\ UNCHANGED <<vol, stray>>
    /\ \A u \in Threads \ {t} : Frame(u)' = Frame(u)
    /\ at'[t] # "idle" => at[t] # "idle" /\ rpc'[t] = rpc[t]

\* The endings of a step again.
LEMMA EndingFrames ==
    ASSUME CallsInv, NEW t \in Threads, at[t] # "idle",
           \/ /\ UNCHANGED serviceVars \/ Taken(t)
              /\ \E code, unit, cap : Respond(t, code, unit, cap)
           \/ \E l, m, mb : CallClient(t, l, m, mb) /\ UNCHANGED size
           \/ /\ Taken(t) /\ \E l : at' = [at EXCEPT ![t] = l]
              /\ UNCHANGED <<rpc, reply>>
              /\ size' = size \/ \E b : size' = [size EXCEPT ![t] = b]
    PROVE  HandlerFrame(t)
<1>1. /\ DOMAIN at = Threads /\ DOMAIN rpc = Threads /\ DOMAIN reply = Threads
      /\ DOMAIN size = Threads /\ DOMAIN phase = Threads /\ DOMAIN req = Threads
      /\ DOMAIN res = Threads
  BY DEF CallsInv, ControllerTypeOK, ServiceTypeOK
<1> QED
  BY <1>1 DEF HandlerFrame, Frame, serviceVars, leftVars, Taken, Respond, CallClient, Begin

\* What is known of a handler stays true while its volume does not change; and
\* nothing is known any more once a request for the volume is left behind.
LEMMA OneWaitsKept ==
    ASSUME NEW u \in Threads, OneWaits(u), Frame(u)' = Frame(u), stray \subseteq stray',
           vol'[rpc[u].name] = vol[rpc[u].name] \/ rpc[u].name \in stray'
    PROVE  OneWaits(u)'
<1>1. /\ at'[u] = at[u] /\ rpc'[u] = rpc[u] /\ size'[u] = size[u] /\ reply'[u] = reply[u]
      /\ phase'[u] = phase[u] /\ res'[u] = res[u]
  BY DEF Frame
<1> QED
  BY <1>1 DEF OneWaits, PublishInv, GrowInv, HasResized, AnswersOk

\* So it is enough to look at the handler that moves.
LEMMA OneWaitsMoves ==
    ASSUME CallsInv, WaitInv, NEW t \in Threads, HandlerFrame(t), OneWaits(t)'
    PROVE  WaitInv'
<1>1. ASSUME NEW u \in Threads PROVE OneWaits(u)'
  BY OneWaitsKept, WaitInvParts DEF HandlerFrame
<1>2. PatientInv'
  BY PatientKept DEF WaitInv, HandlerFrame, Frame
<1> QED
  BY <1>1, <1>2 DEF WaitInv, OneWaits, ExpandedIsLarge, PublishedUnit

\* Answering keeps what the invariant says of the handler, if the answer of a
\* Publish is true and an Expand has made the volume large.
LEMMA RespondWaits ==
    ASSUME CallsInv, WaitInv, NEW t \in Threads, at[t] # "idle",
           NEW code, NEW unit, NEW cap, Respond(t, code, unit, cap),
           UNCHANGED serviceVars \/ Taken(t),
           code = "OK" /\ rpc[t].op = "Expand" /\ rpc[t].name \notin stray
             /\ vol[rpc[t].name].here =>
               Mb(rpc[t].range.required) <= vol[rpc[t].name].size,
           code = "OK" /\ rpc[t].op = "Publish" /\ rpc[t].name \notin stray
             /\ vol[rpc[t].name].vm = rpc[t].vm =>
               vol[rpc[t].name].unit = unit
    PROVE  WaitInv'
<1>1. HandlerFrame(t)
  BY EndingFrames
<1>2. /\ at'[t] = "done" /\ rpc'[t] = rpc[t] /\ vol' = vol /\ stray' = stray
      /\ reply'[t] = [code |-> code, unit |-> unit, cap |-> cap]
  BY <1>1 DEF Respond, CallsInv, ControllerTypeOK, HandlerFrame
<1>3. OneWaits(t)'
  BY <1>2 DEF OneWaits, PublishInv, GrowInv, HasResized, AnswersOk
<1> QED
  BY <1>1, <1>3, OneWaitsMoves

\* Calling the client keeps it, for a resize as well.
LEMMA CallWaits ==
    ASSUME CallsInv, WaitInv, NEW t \in Threads, at[t] # "idle",
           NEW l \in Waiting, NEW m, NEW mb, CallClient(t, l, m, mb), UNCHANGED size,
           l = "resizing" => at[t] = "resize"
    PROVE  WaitInv'
<1>1. HandlerFrame(t)
  BY EndingFrames
<1>2. /\ at'[t] = l /\ rpc'[t] = rpc[t] /\ size'[t] = size[t] /\ vol' = vol
      /\ stray' = stray /\ phase'[t] = "busy"
  BY DEF CallClient, Begin, leftVars, CallsInv, ControllerTypeOK, ServiceTypeOK
<1>3. OneWaits(t)
  BY WaitInvParts
<1>4. OneWaits(t)'
  BY <1>2, <1>3 DEF OneWaits, PublishInv, GrowInv, HasResized, AnswersOk, Waiting
<1> QED
  BY <1>1, <1>4, OneWaitsMoves

\* Going on in Expand keeps it, if the volume is not to become smaller, or has
\* got its size.
LEMMA GoesOnWaits ==
    ASSUME CallsInv, WaitInv, NEW t \in Threads, at[t] # "idle", NEW l,
           l \in {"resize", "pop", "put"}, Taken(t), at' = [at EXCEPT ![t] = l],
           UNCHANGED <<rpc, reply>>,
           size' = size \/ \E b : size' = [size EXCEPT ![t] = b],
           rpc[t].name \notin stray /\ vol[rpc[t].name].here =>
               /\ l = "resize" => FromMb(vol[rpc[t].name].size) <= size'[t]
               /\ l = "pop" => vol[rpc[t].name].size = Mb(size'[t])
    PROVE  WaitInv'
<1>1. HandlerFrame(t)
  BY EndingFrames
<1>2. at'[t] = l /\ rpc'[t] = rpc[t] /\ vol' = vol /\ stray' = stray
  BY <1>1 DEF HandlerFrame, CallsInv, ControllerTypeOK
<1>3. OneWaits(t)'
  BY <1>2 DEF OneWaits, PublishInv, GrowInv, HasResized, AnswersOk
<1> QED
  BY <1>1, <1>3, OneWaitsMoves

\* The handlers, one action after the other.
LEMMA HandlerWaits ==
    ASSUME CallsInv, WaitInv, NEW t \in Threads, Handler(t), ~ExpandPanics(t)
    PROVE  WaitInv'
<1> DEFINE n == rpc[t].name
<1>1. CASE RejectInvalid(t)
  <2>1. PICK code \in Codes \ {"OK"} : Rejects(t, code)
    BY <1>1 DEF RejectInvalid, Codes
  <2>2. at[t] # "idle" /\ Respond(t, code, 0, 0) /\ UNCHANGED <<serviceVars, lock>>
    BY <1>1, <2>1 DEF RejectInvalid, Rejects
  <2> QED
    BY <2>2, RespondWaits
<1>2. CASE CreateVolume(t)
  <2>1. at[t] # "idle" /\ rpc[t].op = "Create"
    BY <1>2 DEF CreateVolume, Enters
  <2>2. CASE Rejects(t, "OutOfRange")
    BY <2>1, <2>2, RespondWaits DEF Rejects
  <2>3. CASE /\ CallClient(t, "create", "CreateDisk", Mb(extractStorage(rpc[t].range)))
             /\ UNCHANGED <<lock, size>>
    BY <2>1, <2>3, CallWaits DEF Waiting
  <2> QED
    BY <1>2, <2>2, <2>3 DEF CreateVolume
<1>3. CASE CreateVolumeEnds(t) \/ PassOnEnds(t)
  <2>1. /\ at[t] \in {"create", "passed"} /\ Taken(t) /\ UNCHANGED lock
        /\ \E code, unit, cap : Respond(t, code, unit, cap)
    BY <1>3 DEF CreateVolumeEnds, PassOnEnds, ClientDone
  <2>2. rpc[t].op \notin {"Publish", "Expand"}
    BY <2>1 DEF CallsInv, CallInv, SimpleCall
  <2> QED
    BY <2>1, <2>2, RespondWaits
<1>4. CASE PassOn(t)
  <2>1. /\ at[t] = "begin" /\ UNCHANGED <<lock, size>>
        /\ \E op \in DOMAIN SimpleCall : CallClient(t, "passed", SimpleCall[op], 0)
    BY <1>4 DEF PassOn, Enters
  <2> QED
    BY <2>1, CallWaits DEF Waiting
<1>5. CASE ControllerPublishVolume(t)
  <2>1. at[t] # "idle" /\ rpc[t].op = "Publish"
    BY <1>5 DEF ControllerPublishVolume, Enters
  <2>2. CASE Respond(t, "Internal", 0, 0) /\ UNCHANGED serviceVars
    BY <2>1, <2>2, RespondWaits
  <2>3. CASE CallClient(t, "publish", "AttachDisk", 0) /\ UNCHANGED size
    BY <2>1, <2>3, CallWaits DEF Waiting
  <2> QED
    BY <1>5, <2>2, <2>3 DEF ControllerPublishVolume
<1>6. CASE PublishEnds(t)
  <2>1. at[t] = "publish" /\ phase[t] = "done" /\ Taken(t) /\ UNCHANGED lock
    BY <1>6 DEF PublishEnds, ClientDone
  <2>2. rpc[t].op = "Publish"
    BY <2>1 DEF CallsInv, CallInv
  <2>3. CASE res[t].err = "nil" /\ Respond(t, "OK", res[t].unit, 0)
    <3>1. n \notin stray /\ vol[n].vm = rpc[t].vm => vol[n].unit = res[t].unit
      BY <2>1, <2>3 DEF WaitInv, PublishInv
    <3> QED
      BY <2>1, <2>2, <2>3, <3>1, RespondWaits
  <2>4. CASE Respond(t, PublishCode(res[t].err), 0, 0)
    <3>1. PublishCode(res[t].err) # "OK"
      BY DEF PublishCode
    <3> QED
      BY <2>1, <2>2, <2>4, <3>1, RespondWaits
  <2> QED
    BY <1>6, <2>3, <2>4 DEF PublishEnds, UnitPublished
<1>7. CASE ExpandList(t)
  BY <1>7, CallWaits DEF ExpandList, Enters, Waiting
<1>8. CASE ExpandDecide(t)
  <2>1. /\ at[t] = "list" /\ phase[t] = "done" /\ Taken(t) /\ UNCHANGED lock
        /\ rpc[t].op = "Expand" /\ rpc[t].range.given
    BY <1>8 DEF ExpandDecide, ClientDone, CallsInv, CallInv
  <2>2. CASE Respond(t, "Unknown", 0, 0) \/ Respond(t, "OutOfRange", 0, 0)
    BY <2>1, <2>2, RespondWaits
  <2>4. ASSUME res[t].err = "nil", extractStorage(rpc[t].range) # Invalid,
               NEW c \in Listed(t), SkipResize(extractStorage(rpc[t].range), c),
               Respond(t, "OK", 0, c)
        PROVE  WaitInv'
    <3>1. PICK e \in res[t].list : e.name = n /\ c = FromMb(e.size)
      BY <2>1, ListedNat
    <3>2. /\ c \in Nat /\ rpc[t].range.required \in Int
          /\ rpc[t].range.required <= extractStorage(rpc[t].range)
          /\ extractStorage(rpc[t].range) \in Nat
          /\ n \in Names /\ vol[n].size \in Nat
      BY <2>1, <2>4, ListedNat, HandlerTypes, AcceptedSize, RangeTypes
    <3>3. ASSUME n \notin stray, vol[n].here PROVE Mb(rpc[t].range.required) <= vol[n].size
      <4>1. FromMb(vol[n].size) = c
        BY <2>1, <2>4, <3>1, <3>3 DEF WaitInv, GrowInv
      <4>2. rpc[t].range.required < FromMb(vol[n].size) + MiB
        BY <2>4, <3>2, <4>1, CapacityAssumption DEF SkipResize
      <4> QED
        BY <3>2, <4>2, MbAtMost
    <3> QED
      BY <2>1, <2>4, <3>3, RespondWaits
  <2>3. ASSUME res[t].err = "nil", extractStorage(rpc[t].range) # Invalid,
               NEW c \in Listed(t), ~SkipResize(extractStorage(rpc[t].range), c),
               at' = [at EXCEPT ![t] = "resize"],
               size' = [size EXCEPT ![t] = extractStorage(rpc[t].range)],
               UNCHANGED <<rpc, reply>>
        PROVE  WaitInv'
    <3>1. PICK e \in res[t].list : e.name = n /\ c = FromMb(e.size)
      BY <2>1, ListedNat
    <3>2. c \in Nat /\ extractStorage(rpc[t].range) \in Nat
      BY <2>1, <2>3, ListedNat, HandlerTypes, AcceptedSize
    <3>3. n \notin stray /\ vol[n].here => FromMb(vol[n].size) = c
      BY <2>1, <2>3, <3>1 DEF WaitInv, GrowInv
    <3>4. c <= size'[t]
      BY <2>3, <3>2 DEF SkipResize, CallsInv, ControllerTypeOK
    <3> QED
      BY <2>1, <2>3, <3>3, <3>4, GoesOnWaits
  <2> QED
    BY <1>8, <2>2, <2>3, <2>4 DEF ExpandDecide
<1>9. CASE ExpandResize(t)
  BY <1>9, CallWaits DEF ExpandResize, Waiting
<1>10. CASE ExpandResized(t)
  <2>1. at[t] = "resizing" /\ phase[t] = "done" /\ Taken(t)
    BY <1>10 DEF ExpandResized, ClientDone
  <2>2. CASE Respond(t, "Internal", 0, 0)
    BY <2>1, <2>2, RespondWaits
  <2>3. ASSUME NEW l \in {"pop", "put"}, at' = [at EXCEPT ![t] = l],
               l = "pop" => res[t].err = "nil", UNCHANGED <<rpc, size, reply>>
        PROVE  WaitInv'
    <3>1. l = "pop" /\ n \notin stray /\ vol[n].here => vol[n].size = Mb(size[t])
      BY <2>1, <2>3 DEF WaitInv, GrowInv, HasResized
    <3> QED
      BY <2>1, <2>3, <3>1, GoesOnWaits
  <2> QED
    BY <1>10, <2>2, <2>3 DEF ExpandResized
<1>11. CASE ExpandPop(t)
  <2>1. /\ at[t] = "pop" /\ Respond(t, "OK", 0, size[t]) /\ UNCHANGED serviceVars
        /\ rpc[t].op = "Expand" /\ rpc[t].range.given
    BY <1>11 DEF ExpandPop, CallsInv, CallInv
  <2>2. /\ rpc[t].range.required \in Int /\ rpc[t].range.required <= size[t]
        /\ size[t] \in Nat
    BY <2>1, HandlerTypes, AcceptedSize, RangeTypes DEF SizeInv
  <2>3. Mb(rpc[t].range.required) <= Mb(size[t])
    <3>1. Mb(size[t]) \in Nat /\ size[t] < FromMb(Mb(size[t])) + MiB
      BY <2>2, MbNat, TruncationBounded
    <3>2. FromMb(Mb(size[t])) \in Nat /\ MiB \in Nat
      BY <3>1, FromMbNat, CapacityAssumption
    <3>3. rpc[t].range.required < FromMb(Mb(size[t])) + MiB
      BY <2>2, <3>1, <3>2
    <3> QED
      BY <2>2, <3>1, <3>3, MbAtMost
  <2>4. n \notin stray /\ vol[n].here => vol[n].size = Mb(size[t])
    BY <2>1 DEF WaitInv, GrowInv, HasResized
  <2> QED
    BY <2>1, <2>3, <2>4, RespondWaits
<1>12. CASE ExpandPut(t)
  <2>1. at[t] = "put" /\ Respond(t, "Internal", 0, 0) /\ UNCHANGED serviceVars
    BY <1>12 DEF ExpandPut
  <2> QED
    BY <2>1, RespondWaits
<1>13. CASE Answered(t)
  <2>1. HandlerFrame(t) /\ at'[t] = "idle"
    BY <1>13 DEF Answered, HandlerFrame, Frame, serviceVars, leftVars, CallsInv,
                 ControllerTypeOK
  <2>2. OneWaits(t)'
    BY <2>1 DEF OneWaits, PublishInv, GrowInv, HasResized, AnswersOk
  <2> QED
    BY <2>1, <2>2, OneWaitsMoves
<1> QED
  BY <1>1, <1>2, <1>3, <1>4, <1>5, <1>6, <1>7, <1>8, <1>9, <1>10, <1>11, <1>12, <1>13
     DEF Handler

\* What the calls that are not the attacher's, and those that do not set a size,
\* make of their volume.
LEMMA OthersMake ==
    ASSUME CallsInv, NEW t \in Threads, ServiceStep(t)
    PROVE  LET n == rpc[t].name IN
           /\ rpc[t].op \notin {"Publish", "Unpublish"} => vol'[n].vm = None
           /\ rpc[t].op \notin {"Create", "Expand"} =>
                 \/ ~vol'[n].here
                 \/ vol'[n].size = vol[n].size /\ vol'[n].here = vol[n].here
<1> DEFINE n == rpc[t].name
<1>1. vol[n] \in VolumeSet
  BY VolumeMade DEF CallsInv, ControllerTypeOK, VolumeSet
<1>2. CASE vol'[n] = [vol[n] EXCEPT !.vm = None, !.unit = 0]
  BY <1>1, <1>2 DEF VolumeSet
<1>3. CASE rpc[t].op = "Create" /\ vol'[n].vm = None
  BY <1>3
<1>4. CASE rpc[t].op = "Delete" /\ ~vol'[n].here /\ vol'[n].vm = None
  BY <1>4
<1>5. CASE /\ rpc[t].op = "Publish"
           /\ \E u \in Units : vol'[n] = [vol[n] EXCEPT !.vm = rpc[t].vm, !.unit = u]
  BY <1>1, <1>5 DEF VolumeSet
<1>6. CASE /\ rpc[t].op = "Expand" /\ vol[n].vm = None
           /\ vol'[n] = [vol[n] EXCEPT !.size = Mb(size[t])]
  BY <1>1, <1>6 DEF VolumeSet
<1> QED
  BY <1>2, <1>3, <1>4, <1>5, <1>6, VolumeMade

\* A volume that changes keeps what the invariant says of every handler: those
\* that could be misled do not run together with the one that changes it.
LEMMA VolumeWaits ==
    ASSUME CallsInv, WaitInv, NEW t \in Threads, ServiceStep(t),
           UNCHANGED <<lock, handlerVars>>
    PROVE  WaitInv'
<1> DEFINE n == rpc[t].name
<1>0. /\ UNCHANGED <<lock, at, rpc, size, reply, phase, req, res>>
      /\ n \in Names /\ phase[t] = "busy" /\ at[t] # "idle" /\ rpc[t] \in Rpcs
      /\ vol' \in [Names -> VolumeSet] /\ vol \in [Names -> VolumeSet]
      /\ stray' = stray /\ \A x \in Names \ {n} : vol'[x] = vol[x]
  BY VolumeMade, CallOf DEF handlerVars, CallsInv, ControllerTypeOK, VolumeSet, Waiting
<1>1. ASSUME NEW u \in Threads PROVE OneWaits(u)'
  <2>1. OneWaits(u)
    BY WaitInvParts
  <2>2. CASE at[u] = "idle"
    BY <1>0, <2>2 DEF OneWaits, PublishInv, GrowInv, HasResized, AnswersOk
  <2>3. CASE at[u] # "idle" /\ rpc[u].op \notin {"Publish", "Expand"}
    <3>1. at[u] \notin {"publish", "list", "resize", "resizing", "pop"}
      BY <2>3 DEF CallsInv, CallInv
    <3> QED
      BY <1>0, <2>3, <3>1 DEF OneWaits, PublishInv, GrowInv, HasResized, AnswersOk
  <2>4. CASE at[u] # "idle" /\ rpc[u].op \in {"Publish", "Expand"} /\ rpc[u].name # n
    <3>1. rpc[u].name \in Names
      BY <2>4, HandlerTypes
    <3>2. vol'[rpc[u].name] = vol[rpc[u].name]
      BY <1>0, <2>4, <3>1
    <3> QED
      BY <1>0, <2>1, <3>2 DEF OneWaits, PublishInv, GrowInv, HasResized, AnswersOk
  <2>5. CASE at[u] # "idle" /\ rpc[u].op = "Publish" /\ rpc[u].name = n
    <3>1. rpc[u].vm \in Vms /\ rpc[u].vm # None
      BY <2>5, RpcFields, ControllerAssumption DEF CallsInv, CallInv
    <3>2. CASE u # t
      <4>1. ~Conflict(rpc[u], rpc[t])
        BY <1>0, <2>5, <3>2 DEF WaitInv, PatientInv
      <4>2. rpc[t].op \notin {"Publish", "Unpublish"}
        BY <2>5, <4>1, Conflicting
      <4>3. vol'[n].vm = None
        BY <4>2, OthersMake
      <4>4. at[u] \notin {"list", "resize", "resizing", "pop"}
        BY <2>5 DEF CallsInv, CallInv
      <4> QED
        BY <1>0, <2>5, <3>1, <4>3, <4>4 DEF OneWaits, PublishInv, GrowInv, HasResized, AnswersOk
    <3>3. CASE u = t
      <4>1. at[u] \in Waiting /\ phase[u] = "busy" /\ at[u] \notin {"list", "resize", "resizing", "pop"}
        BY <1>0, <2>5, <3>3 DEF CallsInv, CallInv
      <4> QED
        BY <1>0, <4>1 DEF OneWaits, PublishInv, GrowInv, HasResized, AnswersOk, Waiting
    <3> QED
      BY <3>2, <3>3
  <2>6. CASE at[u] # "idle" /\ rpc[u].op = "Expand" /\ rpc[u].name = n
    <3>1. at[u] # "publish"
      BY <2>6 DEF CallsInv, CallInv
    <3>2. CASE u # t
      <4>1. ~Conflict(rpc[u], rpc[t])
        BY <1>0, <2>6, <3>2 DEF WaitInv, PatientInv
      <4>2. rpc[t].op \notin {"Create", "Expand"}
        BY <2>6, <4>1, Conflicting
      <4>3. ~vol'[n].here \/ (vol'[n].size = vol[n].size /\ vol'[n].here = vol[n].here)
        BY <4>2, OthersMake
      <4> QED
        BY <1>0, <2>1, <2>6, <3>1, <4>3 DEF OneWaits, PublishInv, GrowInv, HasResized, AnswersOk
    <3>3. CASE u = t
      <4>1. at[t] = "resizing" \/ vol'[n] = vol[n]
        BY <1>0, <2>6, <3>3, VolumeMade
      <4>2. CASE at[t] = "resizing"
        <5>1. vol'[n].size = Mb(size[t]) /\ size[t] \in Nat
          BY <1>0, <2>6, <3>3, <4>2, VolumeMade, HandlerTypes DEF VolumeSet
        <5>2. FromMb(vol'[n].size) <= size[t]
          BY <5>1, TruncationBounded
        <5> QED
          BY <1>0, <3>3, <4>2, <5>2 DEF OneWaits, PublishInv, GrowInv, HasResized, AnswersOk
      <4>3. CASE vol'[n] = vol[n]
        BY <1>0, <2>1, <3>3, <4>3 DEF OneWaits, PublishInv, GrowInv, HasResized, AnswersOk
      <4> QED
        BY <4>1, <4>2, <4>3
    <3> QED
      BY <3>2, <3>3
  <2> QED
    BY <2>2, <2>3, <2>4, <2>5, <2>6
<1>2. PatientInv'
  BY <1>0 DEF WaitInv, PatientInv
<1> QED
  BY <1>1, <1>2 DEF WaitInv, OneWaits, ExpandedIsLarge, PublishedUnit

\* A call of the client that returns tells the truth about its volume.
LEMMA FinishWaits ==
    ASSUME CallsInv, WaitInv, NEW t \in Threads, Succeeds(t) \/ Refuses(t),
           UNCHANGED <<lock, handlerVars>>
    PROVE  WaitInv'
<1>0. /\ UNCHANGED <<lock, at, rpc, size, reply>> /\ phase[t] = "busy"
      /\ \E r : Finish(t, r)
  BY DEF handlerVars, Succeeds, Refuses
<1>1. HandlerFrame(t) /\ vol' = vol /\ stray' = stray
  BY <1>0, CallOf DEF HandlerFrame, Frame, Finish, leftVars, CallsInv, ServiceTypeOK, Waiting
<1>2. OneWaits(t)
  BY WaitInvParts
<1>3. /\ at[t] \in Waiting
      /\ at[t] \in {"publish", "resizing"} => req[t].name = rpc[t].name
      /\ at[t] = "resizing" => req[t].m = "ResizeDisk" /\ req[t].size = Mb(size[t])
  BY <1>0, CallOf DEF CallsInv, CallInv, Waiting, SimpleCall
<1>4. CASE Succeeds(t)
  <2>1. res'[t] = Answer(t)
    BY <1>4 DEF Succeeds, Finish, CallsInv, ServiceTypeOK
  <2>2. at[t] = "publish" => res'[t].unit = vol[rpc[t].name].unit
    BY <1>3, <2>1 DEF Answer, NoRes, CallsInv, CallInv
  <2>3. at[t] = "list" => res'[t].list = Listing
    BY <2>1 DEF Answer, NoRes, CallsInv, CallInv
  <2>4. at[t] = "list" => \A e \in res'[t].list : e.size = vol[e.name].size
    BY <2>3 DEF Listing
  <2>5. at[t] = "resizing" => vol[rpc[t].name].size = Mb(size[t])
    BY <1>3, <1>4 DEF Succeeds, Achieved
  <2>6. at[t] \notin {"done", "pop", "resize"}
    BY <1>3 DEF Waiting
  <2> QED
    BY <1>0, <1>1, <1>2, <2>2, <2>4, <2>5, <2>6, OneWaitsMoves
       DEF OneWaits, PublishInv, GrowInv, HasResized, AnswersOk
<1>5. CASE Refuses(t)
  <2>1. res'[t].err # "nil"
    BY <1>5 DEF Refuses, Finish, NoRes, CallsInv, ServiceTypeOK
  <2> QED
    BY <1>0, <1>1, <1>2, <1>3, <2>1, OneWaitsMoves
       DEF OneWaits, PublishInv, GrowInv, HasResized, AnswersOk, Waiting
<1> QED
  BY <1>4, <1>5

\* A call whose answer is lost, or whose volume has a request left behind, takes
\* nothing from what is known of the others.
LEMMA LostWaits ==
    ASSUME CallsInv, WaitInv, NEW t \in Threads, AnswerLost(t) \/ Misled(t),
           UNCHANGED <<lock, handlerVars>>
    PROVE  WaitInv'
<1>1. /\ UNCHANGED <<at, rpc, size, reply, vol>> /\ stray \subseteq stray'
      /\ rpc[t].name \in stray' /\ \E r : Returns(t, r)
  <2>1. CASE AnswerLost(t)
    BY <2>1, LeavesTypes DEF AnswerLost, Returns, handlerVars
  <2>2. CASE Misled(t)
    <3>1. phase[t] = "busy" /\ req[t].name \in stray /\ \E r : Finish(t, r)
      BY <2>2 DEF Misled
    <3>2. req[t].m # "ListVolumes" => req[t].name = rpc[t].name
      BY <3>1, CallOf
    <3>3. req[t].m # "ListVolumes"
      BY <3>1, ControllerAssumption DEF CallsInv, CallInv, ControllerTypeOK, Waiting
    <3>4. PICK r : Finish(t, r)
      BY <3>1
    <3>5. Returns(t, r) /\ UNCHANGED <<left, stray>>
      BY <3>4, FinishReturns
    <3>6. UNCHANGED <<at, rpc, size, reply, vol>>
      BY <3>5 DEF handlerVars, Returns
    <3> QED
      BY <3>1, <3>2, <3>3, <3>5, <3>6
  <2> QED
    BY <2>1, <2>2
<1>2. \A u \in Threads \ {t} : Frame(u)' = Frame(u)
  BY <1>1 DEF Frame, Returns, CallsInv, ServiceTypeOK
<1>3. OneWaits(t)'
  BY <1>1 DEF OneWaits, PublishInv, GrowInv
<1>4. ASSUME NEW u \in Threads \ {t} PROVE OneWaits(u)'
  BY <1>1, <1>2, OneWaitsKept, WaitInvParts
<1>5. PatientInv'
  BY <1>1, PatientKept DEF WaitInv
<1> QED
  BY <1>3, <1>4, <1>5 DEF WaitInv, OneWaits, ExpandedIsLarge, PublishedUnit

\* A request left behind changes only volumes of which nothing is known.
LEMMA CloudWaits ==
    ASSUME CallsInv, WaitInv, Cloud
    PROVE  WaitInv'
<1>1. PICK k \in left : LeftRuns(k) \/ LeftDropped(k)
  BY DEF Cloud
<1>2. /\ UNCHANGED <<at, rpc, size, reply, phase, req, res, stray>>
      /\ \A x \in Names : x \in stray \/ vol'[x] = vol[x]
  BY <1>1, LeftMade DEF Cloud, LeftDropped, handlerVars
<1>3. ASSUME NEW u \in Threads PROVE OneWaits(u)'
  <2>1. CASE rpc[u].name \in Names
    BY <1>2, <2>1, OneWaitsKept, WaitInvParts DEF Frame
  <2>2. CASE rpc[u].name \notin Names
    <3>1. at[u] # "idle" => rpc[u].op = "List"
      BY <2>2, HandlerTypes
    <3>2. at[u] \notin {"publish", "list", "resize", "resizing", "pop"}
      BY <3>1 DEF CallsInv, CallInv
    <3> QED
      BY <1>2, <3>1, <3>2 DEF OneWaits, PublishInv, GrowInv, HasResized, AnswersOk
  <2> QED
    BY <2>1, <2>2
<1>4. PatientInv'
  BY <1>2, PatientKept DEF WaitInv
<1> QED
  BY <1>3, <1>4 DEF WaitInv, OneWaits, ExpandedIsLarge, PublishedUnit

\* The calls that patient sidecars make.
LEMMA ReceiveWaits ==
    ASSUME CallsInv, WaitInv, Patient, NEW t \in Threads, NEW r \in Rpcs, Receive(t, r)
    PROVE  WaitInv'
<1>1. /\ UNCHANGED <<vol, stray>> /\ at'[t] = "begin" /\ rpc'[t] = r /\ at[t] = "idle"
      /\ \A u \in Threads \ {t} : Frame(u)' = Frame(u)
      /\ \A u \in Threads : at[u] # "idle" => ~Conflict(rpc[u], r)
  BY DEF Receive, serviceVars, leftVars, CallsInv, ControllerTypeOK, Frame
<1>2. PatientInv'
  BY <1>1, ConflictSymmetric DEF WaitInv, PatientInv, Frame
<1>3. OneWaits(t)'
  BY <1>1 DEF OneWaits, PublishInv, GrowInv, HasResized, AnswersOk
<1>4. ASSUME NEW u \in Threads \ {t} PROVE OneWaits(u)'
  BY <1>1, OneWaitsKept, WaitInvParts
<1> QED
  BY <1>2, <1>3, <1>4 DEF WaitInv, OneWaits, ExpandedIsLarge, PublishedUnit

\* A restart ends all calls.
LEMMA RestartWaits ==
    ASSUME Restart PROVE WaitInv'
BY DEF Restart, WaitInv, PatientInv, ExpandedIsLarge, PublishedUnit, PublishInv, GrowInv,
       HasResized, AnswersOk

\* Every step keeps WaitInv, if the sidecars wait for their answers.
LEMMA WaitInvStep ==
    ASSUME Patient, CallsInv, WaitInv, [ControllerNext]_controllerVars
    PROVE  WaitInv'
<1>1. ASSUME NEW t \in Threads, NEW r \in Rpcs, Receive(t, r) PROVE WaitInv'
  BY <1>1, ReceiveWaits
<1>2. ASSUME NEW t \in Threads, Handler(t) PROVE WaitInv'
  BY <1>2, HandlerWaits, RestartWaits DEF ExpandPanics
<1>3. ASSUME NEW t \in Threads, Client(t) PROVE WaitInv'
  BY <1>3, VolumeWaits, FinishWaits, LostWaits DEF Client
<1>4. CASE MapRace \/ Killed
  BY <1>4, RestartWaits DEF MapRace, Killed
<1>5. CASE UNCHANGED controllerVars
  BY <1>5 DEF controllerVars, serviceVars, leftVars, handlerVars, WaitInv, PatientInv,
              PublishInv, GrowInv, HasResized, ExpandedIsLarge, PublishedUnit, AnswersOk
<1>6. CASE Cloud
  BY <1>6, CloudWaits
<1> QED
  BY <1>1, <1>2, <1>3, <1>4, <1>5, <1>6 DEF ControllerNext

-----------------------------------------------------------------------------
(* The theorems for sidecars that wait *)

(***************************************************************************)
(* Patient sidecars keep the invariant: of a volume for which no request   *)
(* has been left behind in the cloud, what an Expand has listed stays true *)
(* until it resizes, what it has resized keeps its size, and what a        *)
(* Publish answers stays true while the volume is where it was published   *)
(* (disk.go:162-200, 348-388).                                             *)
(***************************************************************************)
THEOREM WaitInvariant ==
    Patient => (ControllerSpec => [](CallsInv /\ WaitInv))
<1> SUFFICES ASSUME Patient PROVE ControllerSpec => [](CallsInv /\ WaitInv)
  OBVIOUS
<1>1. ControllerInit => CallsInv /\ WaitInv
  BY CallsInvInit, WaitInvInit
<1>2. CallsInv /\ WaitInv /\ [ControllerNext]_controllerVars => (CallsInv /\ WaitInv)'
  BY CallsInvStep, WaitInvStep
<1> QED
  BY <1>1, <1>2, PTL DEF ControllerSpec

(***************************************************************************)
(* An Expand that answers without an error has done what was asked: the    *)
(* volume has the whole MBs required, whether it was resized or found      *)
(* large enough (disk.go:364-401), and it keeps them while other calls for *)
(* it run, as long as no request for it has been left behind.              *)
(***************************************************************************)
THEOREM ExpandIsDone ==
    Patient => (ControllerSpec => []ExpandedIsLarge)
<1>1. WaitInv => ExpandedIsLarge
  BY DEF WaitInv
<1> QED
  BY <1>1, WaitInvariant, PTL

(***************************************************************************)
(* The publish context names the unit of the volume (disk.go:194-200), as  *)
(* long as no request for the volume has been left behind.                 *)
(***************************************************************************)
THEOREM UnitIsPublished ==
    Patient => (ControllerSpec => []PublishedUnit)
<1>1. WaitInv => PublishedUnit
  BY DEF WaitInv
<1> QED
  BY <1>1, WaitInvariant, PTL

\* A step of the controller that changes a volume is one of the client, or of a
\* request left behind.
LEMMA VolumesChange ==
    ASSUME CallsInv, [ControllerNext]_controllerVars, vol' # vol
    PROVE  \/ \E t \in Threads : ServiceStep(t)
           \/ Cloud /\ \E k \in left : LeftRuns(k)
<1>1. ASSUME NEW t \in Threads, NEW r \in Rpcs, Receive(t, r) PROVE FALSE
  BY <1>1 DEF Receive, serviceVars
<1>2. ASSUME NEW t \in Threads, Handler(t) PROVE FALSE
  BY <1>2 DEF Handler, RejectInvalid, Rejects, CreateVolume, CreateVolumeEnds, PassOn,
              PassOnEnds, ControllerPublishVolume, PublishEnds, ExpandList, ExpandDecide,
              ExpandResize, ExpandResized, ExpandPop, ExpandPut, ExpandPanics, Restart,
              Answered, CallClient, Begin, Taken, serviceVars
<1>3. ASSUME NEW t \in Threads, Client(t) PROVE ServiceStep(t)
  BY <1>3 DEF Client, Succeeds, Refuses, Misled, AnswerLost, Finish
<1>4. CASE MapRace \/ Killed
  BY <1>4 DEF MapRace, Killed, Restart
<1>5. CASE UNCHANGED controllerVars
  BY <1>5 DEF controllerVars, serviceVars
<1>6. CASE Cloud
  BY <1>6 DEF Cloud, LeftDropped
<1> QED
  BY <1>1, <1>2, <1>3, <1>4, <1>5, <1>6 DEF ControllerNext

\* A volume that is there before and after a step has not become smaller, if no
\* request for it has been left behind.
LEMMA GrowStep ==
    ASSUME CallsInv, WaitInv, [ControllerNext]_controllerVars, vol' # vol,
           NEW n \in Names \ stray, vol[n].here, vol'[n].here
    PROVE  vol'[n].size >= vol[n].size
<1>0. vol \in [Names -> VolumeSet] /\ vol[n].size \in Nat
  BY DEF CallsInv, ControllerTypeOK, VolumeSet
<1>1. CASE \E k \in left : LeftRuns(k)
  <2>1. vol'[n] = vol[n]
    BY <1>1, LeftMade
  <2> QED
    BY <1>0, <2>1
<1>2. ASSUME NEW t \in Threads, ServiceStep(t) PROVE vol'[n].size >= vol[n].size
  <2>1. \A x \in Names \ {rpc[t].name} : vol'[x] = vol[x]
    BY <1>2, VolumeMade
  <2>2. CASE n # rpc[t].name
    BY <1>0, <2>1, <2>2
  <2>3. CASE n = rpc[t].name /\ rpc[t].op # "Expand"
    <3>1. rpc[t].op # "Create"
      BY <1>2, <2>3, VolumeMade
    <3> QED
      BY <1>0, <1>2, <2>3, <3>1, OthersMake
  <2>4. CASE n = rpc[t].name /\ rpc[t].op = "Expand"
    <3>1. at[t] = "resizing" /\ vol'[n] = [vol[n] EXCEPT !.size = Mb(size[t])]
      BY <1>2, <2>4, VolumeMade
    <3>2. vol'[n].size = Mb(size[t])
      BY <1>0, <3>1 DEF VolumeSet
    <3>3. FromMb(vol[n].size) <= size[t] /\ size[t] \in Nat
      BY <2>4, <3>1 DEF WaitInv, GrowInv, CallsInv, ControllerTypeOK
    <3> QED
      BY <1>0, <3>2, <3>3, MbMonotone, MbNat
  <2> QED
    BY <2>2, <2>3, <2>4
<1> QED
  BY <1>1, <1>2, VolumesChange

(***************************************************************************)
(* ControllerExpandVolume never makes a volume smaller, although it looks  *)
(* at its size in one call and sets it in another (disk.go:348-374), as    *)
(* long as no request for the volume has been left behind in the cloud by  *)
(* a kill, a panic or a lost answer.                                       *)
(***************************************************************************)
THEOREM NeverShrinks ==
    Patient => (ControllerSpec => ExpandNeverShrinks)
<1>1. CallsInv /\ WaitInv /\ [ControllerNext]_controllerVars =>
         [\A n \in Names \ stray : vol[n].here /\ vol'[n].here =>
                                     vol'[n].size >= vol[n].size]_vol
  BY GrowStep
<1> QED
  BY <1>1, WaitInvariant, PTL DEF ControllerSpec, ExpandNeverShrinks
=============================================================================
