--------------------------- MODULE CapacityProofs ---------------------------
(* What extractStorage and Mb return, for all bounds and all ranges. *)
EXTENDS Capacity, TLAPS

\* The types of what extractStorage looks at, and the order of the bounds.
LEMMA RangeTypes ==
    ASSUME NEW r \in CapacityRange
    PROVE  /\ r.required \in Int /\ r.limit \in Int /\ r.given \in BOOLEAN
           /\ Minimum \in Nat /\ Maximum \in Nat /\ Default \in Nat
           /\ 0 < Minimum /\ Minimum <= Default /\ Default <= Maximum
BY CapacityAssumption DEF CapacityRange

(***************************************************************************)
(* A range that extractStorage (disk.go:409-456) accepts is satisfied by   *)
(* the size it returns: no branch loses the required size, the limit or    *)
(* the maximum, whichever of them are set, zero, negative or in conflict.  *)
(***************************************************************************)
THEOREM AcceptedSizeFits ==
    ASSUME NEW r \in CapacityRange, extractStorage(r) # Invalid
    PROVE  Satisfies(extractStorage(r), r)
<1>1. ~RefusedRange(r)
  BY DEF extractStorage
<1>2. CASE requiredSet(r)
  BY <1>1, <1>2, RangeTypes DEF extractStorage, RefusedRange, Satisfies, requiredSet, limitSet
<1>3. CASE ~requiredSet(r) /\ limitSet(r)
  BY <1>1, <1>3, RangeTypes DEF extractStorage, RefusedRange, Satisfies, requiredSet, limitSet
<1>4. CASE ~requiredSet(r) /\ ~limitSet(r)
  BY <1>1, <1>4, RangeTypes DEF extractStorage, Satisfies
<1>5. QED
  BY <1>2, <1>3, <1>4

(***************************************************************************)
(* A range whose required size is supported, and whose limit, if it has    *)
(* one, is not below it, is never refused (disk.go:423-441).               *)
(***************************************************************************)
THEOREM SupportedSizeAccepted ==
    ASSUME NEW r \in CapacityRange, r.given,
           Minimum <= r.required, r.required <= Maximum,
           limitSet(r) => r.required <= r.limit
    PROVE  extractStorage(r) = r.required
<1>1. requiredSet(r)
  BY RangeTypes DEF requiredSet
<1>2. ~RefusedRange(r)
  BY <1>1, RangeTypes DEF RefusedRange, requiredSet, limitSet
<1>3. QED
  BY <1>1, <1>2 DEF extractStorage

(***************************************************************************)
(* The cloud is asked for MBs (client.go:212, 485), which Mb rounds down   *)
(* (types/disk.go:35-37): a disk has at most the bytes that were asked     *)
(* for, and lacks less than one MB of them.                                *)
(***************************************************************************)
THEOREM TruncationBounded ==
    ASSUME NEW b \in Nat
    PROVE  FromMb(Mb(b)) <= b /\ b < FromMb(Mb(b)) + MiB
<1>1. MiB \in Nat /\ 0 < MiB
  BY CapacityAssumption
<1>2. /\ b \div MiB \in Int
      /\ (b \div MiB) * MiB <= b
      /\ b < (b \div MiB) * MiB + MiB
  BY <1>1
<1>3. QED
  BY <1>2 DEF FromMb, Mb
=============================================================================
