------------------------------ MODULE Capacity ------------------------------
(***************************************************************************)
(* internal/driver/disk.go and pkg/types/disk.go: the size of a volume,    *)
(* from the capacity range of a CSI request to the megabytes the cloud is  *)
(* asked for.  Sizes are bytes unless they are said to be MB.              *)
(***************************************************************************)
EXTENDS Integers

CONSTANTS
    MiB,     \* bytes in a MB (1048576; scaled down in the instances)
    Minimum, \* minimumVolumeSizeInBytes
    Maximum, \* maximumVolumeSizeInBytes
    Default  \* defaultVolumeSizeInBytes

ASSUME CapacityAssumption ==
    /\ MiB \in Nat \ {0} /\ Minimum \in Nat /\ Default \in Nat /\ Maximum \in Nat
    /\ MiB <= Minimum /\ Minimum <= Default /\ Default <= Maximum

\* A csi.CapacityRange; given is FALSE for the nil pointer.
CapacityRange == [required: Int, limit: Int, given: BOOLEAN]

Invalid == -1

\* NewStorageSizeFromMb and Mb, an integer division.
FromMb(mb) == mb * MiB
Mb(b) == b \div MiB

\* Negative and absent fields count as not set.
requiredSet(r) == r.given /\ 0 < r.required
limitSet(r) == r.given /\ 0 < r.limit

\* The ranges extractStorage refuses (disk.go:423-441).
RefusedIgnoringLimit(r) ==
    \/ requiredSet(r) /\ ~limitSet(r) /\ r.required < Minimum
    \/ limitSet(r) /\ r.limit < Minimum
    \/ requiredSet(r) /\ r.required > Maximum
    \/ ~requiredSet(r) /\ limitSet(r) /\ r.limit > Maximum
RefusedRange(r) ==
    \/ requiredSet(r) /\ limitSet(r) /\ r.limit < r.required
    \/ requiredSet(r) /\ ~limitSet(r) /\ r.required < Minimum
    \/ limitSet(r) /\ r.limit < Minimum
    \/ requiredSet(r) /\ r.required > Maximum
    \/ ~requiredSet(r) /\ limitSet(r) /\ r.limit > Maximum

extractStorage(r) ==
    IF RefusedRange(r) THEN Invalid
    ELSE IF requiredSet(r) THEN r.required
    ELSE IF limitSet(r) THEN r.limit
    ELSE Default

\* What a request for range r asks of the volume it gets: at least what is
\* required, at most the limit and the maximum.
Satisfies(b, r) ==
    /\ requiredSet(r) => b >= r.required
    /\ limitSet(r) => b <= r.limit
    /\ 0 < b /\ b <= Maximum
=============================================================================
