-------------------------- MODULE MCVolumeLifecycle --------------------------
(* Instances of VolumeLifecycle for TLC. *)
EXTENDS VolumeLifecycle, TLC

CONSTANTS t1, t2, v1, n1, n2

Range(required, limit) == [required |-> required, limit |-> limit, given |-> TRUE]

\* With a MB of two bytes: one MB to begin with, two to grow to, a range in
\* conflict with itself, and one below the minimum.
OneMb == {Range(2, 0), Range(6, 4)}
TwoMb == {Range(4, 0), Range(1, 0)}

Symm == Permutations(Threads) \cup Permutations(Vms)

Errors == {"nil", "ErrVmNotFound", "ErrDiskAttachedToVm", "other"}

DriverCalls == [m: {"CreateDisk", "DeleteDisk", "AttachDisk", "DetachDisk",
                    "ResizeDisk", "ListVolumes"},
                name: Names \cup {None}, vm: Vms \cup {None}, size: 0..3]
=============================================================================
