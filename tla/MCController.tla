---------------------------- MODULE MCController ----------------------------
(* Instances of Controller for TLC. *)
EXTENDS Controller

CONSTANTS t1, t2, v1, v2, n1, n2

Range(required, limit) == [required |-> required, limit |-> limit, given |-> TRUE]

\* A MB is 2 bytes: 3 bytes are a MB and a half.
OneMb == {Range(2, 0), Range(6, 4)}
Growing == {Range(3, 0), Range(6, 6)}
AnyRange == Growing \cup {NoRange}

Errors == {"nil", "ErrDiskAttachedToVm", "other"}

\* The calls the handlers make of the client.
DriverCalls == [m: {"CreateDisk", "DeleteDisk", "AttachDisk", "DetachDisk",
                    "ResizeDisk", "ListVolumes"},
                name: Names \cup {None}, vm: Vms \cup {None}, size: 0..3]
=============================================================================
