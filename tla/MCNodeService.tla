---------------------------- MODULE MCNodeService ----------------------------
(* Instances of NodeService for TLC. *)
EXTENDS NodeService, TLC

CONSTANTS v1, v2, boot, t1, t2

\* v2 is a block volume; the disk the node boots from is at unit 0.
Modes == [v \in Volumes |-> IF v = v2 THEN "block" ELSE "fs"]
BootUnit == [d \in Locals |-> 0]

\* What the node may be given, and what the controller gives it.
TwoContexts == {Keys, ControllerContext}
OwnContext == {ControllerContext}

\* The handlers are interchangeable.
Symmetry == Permutations(Threads)
=============================================================================
