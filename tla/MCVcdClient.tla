----------------------------- MODULE MCVcdClient -----------------------------
(* Instances of VcdClient for TLC. *)
EXTENDS VcdClientRefinement, TLC

CONSTANTS t1, t2, w1, w2, w3, v1, v2, v3, n1, n2, n3, h1, h2, h3

\* One VDC holds every disk and every VM.
OneVdc == [v \in Names |-> w1]
AllInW1 == [m \in Vms |-> w1]

\* Two VDCs; w3 is configured for a volume and holds a VM, but is not one of
\* the VDCs of the driver.
ThreeHomes == [v \in Names |-> IF v = v1 THEN w1 ELSE IF v = v2 THEN w2 ELSE w3]
ThreeZones == [m \in Vms |-> IF m = n1 THEN w1 ELSE IF m = n2 THEN w2 ELSE w3]

NoForeignUnits == [m \in Vms |-> {}]
\* A disk of another owner takes a reserved unit of n1.
ForeignOnN1 == [m \in Vms |-> IF m = n1 THEN {8} ELSE {}]

Symm == Permutations(Threads) \cup Permutations(Hrefs)
=============================================================================
