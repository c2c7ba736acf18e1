------------------------- MODULE VcdClientRefinement -------------------------
(***************************************************************************)
(* VcdClient implements VolumeService as long as no answer is lost and the *)
(* process does not crash.  A volume is the disk of that name; a call is   *)
(* busy from the moment it waits for v.mt until it returns.                *)
(***************************************************************************)
EXTENDS VcdClient

volumes ==
    [n \in Names |->
        IF \E h \in Hrefs : disk[h].name = n
        THEN LET d == disk[CHOOSE h \in Hrefs : disk[h].name = n]
             IN  [size |-> d.size, vm |-> d.vm, unit |-> d.unit, here |-> TRUE]
        ELSE [size |-> 0, vm |-> None, unit |-> 0, here |-> FALSE]]

phases == [t \in Threads |-> CASE pc[t] = "Idle" -> "idle"
                                [] pc[t] = "Done" -> "done"
                                [] OTHER -> "busy"]

Service == INSTANCE VolumeService WITH
              Units <- ReservedUnits \cup {0},
              Requests <- Calls,
              Errs <- Errors,
              SureDelete <- "api" \notin Faults,
              MaxLeft <- MaxOrphans,
              vol <- volumes, phase <- phases, req <- call, res <- ret,
              left <- {}, stray <- {}

(***************************************************************************)
(* The client keeps the promise of VcdService (client.go:108-115): every   *)
(* change of the cloud is one the calling method is allowed to make, and   *)
(* every result is true of the volumes at the moment it is returned, in    *)
(* all interleavings of the callers, with failed tasks and failed reads.   *)
(***************************************************************************)
ImplementsService == Service!ServiceSpec
=============================================================================
