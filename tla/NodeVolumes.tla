---------------------------- MODULE NodeVolumes ----------------------------
(***************************************************************************)
(* What controller and nodes promise together: a volume is at one node or  *)
(* at none, a node uses only a volume that is there, pods see what has     *)
(* been staged, and no volume is taken from a node that uses it, except    *)
(* one that has been let loose, of which the controller promises nothing.  *)
(* NodeService implements this on one node, VolumeLifecycle with the       *)
(* controller RPCs and several nodes.                                      *)
(***************************************************************************)
CONSTANTS Nodes, Volumes,
          Block, \* the block volumes, which need not be staged
          None

VARIABLES
    where, \* the node at which a volume is attached, or None
    use,   \* what a node does with a volume
    loose  \* the volumes that may be taken away at any time

useVars == <<where, use, loose>>

UseInit ==
    /\ where = [v \in Volumes |-> None]
    /\ use = [n \in Nodes |-> [v \in Volumes |-> "out"]]
    /\ loose = {}

Attach(v, n) ==
    /\ where[v] = None
    /\ where' = [where EXCEPT ![v] = n]
    /\ UNCHANGED <<use, loose>>

Detach(v) ==
    /\ v \notin loose => \A n \in Nodes : use[n][v] = "out"
    /\ where' = [where EXCEPT ![v] = None]
    /\ UNCHANGED <<use, loose>>

LetLoose(v) ==
    /\ loose' = loose \cup {v}
    /\ UNCHANGED <<where, use>>

\* Node n begins or ends to use v.
Uses(n, v, from, to) ==
    /\ use[n][v] = from
    /\ use' = [use EXCEPT ![n][v] = to]
    /\ UNCHANGED <<where, loose>>

BeforePublish(v) == IF v \in Block THEN "out" ELSE "staged"

Stage(n, v) == where[v] = n /\ v \notin Block /\ Uses(n, v, "out", "staged")
Publish(n, v) == where[v] = n /\ Uses(n, v, BeforePublish(v), "published")
Unpublish(n, v) == Uses(n, v, "published", BeforePublish(v))
Unstage(n, v) == Uses(n, v, "staged", "out")

Reboot(n) ==
    /\ use' = [use EXCEPT ![n] = [v \in Volumes |-> "out"]]
    /\ UNCHANGED <<where, loose>>

NodeStep(n) ==
    \/ \E v \in Volumes : Stage(n, v) \/ Publish(n, v) \/ Unpublish(n, v) \/ Unstage(n, v)
    \/ Reboot(n)

UseNext ==
    \/ \E v \in Volumes : Detach(v) \/ LetLoose(v) \/ \E n \in Nodes : Attach(v, n)
    \/ \E n \in Nodes : NodeStep(n)

UseSpec == UseInit /\ [][UseNext]_useVars
=============================================================================
