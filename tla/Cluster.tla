------------------------------ MODULE Cluster -------------------------------
(***************************************************************************)
(* What the controller keeps outside its own process: the Kubernetes       *)
(* objects of a volume, the mapping of the block volume on the array, and  *)
(* the mounts and exports of the nodes.  ControllerPublishVolume,          *)
(* ControllerUnpublishVolume (Controller) and reassignVolume               *)
(* (NodeRecovery) change it by the operations of this module.              *)
(*                                                                         *)
(* A call that leaves the process (Kubernetes, the array driver, a node)   *)
(* may fail; a failure costs one unit of the budget MaxFaults.             *)
(***************************************************************************)
EXTENDS Naturals, FiniteSets

CONSTANTS
    Volumes,    \* shared-nfs volumes, by CSI volume handle ("nfs-...")
    Nodes,      \* worker nodes, by CSI node ID
    None,       \* no node: no EndpointSlice, no lock holder
    MaxFaults   \* bound on failed calls and controller restarts

ASSUME NoneAssumption == None \notin Nodes
ASSUME VolumesAssumption == IsFiniteSet(Volumes)
ASSUME MaxFaultsAssumption == MaxFaults \in Nat

VARIABLES
    slice,      \* [Volumes -> Nodes \cup {None}]: node of the EndpointSlice, None: no slice
    service,    \* [Volumes -> ...]: whether the Service exists, and its client/ labels
    published,  \* [Volumes -> SUBSET Nodes]: hosts the array maps the block volume to
    mounted,    \* [Volumes -> SUBSET Nodes]: nodes with the block volume mounted
    exported,   \* [Volumes -> SUBSET Nodes]: nodes with the volume in /etc/exports
    faults      \* failures so far

k8sVars == <<slice, service>>

NodeCalls == [op : {"export", "unexport"}, node : Nodes]
NoService == [exists |-> FALSE, clients |-> {}]

Works == faults' = faults
Fails == faults < MaxFaults /\ faults' = faults + 1

\* UpdateService and CreateService store the object the handler built.
PutService(v, clients) ==
    service' = [service EXCEPT ![v] = [exists |-> TRUE, clients |-> clients]]
DropService(v) == service' = [service EXCEPT ![v] = NoService]

PutSlice(v, n) == slice' = [slice EXCEPT ![v] = n]

MapToHost(v, n)     == published' = [published EXCEPT ![v] = @ \cup {n}]
UnmapFromHost(v, n) == published' = [published EXCEPT ![v] = @ \ {n}]

MountOn(v, n)    == mounted' = [mounted EXCEPT ![v] = @ \cup {n}]
ExportOn(v, n)   == exported' = [exported EXCEPT ![v] = @ \cup {n}]
UnmountOn(v, n)  == mounted' = [mounted EXCEPT ![v] = @ \ {n}]
UnexportOn(v, n) == exported' = [exported EXCEPT ![v] = @ \ {n}]

\* How far a failing ExportNfsVolume got: nothing, the mount, or the mount and
\* the /etc/exports entry.
ExportUpTo(v, n) ==
    \/ UNCHANGED <<mounted, exported>>
    \/ MountOn(v, n) /\ UNCHANGED exported
    \/ MountOn(v, n) /\ ExportOn(v, n)

\* How far an UnexportNfsVolume got that fails, or whose answer is lost.
UnexportUpTo(v, n) ==
    \/ UNCHANGED <<mounted, exported>>
    \/ UnexportOn(v, n) /\ UNCHANGED mounted
    \/ UnexportOn(v, n) /\ UnmountOn(v, n)

\* A node call whose caller is gone ends on the node, done or failed.
NodeCallEnds(v, call) ==
    \/ call.op = "export" /\ ExportUpTo(v, call.node)
    \/ call.op = "unexport" /\ UnexportUpTo(v, call.node)
=============================================================================
