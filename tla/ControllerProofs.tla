-------------------------- MODULE ControllerProofs --------------------------
(***************************************************************************)
(* Proofs about Controller, for every set of volumes and nodes and every   *)
(* number of failures and controller restarts.                             *)
(*                                                                         *)
(* TypeCorrect comes first.  The three safety theorems rest on IndInv: the *)
(* lock makes what a handler read stay true until it uses it (StageInv),   *)
(* and each write of the shared objects preserves what an attached client  *)
(* relies on.                                                              *)
(***************************************************************************)
EXTENDS Controller, TLAPS

\* The parts of a request are a volume and a node.
LEMMA RequestParts ==
    /\ \A r \in Requests : Vol(r) \in Volumes /\ Node(r) \in Nodes
    /\ \A r \in Requests : r = <<Vol(r), Node(r)>>
    /\ \A v \in Volumes, n \in Nodes :
           <<v, n>> \in Requests /\ Vol(<<v, n>>) = v /\ Node(<<v, n>>) = n
BY DEF Requests, Vol, Node

\* A request is determined by its volume and its node.
LEMMA SameRequest ==
    ASSUME NEW r \in Requests, NEW s \in Requests,
           Vol(r) = Vol(s), Node(r) = Node(s)
    PROVE  r = s
BY DEF Requests, Vol, Node

-----------------------------------------------------------------------------
(* Type correctness *)

\* The initial state is well typed.
LEMMA InitType == Init => TypeOK
BY MaxFaultsAssumption, RequestParts DEF Init, TypeOK, Labels, NoService

\* A handler that is to call UnexportNfsVolume has read the node from a slice.
ServerKnown == \A r \in Requests : pc[r] = "unexport" => sliceRead[r] # None

\* The calls a crash abandons are node calls: a handler that waits for an
\* unexport has read the node from a slice.
LEMMA InFlightType ==
    ASSUME TypeOK, ServerKnown
    PROVE  \A v \in Volumes : InFlight(v) \subseteq NodeCalls
<1> SUFFICES ASSUME NEW v \in Volumes, NEW c \in InFlight(v)
             PROVE  c \in NodeCalls
    OBVIOUS
<1>1. CASE \E n \in Nodes : c = [op |-> "export", node |-> n]
    BY <1>1 DEF NodeCalls
<1>2. CASE \E n \in Nodes : /\ pc[<<v, n>>] = "unexport"
                            /\ c = [op |-> "unexport", node |-> sliceRead[<<v, n>>]]
    <2>1. PICK n \in Nodes : /\ pc[<<v, n>>] = "unexport"
                             /\ c = [op |-> "unexport", node |-> sliceRead[<<v, n>>]]
        BY <1>2
    <2>2. sliceRead[<<v, n>>] \in Nodes
        BY <2>1, RequestParts DEF TypeOK, ServerKnown
    <2> QED BY <2>1, <2>2 DEF NodeCalls
<1> QED BY <1>1, <1>2 DEF InFlight

\* Moving on, and returning with the lock given back, keep pc and PVLock typed.
LEMMA ControlType ==
    ASSUME TypeOK, NEW r \in Requests
    PROVE  /\ \A label \in Labels : Goto(r, label) =>
                 pc' \in [Requests -> Labels] /\ PVLock' \in [Volumes -> Nodes \cup {None}]
           /\ Return(r) =>
                 pc' \in [Requests -> Labels] /\ PVLock' \in [Volumes -> Nodes \cup {None}]
BY RequestParts DEF TypeOK, Goto, Return, UnlockPV, Labels

\* The failure budget stays a number.
LEMMA FaultsType ==
    ASSUME TypeOK, Works \/ Fails
    PROVE  faults' \in Nat
BY DEF TypeOK, Works, Fails

ServiceType == [Volumes -> [exists : BOOLEAN, clients : SUBSET Nodes]]
HostsType   == [Volumes -> SUBSET Nodes]

\* What the writes of the Service leave is well typed.
LEMMA ServiceWriteType ==
    ASSUME TypeOK, NEW v \in Volumes
    PROVE  /\ \A S \in SUBSET Nodes : PutService(v, S) => service' \in ServiceType
           /\ DropService(v) => service' \in ServiceType
<1>1. ASSUME NEW S \in SUBSET Nodes, PutService(v, S) PROVE service' \in ServiceType
    <2>1. [exists |-> TRUE, clients |-> S] \in [exists : BOOLEAN, clients : SUBSET Nodes]
        OBVIOUS
    <2> QED BY <1>1, <2>1 DEF TypeOK, PutService, ServiceType
<1>2. ASSUME DropService(v) PROVE service' \in ServiceType
    <2>1. NoService \in [exists : BOOLEAN, clients : SUBSET Nodes]
        BY DEF NoService
    <2> QED BY <1>2, <2>1 DEF TypeOK, DropService, ServiceType
<1> QED BY <1>1, <1>2

\* What the calls to a node leave is well typed.
LEMMA NodeCallType ==
    ASSUME TypeOK, NEW v \in Volumes, NEW n \in Nodes
    PROVE  /\ MountOn(v, n) \/ UnmountOn(v, n) => mounted' \in HostsType
           /\ ExportOn(v, n) \/ UnexportOn(v, n) => exported' \in HostsType
           /\ ExportUpTo(v, n) \/ UnexportUpTo(v, n) =>
                 mounted' \in HostsType /\ exported' \in HostsType
           /\ \A op \in {"export", "unexport"} :
                 Abandon(v, op, n) => late' \in [Volumes -> SUBSET NodeCalls]
<1>1. MountOn(v, n) \/ UnmountOn(v, n) => mounted' \in HostsType
    BY DEF TypeOK, MountOn, UnmountOn, HostsType
<1>2. ExportOn(v, n) \/ UnexportOn(v, n) => exported' \in HostsType
    BY DEF TypeOK, ExportOn, UnexportOn, HostsType
<1>3. mounted \in HostsType /\ exported \in HostsType
    BY DEF TypeOK, HostsType
<1>4. ExportUpTo(v, n) \/ UnexportUpTo(v, n) => mounted' \in HostsType /\ exported' \in HostsType
    BY <1>1, <1>2, <1>3 DEF ExportUpTo, UnexportUpTo
<1>5. ASSUME NEW op \in {"export", "unexport"}, Abandon(v, op, n)
      PROVE  late' \in [Volumes -> SUBSET NodeCalls]
    <2>1. [op |-> op, node |-> n] \in NodeCalls
        BY DEF NodeCalls
    <2> QED BY <1>5, <2>1 DEF TypeOK, Abandon
<1> QED BY <1>1, <1>2, <1>4, <1>5

\* Each step keeps the variables well typed.
LEMMA NextType == TypeOK /\ ServerKnown /\ [Next]_vars => TypeOK'
<1> SUFFICES ASSUME TypeOK, ServerKnown, [Next]_vars PROVE TypeOK'
    OBVIOUS
<1>0. TypeOK
    OBVIOUS
<1>1. ASSUME NEW r \in Requests, CallPublish(r) PROVE TypeOK'
    BY <1>0, <1>1, ControlType DEF CallPublish, TypeOK, Labels, localVars, k8sVars, nodeVars
<1>2. ASSUME NEW r \in Requests, CallUnpublish(r) PROVE TypeOK'
    BY <1>0, <1>2, ControlType DEF CallUnpublish, TypeOK, Labels, localVars, k8sVars, nodeVars
<1>3. ASSUME NEW r \in Requests, LockPV(r) PROVE TypeOK'
    BY <1>0, <1>3, RequestParts DEF LockPV, TypeOK, Labels, PublishLabels, UnpublishLabels,
       localVars, k8sVars, nodeVars, callerVars
<1>4. ASSUME NEW r \in Requests, GetNode(r) PROVE TypeOK'
    <2>1. pc' \in [Requests -> Labels] /\ PVLock' \in [Volumes -> Nodes \cup {None}]
        BY <1>0, <1>4, ControlType DEF GetNode, Labels, PublishLabels
    <2>2. faults' \in Nat
        BY <1>0, <1>4, FaultsType DEF GetNode
    <2> QED
        BY <1>0, <1>4, <2>1, <2>2 DEF GetNode, TypeOK, localVars, k8sVars, nodeVars, callerVars
<1>5. ASSUME NEW r \in Requests, PubGetSlice(r) PROVE TypeOK'
    <2>1. pc' \in [Requests -> Labels] /\ PVLock' \in [Volumes -> Nodes \cup {None}]
        BY <1>0, <1>5, ControlType DEF PubGetSlice, Labels, PublishLabels
    <2>2. faults' \in Nat
        BY <1>0, <1>5, FaultsType DEF PubGetSlice
    <2>3. sliceRead' \in [Requests -> Nodes \cup {None}]
        BY <1>0, <1>5, RequestParts DEF PubGetSlice, TypeOK
    <2> QED
        BY <1>0, <1>5, <2>1, <2>2, <2>3 DEF PubGetSlice, TypeOK, localVars, k8sVars, nodeVars, callerVars
<1>6. ASSUME NEW r \in Requests, PubGetService(r) PROVE TypeOK'
    <2>1. pc' \in [Requests -> Labels] /\ PVLock' \in [Volumes -> Nodes \cup {None}]
        BY <1>0, <1>6, ControlType DEF PubGetService, Labels, PublishLabels
    <2>2. faults' \in Nat
        BY <1>0, <1>6, FaultsType DEF PubGetService
    <2>3. labelsRead' \in [Requests -> SUBSET Nodes]
        BY <1>0, <1>6, RequestParts DEF PubGetService, TypeOK
    <2> QED
        BY <1>0, <1>6, <2>1, <2>2, <2>3 DEF PubGetService, TypeOK, localVars, k8sVars, nodeVars, callerVars
<1>7. ASSUME NEW r \in Requests, AddNodeToNfsService(r) PROVE TypeOK'
    <2>1. pc' \in [Requests -> Labels] /\ PVLock' \in [Volumes -> Nodes \cup {None}]
        BY <1>0, <1>7, ControlType DEF AddNodeToNfsService, Labels, PublishLabels
    <2>2. faults' \in Nat
        BY <1>0, <1>7, FaultsType DEF AddNodeToNfsService
    <2>3. service' \in [Volumes -> [exists : BOOLEAN, clients : SUBSET Nodes]]
        BY <1>0, <1>7, RequestParts, ServiceWriteType DEF AddNodeToNfsService, TypeOK, ServiceType
    <2>4. attached' \in SUBSET Requests
        BY <1>0, <1>7, RequestParts DEF AddNodeToNfsService, TypeOK
    <2> QED
        BY <1>0, <1>7, <2>1, <2>2, <2>3, <2>4 DEF AddNodeToNfsService, TypeOK, localVars, k8sVars, nodeVars, callerVars
<1>8. ASSUME NEW r \in Requests, CheckNodeStatus(r) PROVE TypeOK'
    <2>1. pc' \in [Requests -> Labels] /\ PVLock' \in [Volumes -> Nodes \cup {None}]
        BY <1>0, <1>8, ControlType DEF CheckNodeStatus, Labels, PublishLabels
    <2> QED
        BY <1>0, <1>8, <2>1 DEF CheckNodeStatus, TypeOK, localVars, k8sVars, nodeVars, callerVars
<1>9. ASSUME NEW r \in Requests, ArrayPublish(r) PROVE TypeOK'
    <2>1. pc' \in [Requests -> Labels] /\ PVLock' \in [Volumes -> Nodes \cup {None}]
        BY <1>0, <1>9, ControlType DEF ArrayPublish, Labels, PublishLabels
    <2>2. faults' \in Nat
        BY <1>0, <1>9, FaultsType DEF ArrayPublish
    <2>3. published' \in [Volumes -> SUBSET Nodes]
        <3>1. published' = published \/ MapToHost(Vol(r), Node(r))
            BY <1>9 DEF ArrayPublish
        <3> QED BY <1>0, <3>1, RequestParts DEF TypeOK, MapToHost
    <2> QED
        BY <1>0, <1>9, <2>1, <2>2, <2>3 DEF ArrayPublish, TypeOK, localVars, k8sVars, nodeVars, callerVars
<1>10. ASSUME NEW r \in Requests, CallExport(r) PROVE TypeOK'
    <2>1. pc' \in [Requests -> Labels] /\ PVLock' \in [Volumes -> Nodes \cup {None}]
        BY <1>0, <1>10, ControlType DEF CallExport, Labels, PublishLabels, TypeOK
    <2>2. faults' \in Nat
        BY <1>0, <1>10, FaultsType DEF CallExport
    <2>3. mounted' \in [Volumes -> SUBSET Nodes] /\ exported' \in [Volumes -> SUBSET Nodes]
        BY <1>0, <1>10, RequestParts, NodeCallType DEF CallExport, TypeOK, HostsType
    <2>4. late' \in [Volumes -> SUBSET NodeCalls]
        BY <1>0, <1>10, RequestParts, NodeCallType DEF CallExport, TypeOK
    <2> QED
        BY <1>0, <1>10, <2>1, <2>2, <2>3, <2>4 DEF CallExport, TypeOK, localVars, k8sVars, nodeVars, callerVars
<1>11. ASSUME NEW r \in Requests, CreateEndpointSlice(r) PROVE TypeOK'
    <2>1. pc' \in [Requests -> Labels] /\ PVLock' \in [Volumes -> Nodes \cup {None}]
        BY <1>0, <1>11, ControlType DEF CreateEndpointSlice, Labels, PublishLabels
    <2>2. faults' \in Nat
        BY <1>0, <1>11, FaultsType DEF CreateEndpointSlice
    <2>3. slice' \in [Volumes -> Nodes \cup {None}]
        BY <1>0, <1>11, RequestParts DEF CreateEndpointSlice, TypeOK, PutSlice
    <2> QED
        BY <1>0, <1>11, <2>1, <2>2, <2>3 DEF CreateEndpointSlice, TypeOK, localVars, k8sVars, nodeVars, callerVars
<1>12. ASSUME NEW r \in Requests, CreateService(r) PROVE TypeOK'
    <2>1. pc' \in [Requests -> Labels] /\ PVLock' \in [Volumes -> Nodes \cup {None}]
        BY <1>0, <1>12, ControlType DEF CreateService, Labels, PublishLabels
    <2>2. faults' \in Nat
        BY <1>0, <1>12, FaultsType DEF CreateService
    <2>3. service' \in [Volumes -> [exists : BOOLEAN, clients : SUBSET Nodes]]
        BY <1>0, <1>12, RequestParts, ServiceWriteType DEF CreateService, TypeOK, ServiceType
    <2>4. attached' \in SUBSET Requests
        BY <1>0, <1>12, RequestParts DEF CreateService, TypeOK
    <2> QED
        BY <1>0, <1>12, <2>1, <2>2, <2>3, <2>4 DEF CreateService, TypeOK, localVars, k8sVars, nodeVars, callerVars
<1>13. ASSUME NEW r \in Requests, UnpubGetSlice(r) PROVE TypeOK'
    <2>1. pc' \in [Requests -> Labels] /\ PVLock' \in [Volumes -> Nodes \cup {None}]
        BY <1>0, <1>13, ControlType DEF UnpubGetSlice, Labels, UnpublishLabels
    <2>2. faults' \in Nat
        BY <1>0, <1>13, FaultsType DEF UnpubGetSlice
    <2>3. sliceRead' \in [Requests -> Nodes \cup {None}]
        BY <1>0, <1>13, RequestParts DEF UnpubGetSlice, TypeOK
    <2>4. detached' \in SUBSET Requests
        BY <1>0, <1>13, RequestParts DEF UnpubGetSlice, TypeOK, AnswerDetached
    <2> QED
        BY <1>0, <1>13, <2>1, <2>2, <2>3, <2>4 DEF UnpubGetSlice, TypeOK, localVars, k8sVars, nodeVars, callerVars
<1>14. ASSUME NEW r \in Requests, UnpubGetService(r) PROVE TypeOK'
    <2>1. pc' \in [Requests -> Labels] /\ PVLock' \in [Volumes -> Nodes \cup {None}]
        BY <1>0, <1>14, ControlType DEF UnpubGetService, Labels, UnpublishLabels
    <2>2. faults' \in Nat
        BY <1>0, <1>14, FaultsType DEF UnpubGetService
    <2>3. labelsRead' \in [Requests -> SUBSET Nodes]
        BY <1>0, <1>14, RequestParts DEF UnpubGetService, TypeOK
    <2>4. detached' \in SUBSET Requests
        BY <1>0, <1>14, RequestParts DEF UnpubGetService, TypeOK, AnswerDetached
    <2> QED
        BY <1>0, <1>14, <2>1, <2>2, <2>3, <2>4 DEF UnpubGetService, TypeOK, localVars, k8sVars, nodeVars, callerVars
<1>15. ASSUME NEW r \in Requests, RemoveNodeFromNfsService(r) PROVE TypeOK'
    <2>1. pc' \in [Requests -> Labels] /\ PVLock' \in [Volumes -> Nodes \cup {None}]
        BY <1>0, <1>15, ControlType DEF RemoveNodeFromNfsService, Labels, UnpublishLabels
    <2>2. faults' \in Nat
        BY <1>0, <1>15, FaultsType DEF RemoveNodeFromNfsService
    <2>3. service' \in [Volumes -> [exists : BOOLEAN, clients : SUBSET Nodes]]
        BY <1>0, <1>15, RequestParts, ServiceWriteType DEF RemoveNodeFromNfsService, TypeOK, ServiceType
    <2>4. detached' \in SUBSET Requests
        BY <1>0, <1>15, RequestParts DEF RemoveNodeFromNfsService, TypeOK, AnswerDetached
    <2> QED
        BY <1>0, <1>15, <2>1, <2>2, <2>3, <2>4 DEF RemoveNodeFromNfsService, TypeOK, localVars, k8sVars, nodeVars, callerVars
<1>16. ASSUME NEW r \in Requests, CallUnexport(r) PROVE TypeOK'
    <2>1. pc' \in [Requests -> Labels] /\ PVLock' \in [Volumes -> Nodes \cup {None}]
        BY <1>0, <1>16, ControlType DEF CallUnexport, Labels, UnpublishLabels
    <2>2. faults' \in Nat
        BY <1>0, <1>16, FaultsType DEF CallUnexport
    <2>0. sliceRead[r] \in Nodes
        BY <1>0, <1>16 DEF CallUnexport, TypeOK, ServerKnown
    <2>3. mounted' \in [Volumes -> SUBSET Nodes] /\ exported' \in [Volumes -> SUBSET Nodes]
        BY <1>0, <1>16, <2>0, RequestParts, NodeCallType DEF CallUnexport, TypeOK, HostsType, nodeVars
    <2>4. late' \in [Volumes -> SUBSET NodeCalls]
        BY <1>0, <1>16, <2>0, RequestParts, NodeCallType DEF CallUnexport, TypeOK, nodeVars
    <2> QED
        BY <1>0, <1>16, <2>1, <2>2, <2>3, <2>4 DEF CallUnexport, TypeOK, localVars, k8sVars, nodeVars, callerVars
<1>17. ASSUME NEW r \in Requests, DeleteEndpointSlice(r) PROVE TypeOK'
    <2>1. pc' \in [Requests -> Labels] /\ PVLock' \in [Volumes -> Nodes \cup {None}]
        BY <1>0, <1>17, ControlType DEF DeleteEndpointSlice, Labels, UnpublishLabels
    <2>2. faults' \in Nat
        BY <1>0, <1>17, FaultsType DEF DeleteEndpointSlice
    <2>3. slice' \in [Volumes -> Nodes \cup {None}]
        BY <1>0, <1>17, RequestParts DEF DeleteEndpointSlice, TypeOK, PutSlice
    <2> QED
        BY <1>0, <1>17, <2>1, <2>2, <2>3 DEF DeleteEndpointSlice, TypeOK, localVars, k8sVars, nodeVars, callerVars
<1>18. ASSUME NEW r \in Requests, DeleteService(r) PROVE TypeOK'
    <2>1. pc' \in [Requests -> Labels] /\ PVLock' \in [Volumes -> Nodes \cup {None}]
        BY <1>0, <1>18, ControlType DEF DeleteService, Labels, UnpublishLabels
    <2>2. faults' \in Nat
        BY <1>0, <1>18, FaultsType DEF DeleteService
    <2>3. service' \in [Volumes -> [exists : BOOLEAN, clients : SUBSET Nodes]]
        BY <1>0, <1>18, RequestParts, ServiceWriteType DEF DeleteService, TypeOK, ServiceType
    <2> QED
        BY <1>0, <1>18, <2>1, <2>2, <2>3 DEF DeleteService, TypeOK, localVars, k8sVars, nodeVars, callerVars
<1>19. ASSUME NEW r \in Requests, ArrayUnpublish(r) PROVE TypeOK'
    <2>1. pc' \in [Requests -> Labels] /\ PVLock' \in [Volumes -> Nodes \cup {None}]
        BY <1>0, <1>19, ControlType DEF ArrayUnpublish, Labels, UnpublishLabels
    <2>2. faults' \in Nat
        BY <1>0, <1>19, FaultsType DEF ArrayUnpublish
    <2>3. published' \in [Volumes -> SUBSET Nodes]
        BY <1>0, <1>19, RequestParts DEF ArrayUnpublish, TypeOK, UnmapFromHost
    <2>4. detached' \in SUBSET Requests
        BY <1>0, <1>19, RequestParts DEF ArrayUnpublish, TypeOK, AnswerDetached
    <2> QED
        BY <1>0, <1>19, <2>1, <2>2, <2>3, <2>4 DEF ArrayUnpublish, TypeOK, localVars, k8sVars, nodeVars, callerVars
<1>20. ASSUME NEW v \in Volumes, NEW call \in late[v], FinishLate(v, call) PROVE TypeOK'
    <2>1. mounted' \in [Volumes -> SUBSET Nodes] /\ exported' \in [Volumes -> SUBSET Nodes]
        <3>1. call.node \in Nodes
            BY <1>0, <1>20 DEF TypeOK, NodeCalls
        <3> QED BY <1>0, <1>20, <3>1, NodeCallType DEF FinishLate, NodeCallEnds, HostsType
    <2>2. late' \in [Volumes -> SUBSET NodeCalls]
        BY <1>0, <1>20 DEF FinishLate, TypeOK
    <2> QED
        BY <1>0, <1>20, <2>1, <2>2 DEF FinishLate, TypeOK, localVars, k8sVars, callerVars
<1>21. CASE Crash
    <2>1. late' \in [Volumes -> SUBSET NodeCalls]
        BY <1>0, <1>21, InFlightType DEF Crash, TypeOK
    <2>2. faults' \in Nat
        BY <1>0, <1>21, FaultsType DEF Crash
    <2> QED
        BY <1>0, <1>21, <2>1, <2>2 DEF Crash, TypeOK, Labels, localVars, k8sVars, callerVars
<1>22. CASE UNCHANGED vars
    BY <1>0, <1>22 DEF vars, TypeOK, localVars, k8sVars, nodeVars, callerVars
<1> QED BY <1>1, <1>2, <1>3, <1>4, <1>5, <1>6, <1>7, <1>8, <1>9, <1>10, <1>11, <1>12, <1>13, <1>14, <1>15, <1>16, <1>17, <1>18, <1>19, <1>20, <1>21, <1>22 DEF Next, Publish, Unpublish

-----------------------------------------------------------------------------
(* One handler's step *)

\* The step of r changes nothing another request's stage is about, except on
\* r's own volume.
OnlyStep(r) ==
    /\ \A s \in Requests \ {r} :
           /\ pc'[s] = pc[s]
           /\ sliceRead'[s] = sliceRead[s] /\ labelsRead'[s] = labelsRead[s]
           /\ s \in attached' <=> s \in attached
    /\ \A v \in Volumes \ {Vol(r)} :
           /\ PVLock'[v] = PVLock[v]
           /\ slice'[v] = slice[v] /\ service'[v] = service[v]
           /\ published'[v] = published[v]

\* Either r keeps the lock and moves on inside the critical section, or it
\* leaves the critical section.
KeepsOrLeaves(r) ==
    \/ PVLock'[Vol(r)] = PVLock[Vol(r)]
    \/ pc'[r] = "idle"

\* While r is past LockPV no other request of its volume is.
LEMMA Exclusive ==
    ASSUME LockInv, NEW r \in Requests, NEW s \in Requests,
           InCS(r), InCS(s), Vol(r) = Vol(s)
    PROVE  r = s
BY SameRequest DEF LockInv

\* A step of the handler of r disturbs no other handler, so the inductive
\* invariant follows from what the step does to r's own stage and to the two
\* safety properties.
LEMMA HandlerStep ==
    ASSUME IndInv, TypeOK', NEW r \in Requests, InCS(r),
           OnlyStep(r), KeepsOrLeaves(r), StageAt(r)',
           AttachedHasServer', SliceNodePublished'
    PROVE  IndInv'
<1>1. LockInv'
    <2> SUFFICES ASSUME NEW s \in Requests, InCS(s)' PROVE PVLock'[Vol(s)] = Node(s)
        BY DEF LockInv
    <2>1. CASE s = r
        BY <2>1 DEF IndInv, LockInv, InCS, KeepsOrLeaves, PublishLabels, UnpublishLabels
    <2>2. CASE s # r
        <3>1. InCS(s)
            BY <2>2 DEF OnlyStep, InCS
        <3>2. Vol(s) # Vol(r)
            BY <3>1, <2>2, Exclusive DEF IndInv
        <3> QED BY <3>1, <3>2, RequestParts DEF IndInv, LockInv, OnlyStep
    <2> QED BY <2>1, <2>2
<1>2. StageInv'
    <2> SUFFICES ASSUME NEW s \in Requests, s # r PROVE StageAt(s)'
        BY DEF StageInv
    <2>1. StageAt(s)
        BY DEF IndInv, StageInv
    <2>2. CASE Vol(s) # Vol(r)
        BY <2>1, <2>2, RequestParts DEF StageAt, SliceFresh, ServiceFresh, OnlyStep
    <2>3. CASE Vol(s) = Vol(r)
        <3>1. ~InCS(s)
            BY <2>3, Exclusive DEF IndInv
        <3> QED BY <2>1, <3>1 DEF StageAt, OnlyStep, InCS, PublishLabels, UnpublishLabels
    <2> QED BY <2>2, <2>3
<1> QED BY <1>1, <1>2 DEF IndInv

\* Moving on and returning do not touch other requests or volumes.
LEMMA ControlFrame ==
    ASSUME TypeOK, NEW r \in Requests
    PROVE  /\ \A label \in Labels : Goto(r, label) =>
                 /\ pc'[r] = label /\ PVLock' = PVLock
                 /\ \A s \in Requests \ {r} : pc'[s] = pc[s]
           /\ Return(r) =>
                 /\ pc'[r] = "idle"
                 /\ \A s \in Requests \ {r} : pc'[s] = pc[s]
                 /\ \A v \in Volumes \ {Vol(r)} : PVLock'[v] = PVLock[v]
BY RequestParts DEF TypeOK, Goto, Return, UnlockPV

\* GetNode preserves the invariant.
LEMMA GetNodeStep ==
    ASSUME IndInv, TypeOK', NEW r \in Requests, GetNode(r)
    PROVE  IndInv'
<1>1. TypeOK /\ StageAt(r) /\ InCS(r)
    BY DEF IndInv, StageInv, GetNode, InCS, PublishLabels, UnpublishLabels
<1>2. OnlyStep(r) /\ KeepsOrLeaves(r)
    BY <1>1, ControlFrame, RequestParts
       DEF GetNode, OnlyStep, KeepsOrLeaves, TypeOK, Labels, PublishLabels,
           UnpublishLabels, localVars, k8sVars, callerVars
<1>3. StageAt(r)'
    BY <1>1, ControlFrame, RequestParts
       DEF GetNode, TypeOK, StageAt, SliceFresh, ServiceFresh, Labels, PublishLabels,
           UnpublishLabels, localVars, k8sVars, callerVars
<1>4. AttachedHasServer' /\ SliceNodePublished'
    BY <1>1, RequestParts, NoneAssumption
       DEF GetNode, IndInv, AttachedHasServer, SliceNodePublished, TypeOK,
           StageAt, SliceFresh, ServiceFresh, k8sVars, callerVars
<1> QED BY <1>1, <1>2, <1>3, <1>4, HandlerStep

\* PubGetSlice preserves the invariant.
LEMMA PubGetSliceStep ==
    ASSUME IndInv, TypeOK', NEW r \in Requests, PubGetSlice(r)
    PROVE  IndInv'
<1>1. TypeOK /\ StageAt(r) /\ InCS(r)
    BY DEF IndInv, StageInv, PubGetSlice, InCS, PublishLabels, UnpublishLabels
<1>2. OnlyStep(r) /\ KeepsOrLeaves(r)
    BY <1>1, ControlFrame, RequestParts
       DEF PubGetSlice, OnlyStep, KeepsOrLeaves, TypeOK, Labels, PublishLabels,
           UnpublishLabels, localVars, k8sVars, callerVars
<1>3. StageAt(r)'
    BY <1>1, ControlFrame, RequestParts
       DEF PubGetSlice, TypeOK, StageAt, SliceFresh, ServiceFresh, Labels, PublishLabels,
           UnpublishLabels, localVars, k8sVars, callerVars
<1>4. AttachedHasServer' /\ SliceNodePublished'
    BY <1>1, RequestParts, NoneAssumption
       DEF PubGetSlice, IndInv, AttachedHasServer, SliceNodePublished, TypeOK,
           StageAt, SliceFresh, ServiceFresh, k8sVars, callerVars
<1> QED BY <1>1, <1>2, <1>3, <1>4, HandlerStep

\* PubGetService preserves the invariant.
LEMMA PubGetServiceStep ==
    ASSUME IndInv, TypeOK', NEW r \in Requests, PubGetService(r)
    PROVE  IndInv'
<1>1. TypeOK /\ StageAt(r) /\ InCS(r)
    BY DEF IndInv, StageInv, PubGetService, InCS, PublishLabels, UnpublishLabels
<1>2. OnlyStep(r) /\ KeepsOrLeaves(r)
    BY <1>1, ControlFrame, RequestParts
       DEF PubGetService, OnlyStep, KeepsOrLeaves, TypeOK, Labels, PublishLabels,
           UnpublishLabels, localVars, k8sVars, callerVars
<1>3. StageAt(r)'
    BY <1>1, ControlFrame, RequestParts
       DEF PubGetService, TypeOK, StageAt, SliceFresh, ServiceFresh, Labels, PublishLabels,
           UnpublishLabels, localVars, k8sVars, callerVars
<1>4. AttachedHasServer' /\ SliceNodePublished'
    BY <1>1, RequestParts, NoneAssumption
       DEF PubGetService, IndInv, AttachedHasServer, SliceNodePublished, TypeOK,
           StageAt, SliceFresh, ServiceFresh, k8sVars, callerVars
<1> QED BY <1>1, <1>2, <1>3, <1>4, HandlerStep

\* AddNodeToNfsService preserves the invariant.
LEMMA AddNodeToNfsServiceStep ==
    ASSUME IndInv, TypeOK', NEW r \in Requests, AddNodeToNfsService(r)
    PROVE  IndInv'
<1>1. TypeOK /\ StageAt(r) /\ InCS(r)
    BY DEF IndInv, StageInv, AddNodeToNfsService, InCS, PublishLabels, UnpublishLabels
<1>2. OnlyStep(r) /\ KeepsOrLeaves(r)
    BY <1>1, ControlFrame, RequestParts
       DEF AddNodeToNfsService, OnlyStep, KeepsOrLeaves, TypeOK, Labels, PublishLabels,
           UnpublishLabels, localVars, k8sVars, callerVars, PutService
<1>3. StageAt(r)'
    BY <1>1, ControlFrame, RequestParts
       DEF AddNodeToNfsService, TypeOK, StageAt, SliceFresh, ServiceFresh, Labels, PublishLabels,
           UnpublishLabels, localVars, k8sVars, callerVars, PutService
<1>4. AttachedHasServer'
    <2> SUFFICES ASSUME NEW s \in Requests, s \in attached'
                 PROVE  /\ service'[Vol(s)].exists /\ Node(s) \in service'[Vol(s)].clients
                        /\ slice'[Vol(s)] # None
        BY DEF AttachedHasServer, TypeOK
    <2>1. CASE s = r
        BY <1>1, <2>1, RequestParts DEF AddNodeToNfsService, IndInv, AttachedHasServer, TypeOK,
           StageAt, SliceFresh, ServiceFresh, UnpublishLabels, callerVars, PutService
    <2>2. CASE s # r /\ Vol(s) = Vol(r)
        <3>1. s \in attached /\ Node(s) # Node(r)
            BY <1>2, <2>2, SameRequest DEF OnlyStep
        <3> QED
            BY <1>1, <2>2, <3>1, RequestParts, NoneAssumption
               DEF AddNodeToNfsService, IndInv, AttachedHasServer, TypeOK,
                   StageAt, SliceFresh, ServiceFresh, PutService
    <2>3. CASE Vol(s) # Vol(r)
        BY <1>2, <2>3, RequestParts DEF OnlyStep, IndInv, AttachedHasServer
    <2> QED BY <2>1, <2>2, <2>3
<1>5. SliceNodePublished'
    BY DEF AddNodeToNfsService, IndInv, SliceNodePublished
<1> QED BY <1>1, <1>2, <1>3, <1>4, <1>5, HandlerStep

\* CheckNodeStatus preserves the invariant.
LEMMA CheckNodeStatusStep ==
    ASSUME IndInv, TypeOK', NEW r \in Requests, CheckNodeStatus(r)
    PROVE  IndInv'
<1>1. TypeOK /\ StageAt(r) /\ InCS(r)
    BY DEF IndInv, StageInv, CheckNodeStatus, InCS, PublishLabels, UnpublishLabels
<1>2. OnlyStep(r) /\ KeepsOrLeaves(r)
    BY <1>1, ControlFrame, RequestParts
       DEF CheckNodeStatus, OnlyStep, KeepsOrLeaves, TypeOK, Labels, PublishLabels,
           UnpublishLabels, localVars, k8sVars, callerVars
<1>3. StageAt(r)'
    BY <1>1, ControlFrame, RequestParts
       DEF CheckNodeStatus, TypeOK, StageAt, SliceFresh, ServiceFresh, Labels, PublishLabels,
           UnpublishLabels, localVars, k8sVars, callerVars
<1>4. AttachedHasServer' /\ SliceNodePublished'
    BY <1>1, RequestParts, NoneAssumption
       DEF CheckNodeStatus, IndInv, AttachedHasServer, SliceNodePublished, TypeOK,
           StageAt, SliceFresh, ServiceFresh, k8sVars, callerVars
<1> QED BY <1>1, <1>2, <1>3, <1>4, HandlerStep

\* ArrayPublish preserves the invariant.
LEMMA ArrayPublishStep ==
    ASSUME IndInv, TypeOK', NEW r \in Requests, ArrayPublish(r)
    PROVE  IndInv'
<1>1. TypeOK /\ StageAt(r) /\ InCS(r)
    BY DEF IndInv, StageInv, ArrayPublish, InCS, PublishLabels, UnpublishLabels
<1>2. OnlyStep(r) /\ KeepsOrLeaves(r)
    BY <1>1, ControlFrame, RequestParts
       DEF ArrayPublish, OnlyStep, KeepsOrLeaves, TypeOK, Labels, PublishLabels,
           UnpublishLabels, localVars, k8sVars, callerVars, MapToHost
<1>3. StageAt(r)'
    BY <1>1, ControlFrame, RequestParts
       DEF ArrayPublish, TypeOK, StageAt, SliceFresh, ServiceFresh, Labels, PublishLabels,
           UnpublishLabels, localVars, k8sVars, callerVars, MapToHost
<1>4. AttachedHasServer'
    BY DEF ArrayPublish, IndInv, AttachedHasServer, k8sVars, callerVars
<1>5. SliceNodePublished'
    <2> SUFFICES ASSUME NEW v \in Volumes, slice'[v] # None
                 PROVE  slice'[v] \in published'[v]
        BY DEF SliceNodePublished
    <2>1. CASE v = Vol(r)
        BY <1>1, <2>1, RequestParts DEF ArrayPublish, IndInv, SliceNodePublished, TypeOK,
           StageAt, k8sVars, MapToHost
    <2>2. CASE v # Vol(r)
        BY <1>2, <2>2 DEF OnlyStep, IndInv, SliceNodePublished
    <2> QED BY <2>1, <2>2
<1> QED BY <1>1, <1>2, <1>3, <1>4, <1>5, HandlerStep

\* CallExport preserves the invariant.
LEMMA CallExportStep ==
    ASSUME IndInv, TypeOK', NEW r \in Requests, CallExport(r)
    PROVE  IndInv'
<1>1. TypeOK /\ StageAt(r) /\ InCS(r)
    BY DEF IndInv, StageInv, CallExport, InCS, PublishLabels, UnpublishLabels
<1>2. OnlyStep(r) /\ KeepsOrLeaves(r)
    BY <1>1, ControlFrame, RequestParts
       DEF CallExport, OnlyStep, KeepsOrLeaves, TypeOK, Labels, PublishLabels,
           UnpublishLabels, localVars, k8sVars, callerVars
<1>3. StageAt(r)'
    BY <1>1, ControlFrame, RequestParts
       DEF CallExport, TypeOK, StageAt, SliceFresh, ServiceFresh, Labels, PublishLabels,
           UnpublishLabels, localVars, k8sVars, callerVars
<1>4. AttachedHasServer' /\ SliceNodePublished'
    BY <1>1, RequestParts, NoneAssumption
       DEF CallExport, IndInv, AttachedHasServer, SliceNodePublished, TypeOK,
           StageAt, SliceFresh, ServiceFresh, k8sVars, callerVars
<1> QED BY <1>1, <1>2, <1>3, <1>4, HandlerStep

\* CreateEndpointSlice preserves the invariant.
LEMMA CreateEndpointSliceStep ==
    ASSUME IndInv, TypeOK', NEW r \in Requests, CreateEndpointSlice(r)
    PROVE  IndInv'
<1>1. TypeOK /\ StageAt(r) /\ InCS(r)
    BY DEF IndInv, StageInv, CreateEndpointSlice, InCS, PublishLabels, UnpublishLabels
<1>2. OnlyStep(r) /\ KeepsOrLeaves(r)
    BY <1>1, ControlFrame, RequestParts
       DEF CreateEndpointSlice, OnlyStep, KeepsOrLeaves, TypeOK, Labels, PublishLabels,
           UnpublishLabels, localVars, k8sVars, callerVars, PutSlice
<1>3. StageAt(r)'
    BY <1>1, ControlFrame, RequestParts
       DEF CreateEndpointSlice, TypeOK, StageAt, SliceFresh, ServiceFresh, Labels, PublishLabels,
           UnpublishLabels, localVars, k8sVars, callerVars, PutSlice
<1>4. AttachedHasServer'
    <2> SUFFICES ASSUME NEW s \in Requests, s \in attached'
                 PROVE  /\ service'[Vol(s)].exists /\ Node(s) \in service'[Vol(s)].clients
                        /\ slice'[Vol(s)] # None
        BY DEF AttachedHasServer, TypeOK
    <2>1. CASE s = r
        BY <1>1, <2>1, RequestParts DEF CreateEndpointSlice, IndInv, AttachedHasServer, TypeOK,
           StageAt, SliceFresh, ServiceFresh, UnpublishLabels, callerVars, PutSlice
    <2>2. CASE s # r /\ Vol(s) = Vol(r)
        <3>1. s \in attached /\ Node(s) # Node(r)
            BY <1>2, <2>2, SameRequest DEF OnlyStep
        <3> QED
            BY <1>1, <2>2, <3>1, RequestParts, NoneAssumption
               DEF CreateEndpointSlice, IndInv, AttachedHasServer, TypeOK,
                   StageAt, SliceFresh, ServiceFresh, PutSlice
    <2>3. CASE Vol(s) # Vol(r)
        BY <1>2, <2>3, RequestParts DEF OnlyStep, IndInv, AttachedHasServer
    <2> QED BY <2>1, <2>2, <2>3
<1>5. SliceNodePublished'
    <2> SUFFICES ASSUME NEW v \in Volumes, slice'[v] # None
                 PROVE  slice'[v] \in published'[v]
        BY DEF SliceNodePublished
    <2>1. CASE v = Vol(r)
        BY <1>1, <2>1, RequestParts DEF CreateEndpointSlice, IndInv, SliceNodePublished, TypeOK,
           StageAt, k8sVars, PutSlice
    <2>2. CASE v # Vol(r)
        BY <1>2, <2>2 DEF OnlyStep, IndInv, SliceNodePublished
    <2> QED BY <2>1, <2>2
<1> QED BY <1>1, <1>2, <1>3, <1>4, <1>5, HandlerStep

\* CreateService preserves the invariant.
LEMMA CreateServiceStep ==
    ASSUME IndInv, TypeOK', NEW r \in Requests, CreateService(r)
    PROVE  IndInv'
<1>1. TypeOK /\ StageAt(r) /\ InCS(r)
    BY DEF IndInv, StageInv, CreateService, InCS, PublishLabels, UnpublishLabels
<1>2. OnlyStep(r) /\ KeepsOrLeaves(r)
    BY <1>1, ControlFrame, RequestParts
       DEF CreateService, OnlyStep, KeepsOrLeaves, TypeOK, Labels, PublishLabels,
           UnpublishLabels, localVars, k8sVars, callerVars, PutService
<1>3. StageAt(r)'
    BY <1>1, ControlFrame, RequestParts
       DEF CreateService, TypeOK, StageAt, SliceFresh, ServiceFresh, Labels, PublishLabels,
           UnpublishLabels, localVars, k8sVars, callerVars, PutService
<1>4. AttachedHasServer' /\ SliceNodePublished'
    BY <1>1, RequestParts, NoneAssumption
       DEF CreateService, IndInv, AttachedHasServer, SliceNodePublished, TypeOK,
           StageAt, SliceFresh, ServiceFresh, k8sVars, callerVars, PutService
<1> QED BY <1>1, <1>2, <1>3, <1>4, HandlerStep

\* UnpubGetSlice preserves the invariant.
LEMMA UnpubGetSliceStep ==
    ASSUME IndInv, TypeOK', NEW r \in Requests, UnpubGetSlice(r)
    PROVE  IndInv'
<1>1. TypeOK /\ StageAt(r) /\ InCS(r)
    BY DEF IndInv, StageInv, UnpubGetSlice, InCS, PublishLabels, UnpublishLabels
<1>2. OnlyStep(r) /\ KeepsOrLeaves(r)
    BY <1>1, ControlFrame, RequestParts
       DEF UnpubGetSlice, OnlyStep, KeepsOrLeaves, TypeOK, Labels, PublishLabels,
           UnpublishLabels, localVars, k8sVars, callerVars
<1>3. StageAt(r)'
    BY <1>1, ControlFrame, RequestParts
       DEF UnpubGetSlice, TypeOK, StageAt, SliceFresh, ServiceFresh, Labels, PublishLabels,
           UnpublishLabels, localVars, k8sVars, callerVars
<1>4. AttachedHasServer' /\ SliceNodePublished'
    BY <1>1, RequestParts, NoneAssumption
       DEF UnpubGetSlice, IndInv, AttachedHasServer, SliceNodePublished, TypeOK,
           StageAt, SliceFresh, ServiceFresh, k8sVars, callerVars
<1> QED BY <1>1, <1>2, <1>3, <1>4, HandlerStep

\* UnpubGetService preserves the invariant.
LEMMA UnpubGetServiceStep ==
    ASSUME IndInv, TypeOK', NEW r \in Requests, UnpubGetService(r)
    PROVE  IndInv'
<1>1. TypeOK /\ StageAt(r) /\ InCS(r)
    BY DEF IndInv, StageInv, UnpubGetService, InCS, PublishLabels, UnpublishLabels
<1>2. OnlyStep(r) /\ KeepsOrLeaves(r)
    BY <1>1, ControlFrame, RequestParts
       DEF UnpubGetService, OnlyStep, KeepsOrLeaves, TypeOK, Labels, PublishLabels,
           UnpublishLabels, localVars, k8sVars, callerVars
<1>3. StageAt(r)'
    BY <1>1, ControlFrame, RequestParts
       DEF UnpubGetService, TypeOK, StageAt, SliceFresh, ServiceFresh, Labels, PublishLabels,
           UnpublishLabels, localVars, k8sVars, callerVars
<1>4. AttachedHasServer' /\ SliceNodePublished'
    BY <1>1, RequestParts, NoneAssumption
       DEF UnpubGetService, IndInv, AttachedHasServer, SliceNodePublished, TypeOK,
           StageAt, SliceFresh, ServiceFresh, k8sVars, callerVars
<1> QED BY <1>1, <1>2, <1>3, <1>4, HandlerStep

\* RemoveNodeFromNfsService preserves the invariant.
LEMMA RemoveNodeFromNfsServiceStep ==
    ASSUME IndInv, TypeOK', NEW r \in Requests, RemoveNodeFromNfsService(r)
    PROVE  IndInv'
<1>1. TypeOK /\ StageAt(r) /\ InCS(r)
    BY DEF IndInv, StageInv, RemoveNodeFromNfsService, InCS, PublishLabels, UnpublishLabels
<1>2. OnlyStep(r) /\ KeepsOrLeaves(r)
    BY <1>1, ControlFrame, RequestParts
       DEF RemoveNodeFromNfsService, OnlyStep, KeepsOrLeaves, TypeOK, Labels, PublishLabels,
           UnpublishLabels, localVars, k8sVars, callerVars, PutService, LastClient
<1>3. StageAt(r)'
    BY <1>1, ControlFrame, RequestParts
       DEF RemoveNodeFromNfsService, TypeOK, StageAt, SliceFresh, ServiceFresh, Labels, PublishLabels,
           UnpublishLabels, localVars, k8sVars, callerVars, PutService, LastClient
<1>4. AttachedHasServer'
    <2> SUFFICES ASSUME NEW s \in Requests, s \in attached'
                 PROVE  /\ service'[Vol(s)].exists /\ Node(s) \in service'[Vol(s)].clients
                        /\ slice'[Vol(s)] # None
        BY DEF AttachedHasServer, TypeOK
    <2>1. CASE s = r
        BY <1>1, <2>1, RequestParts DEF RemoveNodeFromNfsService, IndInv, AttachedHasServer, TypeOK,
           StageAt, SliceFresh, ServiceFresh, UnpublishLabels, callerVars, PutService
    <2>2. CASE s # r /\ Vol(s) = Vol(r)
        <3>1. s \in attached /\ Node(s) # Node(r)
            BY <1>2, <2>2, SameRequest DEF OnlyStep
        <3> QED
            BY <1>1, <2>2, <3>1, RequestParts, NoneAssumption
               DEF RemoveNodeFromNfsService, IndInv, AttachedHasServer, TypeOK,
                   StageAt, SliceFresh, ServiceFresh, PutService
    <2>3. CASE Vol(s) # Vol(r)
        BY <1>2, <2>3, RequestParts DEF OnlyStep, IndInv, AttachedHasServer
    <2> QED BY <2>1, <2>2, <2>3
<1>5. SliceNodePublished'
    BY DEF RemoveNodeFromNfsService, IndInv, SliceNodePublished
<1> QED BY <1>1, <1>2, <1>3, <1>4, <1>5, HandlerStep

\* CallUnexport preserves the invariant.
LEMMA CallUnexportStep ==
    ASSUME IndInv, TypeOK', NEW r \in Requests, CallUnexport(r)
    PROVE  IndInv'
<1>1. TypeOK /\ StageAt(r) /\ InCS(r)
    BY DEF IndInv, StageInv, CallUnexport, InCS, PublishLabels, UnpublishLabels
<1>2. OnlyStep(r) /\ KeepsOrLeaves(r)
    BY <1>1, ControlFrame, RequestParts
       DEF CallUnexport, OnlyStep, KeepsOrLeaves, TypeOK, Labels, PublishLabels,
           UnpublishLabels, localVars, k8sVars, callerVars
<1>3. StageAt(r)'
    BY <1>1, ControlFrame, RequestParts
       DEF CallUnexport, TypeOK, StageAt, SliceFresh, ServiceFresh, Labels, PublishLabels,
           UnpublishLabels, localVars, k8sVars, callerVars
<1>4. AttachedHasServer' /\ SliceNodePublished'
    BY <1>1, RequestParts, NoneAssumption
       DEF CallUnexport, IndInv, AttachedHasServer, SliceNodePublished, TypeOK,
           StageAt, SliceFresh, ServiceFresh, k8sVars, callerVars
<1> QED BY <1>1, <1>2, <1>3, <1>4, HandlerStep

\* DeleteEndpointSlice preserves the invariant.
LEMMA DeleteEndpointSliceStep ==
    ASSUME IndInv, TypeOK', NEW r \in Requests, DeleteEndpointSlice(r)
    PROVE  IndInv'
<1>1. TypeOK /\ StageAt(r) /\ InCS(r)
    BY DEF IndInv, StageInv, DeleteEndpointSlice, InCS, PublishLabels, UnpublishLabels
<1>2. OnlyStep(r) /\ KeepsOrLeaves(r)
    BY <1>1, ControlFrame, RequestParts
       DEF DeleteEndpointSlice, OnlyStep, KeepsOrLeaves, TypeOK, Labels, PublishLabels,
           UnpublishLabels, localVars, k8sVars, callerVars, PutSlice
<1>3. StageAt(r)'
    BY <1>1, ControlFrame, RequestParts
       DEF DeleteEndpointSlice, TypeOK, StageAt, SliceFresh, ServiceFresh, Labels, PublishLabels,
           UnpublishLabels, localVars, k8sVars, callerVars, PutSlice
<1>4. AttachedHasServer' /\ SliceNodePublished'
    BY <1>1, RequestParts, NoneAssumption
       DEF DeleteEndpointSlice, IndInv, AttachedHasServer, SliceNodePublished, TypeOK,
           StageAt, SliceFresh, ServiceFresh, k8sVars, callerVars, PutSlice
<1> QED BY <1>1, <1>2, <1>3, <1>4, HandlerStep

\* DeleteService preserves the invariant.
LEMMA DeleteServiceStep ==
    ASSUME IndInv, TypeOK', NEW r \in Requests, DeleteService(r)
    PROVE  IndInv'
<1>1. TypeOK /\ StageAt(r) /\ InCS(r)
    BY DEF IndInv, StageInv, DeleteService, InCS, PublishLabels, UnpublishLabels
<1>2. OnlyStep(r) /\ KeepsOrLeaves(r)
    BY <1>1, ControlFrame, RequestParts
       DEF DeleteService, OnlyStep, KeepsOrLeaves, TypeOK, Labels, PublishLabels,
           UnpublishLabels, localVars, k8sVars, callerVars, DropService, NoService
<1>3. StageAt(r)'
    BY <1>1, ControlFrame, RequestParts
       DEF DeleteService, TypeOK, StageAt, SliceFresh, ServiceFresh, Labels, PublishLabels,
           UnpublishLabels, localVars, k8sVars, callerVars, DropService, NoService
<1>4. AttachedHasServer'
    <2> SUFFICES ASSUME NEW s \in Requests, s \in attached'
                 PROVE  /\ service'[Vol(s)].exists /\ Node(s) \in service'[Vol(s)].clients
                        /\ slice'[Vol(s)] # None
        BY DEF AttachedHasServer, TypeOK
    <2>1. CASE s = r
        BY <1>1, <2>1, RequestParts DEF DeleteService, IndInv, AttachedHasServer, TypeOK,
           StageAt, SliceFresh, ServiceFresh, UnpublishLabels, callerVars, DropService, NoService
    <2>2. CASE s # r /\ Vol(s) = Vol(r)
        <3>1. s \in attached /\ Node(s) # Node(r)
            BY <1>2, <2>2, SameRequest DEF OnlyStep
        <3> QED
            BY <1>1, <2>2, <3>1, RequestParts, NoneAssumption
               DEF DeleteService, IndInv, AttachedHasServer, TypeOK,
                   StageAt, SliceFresh, ServiceFresh, DropService, NoService
    <2>3. CASE Vol(s) # Vol(r)
        BY <1>2, <2>3, RequestParts DEF OnlyStep, IndInv, AttachedHasServer
    <2> QED BY <2>1, <2>2, <2>3
<1>5. SliceNodePublished'
    BY DEF DeleteService, IndInv, SliceNodePublished
<1> QED BY <1>1, <1>2, <1>3, <1>4, <1>5, HandlerStep

\* ArrayUnpublish preserves the invariant.
LEMMA ArrayUnpublishStep ==
    ASSUME IndInv, TypeOK', NEW r \in Requests, ArrayUnpublish(r)
    PROVE  IndInv'
<1>1. TypeOK /\ StageAt(r) /\ InCS(r)
    BY DEF IndInv, StageInv, ArrayUnpublish, InCS, PublishLabels, UnpublishLabels
<1>2. OnlyStep(r) /\ KeepsOrLeaves(r)
    BY <1>1, ControlFrame, RequestParts
       DEF ArrayUnpublish, OnlyStep, KeepsOrLeaves, TypeOK, Labels, PublishLabels,
           UnpublishLabels, localVars, k8sVars, callerVars, UnmapFromHost
<1>3. StageAt(r)'
    BY <1>1, ControlFrame, RequestParts
       DEF ArrayUnpublish, TypeOK, StageAt, SliceFresh, ServiceFresh, Labels, PublishLabels,
           UnpublishLabels, localVars, k8sVars, callerVars, UnmapFromHost
<1>4. AttachedHasServer'
    BY DEF ArrayUnpublish, IndInv, AttachedHasServer, k8sVars, callerVars
<1>5. SliceNodePublished'
    <2> SUFFICES ASSUME NEW v \in Volumes, slice'[v] # None
                 PROVE  slice'[v] \in published'[v]
        BY DEF SliceNodePublished
    <2>1. CASE v = Vol(r)
        BY <1>1, <2>1, RequestParts DEF ArrayUnpublish, IndInv, SliceNodePublished, TypeOK,
           StageAt, k8sVars, UnmapFromHost
    <2>2. CASE v # Vol(r)
        BY <1>2, <2>2 DEF OnlyStep, IndInv, SliceNodePublished
    <2> QED BY <2>1, <2>2
<1> QED BY <1>1, <1>2, <1>3, <1>4, <1>5, HandlerStep

-----------------------------------------------------------------------------
(* The inductive invariant *)

\* The invariant holds initially.
LEMMA InitIndInv == Init => IndInv
BY InitType, RequestParts
   DEF Init, IndInv, LockInv, StageInv, StageAt, InCS, AttachedHasServer,
       SliceNodePublished, PublishLabels, UnpublishLabels

\* Arrivals at the lock change no stage, only whom the orchestrator relies on.
LEMMA CallStep ==
    ASSUME IndInv, TypeOK', NEW r \in Requests, CallPublish(r) \/ CallUnpublish(r)
    PROVE  IndInv'
<1> USE DEF CallPublish, CallUnpublish, Goto, localVars, k8sVars
<1>1. TypeOK
    BY DEF IndInv
<1>2. pc[r] = "idle" /\ pc'[r] \in {"pubLock", "unpubLock"}
    BY <1>1 DEF TypeOK
<1>3. \A s \in Requests \ {r} : pc'[s] = pc[s] /\ (s \in attached' <=> s \in attached)
    BY <1>1 DEF TypeOK
<1>4. pc'[r] = "unpubLock" => r \notin attached'
    BY <1>1 DEF TypeOK
<1>5. LockInv'
    BY <1>2, <1>3 DEF IndInv, LockInv, InCS, PublishLabels, UnpublishLabels
<1>6. StageInv'
    <2> SUFFICES ASSUME NEW s \in Requests PROVE StageAt(s)'
        BY DEF StageInv
    <2>1. CASE s = r
        BY <1>2, <1>4, <2>1 DEF StageAt, UnpublishLabels
    <2>2. CASE s # r
        <3>1. StageAt(s)
            BY DEF IndInv, StageInv
        <3> QED BY <1>3, <2>2, <3>1 DEF StageAt, SliceFresh, ServiceFresh
    <2> QED BY <2>1, <2>2
<1>7. AttachedHasServer' /\ SliceNodePublished'
    BY DEF IndInv, AttachedHasServer, SliceNodePublished
<1> QED BY <1>5, <1>6, <1>7 DEF IndInv

\* The lock is taken only when free, so nobody of the volume is past it.
LEMMA LockPVStep ==
    ASSUME IndInv, TypeOK', NEW r \in Requests, LockPV(r)
    PROVE  IndInv'
<1>1. TypeOK
    BY DEF IndInv
<1>2. /\ pc[r] \in {"pubLock", "unpubLock"}
      /\ pc[r] = "pubLock" => pc'[r] = "getNode"
      /\ pc[r] = "unpubLock" => pc'[r] = "unpubGetSlice"
    BY <1>1 DEF LockPV, TypeOK
<1>3. \A s \in Requests \ {r} : pc'[s] = pc[s]
    BY <1>1 DEF LockPV, TypeOK
<1>4. LockInv'
    <2> SUFFICES ASSUME NEW s \in Requests, InCS(s)' PROVE PVLock'[Vol(s)] = Node(s)
        BY DEF LockInv
    <2>1. CASE s = r
        BY <1>1, <2>1, RequestParts DEF LockPV, TypeOK
    <2>2. CASE s # r
        <3>1. PVLock[Vol(s)] = Node(s)
            BY <1>3, <2>2 DEF IndInv, LockInv, InCS
        <3>2. Vol(s) # Vol(r)
            BY <3>1, RequestParts, NoneAssumption DEF LockPV, LockFree
        <3> QED BY <1>1, <3>1, <3>2, RequestParts DEF LockPV, TypeOK
    <2> QED BY <2>1, <2>2
<1>5. StageInv'
    <2> SUFFICES ASSUME NEW s \in Requests PROVE StageAt(s)'
        BY DEF StageInv
    <2>0. StageAt(s)
        BY DEF IndInv, StageInv
    <2>1. CASE s = r
        BY <1>2, <2>0, <2>1 DEF StageAt, LockPV, UnpublishLabels, callerVars
    <2>2. CASE s # r
        BY <1>3, <2>0, <2>2
           DEF StageAt, SliceFresh, ServiceFresh, LockPV, localVars, k8sVars, callerVars
    <2> QED BY <2>1, <2>2
<1>6. AttachedHasServer' /\ SliceNodePublished'
    BY DEF LockPV, IndInv, AttachedHasServer, SliceNodePublished, k8sVars, callerVars
<1> QED BY <1>4, <1>5, <1>6 DEF IndInv

\* A restart forgets the lock together with every handler.
LEMMA CrashStep ==
    ASSUME IndInv, TypeOK', Crash
    PROVE  IndInv'
<1>1. \A r \in Requests : pc'[r] = "idle"
    BY DEF Crash
<1>2. LockInv' /\ StageInv'
    BY <1>1 DEF LockInv, StageInv, StageAt, InCS, PublishLabels, UnpublishLabels
<1>3. AttachedHasServer' /\ SliceNodePublished'
    BY DEF Crash, IndInv, AttachedHasServer, SliceNodePublished, k8sVars, callerVars
<1> QED BY <1>2, <1>3 DEF IndInv

\* Late answers of nodes, and stuttering, touch nothing IndInv speaks of.
LEMMA NodeStep ==
    ASSUME IndInv, TypeOK',
           UNCHANGED <<PVLock, pc, localVars, k8sVars, published, callerVars>>
    PROVE  IndInv'
<1> USE DEF localVars, k8sVars, callerVars
<1>1. LockInv'
    BY DEF IndInv, LockInv, InCS
<1>2. StageInv'
    BY DEF IndInv, StageInv, StageAt, SliceFresh, ServiceFresh
<1>3. AttachedHasServer' /\ SliceNodePublished'
    BY DEF IndInv, AttachedHasServer, SliceNodePublished
<1> QED BY <1>1, <1>2, <1>3 DEF IndInv

\* Every step preserves the invariant.
LEMMA NextIndInv == IndInv /\ [Next]_vars => IndInv'
<1> SUFFICES ASSUME IndInv, [Next]_vars PROVE IndInv'
    OBVIOUS
<1>0. TypeOK'
    BY NextType DEF IndInv, StageInv, StageAt, SliceFresh, ServerKnown
<1>1. ASSUME NEW r \in Requests, CallPublish(r) \/ CallUnpublish(r) \/ LockPV(r)
      PROVE  IndInv'
    BY <1>0, <1>1, CallStep, LockPVStep
<1>2. ASSUME NEW r \in Requests, Publish(r) PROVE IndInv'
    BY <1>0, <1>2, GetNodeStep, PubGetSliceStep, PubGetServiceStep,
       AddNodeToNfsServiceStep, CheckNodeStatusStep, ArrayPublishStep,
       CallExportStep, CreateEndpointSliceStep, CreateServiceStep DEF Publish
<1>3. ASSUME NEW r \in Requests, Unpublish(r) PROVE IndInv'
    BY <1>0, <1>3, UnpubGetSliceStep, UnpubGetServiceStep,
       RemoveNodeFromNfsServiceStep, CallUnexportStep, DeleteEndpointSliceStep,
       DeleteServiceStep, ArrayUnpublishStep DEF Unpublish
<1>4. ASSUME NEW v \in Volumes, NEW call \in late[v], FinishLate(v, call) PROVE IndInv'
    BY <1>0, <1>4, NodeStep DEF FinishLate, NodeCallEnds
<1>5. CASE Crash
    BY <1>0, <1>5, CrashStep
<1>6. CASE UNCHANGED vars
    BY <1>0, <1>6, NodeStep DEF vars
<1> QED BY <1>1, <1>2, <1>3, <1>4, <1>5, <1>6 DEF Next

\* The inductive invariant holds in every reachable state: what a handler of
\* ControllerPublishVolume or ControllerUnpublishVolume read under the lock is
\* still so when it writes.
THEOREM Inductive == Spec => []IndInv
<1>1. Init => IndInv
    BY InitIndInv
<1>2. IndInv /\ [Next]_vars => IndInv'
    BY NextIndInv
<1> QED BY <1>1, <1>2, PTL DEF Spec

-----------------------------------------------------------------------------
(* Theorems *)

\* Every variable keeps its type, for all volumes, nodes and failures.
THEOREM TypeCorrect == Spec => []TypeOK
<1>1. IndInv => TypeOK
    BY DEF IndInv
<1> QED BY <1>1, Inductive, PTL

\* LockPV and the deferred UnlockPV exclude each other's critical sections of
\* ControllerPublishVolume and ControllerUnpublishVolume, per volume.
THEOREM MutualExclusion == Spec => []PVLockExclusion
<1>1. IndInv => PVLockExclusion
    BY Exclusive DEF IndInv, PVLockExclusion
<1> QED BY <1>1, Inductive, PTL

\* No failure, restart or interleaving lets ControllerUnpublishVolume take the
\* Service, the client label or the slice from under an attached node.
THEOREM ClientsKeepServer == Spec => []AttachedHasServer
<1>1. IndInv => AttachedHasServer
    BY DEF IndInv
<1> QED BY <1>1, Inductive, PTL

\* The node a slice points clients to is mapped on the array: the order of
\* makeNfsService and of the teardown survives failures and restarts.
THEOREM ServerIsMapped == Spec => []SliceNodePublished
<1>1. IndInv => SliceNodePublished
    BY DEF IndInv
<1> QED BY <1>1, Inductive, PTL
=============================================================================
