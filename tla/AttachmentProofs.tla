-------------------------- MODULE AttachmentProofs --------------------------
(***************************************************************************)
(* The requests implement VolumeAttachment, for every set of volumes and   *)
(* nodes and every number of failures and controller restarts.             *)
(*                                                                         *)
(* The argument rests on ClientInv, which holds wherever the server is:    *)
(* the lemmas about single steps are used again by SharedNfsProofs, where  *)
(* recovery moves servers beside the requests.                             *)
(*                                                                         *)
(* As long as no call has failed, a volume is at each point of a handler   *)
(* exactly as far built, or taken down, as the handler has come            *)
(* (FaultFreeInv): one server, which serves every client, and nothing left *)
(* when the last one is gone.                                              *)
(***************************************************************************)
EXTENDS ControllerProofs, FiniteSetTheorems

\* The part of IndInv that says who the clients of a volume are.  It does not
\* ask where the server is, so a recovery that moves the server beside the requests
\* leaves it standing (SharedNfs); ImplementsAttachment follows from it.
ClientStage(r) ==
    /\ pc[r] \in {"pubGetService", "addNode", "createService"} => slice[Vol(r)] # None
    /\ pc[r] \in {"addNode", "removeNode"} => ServiceFresh(r)
    /\ pc[r] \in {"unpubLock"} \cup UnpublishLabels => r \notin attached
    /\ pc[r] \in {"unpubGetService", "removeNode", "unexport"} => sliceRead[r] # None
    /\ pc[r] \in {"unexport", "deleteSlice", "deleteService"} =>
          service[Vol(r)].clients = {}

\* A Service that does not exist has no labels.
NoOrphanLabels == \A v \in Volumes : ~service[v].exists => service[v].clients = {}

ClientInv == /\ LockInv /\ NoOrphanLabels /\ AttachedHasServer
             /\ \A r \in Requests : ClientStage(r)

-----------------------------------------------------------------------------
(* Steps that write neither the slice nor the Service *)

\* A step of the handler of r disturbs no other handler, so ClientInv follows
\* from what the step does to r's own stage, the Service and the attachments.
LEMMA ClientHandlerStep ==
    ASSUME ClientInv, NEW r \in Requests, InCS(r),
           OnlyStep(r), KeepsOrLeaves(r), ClientStage(r)',
           NoOrphanLabels', AttachedHasServer'
    PROVE  ClientInv'
<1>1. LockInv'
    <2> SUFFICES ASSUME NEW s \in Requests, InCS(s)' PROVE PVLock'[Vol(s)] = Node(s)
        BY DEF LockInv
    <2>1. CASE s = r
        BY <2>1 DEF ClientInv, LockInv, InCS, KeepsOrLeaves, PublishLabels, UnpublishLabels
    <2>2. CASE s # r
        <3>1. InCS(s)
            BY <2>2 DEF OnlyStep, InCS
        <3>2. Vol(s) # Vol(r)
            BY <3>1, <2>2, Exclusive DEF ClientInv
        <3> QED BY <3>1, <3>2, RequestParts DEF ClientInv, LockInv, OnlyStep
    <2> QED BY <2>1, <2>2
<1>2. ASSUME NEW s \in Requests, s # r PROVE ClientStage(s)'
    <2>1. ClientStage(s)
        BY DEF ClientInv
    <2>2. CASE Vol(s) # Vol(r)
        BY <1>2, <2>1, <2>2, RequestParts DEF ClientStage, ServiceFresh, OnlyStep
    <2>3. CASE Vol(s) = Vol(r)
        <3>1. ~InCS(s)
            BY <1>2, <2>3, Exclusive DEF ClientInv
        <3> QED BY <1>2, <2>1, <3>1
                DEF ClientStage, OnlyStep, InCS, PublishLabels, UnpublishLabels
    <2> QED BY <2>2, <2>3
<1> QED BY <1>1, <1>2 DEF ClientInv

\* A handler step that only reads, or writes to the array or a node.
LEMMA ReadStep ==
    ASSUME TypeOK, ClientInv, NEW r \in Requests, InCS(r), OnlyStep(r), KeepsOrLeaves(r),
           ClientStage(r)', UNCHANGED <<slice, service, attached>>
    PROVE  ClientInv'
<1>1. NoOrphanLabels' /\ AttachedHasServer'
    BY DEF ClientInv, NoOrphanLabels, AttachedHasServer
<1> QED BY <1>1, ClientHandlerStep

\* GetNode, GetNodeStatus and the calls to the array and the node.
LEMMA OtherCallStep ==
    ASSUME TypeOK, ClientInv, NEW r \in Requests,
           \/ GetNode(r) \/ CheckNodeStatus(r) \/ ArrayPublish(r) \/ CallExport(r)
           \/ CallUnexport(r) \/ ArrayUnpublish(r)
    PROVE  ClientInv' /\ UNCHANGED k8sVars
<1>1. InCS(r) /\ ClientStage(r)
    BY DEF ClientInv, GetNode, CheckNodeStatus, ArrayPublish, CallExport, CallUnexport,
           ArrayUnpublish, InCS, PublishLabels, UnpublishLabels
<1>2. UNCHANGED <<slice, service, attached, sliceRead, labelsRead>>
    BY DEF GetNode, CheckNodeStatus, ArrayPublish, CallExport, CallUnexport,
           ArrayUnpublish, k8sVars, callerVars, localVars
<1>3. \A v \in Volumes \ {Vol(r)} : published'[v] = published[v]
    BY RequestParts DEF GetNode, CheckNodeStatus, ArrayPublish, CallExport, CallUnexport,
           ArrayUnpublish, TypeOK, MapToHost, UnmapFromHost
<1>4. \/ Return(r)
      \/ UNCHANGED <<pc, PVLock>>
      \/ pc[r] = "getNode" /\ Goto(r, "pubGetSlice")
      \/ pc[r] = "checkStatus" /\ Goto(r, "arrayPublish")
      \/ pc[r] = "arrayPublish" /\ Goto(r, "export")
      \/ pc[r] = "export" /\ Goto(r, "createSlice")
      \/ pc[r] = "unexport" /\ Goto(r, "deleteSlice")
    BY DEF GetNode, CheckNodeStatus, ArrayPublish, CallExport, CallUnexport, ArrayUnpublish
<1>5. OnlyStep(r) /\ KeepsOrLeaves(r)
    BY <1>2, <1>3, <1>4, ControlFrame, RequestParts
       DEF OnlyStep, KeepsOrLeaves, TypeOK, Labels, PublishLabels, UnpublishLabels
<1>6. ClientStage(r)'
    <2>1. \/ pc'[r] = pc[r]
          \/ pc'[r] \in {"idle", "pubGetSlice", "arrayPublish", "export", "createSlice"}
          \/ pc[r] = "unexport" /\ pc'[r] = "deleteSlice"
        BY <1>4, ControlFrame DEF Labels, PublishLabels, UnpublishLabels
    <2> QED BY <1>1, <1>2, <2>1 DEF ClientStage, ServiceFresh, UnpublishLabels
<1> QED BY <1>1, <1>2, <1>5, <1>6, ReadStep DEF k8sVars

\* getServiceAndSlice reads what it reads under the volume's lock.
LEMMA GetServiceAndSliceStep ==
    ASSUME TypeOK, ClientInv, NEW r \in Requests,
           PubGetSlice(r) \/ PubGetService(r) \/ UnpubGetSlice(r) \/ UnpubGetService(r)
    PROVE  ClientInv' /\ UNCHANGED k8sVars
<1>1. InCS(r) /\ ClientStage(r)
    BY DEF ClientInv, PubGetSlice, PubGetService, UnpubGetSlice, UnpubGetService,
           InCS, PublishLabels, UnpublishLabels
<1>2. UNCHANGED <<slice, service, attached, published>>
    BY DEF PubGetSlice, PubGetService, UnpubGetSlice, UnpubGetService, k8sVars, callerVars
<1>3. \/ Return(r) \/ Goto(r, "checkStatus")
      \/ Goto(r, "pubGetService") /\ slice[Vol(r)] # None
      \/ /\ Goto(r, "unpubGetService") /\ pc[r] = "unpubGetSlice"
         /\ sliceRead' = [sliceRead EXCEPT ![r] = slice[Vol(r)]] /\ slice[Vol(r)] # None
      \/ /\ Goto(r, "addNode") /\ pc[r] = "pubGetService" /\ service[Vol(r)].exists
         /\ labelsRead' = [labelsRead EXCEPT ![r] = service[Vol(r)].clients]
      \/ /\ Goto(r, "removeNode") /\ pc[r] = "unpubGetService" /\ service[Vol(r)].exists
         /\ labelsRead' = [labelsRead EXCEPT ![r] = service[Vol(r)].clients]
         /\ UNCHANGED sliceRead
    BY DEF PubGetSlice, PubGetService, UnpubGetSlice, UnpubGetService
<1>4. \A s \in Requests \ {r} : sliceRead'[s] = sliceRead[s] /\ labelsRead'[s] = labelsRead[s]
    BY DEF PubGetSlice, PubGetService, UnpubGetSlice, UnpubGetService, TypeOK
<1>5. OnlyStep(r) /\ KeepsOrLeaves(r)
    BY <1>2, <1>3, <1>4, ControlFrame, RequestParts
       DEF OnlyStep, KeepsOrLeaves, Labels, PublishLabels, UnpublishLabels
<1>6. ClientStage(r)'
    <2>1. CASE Return(r) \/ Goto(r, "checkStatus") \/ (Goto(r, "pubGetService") /\ slice[Vol(r)] # None)
        BY <1>2, <2>1, ControlFrame DEF ClientStage, Labels, PublishLabels, UnpublishLabels
    <2>2. CASE /\ Goto(r, "unpubGetService") /\ pc[r] = "unpubGetSlice"
               /\ sliceRead' = [sliceRead EXCEPT ![r] = slice[Vol(r)]] /\ slice[Vol(r)] # None
        BY <1>1, <1>2, <2>2, ControlFrame DEF ClientStage, Labels, UnpublishLabels, TypeOK
    <2>3. CASE /\ Goto(r, "addNode") /\ pc[r] = "pubGetService" /\ service[Vol(r)].exists
               /\ labelsRead' = [labelsRead EXCEPT ![r] = service[Vol(r)].clients]
        BY <1>1, <1>2, <2>3, ControlFrame
           DEF ClientStage, ServiceFresh, Labels, PublishLabels, UnpublishLabels, TypeOK
    <2>4. CASE /\ Goto(r, "removeNode") /\ pc[r] = "unpubGetService" /\ service[Vol(r)].exists
               /\ labelsRead' = [labelsRead EXCEPT ![r] = service[Vol(r)].clients]
               /\ UNCHANGED sliceRead
        BY <1>1, <1>2, <2>4, ControlFrame
           DEF ClientStage, ServiceFresh, Labels, UnpublishLabels, TypeOK
    <2> QED BY <1>3, <2>1, <2>2, <2>3, <2>4
<1> QED BY <1>1, <1>2, <1>5, <1>6, ReadStep DEF k8sVars

-----------------------------------------------------------------------------
(* Steps that write the slice or the Service *)

Clients == [v \in Volumes |-> service[v].clients]

\* What the writes of the Service do to the client labels of all volumes.
LEMMA LabelWrites ==
    ASSUME TypeOK, NEW v \in Volumes
    PROVE  /\ \A S \in SUBSET Nodes :
                 PutService(v, S) => Clients' = [Clients EXCEPT ![v] = S]
           /\ DropService(v) => Clients' = [Clients EXCEPT ![v] = {}]
<1>1. ASSUME NEW S \in SUBSET Nodes, PutService(v, S)
      PROVE  Clients' = [Clients EXCEPT ![v] = S]
    BY <1>1 DEF TypeOK, PutService, Clients
<1>2. ASSUME DropService(v) PROVE Clients' = [Clients EXCEPT ![v] = {}]
    BY <1>2 DEF TypeOK, DropService, NoService, Clients
<1> QED BY <1>1, <1>2

\* addNodeToNfsService joins a server that runs.
LEMMA AddNodeJoins ==
    ASSUME TypeOK, ClientInv, NEW r \in Requests, AddNodeToNfsService(r)
    PROVE  ClientInv' /\ (Attachment!Join(Vol(r), Node(r)) \/ UNCHANGED k8sVars)
<1>1. InCS(r) /\ ClientStage(r) /\ pc[r] = "addNode" /\ Vol(r) \in Volumes
    BY RequestParts DEF ClientInv, AddNodeToNfsService, InCS, PublishLabels
<1>2. slice[Vol(r)] # None /\ ServiceFresh(r)
    BY <1>1 DEF ClientStage
<1>3. Return(r) /\ UNCHANGED <<slice, localVars, published>>
    BY DEF AddNodeToNfsService
<1>4. /\ UNCHANGED service \/ PutService(Vol(r), labelsRead[r] \cup {Node(r)})
      /\ \/ UNCHANGED attached
         \/ /\ attached' = attached \cup {r}
            /\ \/ UNCHANGED service /\ Node(r) \in labelsRead[r]
               \/ PutService(Vol(r), labelsRead[r] \cup {Node(r)})
    BY DEF AddNodeToNfsService
<1>5. /\ UNCHANGED service \/ service'[Vol(r)] = [exists |-> TRUE, clients |-> labelsRead[r] \cup {Node(r)}]
      /\ PutService(Vol(r), labelsRead[r] \cup {Node(r)}) =>
             service'[Vol(r)] = [exists |-> TRUE, clients |-> labelsRead[r] \cup {Node(r)}]
      /\ \A v \in Volumes \ {Vol(r)} : service'[v] = service[v]
    BY <1>1, <1>4 DEF PutService, TypeOK
<1>6. OnlyStep(r) /\ KeepsOrLeaves(r) /\ pc'[r] = "idle"
    BY <1>3, <1>4, <1>5, ControlFrame, RequestParts DEF OnlyStep, KeepsOrLeaves, localVars
<1>7. NoOrphanLabels'
    BY <1>5 DEF ClientInv, NoOrphanLabels
<1>8. AttachedHasServer'
    <2> SUFFICES ASSUME NEW s \in Requests, s \in attached'
                 PROVE  /\ service'[Vol(s)].exists /\ Node(s) \in service'[Vol(s)].clients
                        /\ slice'[Vol(s)] # None
        BY <1>4 DEF AttachedHasServer, TypeOK
    <2>1. CASE s = r
        BY <1>2, <1>3, <1>4, <1>5, <2>1 DEF ServiceFresh, ClientInv, AttachedHasServer
    <2>2. CASE s # r
        <3>1. s \in attached
            BY <1>6, <2>2 DEF OnlyStep
        <3> QED BY <1>2, <1>3, <1>5, <3>1, RequestParts
                DEF ServiceFresh, ClientInv, AttachedHasServer
    <2> QED BY <2>1, <2>2
<1>9. Attachment!Join(Vol(r), Node(r)) \/ UNCHANGED k8sVars
    <2>1. ASSUME PutService(Vol(r), labelsRead[r] \cup {Node(r)})
          PROVE  Clients' = [Clients EXCEPT ![Vol(r)] = @ \cup {Node(r)}]
        <3>1. labelsRead[r] \cup {Node(r)} \in SUBSET Nodes
            BY RequestParts DEF TypeOK
        <3>2. Clients[Vol(r)] = labelsRead[r]
            BY <1>1, <1>2 DEF Clients, ServiceFresh
        <3> QED BY <1>1, <2>1, <3>1, <3>2, LabelWrites
    <2> QED BY <1>2, <1>3, <1>4, <2>1 DEF Attachment!Join, Clients, k8sVars
<1> QED BY <1>1, <1>6, <1>7, <1>8, <1>9, ClientHandlerStep DEF ClientStage, UnpublishLabels

\* CreateEndpointSlice starts a server where there is none.
LEMMA CreateSliceStarts ==
    ASSUME TypeOK, ClientInv, NEW r \in Requests, CreateEndpointSlice(r)
    PROVE  ClientInv' /\ (Attachment!StartServer(Vol(r), Node(r)) \/ UNCHANGED k8sVars)
<1>1. InCS(r) /\ Vol(r) \in Volumes /\ Node(r) \in Nodes
    BY RequestParts DEF CreateEndpointSlice, InCS, PublishLabels
<1>2. UNCHANGED <<service, attached, localVars, published>>
    BY DEF CreateEndpointSlice, callerVars
<1>3. UNCHANGED slice \/ (slice[Vol(r)] = None /\ PutSlice(Vol(r), Node(r)))
    BY DEF CreateEndpointSlice
<1>4. \/ Return(r)
      \/ Goto(r, "createService") /\ PutSlice(Vol(r), Node(r))
    BY DEF CreateEndpointSlice
<1>5. /\ \A v \in Volumes : slice[v] # None => slice'[v] = slice[v]
      /\ \A v \in Volumes \ {Vol(r)} : slice'[v] = slice[v]
      /\ PutSlice(Vol(r), Node(r)) => slice'[Vol(r)] # None
    BY <1>1, <1>3, NoneAssumption DEF PutSlice, TypeOK
<1>6. OnlyStep(r) /\ KeepsOrLeaves(r)
    BY <1>2, <1>4, <1>5, ControlFrame, RequestParts
       DEF OnlyStep, KeepsOrLeaves, localVars, Labels, PublishLabels
<1>7. ClientStage(r)'
    BY <1>4, <1>5, ControlFrame DEF ClientStage, Labels, PublishLabels, UnpublishLabels
<1>8. NoOrphanLabels' /\ AttachedHasServer'
    BY <1>2, <1>5, RequestParts DEF ClientInv, NoOrphanLabels, AttachedHasServer, TypeOK
<1>9. Attachment!StartServer(Vol(r), Node(r)) \/ UNCHANGED k8sVars
    BY <1>2, <1>3 DEF Attachment!StartServer, PutSlice, k8sVars
<1> QED BY <1>1, <1>6, <1>7, <1>8, <1>9, ClientHandlerStep

\* CreateService makes the node of the request the first client.
LEMMA CreateServiceJoins ==
    ASSUME TypeOK, ClientInv, NEW r \in Requests, CreateService(r)
    PROVE  ClientInv' /\ (Attachment!Join(Vol(r), Node(r)) \/ UNCHANGED k8sVars)
<1>1. InCS(r) /\ Vol(r) \in Volumes /\ slice[Vol(r)] # None
    BY RequestParts DEF ClientInv, ClientStage, CreateService, InCS, PublishLabels
<1>2. Return(r) /\ UNCHANGED <<slice, localVars, published>>
    BY DEF CreateService
<1>3. /\ UNCHANGED service \/ (~service[Vol(r)].exists /\ PutService(Vol(r), {Node(r)}))
      /\ UNCHANGED attached \/ (attached' = attached \cup {r} /\ PutService(Vol(r), {Node(r)}))
    BY DEF CreateService
<1>4. /\ PutService(Vol(r), {Node(r)}) =>
             service'[Vol(r)] = [exists |-> TRUE, clients |-> {Node(r)}]
      /\ \A v \in Volumes : service[v].exists => service'[v] = service[v]
      /\ \A v \in Volumes \ {Vol(r)} : service'[v] = service[v]
    BY <1>1, <1>3 DEF PutService, TypeOK
<1>5. OnlyStep(r) /\ KeepsOrLeaves(r) /\ pc'[r] = "idle"
    BY <1>2, <1>3, <1>4, ControlFrame, RequestParts DEF OnlyStep, KeepsOrLeaves, localVars
<1>6. NoOrphanLabels'
    BY <1>3, <1>4 DEF ClientInv, NoOrphanLabels
<1>7. AttachedHasServer'
    BY <1>1, <1>2, <1>3, <1>4, RequestParts DEF ClientInv, AttachedHasServer, TypeOK
<1>8. Attachment!Join(Vol(r), Node(r)) \/ UNCHANGED k8sVars
    <2>1. ASSUME ~service[Vol(r)].exists, PutService(Vol(r), {Node(r)})
          PROVE  Clients' = [Clients EXCEPT ![Vol(r)] = @ \cup {Node(r)}]
        <3>1. Clients[Vol(r)] = {}
            BY <1>1, <2>1 DEF Clients, ClientInv, NoOrphanLabels
        <3>2. {Node(r)} \in SUBSET Nodes
            BY RequestParts
        <3>3. Clients' = [Clients EXCEPT ![Vol(r)] = {Node(r)}]
            BY <1>1, <2>1, <3>2, LabelWrites
        <3> QED BY <3>1, <3>3
    <2> QED BY <1>1, <1>2, <1>3, <2>1 DEF Attachment!Join, Clients, k8sVars
<1> QED BY <1>1, <1>5, <1>6, <1>7, <1>8, ClientHandlerStep DEF ClientStage, UnpublishLabels

\* removeNodeFromNfsService takes one client away.
LEMMA RemoveNodeLeaves ==
    ASSUME TypeOK, ClientInv, NEW r \in Requests, RemoveNodeFromNfsService(r)
    PROVE  ClientInv' /\ (Attachment!Leave(Vol(r), Node(r)) \/ UNCHANGED k8sVars)
<1> DEFINE remaining == labelsRead[r] \ {Node(r)}
<1>1. InCS(r) /\ Vol(r) \in Volumes /\ ServiceFresh(r) /\ r \notin attached /\ sliceRead[r] # None
    BY RequestParts
       DEF ClientInv, ClientStage, RemoveNodeFromNfsService, InCS, UnpublishLabels
<1>2. UNCHANGED <<slice, sliceRead, labelsRead, published, attached>>
    BY DEF RemoveNodeFromNfsService, localVars
<1>3. UNCHANGED service \/ PutService(Vol(r), remaining)
    BY DEF RemoveNodeFromNfsService
<1>4. Return(r) \/ (Goto(r, "unexport") /\ PutService(Vol(r), {}))
    BY DEF RemoveNodeFromNfsService, LastClient
<1>5. /\ UNCHANGED service \/ service'[Vol(r)] = [exists |-> TRUE, clients |-> remaining]
      /\ PutService(Vol(r), {}) => service'[Vol(r)].clients = {}
      /\ \A v \in Volumes \ {Vol(r)} : service'[v] = service[v]
    <2>1. service'[Vol(r)] = [exists |-> TRUE, clients |-> {}] => service'[Vol(r)].clients = {}
        OBVIOUS
    <2>2. PutService(Vol(r), {}) => service'[Vol(r)] = [exists |-> TRUE, clients |-> {}]
        BY <1>1 DEF PutService, TypeOK
    <2>3. /\ UNCHANGED service \/ service'[Vol(r)] = [exists |-> TRUE, clients |-> remaining]
          /\ \A v \in Volumes \ {Vol(r)} : service'[v] = service[v]
        BY <1>1, <1>3 DEF PutService, TypeOK
    <2> QED BY <2>1, <2>2, <2>3
<1>6. OnlyStep(r) /\ KeepsOrLeaves(r)
    BY <1>2, <1>4, <1>5, ControlFrame, RequestParts
       DEF OnlyStep, KeepsOrLeaves, Labels, UnpublishLabels
<1>7. ClientStage(r)'
    BY <1>1, <1>2, <1>4, <1>5, ControlFrame DEF ClientStage, Labels, UnpublishLabels
<1>8. NoOrphanLabels'
    BY <1>5 DEF ClientInv, NoOrphanLabels
<1>9. AttachedHasServer'
    <2> SUFFICES ASSUME NEW s \in Requests, s \in attached
                 PROVE  /\ service'[Vol(s)].exists /\ Node(s) \in service'[Vol(s)].clients
                        /\ slice[Vol(s)] # None
        BY <1>2 DEF AttachedHasServer, TypeOK
    <2>1. /\ service[Vol(s)].exists /\ Node(s) \in service[Vol(s)].clients
          /\ slice[Vol(s)] # None
        BY DEF ClientInv, AttachedHasServer
    <2>2. CASE Vol(s) = Vol(r)
        <3>1. Node(s) # Node(r)
            BY <1>1, <2>2, SameRequest
        <3> QED BY <1>1, <1>5, <2>1, <2>2, <3>1 DEF ServiceFresh
    <2>3. CASE Vol(s) # Vol(r)
        BY <1>5, <2>1, <2>3, RequestParts
    <2> QED BY <2>2, <2>3
<1>10. Attachment!Leave(Vol(r), Node(r)) \/ UNCHANGED k8sVars
    <2>1. ASSUME PutService(Vol(r), remaining)
          PROVE  Clients' = [Clients EXCEPT ![Vol(r)] = @ \ {Node(r)}]
        <3>1. remaining \in SUBSET Nodes
            BY DEF TypeOK
        <3>2. Clients[Vol(r)] = labelsRead[r]
            BY <1>1 DEF Clients, ServiceFresh
        <3> QED BY <1>1, <2>1, <3>1, <3>2, LabelWrites
    <2> QED BY <1>2, <1>3, <2>1 DEF Attachment!Leave, Clients, k8sVars
<1> QED BY <1>1, <1>6, <1>7, <1>8, <1>9, <1>10, ClientHandlerStep

\* DeleteEndpointSlice stops a server that has no client.
LEMMA DeleteSliceStops ==
    ASSUME TypeOK, ClientInv, NEW r \in Requests, DeleteEndpointSlice(r)
    PROVE  ClientInv' /\ (Attachment!StopServer(Vol(r)) \/ UNCHANGED k8sVars)
<1>1. InCS(r) /\ Vol(r) \in Volumes /\ service[Vol(r)].clients = {} /\ r \notin attached
    BY RequestParts DEF ClientInv, ClientStage, DeleteEndpointSlice, InCS, UnpublishLabels
<1>2. UNCHANGED <<service, attached, localVars, published>>
    BY DEF DeleteEndpointSlice, callerVars
<1>3. UNCHANGED slice \/ PutSlice(Vol(r), None)
    BY DEF DeleteEndpointSlice
<1>4. Return(r) \/ Goto(r, "deleteService")
    BY DEF DeleteEndpointSlice
<1>5. \A v \in Volumes \ {Vol(r)} : slice'[v] = slice[v]
    BY <1>1, <1>3 DEF PutSlice, TypeOK
<1>6. OnlyStep(r) /\ KeepsOrLeaves(r)
    BY <1>2, <1>4, <1>5, ControlFrame, RequestParts
       DEF OnlyStep, KeepsOrLeaves, localVars, Labels, UnpublishLabels
<1>7. ClientStage(r)'
    BY <1>1, <1>2, <1>4, ControlFrame DEF ClientStage, Labels, UnpublishLabels
<1>8. NoOrphanLabels'
    BY <1>2 DEF ClientInv, NoOrphanLabels
<1>9. AttachedHasServer'
    BY <1>1, <1>2, <1>5, RequestParts DEF ClientInv, AttachedHasServer, TypeOK
<1>10. Attachment!StopServer(Vol(r)) \/ UNCHANGED k8sVars
    BY <1>1, <1>2, <1>3 DEF Attachment!StopServer, PutSlice, k8sVars
<1> QED BY <1>1, <1>6, <1>7, <1>8, <1>9, <1>10, ClientHandlerStep

\* DeleteService removes an object without client labels.
LEMMA DeleteServiceKeepsClients ==
    ASSUME TypeOK, ClientInv, NEW r \in Requests, DeleteService(r)
    PROVE  ClientInv' /\ UNCHANGED <<slice, Clients>>
<1>1. InCS(r) /\ Vol(r) \in Volumes /\ service[Vol(r)].clients = {} /\ r \notin attached
    BY RequestParts DEF ClientInv, ClientStage, DeleteService, InCS, UnpublishLabels
<1>2. UNCHANGED <<slice, attached, localVars, published>>
    BY DEF DeleteService, callerVars
<1>3. UNCHANGED service \/ DropService(Vol(r))
    BY DEF DeleteService
<1>4. Return(r) \/ Goto(r, "arrayUnpublish")
    BY DEF DeleteService
<1>5. /\ UNCHANGED service \/ service'[Vol(r)] = NoService
      /\ \A v \in Volumes \ {Vol(r)} : service'[v] = service[v]
    BY <1>1, <1>3 DEF DropService, TypeOK
<1>6. OnlyStep(r) /\ KeepsOrLeaves(r)
    BY <1>2, <1>4, <1>5, ControlFrame, RequestParts
       DEF OnlyStep, KeepsOrLeaves, localVars, Labels, UnpublishLabels
<1>7. ClientStage(r)'
    BY <1>1, <1>2, <1>4, ControlFrame DEF ClientStage, Labels, UnpublishLabels
<1>8. NoOrphanLabels'
    BY <1>5 DEF ClientInv, NoOrphanLabels, NoService
<1>9. AttachedHasServer'
    BY <1>1, <1>2, <1>5, RequestParts DEF ClientInv, AttachedHasServer, TypeOK
<1>10. UNCHANGED Clients
    <2>1. ASSUME DropService(Vol(r)) PROVE UNCHANGED Clients
        <3>1. Clients' = [Clients EXCEPT ![Vol(r)] = {}] /\ Clients[Vol(r)] = {}
            BY <1>1, <2>1, LabelWrites DEF Clients
        <3> QED BY <3>1 DEF Clients
    <2> QED BY <1>3, <2>1 DEF Clients
<1> QED BY <1>1, <1>2, <1>6, <1>7, <1>8, <1>9, <1>10, ClientHandlerStep

-----------------------------------------------------------------------------
(* Requests arriving, and restarts *)

\* Arrivals at the lock, and taking it.
LEMMA ArrivalStep ==
    ASSUME TypeOK, ClientInv, NEW r \in Requests, CallPublish(r) \/ CallUnpublish(r) \/ LockPV(r)
    PROVE  ClientInv' /\ UNCHANGED k8sVars
<1>1. UNCHANGED <<slice, service, sliceRead, labelsRead>>
    BY DEF CallPublish, CallUnpublish, LockPV, localVars, k8sVars
<1>2. \A s \in Requests \ {r} : pc'[s] = pc[s] /\ (s \in attached' <=> s \in attached)
    BY DEF CallPublish, CallUnpublish, LockPV, Goto, TypeOK, callerVars
<1>3. attached' \subseteq attached
    BY DEF CallPublish, CallUnpublish, LockPV, callerVars
<1>4. \/ /\ pc'[r] \in {"pubLock", "unpubLock"} /\ UNCHANGED PVLock
         /\ pc'[r] = "unpubLock" => r \notin attached'
      \/ /\ PVLock[Vol(r)] = None /\ PVLock' = [PVLock EXCEPT ![Vol(r)] = Node(r)]
         /\ UNCHANGED attached
         /\ \/ pc[r] = "pubLock" /\ pc'[r] = "getNode"
            \/ pc[r] = "unpubLock" /\ pc'[r] = "unpubGetSlice"
    BY DEF CallPublish, CallUnpublish, LockPV, LockFree, Goto, TypeOK, callerVars
<1>5. LockInv'
    <2> SUFFICES ASSUME NEW s \in Requests, InCS(s)' PROVE PVLock'[Vol(s)] = Node(s)
        BY DEF LockInv
    <2>1. CASE s = r
        BY <1>4, <2>1, RequestParts DEF TypeOK, InCS, PublishLabels, UnpublishLabels
    <2>2. CASE s # r
        <3>1. PVLock[Vol(s)] = Node(s)
            BY <1>2, <2>2 DEF ClientInv, LockInv, InCS
        <3> QED BY <1>4, <3>1, RequestParts, NoneAssumption DEF TypeOK
    <2> QED BY <2>1, <2>2
<1>6. ASSUME NEW s \in Requests PROVE ClientStage(s)'
    <2>1. ClientStage(s)
        BY DEF ClientInv
    <2>2. CASE s = r
        BY <1>4, <2>1, <2>2 DEF ClientStage, UnpublishLabels
    <2>3. CASE s # r
        BY <1>1, <1>2, <2>1, <2>3 DEF ClientStage, ServiceFresh
    <2> QED BY <2>2, <2>3
<1>7. NoOrphanLabels' /\ AttachedHasServer'
    BY <1>1, <1>3 DEF ClientInv, NoOrphanLabels, AttachedHasServer
<1> QED BY <1>1, <1>5, <1>6, <1>7 DEF ClientInv, k8sVars

\* A restart drops the lock with its handlers.
LEMMA CrashClients ==
    ASSUME ClientInv, Crash
    PROVE  ClientInv' /\ UNCHANGED k8sVars
<1>1. UNCHANGED <<slice, service, attached>> /\ \A r \in Requests : pc'[r] = "idle"
    BY DEF Crash, k8sVars, callerVars
<1>2. LockInv' /\ \A r \in Requests : ClientStage(r)'
    BY <1>1 DEF LockInv, InCS, ClientStage, PublishLabels, UnpublishLabels
<1> QED BY <1>1, <1>2 DEF ClientInv, NoOrphanLabels, AttachedHasServer, k8sVars

\* A step that touches no handler, slice or Service.
LEMMA ElsewhereClients ==
    ASSUME ClientInv, UNCHANGED <<PVLock, pc, sliceRead, labelsRead, slice, service, attached>>
    PROVE  ClientInv'
<1>1. LockInv' /\ NoOrphanLabels' /\ AttachedHasServer'
    BY DEF ClientInv, LockInv, InCS, NoOrphanLabels, AttachedHasServer
<1>2. \A r \in Requests : ClientStage(r)'
    BY DEF ClientInv, ClientStage, ServiceFresh
<1> QED BY <1>1, <1>2 DEF ClientInv

-----------------------------------------------------------------------------
(* The refinement *)

attachmentVars == <<slice, Clients>>

\* A step of the requests preserves ClientInv, and is a step of the attachment
\* of one volume or none.
LEMMA RequestRefines ==
    ASSUME TypeOK, ClientInv, [Next]_vars
    PROVE  ClientInv' /\ [Attachment!Next]_attachmentVars
<1>1. ASSUME UNCHANGED k8sVars PROVE UNCHANGED attachmentVars
    BY <1>1 DEF k8sVars, attachmentVars, Clients
<1>2. ASSUME NEW r \in Requests, CallPublish(r) \/ CallUnpublish(r) \/ LockPV(r)
      PROVE  ClientInv' /\ UNCHANGED attachmentVars
    BY <1>1, <1>2, ArrivalStep
<1>3. ASSUME NEW r \in Requests, Publish(r)
      PROVE  ClientInv' /\ [Attachment!Next]_attachmentVars
    <2>1. CASE GetNode(r) \/ CheckNodeStatus(r) \/ ArrayPublish(r) \/ CallExport(r)
        BY <1>1, <2>1, OtherCallStep
    <2>2. CASE PubGetSlice(r) \/ PubGetService(r)
        BY <1>1, <2>2, GetServiceAndSliceStep
    <2>3. CASE AddNodeToNfsService(r)
        BY <1>1, <2>3, AddNodeJoins, RequestParts DEF Attachment!Next
    <2>4. CASE CreateEndpointSlice(r)
        BY <1>1, <2>4, CreateSliceStarts, RequestParts DEF Attachment!Next
    <2>5. CASE CreateService(r)
        BY <1>1, <2>5, CreateServiceJoins, RequestParts DEF Attachment!Next
    <2> QED BY <1>3, <2>1, <2>2, <2>3, <2>4, <2>5 DEF Publish
<1>4. ASSUME NEW r \in Requests, Unpublish(r)
      PROVE  ClientInv' /\ [Attachment!Next]_attachmentVars
    <2>1. CASE CallUnexport(r) \/ ArrayUnpublish(r)
        BY <1>1, <2>1, OtherCallStep
    <2>2. CASE UnpubGetSlice(r) \/ UnpubGetService(r)
        BY <1>1, <2>2, GetServiceAndSliceStep
    <2>3. CASE RemoveNodeFromNfsService(r)
        BY <1>1, <2>3, RemoveNodeLeaves, RequestParts DEF Attachment!Next
    <2>4. CASE DeleteEndpointSlice(r)
        BY <1>1, <2>4, DeleteSliceStops, RequestParts DEF Attachment!Next
    <2>5. CASE DeleteService(r)
        BY <2>5, DeleteServiceKeepsClients DEF attachmentVars
    <2> QED BY <1>4, <2>1, <2>2, <2>3, <2>4, <2>5 DEF Unpublish
<1>5. ASSUME NEW v \in Volumes, NEW call \in late[v], FinishLate(v, call)
      PROVE  ClientInv' /\ UNCHANGED attachmentVars
    BY <1>1, <1>5, ElsewhereClients DEF FinishLate, localVars, k8sVars, callerVars
<1>6. CASE Crash
    BY <1>1, <1>6, CrashClients
<1>7. CASE UNCHANGED vars
    BY <1>1, <1>7, ElsewhereClients DEF vars, localVars, k8sVars, callerVars
<1> QED BY <1>2, <1>3, <1>4, <1>5, <1>6, <1>7 DEF Next

\* The initial state is that of an attachment without servers and clients.
LEMMA InitRefines == Init => ClientInv /\ Attachment!Init
<1> SUFFICES ASSUME Init PROVE ClientInv /\ Attachment!Init
    OBVIOUS
<1>1. ClientInv
    BY RequestParts DEF Init, ClientInv, LockInv, InCS, NoOrphanLabels, NoService,
       AttachedHasServer, ClientStage, PublishLabels, UnpublishLabels
<1>2. Attachment!Init
    BY DEF Init, NoService, Attachment!Init
<1> QED BY <1>1, <1>2

\* ControllerPublishVolume and ControllerUnpublishVolume implement the abstract
\* attachment: a node joins only a server that runs, and DeleteEndpointSlice
\* stops a server only when no client label is left, whatever fails half-way,
\* restarts and is retried.
THEOREM RequestsImplementAttachment == Spec => ImplementsAttachment
<1>1. Init => ClientInv /\ Attachment!Init
    BY InitRefines
<1>2. TypeOK /\ ClientInv /\ [Next]_vars => ClientInv' /\ [Attachment!Next]_attachmentVars
    BY RequestRefines
<1>3. Spec => []TypeOK
    BY TypeCorrect
<1> QED BY <1>1, <1>2, <1>3, PTL
        DEF Spec, ImplementsAttachment, Attachment!Spec, Attachment!vars, attachmentVars, Clients

-----------------------------------------------------------------------------
(* While nothing fails *)

\* What the requests share of volume v.
VolumeState(v) == <<slice[v], service[v], published[v], mounted[v], exported[v]>>

\* The step of r changes nothing of other requests and other volumes.
OnlyBuilds(r) ==
    /\ \A s \in Requests \ {r} : /\ pc'[s] = pc[s] /\ sliceRead'[s] = sliceRead[s]
                                 /\ s \in detached' <=> s \in detached
    /\ \A v \in Volumes \ {Vol(r)} : VolumeState(v)' = VolumeState(v)
    /\ late' = late

\* Node n may be told that it is detached: it has no label on the Service.
DetachedUnlabelled(v) ==
    \A s \in Requests : Vol(s) = v /\ s \in detached => Node(s) \notin service[v].clients

\* What a handler step has to establish: r is at a point that fits what it has
\* built, or has returned and left its volume served or clean.
LEMMA BuildStep ==
    ASSUME TypeOK, TypeOK', LockInv, NothingFailedInv, NEW r \in Requests, InCS(r), OnlyBuilds(r),
           BuiltAt(r)', InCS(r)' \/ (Clean(Vol(r)) \/ Served(Vol(r)))',
           DetachedUnlabelled(Vol(r))'
    PROVE  NothingFailedInv'
<1>1. ASSUME NEW s \in Requests, s # r PROVE BuiltAt(s)'
    <2>1. BuiltAt(s)
        BY DEF NothingFailedInv
    <2>2. CASE Vol(s) # Vol(r)
        BY <1>1, <2>1, <2>2, RequestParts
           DEF OnlyBuilds, VolumeState, BuiltAt, Clean, Served, NoObjects, Hosts
    <2>3. CASE Vol(s) = Vol(r)
        <3>1. ~InCS(s)
            BY <1>1, <2>3, Exclusive
        <3> QED BY <1>1, <2>1, <3>1 DEF OnlyBuilds, BuiltAt, InCS, PublishLabels, UnpublishLabels
    <2> QED BY <2>2, <2>3
<1>2. ASSUME NEW v \in Volumes, \A n \in Nodes : ~InCS(<<v, n>>)'
      PROVE  (Clean(v) \/ Served(v))'
    <2>1. CASE v = Vol(r)
        BY <1>2, <2>1, RequestParts
    <2>2. CASE v # Vol(r)
        <3>1. ASSUME NEW n \in Nodes PROVE ~InCS(<<v, n>>)
            BY <1>2, <2>2, <3>1, RequestParts DEF OnlyBuilds, InCS
        <3>2. Clean(v) \/ Served(v)
            BY <3>1 DEF NothingFailedInv
        <3> QED BY <2>2, <3>2 DEF OnlyBuilds, VolumeState, Clean, Served, NoObjects, Hosts
    <2> QED BY <2>1, <2>2
<1>3. ASSUME NEW s \in detached' PROVE Node(s) \notin service'[Vol(s)].clients
    <2>1. s \in Requests
        BY <1>3 DEF TypeOK
    <2>2. CASE Vol(s) = Vol(r)
        BY <1>3, <2>1, <2>2 DEF DetachedUnlabelled
    <2>3. CASE Vol(s) # Vol(r)
        BY <1>3, <2>1, <2>3, RequestParts DEF OnlyBuilds, VolumeState, NothingFailedInv
    <2> QED BY <2>2, <2>3
<1>4. \A v \in Volumes : late'[v] = {}
    BY DEF OnlyBuilds, NothingFailedInv
<1> QED BY <1>1, <1>2, <1>3, <1>4 DEF NothingFailedInv

\* The labels part follows for a step of r that neither adds a label nor tells
\* r it is detached.
LEMMA SameLabels ==
    ASSUME TypeOK, NothingFailedInv, NEW r \in Requests,
           service'[Vol(r)].clients \subseteq service[Vol(r)].clients,
           detached' \subseteq detached
    PROVE  DetachedUnlabelled(Vol(r))'
BY DEF DetachedUnlabelled, NothingFailedInv

\* A step of r that changes nothing of its volume and keeps its promises.
LEMMA KeepStep ==
    ASSUME TypeOK, TypeOK', LockInv, NothingFailedInv, NEW r \in Requests, InCS(r),
           OnlyBuilds(r), UNCHANGED <<slice, service, published, mounted, exported>>,
           BuiltAt(r)', InCS(r)' \/ Clean(Vol(r)) \/ Served(Vol(r)),
           r \in detached' \ detached => service[Vol(r)].clients = {}
    PROVE  NothingFailedInv'
<1>1. InCS(r)' \/ (Clean(Vol(r)) \/ Served(Vol(r)))'
    BY DEF Clean, Served, NoObjects, Hosts
<1>2. DetachedUnlabelled(Vol(r))'
    <2> SUFFICES ASSUME NEW s \in Requests, Vol(s) = Vol(r), s \in detached'
                 PROVE  Node(s) \notin service[Vol(r)].clients
        BY DEF DetachedUnlabelled
    <2> QED BY DEF NothingFailedInv, OnlyBuilds
<1> QED BY <1>1, <1>2, BuildStep

\* The steps that only read.
LEMMA ReadBuilds ==
    ASSUME TypeOK, TypeOK', LockInv, NoOrphanLabels, NothingFailedInv, Works,
           NEW r \in Requests,
           \/ GetNode(r) \/ PubGetSlice(r) \/ PubGetService(r) \/ CheckNodeStatus(r)
           \/ UnpubGetSlice(r) \/ UnpubGetService(r)
    PROVE  NothingFailedInv'
<1>1. InCS(r) /\ BuiltAt(r) /\ Vol(r) \in Volumes
    BY RequestParts DEF NothingFailedInv, GetNode, PubGetSlice, PubGetService, CheckNodeStatus,
           UnpubGetSlice, UnpubGetService, InCS, PublishLabels, UnpublishLabels
<1>2. ~Fails
    BY DEF Works, Fails, TypeOK
<1>3. UNCHANGED <<slice, service, published, mounted, exported, late>>
    BY DEF GetNode, PubGetSlice, PubGetService, CheckNodeStatus, UnpubGetSlice,
           UnpubGetService, k8sVars, nodeVars
<1>4. \/ pc[r] = "getNode" /\ Goto(r, "pubGetSlice") /\ UNCHANGED detached
      \/ pc[r] = "pubGetSlice" /\ slice[Vol(r)] # None /\ Goto(r, "pubGetService") /\ UNCHANGED detached
      \/ pc[r] = "pubGetSlice" /\ slice[Vol(r)] = None /\ Goto(r, "checkStatus") /\ UNCHANGED detached
      \/ pc[r] = "pubGetService" /\ service[Vol(r)].exists /\ Goto(r, "addNode") /\ UNCHANGED detached
      \/ pc[r] = "pubGetService" /\ ~service[Vol(r)].exists /\ Goto(r, "checkStatus") /\ UNCHANGED detached
      \/ pc[r] = "checkStatus" /\ (Goto(r, "arrayPublish") \/ Return(r)) /\ UNCHANGED detached
      \/ pc[r] = "unpubGetSlice" /\ slice[Vol(r)] # None /\ Goto(r, "unpubGetService") /\ UNCHANGED detached
      \/ /\ pc[r] = "unpubGetSlice" /\ slice[Vol(r)] = None /\ Return(r)
         /\ detached' = detached \cup {r}
      \/ pc[r] = "unpubGetService" /\ service[Vol(r)].exists /\ Goto(r, "removeNode") /\ UNCHANGED detached
      \/ pc[r] = "unpubGetService" /\ ~service[Vol(r)].exists /\ Return(r)
         /\ detached' = detached \cup {r}
    BY <1>2 DEF GetNode, PubGetSlice, PubGetService, CheckNodeStatus, UnpubGetSlice,
           UnpubGetService, AnswerDetached, callerVars
<1>5. \A s \in Requests \ {r} : sliceRead'[s] = sliceRead[s]
    BY DEF GetNode, PubGetSlice, PubGetService, CheckNodeStatus, UnpubGetSlice,
           UnpubGetService, TypeOK, localVars
<1>6. OnlyBuilds(r)
    BY <1>3, <1>4, <1>5, ControlFrame
       DEF OnlyBuilds, VolumeState, Labels, PublishLabels, UnpublishLabels
<1>7. Clean(Vol(r))' = Clean(Vol(r)) /\ Served(Vol(r))' = Served(Vol(r))
    BY <1>3 DEF Clean, Served, NoObjects, Hosts
<1>8. BuiltAt(r)' /\ (InCS(r)' \/ Clean(Vol(r)) \/ Served(Vol(r)))
    <2>1. /\ slice[Vol(r)] # None => ~Clean(Vol(r))
          /\ slice[Vol(r)] = None => ~Served(Vol(r))
          /\ ~service[Vol(r)].exists => ~Served(Vol(r))
        BY DEF Clean, Served, NoObjects
    <2> QED BY <1>1, <1>4, <1>7, <2>1, ControlFrame
            DEF BuiltAt, InCS, Labels, PublishLabels, UnpublishLabels
<1>9. r \in detached' \ detached => service[Vol(r)].clients = {}
    BY <1>1, <1>4 DEF NoOrphanLabels, BuiltAt, Clean, Served, NoObjects
<1> QED BY <1>1, <1>3, <1>6, <1>8, <1>9, KeepStep

\* Joining a server leaves its volume served.
LEMMA AddNodeBuilds ==
    ASSUME IndInv, TypeOK', NoOrphanLabels, NothingFailedInv, Works,
           NEW r \in Requests, AddNodeToNfsService(r)
    PROVE  NothingFailedInv'
<1>0. TypeOK /\ LockInv /\ StageAt(r) /\ BuiltAt(r) /\ Vol(r) \in Volumes /\ Node(r) \in Nodes /\ ~Fails
    BY RequestParts DEF IndInv, StageInv, NothingFailedInv, Works, Fails, TypeOK
<1>1. InCS(r) /\ Served(Vol(r)) /\ r \notin detached /\ ServiceFresh(r)
    BY <1>0 DEF BuiltAt, StageAt, AddNodeToNfsService, InCS, PublishLabels
<1>2. Return(r) /\ UNCHANGED <<slice, sliceRead, published, mounted, exported, late, detached>>
    BY DEF AddNodeToNfsService, localVars, nodeVars
<1>3. /\ \/ UNCHANGED service
         \/ /\ service'[Vol(r)].exists
            /\ service'[Vol(r)].clients = labelsRead[r] \cup {Node(r)}
      /\ \A v \in Volumes \ {Vol(r)} : service'[v] = service[v]
    BY <1>0 DEF AddNodeToNfsService, PutService, TypeOK
<1>4. OnlyBuilds(r) /\ pc'[r] = "idle"
    BY <1>0, <1>2, <1>3, ControlFrame DEF OnlyBuilds, VolumeState
<1>5. Served(Vol(r))' /\ BuiltAt(r)'
    BY <1>1, <1>2, <1>3, <1>4 DEF Served, Hosts, BuiltAt, PublishLabels
<1>6. DetachedUnlabelled(Vol(r))'
    <2> SUFFICES ASSUME NEW s \in Requests, Vol(s) = Vol(r), s \in detached
                 PROVE  Node(s) \notin service'[Vol(r)].clients
        BY <1>2 DEF DetachedUnlabelled
    <2>1. Node(s) # Node(r)
        BY <1>1, SameRequest
    <2>2. Node(s) \notin service[Vol(r)].clients
        BY DEF NothingFailedInv
    <2> QED BY <1>1, <1>3, <2>1, <2>2 DEF ServiceFresh
<1> QED BY <1>0, <1>1, <1>4, <1>5, <1>6, BuildStep

\* makeNfsService maps the volume to its node alone.
LEMMA ArrayPublishBuilds ==
    ASSUME IndInv, TypeOK', NoOrphanLabels, NothingFailedInv, Works,
           NEW r \in Requests, ArrayPublish(r)
    PROVE  NothingFailedInv'
<1>0. TypeOK /\ LockInv /\ StageAt(r) /\ BuiltAt(r) /\ Vol(r) \in Volumes /\ Node(r) \in Nodes /\ ~Fails
    BY RequestParts DEF IndInv, StageInv, NothingFailedInv, Works, Fails, TypeOK
<1>1. InCS(r) /\ Clean(Vol(r)) /\ r \notin detached
    BY <1>0 DEF BuiltAt, ArrayPublish, InCS, PublishLabels
<1>2. /\ UNCHANGED <<slice, service, sliceRead, mounted, exported, late, detached>>
      /\ Goto(r, "export")
    BY <1>0 DEF ArrayPublish, localVars, nodeVars, k8sVars, callerVars
<1>3. /\ published'[Vol(r)] = published[Vol(r)] \cup {Node(r)}
      /\ \A v \in Volumes \ {Vol(r)} : published'[v] = published[v]
    BY <1>0 DEF ArrayPublish, MapToHost, TypeOK
<1>4. OnlyBuilds(r) /\ pc'[r] = "export"
    BY <1>0, <1>2, <1>3, ControlFrame DEF OnlyBuilds, VolumeState, Labels, PublishLabels
<1>5. BuiltAt(r)' /\ InCS(r)'
    BY <1>1, <1>2, <1>3, <1>4 DEF BuiltAt, Clean, NoObjects, Hosts, InCS, PublishLabels
<1> QED BY <1>0, <1>1, <1>2, <1>4, <1>5, SameLabels, BuildStep

\* ExportNfsVolume mounts and exports on that node.
LEMMA CallExportBuilds ==
    ASSUME IndInv, TypeOK', NoOrphanLabels, NothingFailedInv, Works,
           NEW r \in Requests, CallExport(r)
    PROVE  NothingFailedInv'
<1>0. TypeOK /\ LockInv /\ StageAt(r) /\ BuiltAt(r) /\ Vol(r) \in Volumes /\ Node(r) \in Nodes /\ ~Fails
    BY RequestParts DEF IndInv, StageInv, NothingFailedInv, Works, Fails, TypeOK
<1>1. InCS(r) /\ NoObjects(Vol(r)) /\ Hosts(Vol(r), {Node(r)}, {}) /\ r \notin detached
    BY <1>0 DEF BuiltAt, CallExport, InCS, PublishLabels
<1>2. /\ UNCHANGED <<slice, service, sliceRead, published, late, detached>>
      /\ Goto(r, "createSlice")
    BY <1>0 DEF CallExport, localVars, k8sVars, callerVars
<1>3. /\ mounted'[Vol(r)] = mounted[Vol(r)] \cup {Node(r)}
      /\ exported'[Vol(r)] = exported[Vol(r)] \cup {Node(r)}
      /\ \A v \in Volumes \ {Vol(r)} : mounted'[v] = mounted[v] /\ exported'[v] = exported[v]
    BY <1>0 DEF CallExport, MountOn, ExportOn, TypeOK
<1>4. OnlyBuilds(r) /\ pc'[r] = "createSlice"
    BY <1>0, <1>2, <1>3, ControlFrame DEF OnlyBuilds, VolumeState, Labels, PublishLabels
<1>5. BuiltAt(r)' /\ InCS(r)'
    BY <1>1, <1>2, <1>3, <1>4 DEF BuiltAt, NoObjects, Hosts, InCS, PublishLabels
<1> QED BY <1>0, <1>1, <1>2, <1>4, <1>5, SameLabels, BuildStep

\* The slice is created, since none exists.
LEMMA CreateSliceBuilds ==
    ASSUME IndInv, TypeOK', NoOrphanLabels, NothingFailedInv, Works,
           NEW r \in Requests, CreateEndpointSlice(r)
    PROVE  NothingFailedInv'
<1>0. TypeOK /\ LockInv /\ StageAt(r) /\ BuiltAt(r) /\ Vol(r) \in Volumes /\ Node(r) \in Nodes /\ ~Fails
    BY RequestParts DEF IndInv, StageInv, NothingFailedInv, Works, Fails, TypeOK
<1>1. InCS(r) /\ NoObjects(Vol(r)) /\ Hosts(Vol(r), {Node(r)}, {Node(r)}) /\ r \notin detached
    BY <1>0 DEF BuiltAt, CreateEndpointSlice, InCS, PublishLabels
<1>2. /\ UNCHANGED <<service, sliceRead, published, mounted, exported, late, detached>>
      /\ Goto(r, "createService")
    BY <1>0, <1>1 DEF CreateEndpointSlice, NoObjects, localVars, nodeVars, callerVars
<1>3. \A v \in Volumes \ {Vol(r)} : slice'[v] = slice[v]
    BY <1>0 DEF CreateEndpointSlice, PutSlice, TypeOK
<1>4. OnlyBuilds(r) /\ pc'[r] = "createService"
    BY <1>0, <1>2, <1>3, ControlFrame DEF OnlyBuilds, VolumeState, Labels, PublishLabels
<1>5. BuiltAt(r)' /\ InCS(r)'
    BY <1>1, <1>2, <1>4 DEF BuiltAt, NoObjects, Hosts, InCS, PublishLabels
<1> QED BY <1>0, <1>1, <1>2, <1>4, <1>5, SameLabels, BuildStep

\* The Service is created, since none exists, and the volume is served.
LEMMA CreateServiceBuilds ==
    ASSUME IndInv, TypeOK', NoOrphanLabels, NothingFailedInv, Works,
           NEW r \in Requests, CreateService(r)
    PROVE  NothingFailedInv'
<1>0. TypeOK /\ LockInv /\ StageAt(r) /\ BuiltAt(r) /\ Vol(r) \in Volumes /\ Node(r) \in Nodes /\ ~Fails
    BY RequestParts DEF IndInv, StageInv, NothingFailedInv, Works, Fails, TypeOK
<1>1. /\ InCS(r) /\ ~service[Vol(r)].exists /\ Hosts(Vol(r), {Node(r)}, {Node(r)})
      /\ slice[Vol(r)] = Node(r) /\ r \notin detached
    BY <1>0 DEF BuiltAt, StageAt, CreateService, InCS, PublishLabels
<1>2. Return(r) /\ UNCHANGED <<slice, sliceRead, published, mounted, exported, late, detached>>
    BY <1>0 DEF CreateService, localVars, nodeVars
<1>3. /\ service'[Vol(r)].exists /\ service'[Vol(r)].clients = {Node(r)}
      /\ \A v \in Volumes \ {Vol(r)} : service'[v] = service[v]
    BY <1>0, <1>1 DEF CreateService, PutService, TypeOK
<1>4. OnlyBuilds(r) /\ pc'[r] = "idle"
    BY <1>0, <1>2, <1>3, ControlFrame DEF OnlyBuilds, VolumeState
<1>5. Served(Vol(r))' /\ BuiltAt(r)'
    BY <1>0, <1>1, <1>2, <1>3, <1>4, NoneAssumption DEF Served, Hosts, BuiltAt, PublishLabels
<1>6. DetachedUnlabelled(Vol(r))'
    BY <1>1, <1>2, <1>3, SameRequest DEF DetachedUnlabelled
<1> QED BY <1>0, <1>1, <1>4, <1>5, <1>6, BuildStep

\* A client leaves; the volume stays served while another one is left.
LEMMA RemoveNodeBuilds ==
    ASSUME IndInv, TypeOK', NoOrphanLabels, NothingFailedInv, Works,
           NEW r \in Requests, RemoveNodeFromNfsService(r)
    PROVE  NothingFailedInv'
<1>0. TypeOK /\ LockInv /\ StageAt(r) /\ BuiltAt(r) /\ Vol(r) \in Volumes /\ Node(r) \in Nodes /\ ~Fails
    BY RequestParts DEF IndInv, StageInv, NothingFailedInv, Works, Fails, TypeOK
<1>1. InCS(r) /\ Served(Vol(r)) /\ SliceFresh(r) /\ ServiceFresh(r)
    BY <1>0 DEF BuiltAt, StageAt, RemoveNodeFromNfsService, InCS, UnpublishLabels
<1>2. UNCHANGED <<slice, sliceRead, published, mounted, exported, late>>
    BY <1>0 DEF RemoveNodeFromNfsService, localVars, nodeVars
<1>3. /\ service'[Vol(r)].exists /\ service'[Vol(r)].clients = labelsRead[r] \ {Node(r)}
      /\ \A v \in Volumes \ {Vol(r)} : service'[v] = service[v]
    BY <1>0 DEF RemoveNodeFromNfsService, PutService, TypeOK
<1>4. \/ labelsRead[r] \ {Node(r)} = {} /\ Goto(r, "unexport") /\ UNCHANGED detached
      \/ labelsRead[r] \ {Node(r)} # {} /\ Return(r) /\ detached' = detached \cup {r}
    BY <1>0 DEF RemoveNodeFromNfsService, LastClient, AnswerDetached
<1>5. OnlyBuilds(r)
    BY <1>0, <1>2, <1>3, <1>4, ControlFrame DEF OnlyBuilds, VolumeState, Labels, UnpublishLabels
<1>6. BuiltAt(r)' /\ (InCS(r)' \/ Served(Vol(r))')
    <2>1. CASE labelsRead[r] \ {Node(r)} = {} /\ Goto(r, "unexport")
        <3>1. pc'[r] = "unexport"
            BY <1>0, <2>1, ControlFrame DEF Labels, UnpublishLabels
        <3> QED BY <1>1, <1>2, <1>3, <3>1
                DEF BuiltAt, Served, SliceFresh, Hosts, InCS, PublishLabels, UnpublishLabels
    <2>2. CASE labelsRead[r] \ {Node(r)} # {} /\ Return(r)
        <3>1. pc'[r] = "idle"
            BY <1>0, <2>2, ControlFrame
        <3> QED BY <1>1, <1>2, <1>3, <2>2, <3>1 DEF BuiltAt, Served, Hosts, PublishLabels
    <2> QED BY <1>4, <2>1, <2>2
<1>7. DetachedUnlabelled(Vol(r))'
    <2> SUFFICES ASSUME NEW s \in Requests, Vol(s) = Vol(r), s \in detached'
                 PROVE  Node(s) \notin service'[Vol(r)].clients
        BY DEF DetachedUnlabelled
    <2>1. s = r \/ Node(s) \notin service[Vol(r)].clients
        BY <1>4 DEF NothingFailedInv
    <2> QED BY <1>1, <1>3, <2>1 DEF ServiceFresh
<1> QED BY <1>0, <1>1, <1>5, <1>6, <1>7, BuildStep

\* UnexportNfsVolume frees the node the slice names.
LEMMA CallUnexportBuilds ==
    ASSUME IndInv, TypeOK', NoOrphanLabels, NothingFailedInv, Works,
           NEW r \in Requests, CallUnexport(r)
    PROVE  NothingFailedInv'
<1>0. TypeOK /\ LockInv /\ StageAt(r) /\ BuiltAt(r) /\ Vol(r) \in Volumes /\ Node(r) \in Nodes /\ ~Fails
    BY RequestParts DEF IndInv, StageInv, NothingFailedInv, Works, Fails, TypeOK
<1>1. InCS(r) /\ service[Vol(r)].exists /\ Hosts(Vol(r), {sliceRead[r]}, {sliceRead[r]})
    BY <1>0 DEF BuiltAt, CallUnexport, InCS, UnpublishLabels
<1>2. /\ UNCHANGED <<slice, service, sliceRead, published, late, detached>>
      /\ Goto(r, "deleteSlice")
    BY <1>0 DEF CallUnexport, localVars, k8sVars, callerVars
<1>3. /\ mounted'[Vol(r)] = mounted[Vol(r)] \ {sliceRead[r]}
      /\ exported'[Vol(r)] = exported[Vol(r)] \ {sliceRead[r]}
      /\ \A v \in Volumes \ {Vol(r)} : mounted'[v] = mounted[v] /\ exported'[v] = exported[v]
    BY <1>0 DEF CallUnexport, UnmountOn, UnexportOn, TypeOK
<1>4. OnlyBuilds(r) /\ pc'[r] = "deleteSlice"
    BY <1>0, <1>2, <1>3, ControlFrame DEF OnlyBuilds, VolumeState, Labels, UnpublishLabels
<1>5. BuiltAt(r)' /\ InCS(r)'
    BY <1>1, <1>2, <1>3, <1>4 DEF BuiltAt, Hosts, InCS, PublishLabels, UnpublishLabels
<1> QED BY <1>0, <1>1, <1>2, <1>4, <1>5, SameLabels, BuildStep

\* The slice is deleted with the node unmapped still to come.
LEMMA DeleteSliceBuilds ==
    ASSUME IndInv, TypeOK', NoOrphanLabels, NothingFailedInv, Works,
           NEW r \in Requests, DeleteEndpointSlice(r)
    PROVE  NothingFailedInv'
<1>0. TypeOK /\ LockInv /\ StageAt(r) /\ BuiltAt(r) /\ Vol(r) \in Volumes /\ Node(r) \in Nodes /\ ~Fails
    BY RequestParts DEF IndInv, StageInv, NothingFailedInv, Works, Fails, TypeOK
<1>1. InCS(r) /\ service[Vol(r)].exists /\ Hosts(Vol(r), {sliceRead[r]}, {})
    BY <1>0 DEF BuiltAt, DeleteEndpointSlice, InCS, UnpublishLabels
<1>2. /\ UNCHANGED <<service, sliceRead, published, mounted, exported, late, detached>>
      /\ Goto(r, "deleteService")
    BY <1>0 DEF DeleteEndpointSlice, localVars, nodeVars, callerVars
<1>3. \A v \in Volumes \ {Vol(r)} : slice'[v] = slice[v]
    BY <1>0 DEF DeleteEndpointSlice, PutSlice, TypeOK
<1>4. OnlyBuilds(r) /\ pc'[r] = "deleteService"
    BY <1>0, <1>2, <1>3, ControlFrame DEF OnlyBuilds, VolumeState, Labels, UnpublishLabels
<1>5. BuiltAt(r)' /\ InCS(r)'
    BY <1>1, <1>2, <1>4 DEF BuiltAt, Hosts, InCS, PublishLabels, UnpublishLabels
<1> QED BY <1>0, <1>1, <1>2, <1>4, <1>5, SameLabels, BuildStep

\* The Service is deleted; only the array mapping is left.
LEMMA DeleteServiceBuilds ==
    ASSUME IndInv, TypeOK', NoOrphanLabels, NothingFailedInv, Works,
           NEW r \in Requests, DeleteService(r)
    PROVE  NothingFailedInv'
<1>0. TypeOK /\ LockInv /\ StageAt(r) /\ BuiltAt(r) /\ Vol(r) \in Volumes /\ Node(r) \in Nodes /\ ~Fails
    BY RequestParts DEF IndInv, StageInv, NothingFailedInv, Works, Fails, TypeOK
<1>1. InCS(r) /\ slice[Vol(r)] = None /\ Hosts(Vol(r), {sliceRead[r]}, {})
    BY <1>0 DEF BuiltAt, StageAt, DeleteService, InCS, UnpublishLabels
<1>2. /\ UNCHANGED <<slice, sliceRead, published, mounted, exported, late, detached>>
      /\ Goto(r, "arrayUnpublish")
    BY <1>0 DEF DeleteService, localVars, nodeVars, callerVars
<1>3. /\ ~service'[Vol(r)].exists /\ service'[Vol(r)].clients = {}
      /\ \A v \in Volumes \ {Vol(r)} : service'[v] = service[v]
    BY <1>0 DEF DeleteService, DropService, NoService, TypeOK
<1>4. OnlyBuilds(r) /\ pc'[r] = "arrayUnpublish"
    BY <1>0, <1>2, <1>3, ControlFrame DEF OnlyBuilds, VolumeState, Labels, UnpublishLabels
<1>5. BuiltAt(r)' /\ InCS(r)'
    BY <1>1, <1>2, <1>3, <1>4 DEF BuiltAt, NoObjects, Hosts, InCS, PublishLabels, UnpublishLabels
<1> QED BY <1>0, <1>1, <1>2, <1>3, <1>4, <1>5, SameLabels, BuildStep

\* The array mapping is removed and the volume is clean.
LEMMA ArrayUnpublishBuilds ==
    ASSUME IndInv, TypeOK', NoOrphanLabels, NothingFailedInv, Works,
           NEW r \in Requests, ArrayUnpublish(r)
    PROVE  NothingFailedInv'
<1>0. TypeOK /\ LockInv /\ StageAt(r) /\ BuiltAt(r) /\ Vol(r) \in Volumes /\ Node(r) \in Nodes /\ ~Fails
    BY RequestParts DEF IndInv, StageInv, NothingFailedInv, Works, Fails, TypeOK
<1>1. InCS(r) /\ NoObjects(Vol(r)) /\ Hosts(Vol(r), {sliceRead[r]}, {})
    BY <1>0 DEF BuiltAt, ArrayUnpublish, InCS, UnpublishLabels
<1>2. /\ UNCHANGED <<slice, service, sliceRead, mounted, exported, late>>
      /\ Return(r) /\ detached' = detached \cup {r}
    BY <1>0 DEF ArrayUnpublish, AnswerDetached, localVars, nodeVars, k8sVars
<1>3. /\ published'[Vol(r)] = published[Vol(r)] \ {sliceRead[r]}
      /\ \A v \in Volumes \ {Vol(r)} : published'[v] = published[v]
    BY <1>0 DEF ArrayUnpublish, UnmapFromHost, TypeOK
<1>4. OnlyBuilds(r) /\ pc'[r] = "idle"
    BY <1>0, <1>2, <1>3, ControlFrame DEF OnlyBuilds, VolumeState
<1>5. Clean(Vol(r))' /\ BuiltAt(r)'
    BY <1>1, <1>2, <1>3, <1>4 DEF Clean, NoObjects, Hosts, BuiltAt, PublishLabels
<1>6. DetachedUnlabelled(Vol(r))'
    BY <1>0, <1>1, <1>2 DEF NoOrphanLabels, NoObjects, DetachedUnlabelled
<1> QED BY <1>0, <1>1, <1>4, <1>5, <1>6, BuildStep

\* Arrivals at the lock, and taking it, build nothing.
LEMMA ArrivalBuilds ==
    ASSUME TypeOK, TypeOK', LockInv, NothingFailedInv, NEW r \in Requests,
           CallPublish(r) \/ CallUnpublish(r) \/ LockPV(r)
    PROVE  NothingFailedInv'
<1>1. UNCHANGED <<slice, service, sliceRead, published, mounted, exported, late>>
    BY DEF CallPublish, CallUnpublish, LockPV, localVars, k8sVars, nodeVars
<1>2. /\ \A s \in Requests \ {r} : pc'[s] = pc[s] /\ (s \in detached' <=> s \in detached)
      /\ detached' \subseteq detached
    BY DEF CallPublish, CallUnpublish, LockPV, Goto, TypeOK, callerVars
<1>3. \A v \in Volumes : /\ Clean(v)' = Clean(v) /\ Served(v)' = Served(v)
    BY <1>1 DEF Clean, Served, NoObjects, Hosts
<1>4. \/ pc'[r] = "pubLock" /\ r \notin detached'
      \/ pc'[r] = "unpubLock"
      \/ /\ pc'[r] \in {"getNode", "unpubGetSlice"} /\ LockFree(Vol(r))
         /\ pc'[r] = "getNode" => pc[r] = "pubLock" /\ UNCHANGED detached
    BY DEF CallPublish, CallUnpublish, LockPV, Goto, TypeOK, callerVars
<1>5. ASSUME NEW s \in Requests PROVE BuiltAt(s)'
    <2>0. BuiltAt(s)
        BY DEF NothingFailedInv
    <2>1. CASE s # r
        BY <1>1, <1>2, <1>3, <2>0, <2>1, RequestParts DEF BuiltAt, NoObjects, Hosts
    <2>2. CASE s = r /\ pc'[r] \in {"pubLock", "unpubLock"}
        BY <1>4, <2>2 DEF BuiltAt, PublishLabels
    <2>3. CASE s = r /\ pc'[r] \in {"getNode", "unpubGetSlice"}
        <3>1. ASSUME NEW n \in Nodes PROVE ~InCS(<<Vol(r), n>>)
            BY <1>4, <2>3, <3>1, RequestParts, NoneAssumption DEF LockInv, LockFree
        <3>2. Clean(Vol(r)) \/ Served(Vol(r))
            BY <3>1, RequestParts DEF NothingFailedInv
        <3> QED BY <1>3, <1>4, <2>0, <2>3, <3>2, RequestParts DEF BuiltAt, PublishLabels
    <2> QED BY <1>4, <2>1, <2>2, <2>3
<1>6. ASSUME NEW v \in Volumes, \A n \in Nodes : ~InCS(<<v, n>>)'
      PROVE  (Clean(v) \/ Served(v))'
    <2>1. pc[r] \in {"idle", "pubLock", "unpubLock"}
        BY DEF CallPublish, CallUnpublish, LockPV
    <2>2. ASSUME NEW n \in Nodes PROVE ~InCS(<<v, n>>)
        BY <1>2, <1>6, <2>1, <2>2, RequestParts DEF InCS, PublishLabels, UnpublishLabels
    <2> QED BY <1>3, <2>2 DEF NothingFailedInv
<1> QED BY <1>1, <1>2, <1>5, <1>6 DEF NothingFailedInv

\* A step that leaves what the invariant speaks of unchanged.
LEMMA StutterBuilds ==
    ASSUME NothingFailedInv, UNCHANGED vars
    PROVE  NothingFailedInv'
<1> USE DEF vars, localVars, k8sVars, nodeVars, callerVars
<1>1. \A r \in Requests : BuiltAt(r)'
    BY DEF NothingFailedInv, BuiltAt, Clean, Served, NoObjects, Hosts
<1>2. \A v \in Volumes : (\A n \in Nodes : ~InCS(<<v, n>>)') => (Clean(v) \/ Served(v))'
    BY DEF NothingFailedInv, InCS, Clean, Served, NoObjects, Hosts
<1> QED BY <1>1, <1>2 DEF NothingFailedInv

\* Every step keeps the volumes in one of these states until a call fails.
LEMMA NextFaultFree ==
    ASSUME IndInv, TypeOK', NoOrphanLabels, FaultFreeInv, [Next]_vars
    PROVE  FaultFreeInv'
<1> SUFFICES ASSUME faults' = 0 PROVE NothingFailedInv'
    BY DEF FaultFreeInv
<1>0. TypeOK /\ LockInv
    BY DEF IndInv
<1>1. ~Fails
    BY <1>0 DEF Fails, TypeOK
<1>2. faults = 0 => NothingFailedInv
    BY DEF FaultFreeInv
<1>3. ASSUME NEW r \in Requests, CallPublish(r) \/ CallUnpublish(r) \/ LockPV(r)
      PROVE  NothingFailedInv'
    <2>1. faults = 0
        BY <1>3 DEF CallPublish, CallUnpublish, LockPV
    <2> QED BY <1>0, <1>2, <1>3, <2>1, ArrivalBuilds
<1>4. ASSUME NEW r \in Requests, Publish(r) \/ Unpublish(r) PROVE Works
    BY <1>1, <1>4 DEF Publish, Unpublish, GetNode, PubGetSlice, PubGetService,
       AddNodeToNfsService, CheckNodeStatus, ArrayPublish, CallExport, CreateEndpointSlice,
       CreateService, UnpubGetSlice, UnpubGetService, RemoveNodeFromNfsService, CallUnexport,
       DeleteEndpointSlice, DeleteService, ArrayUnpublish, Works
<1>5. ASSUME NEW r \in Requests, Publish(r) PROVE NothingFailedInv'
    <2>1. Works /\ NothingFailedInv
        BY <1>2, <1>4, <1>5 DEF Works
    <2> QED BY <1>0, <1>5, <2>1, ReadBuilds, AddNodeBuilds, ArrayPublishBuilds, CallExportBuilds,
               CreateSliceBuilds, CreateServiceBuilds DEF Publish
<1>6. ASSUME NEW r \in Requests, Unpublish(r) PROVE NothingFailedInv'
    <2>1. Works /\ NothingFailedInv
        BY <1>2, <1>4, <1>6 DEF Works
    <2> QED BY <1>0, <1>6, <2>1, ReadBuilds, RemoveNodeBuilds, CallUnexportBuilds,
               DeleteSliceBuilds, DeleteServiceBuilds, ArrayUnpublishBuilds DEF Unpublish
<1>7. ASSUME NEW v \in Volumes, NEW call \in late[v], FinishLate(v, call) PROVE FALSE
    BY <1>2, <1>7 DEF FinishLate, NothingFailedInv
<1>8. ASSUME Crash PROVE FALSE
    BY <1>1, <1>8 DEF Crash
<1>9. CASE UNCHANGED vars
    BY <1>2, <1>9, StutterBuilds DEF vars
<1> QED BY <1>3, <1>5, <1>6, <1>7, <1>8, <1>9 DEF Next

\* A fresh cluster is clean.
LEMMA InitFaultFree == Init => FaultFreeInv
<1> SUFFICES ASSUME Init PROVE NothingFailedInv
    BY DEF FaultFreeInv
<1>1. \A r \in Requests : BuiltAt(r)
    BY DEF Init, BuiltAt, PublishLabels
<1>2. \A v \in Volumes : Clean(v) /\ late[v] = {} /\ service[v].clients = {}
    BY DEF Init, NoService, Clean, NoObjects, Hosts
<1> QED BY <1>1, <1>2, RequestParts DEF Init, NothingFailedInv

\* The clients' part of the invariant holds on its own.
LEMMA ClientsAlways == Spec => []ClientInv
<1>1. Init => ClientInv
    BY InitRefines
<1>2. TypeOK /\ ClientInv /\ [Next]_vars => ClientInv'
    BY RequestRefines
<1> QED BY <1>1, <1>2, TypeCorrect, PTL DEF Spec

\* As long as no call has failed and the controller has not restarted, every
\* handler leaves exactly the traces of its program point, and between two
\* handlers the volume has a complete server or none at all.
THEOREM FaultFree == Spec => []FaultFreeInv
<1>1. Init => FaultFreeInv
    BY InitFaultFree
<1>2. ASSUME IndInv, IndInv', ClientInv, FaultFreeInv, [Next]_vars PROVE FaultFreeInv'
    BY <1>2, NextFaultFree DEF IndInv, ClientInv
<1> QED BY <1>1, <1>2, Inductive, ClientsAlways, PTL DEF Spec

\* Only the handler past LockPV sees a volume half-built.
LEMMA MountedAtMostOnce ==
    ASSUME NothingFailedInv, NEW v \in Volumes
    PROVE  mounted[v] = {} \/ \E n : mounted[v] = {n}
<1>1. CASE \A n \in Nodes : ~InCS(<<v, n>>)
    BY <1>1 DEF NothingFailedInv, Clean, Served, Hosts
<1>2. CASE \E n \in Nodes : InCS(<<v, n>>)
    <2>1. PICK n \in Nodes : InCS(<<v, n>>)
        BY <1>2
    <2>2. BuiltAt(<<v, n>>) /\ Vol(<<v, n>>) = v
        BY RequestParts DEF NothingFailedInv
    <2> QED BY <2>1, <2>2 DEF InCS, BuiltAt, Clean, Served, Hosts, PublishLabels, UnpublishLabels
<1> QED BY <1>1, <1>2

\* Unless a call fails, no two nodes ever mount the filesystem of one volume:
\* a publish that finds the slice and the Service joins them, and the teardown
\* ends before the lock is given to a publish that would mount elsewhere.
THEOREM OneServer == Spec => [](faults = 0 => SingleServer)
<1>1. ASSUME FaultFreeInv, faults = 0 PROVE SingleServer
    <2>1. NothingFailedInv
        BY <1>1 DEF FaultFreeInv
    <2>2. ASSUME NEW v \in Volumes PROVE Cardinality(mounted[v]) <= 1
        <3>1. mounted[v] = {} \/ \E n : mounted[v] = {n}
            BY <2>1, MountedAtMostOnce
        <3>2. CASE mounted[v] = {}
            BY <3>2, FS_EmptySet
        <3>3. CASE \E n : mounted[v] = {n}
            BY <3>3, FS_Singleton
        <3> QED BY <3>1, <3>2, <3>3
    <2> QED BY <2>2 DEF SingleServer
<1> QED BY <1>1, FaultFree, PTL

\* Unless a call fails, the node that the slice sends an attached client to has
\* the volume mounted and exported: makeNfsService exports before it creates
\* the slice, and callUnexportNfsVolume runs only when the last label is gone.
THEOREM ClientsAreServed == Spec => [](faults = 0 => AttachedIsServed)
<1>1. ASSUME IndInv, FaultFreeInv, faults = 0 PROVE AttachedIsServed
    <2>0. /\ TypeOK /\ StageInv /\ AttachedHasServer /\ NothingFailedInv
        BY <1>1 DEF IndInv, FaultFreeInv
    <2>1. ASSUME NEW r \in attached PROVE Served(Vol(r))
        <3>0. /\ r \in Requests /\ Vol(r) \in Volumes
              /\ service[Vol(r)].exists /\ service[Vol(r)].clients # {} /\ slice[Vol(r)] # None
            BY <2>0, RequestParts DEF TypeOK, AttachedHasServer
        <3>1. CASE \A n \in Nodes : ~InCS(<<Vol(r), n>>)
            BY <2>0, <3>0, <3>1 DEF NothingFailedInv, Clean, NoObjects
        <3>2. CASE \E n \in Nodes : InCS(<<Vol(r), n>>)
            <4>1. PICK n \in Nodes : InCS(<<Vol(r), n>>)
                BY <3>2
            <4>2. /\ BuiltAt(<<Vol(r), n>>) /\ StageAt(<<Vol(r), n>>)
                  /\ Vol(<<Vol(r), n>>) = Vol(r)
                BY <2>0, <3>0, RequestParts DEF NothingFailedInv, StageInv
            <4> QED BY <3>0, <4>1, <4>2
                    DEF InCS, BuiltAt, StageAt, Clean, NoObjects, PublishLabels, UnpublishLabels
        <3> QED BY <3>1, <3>2
    <2> QED BY <2>1 DEF AttachedIsServed, Served, Hosts
<1> QED BY <1>1, Inductive, FaultFree, PTL

\* Unless a call fails, a volume that every node was told it is detached from
\* leaves nothing behind: no slice, Service, export, mount or array mapping.
THEOREM DetachLeavesNothing == Spec => [](faults = 0 => CleanWhenDetached)
<1>1. ASSUME TypeOK, FaultFreeInv, faults = 0 PROVE CleanWhenDetached
    <2>0. NothingFailedInv
        BY <1>1 DEF FaultFreeInv
    <2>1. ASSUME NEW v \in Volumes, Quiet(v), \A n \in Nodes : <<v, n>> \in detached
          PROVE  Clean(v)
        <3>1. \A n \in Nodes : ~InCS(<<v, n>>)
            BY <2>1 DEF Quiet, InCS, PublishLabels, UnpublishLabels
        <3>2. \A n \in Nodes : n \notin service[v].clients
            BY <2>0, <2>1, RequestParts DEF NothingFailedInv
        <3>3. service[v].clients \subseteq Nodes
            BY <1>1 DEF TypeOK
        <3> QED BY <2>0, <3>1, <3>2, <3>3 DEF NothingFailedInv, Served
    <2> QED BY <2>1 DEF CleanWhenDetached, Clean, NoObjects, Hosts
<1> QED BY <1>1, TypeCorrect, FaultFree, PTL
=============================================================================
