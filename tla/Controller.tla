----------------------------- MODULE Controller -----------------------------
(***************************************************************************)
(* The controller half of csm-sharednfs (nfs/controller.go):               *)
(* ControllerPublishVolume and ControllerUnpublishVolume, every external   *)
(* call they make a step of its own, serialised per volume by PVLock.      *)
(*                                                                         *)
(* A request is a pair <<v, n>>: the container orchestrator has at most    *)
(* one call in flight per (volume, node) attachment, but calls for         *)
(* different nodes of one volume arrive concurrently and in any order, and *)
(* are repeated after an error.                                            *)
(*                                                                         *)
(* A failing write may or may not have taken effect.  A node call          *)
(* abandoned because the request's context ended keeps running on the node *)
(* (late).                                                                 *)
(***************************************************************************)
EXTENDS Cluster

VARIABLES
    PVLock,     \* [Volumes -> Nodes \cup {None}]: node of the request holding the lock
    pc,         \* [Requests -> Labels]: where the request's handler is
    sliceRead,  \* [Requests -> Nodes \cup {None}]: node named by the EndpointSlice it read
    labelsRead, \* [Requests -> SUBSET Nodes]: client/ labels of the Service it read
    late,       \* [Volumes -> SUBSET NodeCalls]: abandoned calls still running on nodes
    attached,   \* requests whose last answer was a successful publish
    detached    \* requests whose last answer was a successful unpublish, or never published

localVars == <<sliceRead, labelsRead>>
nodeVars  == <<mounted, exported, late>>
callerVars == <<attached, detached>>
vars == <<PVLock, pc, localVars, k8sVars, published, nodeVars, callerVars, faults>>

Requests  == Volumes \X Nodes

\* Program points of the two handlers between LockPV and UnlockPV.
PublishLabels   == {"getNode", "pubGetSlice", "pubGetService", "addNode",
                    "checkStatus", "arrayPublish", "export", "createSlice",
                    "createService"}
UnpublishLabels == {"unpubGetSlice", "unpubGetService", "removeNode",
                    "unexport", "deleteSlice", "deleteService",
                    "arrayUnpublish"}
Labels == {"idle", "pubLock", "unpubLock"} \cup PublishLabels \cup UnpublishLabels

TypeOK ==
    /\ PVLock \in [Volumes -> Nodes \cup {None}]
    /\ pc \in [Requests -> Labels]
    /\ sliceRead \in [Requests -> Nodes \cup {None}]
    /\ labelsRead \in [Requests -> SUBSET Nodes]
    /\ slice \in [Volumes -> Nodes \cup {None}]
    /\ service \in [Volumes -> [exists : BOOLEAN, clients : SUBSET Nodes]]
    /\ published \in [Volumes -> SUBSET Nodes]
    /\ mounted \in [Volumes -> SUBSET Nodes]
    /\ exported \in [Volumes -> SUBSET Nodes]
    /\ late \in [Volumes -> SUBSET NodeCalls]
    /\ attached \in SUBSET Requests
    /\ detached \in SUBSET Requests
    /\ faults \in Nat

\* A fresh cluster: nothing published, no request in flight.
Init ==
    /\ PVLock = [v \in Volumes |-> None]
    /\ pc = [r \in Requests |-> "idle"]
    /\ sliceRead = [r \in Requests |-> None]
    /\ labelsRead = [r \in Requests |-> {}]
    /\ slice = [v \in Volumes |-> None]
    /\ service = [v \in Volumes |-> NoService]
    /\ published = [v \in Volumes |-> {}]
    /\ mounted = [v \in Volumes |-> {}]
    /\ exported = [v \in Volumes |-> {}]
    /\ late = [v \in Volumes |-> {}]
    /\ attached = {}
    /\ detached = Requests
    /\ faults = 0

-----------------------------------------------------------------------------
(* Control *)

Vol(r)  == r[1]
Node(r) == r[2]

\* LockPV takes the lock only when LoadOrStore stored; otherwise it sleeps
\* and polls again.
LockFreeUnchecked(v) == TRUE
LockFree(v) == PVLock[v] = None

\* UnlockPV deletes the entry, whoever holds it; it is deferred, so it runs
\* on every return.
UnlockPVForgotten(v) == PVLock' = PVLock
UnlockPV(v) == PVLock' = [PVLock EXCEPT ![v] = None]

Goto(r, label) == pc' = [pc EXCEPT ![r] = label] /\ UNCHANGED PVLock
Return(r)      == pc' = [pc EXCEPT ![r] = "idle"] /\ UnlockPV(Vol(r))

\* The orchestrator calls ControllerPublishVolume: for a new attachment, to
\* retry, or again for an attachment it already has.
CallPublish(r) ==
    /\ pc[r] = "idle"
    /\ Goto(r, "pubLock")
    /\ detached' = detached \ {r}
    /\ UNCHANGED <<localVars, k8sVars, published, nodeVars, attached, faults>>

\* The orchestrator calls ControllerUnpublishVolume; from here on it no
\* longer relies on the attachment.
CallUnpublish(r) ==
    /\ pc[r] = "idle"
    /\ Goto(r, "unpubLock")
    /\ attached' = attached \ {r}
    /\ UNCHANGED <<localVars, k8sVars, published, nodeVars, detached, faults>>

\* One successful round of LockPV's polling loop.
LockPV(r) ==
    /\ pc[r] \in {"pubLock", "unpubLock"}
    /\ LockFree(Vol(r))
    /\ PVLock' = [PVLock EXCEPT ![Vol(r)] = Node(r)]
    /\ pc' = [pc EXCEPT ![r] = IF @ = "pubLock" THEN "getNode" ELSE "unpubGetSlice"]
    /\ UNCHANGED <<localVars, k8sVars, published, nodeVars, callerVars, faults>>

-----------------------------------------------------------------------------
(* ControllerPublishVolume *)

\* GetNodeByCSINodeID; without the Node object, or without an address in it,
\* the request fails.
GetNode(r) ==
    /\ pc[r] = "getNode"
    /\ \/ Works /\ Goto(r, "pubGetSlice")
       \/ Fails /\ Return(r)
    /\ UNCHANGED <<localVars, k8sVars, published, nodeVars, callerVars>>

\* getServiceAndSlice, first half.  ControllerPublishVolume only logs its
\* error: an API failure is taken for a missing slice.
PubGetSlice(r) ==
    /\ pc[r] = "pubGetSlice"
    /\ \/ /\ Works /\ slice[Vol(r)] # None
          /\ sliceRead' = [sliceRead EXCEPT ![r] = slice[Vol(r)]]
          /\ Goto(r, "pubGetService")
       \/ /\ \/ Works /\ slice[Vol(r)] = None
             \/ Fails
          /\ Goto(r, "checkStatus")
          /\ UNCHANGED sliceRead
    /\ UNCHANGED <<labelsRead, k8sVars, published, nodeVars, callerVars>>

\* getServiceAndSlice, second half: any error discards the slice as well.
PubGetService(r) ==
    /\ pc[r] = "pubGetService"
    /\ \/ /\ Works /\ service[Vol(r)].exists
          /\ labelsRead' = [labelsRead EXCEPT ![r] = service[Vol(r)].clients]
          /\ Goto(r, "addNode")
       \/ /\ \/ Works /\ ~service[Vol(r)].exists
             \/ Fails
          /\ Goto(r, "checkStatus")
          /\ UNCHANGED labelsRead
    /\ UNCHANGED <<sliceRead, k8sVars, published, nodeVars, callerVars>>

\* addNodeToNfsService: label the Service with this client unless it has
\* the label already.
AddNodeToNfsService(r) ==
    /\ pc[r] = "addNode"
    /\ \/ /\ Works
          /\ IF Node(r) \in labelsRead[r]
             THEN UNCHANGED service
             ELSE PutService(Vol(r), labelsRead[r] \cup {Node(r)})
          /\ attached' = attached \cup {r}
       \/ /\ Fails /\ Node(r) \notin labelsRead[r]
          /\ \/ UNCHANGED service
             \/ PutService(Vol(r), labelsRead[r] \cup {Node(r)})
          /\ UNCHANGED attached
    /\ Return(r)
    /\ UNCHANGED <<localVars, slice, published, nodeVars, detached>>

\* GetNodeStatus: the node this request is for becomes the NFS server, if the
\* pinger has it online and out of recovery; any answer is possible.
CheckNodeStatus(r) ==
    /\ pc[r] = "checkStatus"
    /\ Goto(r, "arrayPublish") \/ Return(r)
    /\ UNCHANGED <<localVars, k8sVars, published, nodeVars, callerVars, faults>>

\* makeNfsService: publish the block volume to the node through the driver.
ArrayPublish(r) ==
    /\ pc[r] = "arrayPublish"
    /\ \/ Works /\ MapToHost(Vol(r), Node(r)) /\ Goto(r, "export")
       \/ Fails /\ (UNCHANGED published \/ MapToHost(Vol(r), Node(r))) /\ Return(r)
    /\ UNCHANGED <<localVars, k8sVars, nodeVars, callerVars>>

\* The node serialises calls for one volume (nfsLockPV) and does not watch
\* the context while it waits: a call is answered once the late ones are done.
NodeFree(v, n) == \A call \in late[v] : call.node # n

Abandon(v, op, n) == late' = [late EXCEPT ![v] = @ \cup {[op |-> op, node |-> n]}]

\* makeNfsService's retry loop around ExportNfsVolume: an error, after which
\* the volume may be left mounted or even exported, is retried; when the
\* context ends the handler gives up and the call goes on at the node.
CallExport(r) ==
    LET v == Vol(r) n == Node(r) IN
    /\ pc[r] = "export"
    /\ \/ /\ Works /\ NodeFree(v, n)
          /\ MountOn(v, n) /\ ExportOn(v, n)
          /\ Goto(r, "createSlice")
          /\ UNCHANGED late
       \/ /\ Fails /\ NodeFree(v, n)
          /\ ExportUpTo(v, n)
          /\ UNCHANGED <<pc, PVLock, late>>
       \/ /\ Fails
          /\ UNCHANGED late \/ Abandon(v, "export", n)
          /\ Return(r)
          /\ UNCHANGED <<mounted, exported>>
    /\ UNCHANGED <<localVars, k8sVars, published, callerVars>>

\* CreateEndpointSlice fails when the slice exists.
CreateEndpointSlice(r) ==
    LET v == Vol(r) n == Node(r) IN
    /\ pc[r] = "createSlice"
    /\ \/ /\ Works
          /\ IF slice[v] = None THEN PutSlice(v, n) /\ Goto(r, "createService")
                                ELSE UNCHANGED slice /\ Return(r)
       \/ /\ Fails
          /\ UNCHANGED slice \/ (slice[v] = None /\ PutSlice(v, n))
          /\ Return(r)
    /\ UNCHANGED <<localVars, service, published, nodeVars, callerVars>>

\* CreateService, with this node as the first client; fails when it exists.
CreateService(r) ==
    LET v == Vol(r) n == Node(r) IN
    /\ pc[r] = "createService"
    /\ \/ /\ Works
          /\ IF service[v].exists
             THEN UNCHANGED <<service, attached>>
             ELSE PutService(v, {n}) /\ attached' = attached \cup {r}
       \/ /\ Fails
          /\ UNCHANGED service \/ (~service[v].exists /\ PutService(v, {n}))
          /\ UNCHANGED attached
    /\ Return(r)
    /\ UNCHANGED <<localVars, slice, published, nodeVars, detached>>

-----------------------------------------------------------------------------
(* ControllerUnpublishVolume *)

AnswerDetached(r) == detached' = detached \cup {r}

UnpubGetSliceNoAddress(r) ==
    /\ pc[r] = "unpubGetSlice" /\ Works
    /\ IF slice[Vol(r)] # None THEN Goto(r, "unpubGetService") ELSE Return(r)
    /\ UNCHANGED <<localVars, k8sVars, published, nodeVars, callerVars>>

\* getServiceAndSlice, first half: "not found" is a successful answer, any
\* other error is returned.
UnpubGetSlice(r) ==
    /\ pc[r] = "unpubGetSlice"
    /\ \/ /\ Works /\ slice[Vol(r)] # None
          /\ sliceRead' = [sliceRead EXCEPT ![r] = slice[Vol(r)]]
          /\ Goto(r, "unpubGetService")
          /\ UNCHANGED detached
       \/ /\ \/ Works /\ slice[Vol(r)] = None /\ AnswerDetached(r)
             \/ Fails /\ UNCHANGED detached
          /\ Return(r)
          /\ UNCHANGED sliceRead
    /\ UNCHANGED <<labelsRead, k8sVars, published, nodeVars, attached>>

\* getServiceAndSlice, second half.
UnpubGetService(r) ==
    /\ pc[r] = "unpubGetService"
    /\ \/ /\ Works /\ service[Vol(r)].exists
          /\ labelsRead' = [labelsRead EXCEPT ![r] = service[Vol(r)].clients]
          /\ Goto(r, "removeNode")
          /\ UNCHANGED detached
       \/ /\ \/ Works /\ ~service[Vol(r)].exists /\ AnswerDetached(r)
             \/ Fails /\ UNCHANGED detached
          /\ Return(r)
          /\ UNCHANGED labelsRead
    /\ UNCHANGED <<sliceRead, k8sVars, published, nodeVars, attached>>

\* No client/ label remains once this node's is deleted.
LastClientOrServer(r) == labelsRead[r] \ {Node(r)} = {} \/ Node(r) = sliceRead[r]
LastClientOffByOne(r) == Cardinality(labelsRead[r] \ {Node(r)}) <= 1
LastClient(r) == labelsRead[r] \ {Node(r)} = {}

RemoveNodeArrayFirst(r) ==
    /\ pc[r] = "removeNode" /\ Works
    /\ PutService(Vol(r), labelsRead[r] \ {Node(r)})
    /\ IF LastClient(r) THEN Goto(r, "arrayUnpublish") /\ UNCHANGED detached
                        ELSE Return(r) /\ AnswerDetached(r)
    /\ UNCHANGED <<localVars, slice, published, nodeVars, attached>>

\* removeNodeFromNfsService; only the last client goes on to the teardown.
RemoveNodeFromNfsService(r) ==
    LET remaining == labelsRead[r] \ {Node(r)} IN
    /\ pc[r] = "removeNode"
    /\ \/ /\ Works
          /\ PutService(Vol(r), remaining)
          /\ IF LastClient(r) THEN Goto(r, "unexport") /\ UNCHANGED detached
                              ELSE Return(r) /\ AnswerDetached(r)
       \/ /\ Fails
          /\ UNCHANGED service \/ PutService(Vol(r), remaining)
          /\ Return(r)
          /\ UNCHANGED detached
    /\ UNCHANGED <<localVars, slice, published, nodeVars, attached>>

\* callUnexportNfsVolume on the node the slice names.  A node that cannot be
\* reached ("i/o timeout", "no route to host") is passed over, whether the
\* call was lost or only its answer; any other error ends the request, with
\* the export possibly gone already.
CallUnexport(r) ==
    LET v == Vol(r) n == sliceRead[r] IN
    /\ pc[r] = "unexport"
    /\ \/ /\ Works /\ NodeFree(v, n)
          /\ UnexportOn(v, n) /\ UnmountOn(v, n)
          /\ Goto(r, "deleteSlice")
          /\ UNCHANGED late
       \/ /\ Fails
          /\ UNCHANGED late \/ Abandon(v, "unexport", n)
          /\ Goto(r, "deleteSlice")
          /\ UNCHANGED <<mounted, exported>>
       \/ /\ Fails /\ NodeFree(v, n)
          /\ UnexportUpTo(v, n)
          /\ Return(r)
          /\ UNCHANGED late
       \/ /\ Fails
          /\ Abandon(v, "unexport", n)
          /\ Return(r)
          /\ UNCHANGED <<mounted, exported>>
    /\ UNCHANGED <<localVars, k8sVars, published, callerVars>>

DeleteEndpointSlice(r) ==
    /\ pc[r] = "deleteSlice"
    /\ \/ Works /\ PutSlice(Vol(r), None) /\ Goto(r, "deleteService")
       \/ Fails /\ (UNCHANGED slice \/ PutSlice(Vol(r), None)) /\ Return(r)
    /\ UNCHANGED <<localVars, service, published, nodeVars, callerVars>>

DeleteService(r) ==
    /\ pc[r] = "deleteService"
    /\ \/ Works /\ DropService(Vol(r)) /\ Goto(r, "arrayUnpublish")
       \/ Fails /\ (UNCHANGED service \/ DropService(Vol(r))) /\ Return(r)
    /\ UNCHANGED <<localVars, slice, published, nodeVars, callerVars>>

ArrayUnpublishRequestNode(r) ==
    /\ pc[r] = "arrayUnpublish" /\ Works
    /\ UnmapFromHost(Vol(r), Node(r))
    /\ Return(r) /\ AnswerDetached(r)
    /\ UNCHANGED <<localVars, k8sVars, nodeVars, attached>>

\* The array volume is detached from the node the slice named, which need
\* not be the node of the request.
ArrayUnpublish(r) ==
    /\ pc[r] = "arrayUnpublish"
    /\ \/ /\ Works
          /\ UnmapFromHost(Vol(r), sliceRead[r])
          /\ AnswerDetached(r)
       \/ /\ Fails
          /\ UNCHANGED published \/ UnmapFromHost(Vol(r), sliceRead[r])
          /\ UNCHANGED detached
    /\ Return(r)
    /\ UNCHANGED <<localVars, k8sVars, nodeVars, attached>>

-----------------------------------------------------------------------------
(* Nodes and restarts *)

\* A call the controller gave up on ends on the node, done or failed.
FinishLate(v, call) ==
    /\ late' = [late EXCEPT ![v] = @ \ {call}]
    /\ NodeCallEnds(v, call)
    /\ UNCHANGED <<PVLock, pc, localVars, k8sVars, published, callerVars, faults>>

\* Node calls in flight for volume v.
InFlight(v) ==
    {[op |-> "export", node |-> n] : n \in {m \in Nodes : pc[<<v, m>>] = "export"}}
    \cup {[op |-> "unexport", node |-> sliceRead[<<v, n>>]] :
              n \in {m \in Nodes : pc[<<v, m>>] = "unexport"}}

\* The controller process dies: its handlers and the in-memory PVLock are
\* gone, Kubernetes, the array and the nodes keep their state.
Crash ==
    /\ Fails
    /\ \E r \in Requests : pc[r] # "idle"
    /\ PVLock' = [v \in Volumes |-> None]
    /\ pc' = [r \in Requests |-> "idle"]
    /\ late' = [v \in Volumes |-> late[v] \cup InFlight(v)]
    /\ UNCHANGED <<localVars, k8sVars, published, mounted, exported, callerVars>>

-----------------------------------------------------------------------------
(* Specification *)

Publish(r) ==
    \/ GetNode(r) \/ PubGetSlice(r) \/ PubGetService(r)
    \/ AddNodeToNfsService(r) \/ CheckNodeStatus(r) \/ ArrayPublish(r)
    \/ CallExport(r) \/ CreateEndpointSlice(r) \/ CreateService(r)

Unpublish(r) ==
    \/ UnpubGetSlice(r) \/ UnpubGetService(r) \/ RemoveNodeFromNfsService(r)
    \/ CallUnexport(r) \/ DeleteEndpointSlice(r) \/ DeleteService(r)
    \/ ArrayUnpublish(r)

Next ==
    \/ \E r \in Requests :
           \/ CallPublish(r) \/ CallUnpublish(r) \/ LockPV(r)
           \/ Publish(r) \/ Unpublish(r)
    \/ \E v \in Volumes : \E call \in late[v] : FinishLate(v, call)
    \/ Crash

Spec == Init /\ [][Next]_vars

\* A handler that holds the lock keeps running, and a call abandoned at a node
\* ends: every external call is answered or its context ends.  Nothing is
\* assumed of the orchestrator's calls, nor of who wins LockPV's polling.
Fairness ==
    /\ \A r \in Requests : WF_vars(Publish(r) \/ Unpublish(r))
    /\ \A v \in Volumes : WF_vars(\E call \in late[v] : FinishLate(v, call))

FairSpec == Spec /\ Fairness

-----------------------------------------------------------------------------
(* Properties *)

InCS(r) == pc[r] \in PublishLabels \cup UnpublishLabels
Quiet(v) == \A n \in Nodes : pc[<<v, n>>] = "idle"

\* Two handlers for one volume are never both past LockPV: every return runs
\* the deferred UnlockPV exactly once, no handler releases another's lock, and
\* a restart, which drops the in-memory map, drops its handlers as well.
PVLockExclusion ==
    \A r, s \in Requests : InCS(r) /\ InCS(s) /\ Vol(r) = Vol(s) => r = s

\* A node whose publish was answered with success, and which has not begun to
\* unpublish, keeps its client/ label on the Service and an EndpointSlice
\* behind it: whatever fails or restarts half-way through the requests of the
\* other nodes, a teardown never passes under a client in use.
AttachedHasServer ==
    \A r \in attached :
        /\ service[Vol(r)].exists
        /\ Node(r) \in service[Vol(r)].clients
        /\ slice[Vol(r)] # None

\* The node an EndpointSlice names is a host the array maps the volume to:
\* makeNfsService publishes before it creates the slice, the teardown deletes
\* the slice before it unpublishes, and a failed or interrupted request
\* leaves them in that order.
SliceNodePublished ==
    \A v \in Volumes : slice[v] # None => slice[v] \in published[v]

\* When every node's last answer was a successful unpublish and no request
\* runs, the slice, the Service, the export, the mount and the array mapping
\* are all gone, also when the server was not the node that left last
\* (ControllerUnpublishVolume, "If there are no more clients, ...").
CleanWhenDetached ==
    \A v \in Volumes : Quiet(v) /\ (\A n \in Nodes : <<v, n>> \in detached) =>
        /\ slice[v] = None /\ ~service[v].exists
        /\ published[v] = {} /\ mounted[v] = {} /\ exported[v] = {}

\* The node that the slice sends an attached client to has the volume mounted
\* and exported.
AttachedIsServed ==
    \A r \in attached : slice[Vol(r)] \in mounted[Vol(r)] \cap exported[Vol(r)]

\* At most one node mounts the (non-cluster) filesystem of a volume: a publish
\* that finds an NFS server joins it and never starts a second one.
SingleServer == \A v \in Volumes : Cardinality(mounted[v]) <= 1

\* "if there is an existing service, and it has an endpointslice, [...] then we
\* don't do anything": while the volume has a slice and a Service, no publish
\* is on its way to make its own node a server.
JoinsExistingServer ==
    \A r \in Requests : pc[r] \in {"arrayPublish", "export"} =>
        ~(slice[Vol(r)] # None /\ service[Vol(r)].exists)

\* Whatever fails, a handler that took the volume's lock gives it back, so
\* later requests for the volume can go on.
LockReleased == \A v \in Volumes : PVLock[v] # None ~> PVLock[v] = None

Attachment == INSTANCE VolumeAttachment
    WITH server <- slice, clients <- [v \in Volumes |-> service[v].clients]

\* The requests of all nodes together behave as VolumeAttachment: a node only
\* joins a server that runs, and a server is stopped only when no client/ label
\* is left, whatever fails half-way, restarts and is retried.
ImplementsAttachment == Attachment!Spec

-----------------------------------------------------------------------------
(* The inductive invariant behind PVLockExclusion, AttachedHasServer and     *)
(* SliceNodePublished.                                                       *)

\* What request r has read is still so: it holds the lock since it read it.
SliceFresh(r)   == sliceRead[r] # None /\ slice[Vol(r)] = sliceRead[r]
ServiceFresh(r) == /\ service[Vol(r)].exists
                   /\ service[Vol(r)].clients = labelsRead[r]

\* The handler past LockPV is the one recorded in PVLock.
LockInv == \A r \in Requests : InCS(r) => PVLock[Vol(r)] = Node(r)

\* What the handler of r knows about the cluster at each program point.
StageAt(r) ==
    /\ pc[r] = "pubGetService" => SliceFresh(r)
    /\ pc[r] = "addNode" => SliceFresh(r) /\ ServiceFresh(r)
    /\ pc[r] \in {"export", "createSlice"} => Node(r) \in published[Vol(r)]
    /\ pc[r] = "createService" => slice[Vol(r)] = Node(r)
    /\ pc[r] \in {"unpubLock"} \cup UnpublishLabels => r \notin attached
    /\ pc[r] = "unpubGetService" => SliceFresh(r)
    /\ pc[r] = "removeNode" => SliceFresh(r) /\ ServiceFresh(r)
    /\ pc[r] \in {"unexport", "deleteSlice"} =>
          SliceFresh(r) /\ service[Vol(r)].clients = {}
    /\ pc[r] = "deleteService" =>
          slice[Vol(r)] = None /\ service[Vol(r)].clients = {}
    /\ pc[r] = "arrayUnpublish" => slice[Vol(r)] = None

StageInv == \A r \in Requests : StageAt(r)

\* Every handler works on what it read under the lock, and the safety
\* properties hold: LockPV held over the external calls of
\* ControllerPublishVolume and ControllerUnpublishVolume makes each of them
\* one step on the volume's slice and Service.
IndInv == /\ TypeOK /\ LockInv /\ StageInv
          /\ AttachedHasServer /\ SliceNodePublished

-----------------------------------------------------------------------------
(* The inductive invariant behind CleanWhenDetached, AttachedIsServed and    *)
(* SingleServer: the states of a volume while nothing has failed.            *)

NoObjects(v) == slice[v] = None /\ ~service[v].exists
Hosts(v, mapped, serving) ==
    published[v] = mapped /\ mounted[v] = serving /\ exported[v] = serving

Clean(v)  == NoObjects(v) /\ Hosts(v, {}, {})
Served(v) == /\ slice[v] # None /\ service[v].exists /\ service[v].clients # {}
             /\ Hosts(v, {slice[v]}, {slice[v]})

\* How far the handler past LockPV has built the server, or taken it down.
BuiltAt(r) ==
    LET v == Vol(r) n == Node(r) s == sliceRead[r] IN
    /\ pc[r] \in {"getNode", "pubGetSlice", "unpubGetSlice"} => Clean(v) \/ Served(v)
    /\ pc[r] \in {"pubGetService", "addNode", "unpubGetService", "removeNode"} => Served(v)
    /\ pc[r] \in {"checkStatus", "arrayPublish"} => Clean(v)
    /\ pc[r] = "export" => NoObjects(v) /\ Hosts(v, {n}, {})
    /\ pc[r] = "createSlice" => NoObjects(v) /\ Hosts(v, {n}, {n})
    /\ pc[r] = "createService" => ~service[v].exists /\ Hosts(v, {n}, {n})
    /\ pc[r] = "unexport" => service[v].exists /\ Hosts(v, {s}, {s})
    /\ pc[r] \in {"deleteSlice", "deleteService"} => service[v].exists /\ Hosts(v, {s}, {})
    /\ pc[r] = "arrayUnpublish" => NoObjects(v) /\ Hosts(v, {s}, {})
    /\ pc[r] \in {"pubLock"} \cup PublishLabels => r \notin detached

\* Between two requests a volume is served or gone, a handler in between has
\* left exactly the traces of its program point, and a node that was told it is
\* detached has no client/ label.
NothingFailedInv ==
    /\ \A r \in Requests : BuiltAt(r)
    /\ \A v \in Volumes : (\A n \in Nodes : ~InCS(<<v, n>>)) => Clean(v) \/ Served(v)
    /\ \A r \in detached : Node(r) \notin service[Vol(r)].clients
    /\ \A v \in Volumes : late[v] = {}

FaultFreeInv == faults = 0 => NothingFailedInv
=============================================================================
