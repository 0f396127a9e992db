# TLA+ verification of csm-sharednfs

csm-sharednfs lets many nodes share one block volume: one node mounts the
volume and exports it over NFS, and every node that uses it, that one
included, is an NFS client of it. This directory holds the TLA+ model of that program (source
under `nfs/` of the repository), its TLC runs and its TLAPS proofs.

    tlc   -workers 2 -config ControllerFaults.cfg MCController
    tlapm ControllerProofs.tla

`PROJECT.json` lists the components, the runs, the mutants that show each
property can fail, the source lines behind each definition, the findings, the
hazards and the theorems.

## 1. Inventory

| Component | State | Operations | Talks to |
|---|---|---|---|
| Volume attachment, `controller.go` | `PVLock` (in memory); per volume an EndpointSlice naming the serving node and a Service with one `client/` label per attached node (in Kubernetes) | `ControllerPublishVolume`, `ControllerUnpublishVolume` (and `makeNfsService`, `addNodeToNfsService`, `removeNodeFromNfsService`), `LockPV`, `UnlockPV` | Kubernetes API, array driver (`vcsi`), NFS service of a node over gRPC, `NodeStatus` of the monitor |
| Node NFS service, `nfs_service.go`, `exports.go` | `/etc/exports`, the kernel's export table, mounts (on the host); `generation`, `syncedGeneration`, `nfsPVLock` (in memory) | `ExportNfsVolume`, `UnexportNfsVolume`, `Ping` with `DumpAllExports`; `AddExport`, `DeleteExport`, `ResyncNFSMountd` | `exportfs`, array driver (`MountVolume`, `UnmountVolume`), Kubernetes API (`GetService`) |
| Node monitor, `nodemonitor.go` | per node `NodeStatus` (online, inRecovery, dumpingExports) | `pinger`, `GetNodeStatus` | `Ping` of every node; starts recovery |
| Node recovery, `noderecovery.go` | `exportCounts`; moves slices and array mappings | `nodeRecovery`, `reassignVolume`, `findNextAvailableNode` | `PVLock`, Kubernetes, array driver, both nodes |
| Node mounts, `node.go` | NFS client mounts on the worker | `NodeStageVolume`, `NodeUnstageVolume`, `NodePublishVolume`, `NodeUnpublishVolume` | Service address, `mount`/`umount` |
| Identifiers, `csinfs.go` | none | `ArrayToNFSVolumeID`, `ToArrayVolumeID`, `VolumeIDToServiceName` | used by all |
| Start-up, provisioning, identity, k8s wrappers, executors, gRPC stubs | none of their own | `New`, `BeforeServe`, `CreateVolume`, `Probe`, ... | delegates |

What is hard here:

- *Concurrency.* Requests for different nodes of one volume meet at `PVLock`;
  the node's handlers share `/etc/exports` and two package variables, one of
  which is written outside its lock; recovery locks a different spelling of
  the volume ID than requests do.
- *Partial failure.* A publish makes up to five external changes in order and
  an unpublish undoes them in another order, without a journal. Whatever the
  retry finds decides what it does.
- *Restarts.* Locks and generations are in memory; what they protect is not.
- *Timeouts.* The controller gives up on a node call that keeps running; the
  node gives up on a mount that keeps running.

What makes each component correct:

- Attachment: one handler per volume at a time; a node in use keeps its label,
  the Service and the slice; the slice names a node that has the device; one
  server per volume; when the last node has gone nothing is left behind; the
  lock is always given back.
- Node service: after a successful export the kernel exports the volume; after
  a successful unexport neither the kernel nor `/etc/exports` has it, and it is
  unmounted; other volumes are untouched.
- Monitor: a node that was declared down serves nothing until its exports were
  dumped; a node that stays up comes back, one that stays down is recovered.
- Recovery: every volume of the failed node ends up with one server, the slice
  names it, and no client is lost on the way; a recovery ends.
- Node mounts: what kubelet was told about a path is so; a server that hangs
  blocks nobody else.
- Identifiers: controller and node derive the same names; distinct volumes do
  not disturb each other's exports.

## 2. Modules

| Module | What it is |
|---|---|
| `Cluster` | the state outside the controller's process (slices, Services, array mappings, mounts, exports) and the operations that change it; extended by `Controller` and `NodeRecovery` |
| `Controller`, `MCController`, `ControllerProofs`, `AttachmentProofs` | the two controller handlers and `PVLock`; TLC instance; safety theorems; the refinement and the theorems about behaviours without failures |
| `VolumeAttachment` | abstract specification: clients join and leave a server, which may be moved, and is stopped only without clients |
| `NodeRecovery`, `MCNodeRecovery`, `NodeRecoveryProofs` | `nodeRecovery`, `reassignVolume` and `getNodeExportCounts` over the same cluster |
| `SharedNfs`, `MCSharedNfs`, `SharedNfsProofs` | `Controller` and `NodeRecovery` composed over one `Cluster` |
| `NfsServer`, `MCNfsServer`, `NfsServerProofs` | the node's three gRPC handlers over `/etc/exports`, the kernel and the mounts |
| `NodeMonitor`, `MCNodeMonitor`, `NodeMonitorProofs` | start-up of the controller, one pinger per node, its `NodeStatus`, and the dumps it asks for |
| `NodeStage`, `MCNodeStage`, `NodeStageProofs` | the four node handlers and kubelet's calls on one worker |
| `VolumeNames`, `MCVolumeNames`, `VolumeNamesProofs` | the spellings of a volume's ID, and the lines of `/etc/exports` matched by them |

### Controller

A request is a pair (volume, node). `pc` says which external call its handler
makes next; each action is one such call together with the code up to the
next one, so that everything the outside world can see in between is a state.
`sliceRead` and `labelsRead` are the `endpoint`/`slice` and `service` the
handler keeps in local variables. `slice`, `service`, `published`, `mounted`
and `exported` are the state of Kubernetes, the array and the nodes.

| Actions | Code |
|---|---|
| `CallPublish`, `CallUnpublish` | the orchestrator's calls: any order, also repeated; one in flight per (volume, node) |
| `LockPV` | one successful poll; `Return` runs the deferred `UnlockPV` |
| `GetNode`, `PubGetSlice`, `PubGetService` | `GetNodeByCSINodeID`, `getServiceAndSlice` |
| `AddNodeToNfsService` | the server exists: add a label |
| `CheckNodeStatus`, `ArrayPublish`, `CallExport`, `CreateEndpointSlice`, `CreateService` | no server: `makeNfsService`, with its retry loop |
| `UnpubGetSlice`, `UnpubGetService`, `RemoveNodeFromNfsService` | the first part of `ControllerUnpublishVolume` |
| `CallUnexport`, `DeleteEndpointSlice`, `DeleteService`, `ArrayUnpublish` | the teardown by the last client |
| `FinishLate` | a node call the controller no longer waits for ends |
| `Crash` | the controller restarts |

`attached` and `detached` record what the callers were told; only the
properties read them. Abstractions:

- A read or write of Kubernetes, and a call of the array driver, is one step. A
  failing write may or may not have taken effect. A failure takes one unit of
  `MaxFaults`, except `CheckNodeStatus`, where any answer is possible.
- `ExportNfsVolume` and `UnexportNfsVolume` are one step each here, with every
  point at which they may stop (`ExportUpTo`, `UnexportUpTo`); `NfsServer` has
  their steps. Calls for one volume wait for each other at the node
  (`NodeFree`), as `nfsLockPV` makes them.
- A restart loses the handlers; node calls in flight go on. A Kubernetes or
  array call in flight is taken to end before the restart is over.
- Updates of a Service that changed since it was read are refused by the API
  server. The lock makes that case unreachable here (`ServiceFresh` is part of the
  invariant), so the refusal has no transition of its own.
- The paths for a slice without an address cannot be reached, since
  `makeNfsService` always writes one; neither can the last return of
  `ControllerPublishVolume` (`getServiceAndSlice` returns both objects or
  none).
- Recovery also takes `PVLock`, but under the array ID, so it does not exclude
  requests: see SharedNfs.
- `Attachment` maps `slice` to the abstract server and the client labels to the
  abstract clients. Every write of a slice or a Service is then a step of
  `VolumeAttachment`, everything else a stutter.

### NfsServer

One node. `AddExport`, `DeleteExport` and `ResyncNFSMountd` run under
`exportsLock` and are one step each; between them every handler can be
interrupted. `UnexportNfsVolume` keeps the generation in a local variable;
`ExportNfsVolume` and `Ping` assign it to the package variable and read it
back without the lock, so `ExStore`/`ExLoad` and `PingStore`/`PingLoad` are
steps of their own. `nfsPVLock` is keyed by volume and spelling of the ID
(`Forms`).

- The kernel's table is what `/etc/exports` was at the last successful
  `exportfs -r`.
- `DeleteExport` may stop after truncation: `DeleteExportFails`, and `Restart`
  while a handler is about to run it, leave any part of the kept lines.
- A `MountVolume` that outlives its handler is in `late` and may still mount.
- `Restart` is of the container: the host keeps the file, the kernel's table
  and the mounts. A reboot of the host, which empties the table and the
  mounts, is not modelled: the program has no step for it.
- "not mounted" in an unmount error is never seen at `nfs_service.go:272`,
  because `UnmountVolume` of the service wraps it into another text; every error
  is retried. `restartNFSMountd` has no caller.
- `served` and `gone` record what callers were told. A volume is not counted
  as served while an unexport or a dump of it is under way, nor as gone
  while an export of it is: then either outcome is legitimate. `regressed`
  records that an assignment lowered `generation`.

### NodeMonitor

`badPings`, `goodPings`, `inRecovery`, `online` and `dumpingExports` are the
fields of `NodeStatus`, per node. `pc` is the place in the loop of `pinger`
and `dump` the `DumpAllExports` of the ping under way, which is read before the
call and so may differ from the flag when the answer comes. `reach` is the
node's state: up, refusing connections (an error that counts) or silent until
the timeout (an error the pinger does not count).

| Actions | Code |
|---|---|
| `BeforeServe` | start-up in controller mode: it fails and is run again, or `startNodeMonitors` starts a pinger per worker that is in the cluster |
| `JoinCluster` | a worker joins later, and gets no pinger |
| `StartPinger` | the pinger enters its status into `nodeIPAddress`, or gives up on a Node without an address |
| `SendPing` | the head of the loop |
| `PingReady` | a good answer (`GoodPing`) |
| `PingPassedOver` | a good answer to a dump that skipped an entry |
| `PingNotReady`, `PingRefused`, `PingTimeout` | an error that counts (`BadPing`), with the start of the recovery |
| `PingIgnored` | one of the three error texts that are not counted |
| `FinishLate` | a dump the pinger gave up on ends at the node |
| `Outage`, `Return`, `Restart` | a node goes and comes back; the controller restarts |

`stale` says that the node still exports a volume the last recovery moved
away, and `forgotten` that since then a dump was abandoned or passed over an
entry, or the controller restarted; only the properties read `forgotten`. Abstractions:

- The node's handling of one Ping is one step with every outcome `NfsServer`
  allows: all exports gone and Ready, Ready although an entry was passed over,
  or a failure on the way.
- `nodeRecovery` appears as its start, from which on the node's exports count
  as stale; what it does is `NodeRecovery`.
- The counters are compared with `MaxBadPing` and 2 only and saturate above
  (`BadCap`, `GoodCap`).
- `Ping` returns an error with every answer that is not Ready, so
  `err.Error()` on a nil error is not reached.

### NodeRecovery

A recovery `r` of node `failed[r]` lists the slices, counts the exports, and
runs one task `<<r, v>>` per listed volume. Each action of a task is one
external call of `reassignVolume` with the code up to the next.

| Actions | Code |
|---|---|
| `StartRecovery`, `GoodPing` | the pinger's side: a recovery begins; the node answers again and dumps its exports |
| `ListSlices`, `CountExports`, `EndRecovery` | `nodeRecovery` and `getNodeExportCounts` |
| `LockPV`, `FindNextAvailableNode`, `Unmap`, `Map`, `Export`, `UpdateEndpointSlice` | `reassignVolume`; `Error` is the second attempt |
| `SendUnexport`, `FinishSent` | the unexport goroutine sends its call; a call nobody waits for ends on the node |
| `Restart` | the controller restarts |

- `fresh` holds the tasks whose listed copy of the slice is still what
  Kubernetes stores; an update of another copy is refused, and the refusal is
  only logged.
- `err` is shared with the unexport goroutine: `Unmap` has a branch in which a
  failed `ControllerUnpublishVolume` is hidden by it. The reverse, a failed
  unexport that makes an error of a successful `ControllerUnpublishVolume`,
  `GetNode` or `ControllerPublishVolume`, is a branch of `Unmap` and `Map` (the
  effect, and `Error`); it is counted as a failure, so the properties that claim
  nothing after one (`MovedIsServed`, `Spread`, `SliceNodeMapped`) claim nothing
  there: the array may then map the volume to two new nodes. An unexport that
  fails at any other moment is not counted. `slice.Labels` is shared too:
  `SendUnexport` may reach the new server.
- `NodeStatus` is reduced to three values; how it gets there is `NodeMonitor`.
- `met` records what the code has no defence against, so that each property
  can say exactly what it excludes: `undone` (an unexport or a dump reached the
  node a volume is, or is being moved to), `overlap` (two recoveries at the
  same time), `outdated` (a `reassignVolume` went on to unmap with a copy of a
  slice that was moved meanwhile), `returned` (it did so when the slice was back
  at the node it unmaps), `cornered` (no node left to move to), `lost` (the
  listing or an update of a slice failed, or both attempts of a task).

### SharedNfs

Every action of `Controller` and of `NodeRecovery` over one `Cluster`.
`PVLock` (requests) and `arrayLock` (recovery) are two variables, because the
code locks two spellings of the ID. What couples the two: requests change
slices a recovery holds copies of (`Beside`), recovery sets the status that
`CheckNodeStatus` reads (`StatusAllows`), exports of both wait for each other
at the node (`Reassign`), and one restart ends both (`SharedCrash`). `raced`
collects the volumes that recovery or a dump touched in the middle of a
request.

### NodeStage

One worker. kubelet (external, modelled from the CSI order of calls that the
handlers rely on) makes calls with a deadline, gives up (`GiveUp`) and calls
again; `device` and `target` are what it was told. Handlers wait for `PVLock`
and `mountMutex`; `MountEnds`, `MountTimeout` and `FinishMount` are a mount
that ends, one whose context ends first, and one that ends after that. Mounts
on the staging path are counted, binds are kept as a stack of what they show.
`Restart` takes the locks and the handlers. A mount under way may go on, the
command of a bind may have ended before its answer was sent, and an unmount may
have been made (the branch of both unmounts that has the effect and ends in an
error).

`stray` marks the volumes on which a command had its effect after its call was
over, or a restart came between a mount or a bind and its answer, or `umount`
reported "exit status 32" without unmounting, or the listing of mounts failed
while the volume was mounted.

### VolumeNames

`VolumeIDToServiceName` is the composition of its four steps; IDs are sequences
over a small alphabet in which each class of characters that the regular
expressions tell apart has a member, and 63 is the constant `MaxName`. `exports`
is the file as the prefix matching of `exports.go` sees it: the export is
added and looked for with a slash at the end, and deleted without it.

## 3. Runs

| Run | Instance | Shows |
|---|---|---|
| `controller_faults` | 1 volume, 2 nodes, 2 failures or restarts | type, exclusion, `AttachedHasServer`, `SliceNodePublished`, the invariant of the proof, the refinement of `VolumeAttachment`, and `LockReleased` under fairness |
| `controller_fault_free` | 1 volume, 3 nodes, no failure | `CleanWhenDetached`, `AttachedIsServed`, `SingleServer`, and the invariant of their proofs |
| `controller_join_fault` | 1 failure | **violated**: one failed read starts a second server |
| `node_monitor` | 2 nodes, 2 bad pings, 3 failures | a node serves again only when dumped; it comes back; an outage is recovered |
| `nfs_server_sequential` | 2 volumes, 1 handler, 5 calls, 4 failures | a successful unexport removed the export; while nothing failed, calls do what they answer |
| `nfs_server_concurrent` | 2 volumes, 2 handlers, 4 calls, 2 failures | the former beside other exports and unexports; while nothing failed, so is what was exported, unless `generation` was lowered; the invariant of the proof |
| `nfs_server_regress` | 3 volumes, 2 handlers, 3 exports, no failure | **violated**: a lowered `generation` hides a needed resync |
| `node_recovery` | 2 volumes, 3 nodes, 2 recoveries, 1 failure or restart | every volume is moved to a node that is up, also by a second attempt; without failures evenly, and served there |
| `node_recovery_flapping` | 1 volume, 2 nodes, 2 recoveries, fairness | a node recovered twice at once: the slice names a node with the volume; recoveries end, also when no node is left |
| `shared_nfs` | 1 volume, 2 nodes, 1 recovery, 1 failure or restart | clients keep their server beside recovery; refinement; a moved volume is served and torn down where it is, and the invariant of that proof |
| `node_stage` | 2 volumes (6 and 1 calls), 1 pod, 2 handlers, 1 failure, fairness | what kubelet believes is so; every handler ends |
| `volume_names` | IDs of up to 3 of 5 characters, names of 4, 2 volumes | spellings agree; names are legal; exports are kept apart |

The violated properties are what the code's comments say (quoted under
`findings`); the counterexamples are short behaviours of the code.

Several properties hold only with a hypothesis, and the models show why. Each
of these is a behaviour of the code in which nothing more can be claimed:

- `CleanWhenDetached`, `AttachedIsServed` (no failure): an unpublish retried
  after the slice was deleted is answered with success while the mapping
  stays; a publish after a teardown that failed between the unexport and the
  deletion of the slice adds its label to a server that exports nothing.
- `ServedIsExported` (no failure): a retried export finds the entry in
  `/etc/exports` and is answered with success though `exportfs` never ran.
- `ServedUnlessRegressed` (`generation` not lowered): `nfs_server_regress` is
  what happens otherwise. It and `ServedIsExported` say nothing after a failure:
  a `DeleteExport` that is cut off between the truncation of `/etc/exports` and
  the rewrite loses the lines of other volumes.
- `UnexportedIsGone` with concurrent calls (no dump): a dump whose unmount
  fails puts back an entry that an unexport has just removed.
- `MovedIsServed` (not `undone`, not `outdated`): a late unexport, or the second
  dump of a node that already serves again, takes the export away from the new
  server; a `reassignVolume` that waited for the lock while another one moved
  the volume unmaps, maps and exports all the same, and leaves the volume mapped
  to a second node.
- `AllMoved`, `Spread` (no `overlap`, nothing `lost`): when a second node fails during a
  recovery, a volume moved to it after its slices were listed stays there, and
  counts that were replaced have lost their reserved slots.
- `SliceNodeMapped` (not `cornered`, not `returned`): with no node left, the
  volume is unmapped from its only server before the selection fails; and of
  three recoveries that overlap, the second may move the slice back to the node
  whose volumes the third, with its old copy, then unmaps. The proof attempt
  found this: two recoveries, as in the run, cannot show it.
- `ReleasedIsUnmounted`, and what a pod sees in `PublishedIsShared` (not
  `stray`): `NodePublishVolume` does not look whether the target path is bound.
  When the driver restarts after `mount --bind` and before the answer, kubelet
  publishes again, the second bind lies over the first, and the one `umount` of
  the unpublish leaves the first. After the unstage that bind makes
  `isAlreadyMounted` true: the next stage is answered without a mount, and a
  publish binds the node's own directory. A publish that kubelet gave up on and
  that binds late, and a mount that outlives its handler, lead to the same. That
  a published pod has some bind holds in all of these.
- `ExportsKeptApart` (IDs of one length that fit): unexporting a volume drops
  the line of every volume whose name begins with its name, and IDs cut to one
  name share it. A cut name may end in `-`.

*Bounds.* Volumes share nothing in the controller but the fault budget, so one
is enough there; two nodes are needed for a client that is not the server, the
third so that two clients remain when one leaves. Calls are unbounded in the
controller: the state space is finite. Two failures allow a failure and a
failed retry, or a failure and a restart. On the node two volumes are needed to see one call
disturb another; a lowered generation needs a third change by another
handler. Four unmount failures are one more than the loop of three allows.
In the concurrent run the calls and failures are cut to four and two, which
still covers a handler overtaken by two others and an interrupted retry.
The monitor's nodes share nothing but the controller's restarts and the
failure budget, so two show what one node's outage means to another; two bad
pings are what the code configures, and three failures allow an outage, a dump
that fails or is abandoned, and a restart. Pings are unbounded.
`Terminated` in `NfsServer` stands for the end of the bounded supply of calls,
so that a deadlock of the handlers is still reported.
In recovery, two volumes and three nodes are the least with a choice that a
reserved slot decides, and two recoveries the least that overlap; one failure
makes a first attempt fail and the second succeed. The flapping run has none:
overlapping recoveries with dumps and late calls are its subject.
Seven calls on a worker are two stages and a publish with its undoing, or a
call given up and repeated at each of them, beside another volume's stage.
Three characters of five classes are enough for an ID that is a prefix of
another, that looks like the prefix `nfs-`, or that is cut.

*Reductions.* Nodes, volumes, handlers and recoveries are only compared, so the
runs with `SYMMETRY` permute them; they check no liveness. The constraint
`StillClaimed` of `node_recovery` cuts behaviours only where `met` and `faults`,
which never shrink, already make its invariants vacuous. The view `LiveState` of
`shared_nfs` identifies states that differ in variables no later step or
property of the run reads: locals of handlers that returned, counts nobody will
look at in a first or second attempt, and the hosts of a volume of which nothing is claimed any more.

*Deadlock* is checked except in four runs. In both runs of `NodeRecovery` the
supply of recoveries ends; in `node_stage` that of kubelet's calls; in
`node_monitor` every pinger may have given up on its Node, after which nothing
happens.

*Fairness.* In `controller_faults`: weak fairness of the steps of each handler past
`LockPV`: it is a running goroutine whose external calls are answered or end
with the request's context (`CallExport` ends its loop on `ctx.Done()`), and
of `FinishLate`: a node's handler ends. Nothing is assumed of the
orchestrator, nor of who wins the polling of `LockPV`, which has no queue; that
a given request gets the lock is therefore not claimed. In `node_monitor`: weak
fairness of each pinger, an endless loop whose pings end by their own timeout,
of the end of an abandoned dump, and of `BeforeServe`, since Kubernetes starts
the container again. Nodes may stay away or come and go, so
both liveness properties are conditional on the node's being up, or refusing
connections, for good, and on its having a pinger. A node that stays silent gets no guarantee: such pings
are not counted (`nodemonitor.go:147`). In `node_recovery_flapping`: weak
fairness of `nodeRecovery` and of each task, whose calls end with the context of
180 seconds. In `node_stage`: weak fairness of each handler's steps except the
end of a mount, which may hang forever; every call of kubelet has a deadline.

## 4. Proofs

TLAPS proves the theorems below for every value of the constants; `PROJECT.json`
lists them with the property each states. Every safety invariant of the passing
runs is proved, except `ServedIsExported` of the sequential run, of which
`ServedUnlessRegressed` is proved instead. The assumptions are those of the
modules: `None` is no node, recovery, handler or pod, the set of volumes is
finite (`VolumesAssumption`, needed where exports are counted), bounds are
natural numbers, `MaxBadPing >= 1`, and array IDs are sequences of the
characters that `VolumeNames` tells apart, with `MaxName >= 1`. Hypotheses of
single theorems are named with them. Each inductive invariant was first checked
with TLC on the instances of section 3.

### Requests

`ControllerProofs`: `TypeCorrect`, `MutualExclusion`, `ClientsKeepServer`,
`ServerIsMapped` (`TypeOK`, `PVLockExclusion`, `AttachedHasServer`,
`SliceNodePublished`), all from `Inductive` (`IndInv`).

`AttachedHasServer` is not inductive: that a teardown may delete the Service
follows from a label count made several calls earlier. `IndInv` adds `LockInv`
(a handler past `LockPV` is the one recorded in `PVLock`, so a handler of
another node cannot run between its reads and its writes) and `StageInv`: what
the handler read is still so (`SliceFresh`, `ServiceFresh`), a teardown past
the count has a Service with no clients, and the array mapping and the slice are
made and removed in opposite orders. Each action is a lemma: it keeps its own
request's conjuncts by its guard, those of other requests for the same volume
because they are not past the lock, and those of other volumes because it does
not touch them. After a restart no handler is past the lock, so the stage
conjuncts hold vacuously and only the two safety conjuncts remain, which each
handler keeps at every step.

`AttachmentProofs`:

- `RequestsImplementAttachment`: `Controller` implements `VolumeAttachment`.
  Each write of a slice or a Service is one abstract step, justified by
  `ClientInv`, the part of `IndInv` that does not say where the server is;
  every other step is a stutter.
- `FaultFree`: `FaultFreeInv`, and from it `OneServer`, `ClientsAreServed` and
  `DetachLeavesNothing`: `SingleServer`, `AttachedIsServed` and
  `CleanWhenDetached` hold as long as `faults = 0`, whatever `MaxFaults` is.

`FaultFreeInv` says what a volume looks like at each program point of the
handler that holds its lock (`BuiltAt`), and that without such a handler it is
`Clean` or `Served`. The three properties need all of it: a server is single
because a publish that builds one starts from a clean volume, which is what the
last teardown left.

### Requests beside recovery

`SharedNfsProofs`: `ClientsKeepServerThroughMoves` (`AttachedHasServer`) and
`SharedImplementsAttachment` (`ImplementsAttachment`) of `SharedSpec`, for any
recoveries and failures. Requests and recovery exclude each other nowhere, so
`IndInv` fails here (a slice may be moved between a handler's read and its
write). `SharedInv` keeps what survives: `ClientInv`, and `RecoveryKnown` of
recovery: a task whose copy of a slice is the stored one (`fresh`) has a slice
that exists, and past `Map` it has a node. Recovery then writes nothing the
requests read but a slice that exists, over which it puts a node: a `Move`. And
a request that deletes or creates a slice takes the task out of `fresh`
(Kubernetes' refusal of an outdated copy). Without that refusal the proof fails at
`UpdateEndpointSlice`, since an update could revive a deleted slice.

`RequestsAndMovesTakeTurns` (`SettledInv`), and from it `MovedClientsAreServed`
(`AttachedStaysServed`) and `MovedVolumesLeaveNothing` (`CleanAfterMove`). What
holds of a quiet volume depends on who was at it before, so the two properties
need the states in between as well. `Undisturbed(v)` joins them for a volume
outside `raced`: a handler or a task is at it, never both; `RequestAt` says how
far a handler has built or taken down the server (as `BuiltAt` does without
recovery, but silent on exports that a cancelled unexport left behind on old
servers), `MoveAt` how far the task has moved it from the copy of the slice it
listed; between two of them the volume is `Up` or `Down`. `OneRecovery` (else
`overlap` is met) makes the task the only one of its volume. An overlap puts
the volume into `raced` and a dump or an unexport at the serving or selected
node is `undone`, so the proof has to show that nothing else disturbs a volume:
each handler's step fits its program point (`Fits`), each task's step its own
(`MoveStep`), and every other step is a frame (`Frame`, `HostsFrame`). The
volumes, nodes and recoveries are arbitrary, and the moves of one volume as many
as there are recoveries.

### Recovery

`NodeRecoveryProofs`, for any volumes, nodes, recoveries and failures:

- `TypeCorrect`, from `Inductive` (`RecoveryInv`): `reassignVolume` past `Map`
  has a node (so no mapping and no node call is of the empty name), holds the
  lock of its volume, and a fresh copy names the failed node.
- `MovesStayMapped` (`SliceNodeMapped`), from `MappedInv`: between the unmapping
  of the old node and the update of the slice the task's copy is fresh, or the
  slice's node is mapped. This is where the case of three recoveries came up:
  a task without a fresh copy may unmap the node the slice has returned to.
- `MovesAreServed` (`MovedIsServed`), from `MovedInv`: how far a move has come
  at each step of the one task that holds the volume's lock.
- `NothingLeftBehind` (`AllMoved`), from `AllMovedInv`: a slice that names a
  node in recovery is still to be listed, or has a task of the running recovery
  of that node (`TrackedVolume`), and no count is of a node in recovery
  (`Eligible`). This holds with failures and restarts.
- `MovesAreSpread` (`Spread`), from `BalancedInv`: `exportCounts[n]` is the
  number of volumes `n` exports or has been chosen for (`Load`), so reserving
  the lowest count keeps chosen nodes within one of all others (`Counted`).

### Node service, monitor, node mounts, names

`NfsServerProofs`, for any volumes, handlers, calls and failures:

- `Inductive` and `UnexportRemoves` (`IndInv`, `UnexportedIsGone`), under the
  hypotheses that calls use the nfs form of the ID and that no dumping Ping
  arrives (section 3 says what a concurrent dump does; an unexport under the
  array form of the ID is not excluded by `nfsPVLock`).
  The invariant is the correctness of skipping `exportfs -r`: no handler holds a
  generation ahead of the package variable (`GenInv`), so a deletion's number is
  new when it is made, and as long as `syncedGeneration` is below it the resync
  is not skipped; once it is not below, a resync ran after the deletion and the
  kernel has dropped the entry (`DeletedInv`). `LockInv` and `NotExporting`
  exclude an export of the volume meanwhile.
- `TypeCorrect` and `UnexportUnmounts` (`UnexportedIsUnmounted`), without these
  hypotheses, from `NodeInv`: until something fails, no mount outlives its
  handler, and a volume in `gone` has no export under way that could mount it.
- `ExportServes` (`ServedUnlessRegressed`), for any number of handlers side by
  side, under the hypotheses of `UnexportRemoves`, from `IndInv` and `ServeInv`:
  the generation an entry was added with is ahead of `syncedGeneration` until a
  resync has given the kernel the entry (`AddInv`), what `ExportNfsVolume` reads
  back is not behind it while nothing lowers `generation`, and an entry the
  kernel lacks belongs to a handler that will resync (`LackInv`), so that the
  idempotent answer is right too. The unlocked assignment is thus the only way
  in which concurrent exports and unexports break `ServedIsExported`, and
  `nfs_server_regress` shows that it does.

`NodeMonitorProofs`, for any nodes and failures:

- `Inductive`: `IndInv` always holds.
- `DumpedBeforeServing`: `AvailableIsDumped` always holds, that is, a node that
  may become a server again has dropped what it exported before its volumes
  were moved, unless a dump was abandoned or passed over an entry, or the
  controller restarted since.

The invariant relates three of the pinger's variables: while a stale export is
left the node is in recovery, the dump flag is set, and a ping under way
already carries it (`DumpPending`); so the good ping that ends the recovery
is one that dumped. `LateIsForgotten` is needed because a dump that is still
running may put an entry back, and `OffUntilReady` because `BeforeServe` starts
the pingers anew.

`NodeStageProofs`, for any volumes, pods, handlers, calls and failures:
`TypeCorrect`, `ReleaseUnmounts` (`ReleasedIsUnmounted`) and `PublishShares`
(`PublishedIsShared`), from `Inductive` (`StageInv`). What kubelet believes is
not inductive: the handler of a call that was given up may still be waiting for
the lock. `StageInv` adds that a handler past the lock owns it (`LockInv`), that
kubelet awaits at most one call of a path and noted its doubt before making it
(`KubeletInv`), and that mounts and views agree whenever no awaited call is
between them (`MountInv`, and `AgreeInv` in `BindInv`). That a published path is
bound needs no exception for `stray` (`KeptInv`): a bind is only taken away for a
call that kubelet waits for.

`VolumeNamesProofs`, for any array IDs, any limit on names and any number of
volumes: `SpellingsMeet`, `NamesAreLegal` and `EntriesKeptApart`
(`SpellingsAgree`, `ServiceNameLegal`, `ExportsKeptApart`). They rest on what
`VolumeIDToServiceName` does position by position (`NameParts`, `PlainName`);
no recursion is needed, since its steps are given by first and last positions.
That such positions exist in a finite sequence comes from the well-foundedness
of the natural numbers (`LastPosition`).

### Only model-checked

- `ServedIsExported` of a node that handles one call at a time, dumps and both
  forms of the ID included.
- The liveness properties (`LockReleased`, `NodeComesBack`,
  `OutageIsRecovered`, `RecoveryEnds`, `HandlersEnd`): liveness under fairness
  and `ENABLED` are beyond the installed prover.

Induction over data and `RECURSIVE` operators are out of the prover's reach too;
the modules use neither.

## 5. Not modelled

| Part | Why |
|---|---|
| Start-up in node mode, `New`, environment | creates a directory and starts the listener, once; no later change of state |
| Requests of `CreateVolume`, stub methods | delegated to the array driver; constants |
| Identity, gRPC stubs, mocks, executors | no state; generated or thin wrappers |
| `ExportMultipleNfsVolumes`, `UnexportMultipleNfsVolumes`, `restartNFSMountd` | sequences of the single calls; no caller |
| `nodeIPAddress` as a Go map without a lock | a race on it ends the process, which is a restart |
| Options of `/etc/exports` lines, contents of Kubernetes objects beyond the server and the clients | no property depends on them |
| A reboot of a node's host | the program has no step for it: pings and recovery see an outage |

## 6. Plan

Modelling is complete up to the table above. What is left is one
proof: the exclusion of concurrent handlers by form of the ID in `NfsServer`,
to weaken the hypotheses of `UnexportRemoves` and `ExportServes`.
