----------------------------- MODULE SharedNfs ------------------------------
(***************************************************************************)
(* The whole controller: publish and unpublish requests (Controller) and   *)
(* node recovery (NodeRecovery) on the same EndpointSlices, Services,      *)
(* array mappings and nodes.  They do not exclude each other: requests     *)
(* lock a volume under its CSI handle, reassignVolume under its array ID.  *)
(* What holds of a volume all the same is AttachedHasServer and the        *)
(* refinement of VolumeAttachment; the rest is claimed of volumes whose    *)
(* requests and recoveries did not overlap.                                *)
(***************************************************************************)
EXTENDS Controller

CONSTANT Recoveries

VARIABLES
    status, phase, failed, exportCounts, step, retried, selected, fresh,
    cleanup, sent, arrayLock, reserved, met,    \* see NodeRecovery
    raced       \* volumes recovery, or a dump, touched in the middle of a request

R == INSTANCE NodeRecovery

requestVars == <<PVLock, pc, localVars, late, callerVars>>
recoveryVars == <<status, phase, failed, exportCounts, step, retried, selected,
                  cleanup, sent, arrayLock, reserved, met>>
sharedVars == <<vars, recoveryVars, fresh, raced>>

SharedInit == Init /\ R!InitRecovery /\ raced = {}

InRequest == {v \in Volumes : \E n \in Nodes : InCS(<<v, n>>)}
InRecovery == {v \in Volumes : ~R!Untouched(v)}

-----------------------------------------------------------------------------

\* A step of the requests.  A listed slice that it deletes or creates is no
\* longer the one a recovery holds a copy of.
Beside(A) ==
    /\ A
    /\ R!KeepFresh(fresh)
    /\ raced' = raced \cup {v \in InRequest' : v \in InRecovery}
    /\ UNCHANGED recoveryVars

\* GetNodeStatus: a node in recovery does not become a server.
StatusAllows(r) == status[Node(r)] # "recovery"

Request(r) == Beside(
    /\ Publish(r) \/ Unpublish(r)
    /\ pc[r] = "checkStatus" /\ pc'[r] = "arrayPublish" => StatusAllows(r))

Arrive(r) == Beside(CallPublish(r) \/ CallUnpublish(r) \/ LockPV(r))

Late(v, call) == Beside(call \in late[v] /\ FinishLate(v, call))

\* A step of recovery.
Alone(A) ==
    /\ A
    /\ raced' = raced \cup {v \in InRequest : v \in InRecovery'}
    /\ UNCHANGED requestVars

\* The export of reassignVolume takes the node's lock that requests take too.
Reassign(t) == Alone(
    /\ R!Reassign(t)
    /\ step[t] = "export" /\ step'[t] = "update" => NodeFree(t[2], selected[t]))

Recover(r) == Alone(R!Recovery(r))

Answer(n) ==
    /\ R!GoodPing(n)
    /\ raced' = raced \cup InRequest
    /\ UNCHANGED requestVars

RecoveryBegins == \E r \in Recoveries, n \in Nodes : Alone(R!StartRecovery(r, n))
Unexports == \E t \in R!Tasks : Alone(R!SendUnexport(t))

SentEnds == \E v \in Volumes : \E call \in sent[v] :
    /\ R!FinishSent(v, call)
    /\ raced' = raced \cup {w \in InRequest : w = v}
    /\ UNCHANGED requestVars

\* The process that runs both dies.
SharedCrash ==
    /\ R!Restart
    /\ Crash \/ ((\A r \in Requests : pc[r] = "idle") /\ UNCHANGED requestVars)
    /\ UNCHANGED raced

SharedNext ==
    \/ \E r \in Requests : Request(r) \/ Arrive(r)
    \/ \E v \in Volumes, call \in NodeCalls : Late(v, call)
    \/ \E t \in R!Tasks : Reassign(t)
    \/ \E r \in Recoveries : Recover(r)
    \/ \E n \in Nodes : Answer(n)
    \/ RecoveryBegins \/ Unexports \/ SentEnds
    \/ SharedCrash

SharedSpec == SharedInit /\ [][SharedNext]_sharedVars

-----------------------------------------------------------------------------
(* Properties *)

\* An idle volume whose requests and recoveries did not overlap.
Settled(v) ==
    /\ faults = 0 /\ met = {} /\ v \notin raced
    /\ Quiet(v) /\ v \notin InRecovery

\* When the last client leaves a volume that was moved, the slice, the Service
\* and the array mapping of the new server are gone: ControllerUnpublishVolume
\* tears down the server the slice names now, not the one publish made.
CleanAfterMove ==
    \A v \in Volumes : Settled(v) /\ (\A n \in Nodes : <<v, n>> \in detached) =>
        slice[v] = None /\ ~service[v].exists /\ published[v] = {}

\* An attached client of a volume that was moved is served by the node the
\* slice names, the only one the array maps the volume to.
AttachedStaysServed ==
    \A r \in attached : Settled(Vol(r)) =>
        LET v == Vol(r) IN
        published[v] = {slice[v]} /\ slice[v] \in mounted[v] \cap exported[v]

-----------------------------------------------------------------------------
(* The inductive invariant behind CleanAfterMove and AttachedStaysServed:    *)
(* the states of a volume that nobody raced for.                             *)

Objects(v) == slice[v] # None /\ service[v].exists /\ service[v].clients # {}
Serves(v, n) == published[v] = {n} /\ n \in mounted[v] \cap exported[v]

Up(v)   == Objects(v) /\ Serves(v, slice[v])
Down(v) == NoObjects(v) /\ published[v] = {}

\* How far the handler past LockPV has built the server, or taken it down.
RequestAt(r) ==
    LET v == Vol(r) n == Node(r) s == sliceRead[r] IN
    /\ pc[r] \in {"getNode", "pubGetSlice", "unpubGetSlice"} => Up(v) \/ Down(v)
    /\ pc[r] \in {"pubGetService", "addNode"} => Up(v)
    /\ pc[r] \in {"unpubGetService", "removeNode"} => Up(v) /\ slice[v] = s
    /\ pc[r] \in {"checkStatus", "arrayPublish"} => Down(v)
    /\ pc[r] = "export" => NoObjects(v) /\ published[v] = {n}
    /\ pc[r] = "createSlice" => NoObjects(v) /\ Serves(v, n)
    /\ pc[r] = "createService" => slice[v] = n /\ ~service[v].exists /\ Serves(v, n)
    /\ pc[r] \in {"unexport", "deleteSlice"} => service[v].exists /\ published[v] = {s}
    /\ pc[r] = "deleteService" => slice[v] = None /\ published[v] = {s}
    /\ pc[r] = "arrayUnpublish" => NoObjects(v) /\ published[v] = {s}

\* A node that was told it is detached has no client/ label.
Told(r) ==
    /\ r \in detached => Node(r) \notin service[Vol(r)].clients
    /\ pc[r] \in {"pubLock"} \cup PublishLabels => r \notin detached

\* How far reassignVolume has moved the server, from the copy of the slice
\* that it listed.
MoveAt(t) ==
    LET v == t[2] n == selected[t] IN
    /\ R!Active(t) => t \in fresh
    /\ step[t] \in {"lock", "find", "unmap"} => Up(v) /\ slice[v] = failed[t[1]]
    /\ step[t] \in {"unmap", "map", "export", "update"} => n # None
    /\ step[t] = "map" => Objects(v) /\ published[v] = {}
    /\ step[t] = "export" => Objects(v) /\ published[v] = {n}
    /\ step[t] = "update" => Objects(v) /\ Serves(v, n)

\* Either a handler or a task is at the volume, and has left the traces of its
\* program point, or neither is and the volume is served or gone.
Undisturbed(v) ==
    /\ v \in InRequest => v \notin InRecovery
    /\ v \notin InRequest /\ v \notin InRecovery => Up(v) \/ Down(v)
    /\ \A n \in Nodes : RequestAt(<<v, n>>) /\ Told(<<v, n>>)
    /\ \A r \in Recoveries : MoveAt(<<r, v>>)
    /\ late[v] = {} /\ \A call \in sent[v] : call.op = "unexport"

\* One recovery at a time, and the tasks are its own.
OneRecovery ==
    /\ \A r, s \in Recoveries : R!Running(r) /\ R!Running(s) => r = s
    /\ \A t \in R!Tasks : step[t] # "none" => phase[t[1]] \in {"count", "moving"}

Turns == OneRecovery /\ \A v \in Volumes \ raced : Undisturbed(v)

\* While nothing failed and no mishap happened, requests and recoveries that
\* share no lock take turns at every volume they did not race for.
SettledInv == faults = 0 /\ met = {} => Turns
=============================================================================
