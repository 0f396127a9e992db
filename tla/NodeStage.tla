----------------------------- MODULE NodeStage ------------------------------
(***************************************************************************)
(* The mounts of one worker node that uses shared volumes (nfs/node.go):   *)
(* NodeStageVolume mounts a volume's NFS export on the staging path,       *)
(* NodePublishVolume binds the staging path to a pod's target path, and    *)
(* NodeUnpublishVolume and NodeUnstageVolume undo that.                    *)
(*                                                                         *)
(* kubelet makes the calls.  It orders them (no publish before a stage     *)
(* succeeded, no unstage before every unpublish did) and has at most one   *)
(* call at a time for a path, but gives up on a call at its deadline: the  *)
(* handler goes on with a context that is done, and kubelet, not knowing   *)
(* what came of it, calls again.  A mount of a server that does not answer *)
(* may never end.                                                          *)
(***************************************************************************)
EXTENDS Naturals, Sequences

CONSTANTS
    Volumes,
    Pods,       \* a volume has one target path for each pod
    Handlers,   \* goroutines that handle kubelet's calls
    None,
    MaxCalls,   \* [Volumes -> Nat]: bound on kubelet's calls for the volume
    MaxFaults   \* bound on failing commands and API calls, and on restarts

ASSUME NodeStageAssumption == None \notin Handlers \cup Pods /\ MaxFaults \in Nat

VARIABLES
    staging,    \* [Volumes -> Nat]: NFS mounts on the staging path, one over the other
    bound,      \* [Volumes -> [Pods -> Seq(Source)]]: binds on the target path, top first
    late,       \* [Volumes -> Nat]: mount commands whose handler is gone
    PVLock,     \* [Volumes -> Handlers \cup {None}]
    mountMutex, \* Handlers \cup {None}
    pc, call,   \* [Handlers -> ...]: next step of the handler, and its request
    gone,       \* SUBSET Handlers: the context is done, kubelet has given up
    device,     \* [Volumes -> View]: what kubelet knows of the staging path
    target,     \* [Volumes -> [Pods -> View]]: and of the target paths
    stray,      \* SUBSET Volumes: an effect came after its call was over, was cut off
                \* from its answer by a restart, or was misreported
    calls,      \* [Volumes -> Nat]: calls made
    faults

mountVars   == <<staging, bound, late>>
handlerVars == <<PVLock, mountMutex, pc, call, gone>>
kubeletVars == <<device, target, calls>>
vars == <<mountVars, handlerVars, kubeletVars, stray, faults>>

\* What a bind shows: the NFS export, or the node's own directory when nothing
\* is mounted on the staging path.
Source == {"nfs", "local"}
Labels == {"idle", "lock", "service", "check", "mutex", "mount", "umount", "bind", "unbind"}
Ops    == {"stage", "unstage", "publish", "unpublish"}
View   == {"none", "uncertain", "done", "leaving"}

NoCall == [op |-> "stage", v |-> None, p |-> None]
Requests == [op : {"stage", "unstage"}, v : Volumes, p : {None}]
            \cup [op : {"publish", "unpublish"}, v : Volumes, p : Pods]

TypeOK ==
    /\ staging \in [Volumes -> Nat] /\ late \in [Volumes -> Nat]
    /\ bound \in [Volumes -> [Pods -> Seq(Source)]]
    /\ PVLock \in [Volumes -> Handlers \cup {None}]
    /\ mountMutex \in Handlers \cup {None}
    /\ pc \in [Handlers -> Labels] /\ call \in [Handlers -> Requests \cup {NoCall}]
    /\ gone \subseteq Handlers /\ stray \subseteq Volumes
    /\ device \in [Volumes -> View] /\ target \in [Volumes -> [Pods -> View]]
    /\ calls \in [Volumes -> Nat] /\ faults \in 0..MaxFaults

Init ==
    /\ staging = [v \in Volumes |-> 0] /\ late = [v \in Volumes |-> 0]
    /\ bound = [v \in Volumes |-> [p \in Pods |-> <<>>]]
    /\ PVLock = [v \in Volumes |-> None] /\ mountMutex = None
    /\ pc = [h \in Handlers |-> "idle"] /\ call = [h \in Handlers |-> NoCall]
    /\ gone = {} /\ stray = {}
    /\ device = [v \in Volumes |-> "none"]
    /\ target = [v \in Volumes |-> [p \in Pods |-> "none"]]
    /\ calls = [v \in Volumes |-> 0] /\ faults = 0

Works == faults' = faults
Fails == faults < MaxFaults /\ faults' = faults + 1

-----------------------------------------------------------------------------
(* kubelet *)

\* Calls kubelet is waiting for.
Pending == {call[h] : h \in {g \in Handlers : pc[g] # "idle" /\ g \notin gone}}

\* A pod that is being unpublished does not come back.
Permitted(req) ==
    /\ \A other \in Pending :
           other.v = req.v => other.p # None /\ req.p # None /\ other.p # req.p
    /\ CASE req.op = "stage"     -> device[req.v] # "done"
         [] req.op = "unstage"   -> /\ device[req.v] # "none"
                                    /\ \A p \in Pods : target[req.v][p] = "none"
         [] req.op = "publish"   -> /\ device[req.v] = "done"
                                    /\ target[req.v][req.p] \in {"none", "uncertain"}
         [] req.op = "unpublish" -> target[req.v][req.p] # "none"

\* kubelet's view of the path req is about becomes view.
Learn(req, view) ==
    IF req.p = None
    THEN device' = [device EXCEPT ![req.v] = view] /\ UNCHANGED target
    ELSE target' = [target EXCEPT ![req.v][req.p] = view] /\ UNCHANGED device

Call(h, req) ==
    /\ pc[h] = "idle"
    /\ calls[req.v] < MaxCalls[req.v] /\ calls' = [calls EXCEPT ![req.v] = @ + 1]
    /\ Permitted(req)
    /\ pc' = [pc EXCEPT ![h] = "lock"]
    /\ call' = [call EXCEPT ![h] = req]
    /\ Learn(req, IF req.op = "unpublish" THEN "leaving" ELSE "uncertain")
    /\ UNCHANGED <<mountVars, PVLock, mountMutex, gone, stray, faults>>

\* The deadline of the call passes.
GiveUp(h) ==
    /\ pc[h] # "idle" /\ h \notin gone /\ gone' = gone \cup {h}
    /\ UNCHANGED <<mountVars, PVLock, mountMutex, pc, call, kubeletVars, stray, faults>>

-----------------------------------------------------------------------------
(* Locks and replies *)

Goto(h, label) == pc' = [pc EXCEPT ![h] = label]

FirstStep(op) ==
    CASE op = "stage"   -> "service"
      [] op = "unstage" -> "umount"
      [] op = "publish" -> "bind"
      [] OTHER          -> "unbind"

LockPVShared(h) ==
    /\ pc[h] = "lock"
    /\ PVLock' = [PVLock EXCEPT ![call[h].v] = h]
    /\ Goto(h, FirstStep(call[h].op))
    /\ UNCHANGED <<mountVars, mountMutex, call, gone, kubeletVars, stray, faults>>

\* LockPV waits for as long as it takes, also once the context is done.
LockPV(h) ==
    /\ pc[h] = "lock" /\ PVLock[call[h].v] = None
    /\ PVLock' = [PVLock EXCEPT ![call[h].v] = h]
    /\ Goto(h, FirstStep(call[h].op))
    /\ UNCHANGED <<mountVars, mountMutex, call, gone, kubeletVars, stray, faults>>

\* The handler returns and releases the lock; kubelet sees the answer unless it
\* has given up, and knows where it stands if the answer is a success.
Reply(h, ok) ==
    /\ pc' = [pc EXCEPT ![h] = "idle"]
    /\ call' = [call EXCEPT ![h] = NoCall]
    /\ gone' = gone \ {h}
    /\ PVLock' = [PVLock EXCEPT ![call[h].v] = None]
    /\ IF ok /\ h \notin gone
       THEN Learn(call[h], IF call[h].op \in {"stage", "publish"} THEN "done" ELSE "none")
       ELSE UNCHANGED <<device, target>>
    /\ UNCHANGED calls

Ok(h)    == Reply(h, TRUE)
Error(h) == Reply(h, FALSE)

\* The handler goes on to label.
Step(h, label) == Goto(h, label) /\ UNCHANGED <<PVLock, call, gone, kubeletVars>>

-----------------------------------------------------------------------------
(* NodeStageVolume *)

\* A done context ends the call here, a retry after a timeout included.
GetService(h) ==
    /\ pc[h] = "service"
    /\ \/ h \notin gone /\ Works /\ Step(h, "check")
       \/ h \in gone /\ Works /\ Error(h)
       \/ Fails /\ Error(h)
    /\ UNCHANGED <<mountVars, mountMutex, stray>>

UmountUnchecked(v) == [staging EXCEPT ![v] = @ - 1]
Umount(v) == [staging EXCEPT ![v] = IF @ > 0 THEN @ - 1 ELSE 0]

\* The volume's export is mounted somewhere: staged, or bound to a pod.
isMounted(v) ==
    \/ staging[v] > 0
    \/ \E p \in Pods : \E i \in DOMAIN bound[v][p] : bound[v][p][i] = "nfs"

isAlreadyMountedOnError(h) ==
    LET v == call[h].v IN
    /\ pc[h] = "check"
    /\ \/ isMounted(v) /\ Works /\ Ok(h) /\ UNCHANGED <<staging, stray>>
       \/ ~isMounted(v) /\ Works /\ Step(h, "mutex") /\ UNCHANGED <<staging, stray>>
       \/ Fails /\ Ok(h) /\ UNCHANGED <<staging, stray>>
       \/ Fails /\ ~isMounted(v) /\ Step(h, "mutex") /\ staging' = Umount(v) /\ UNCHANGED stray
    /\ UNCHANGED <<bound, late, mountMutex>>

\* Without a listing the volume is taken not to be mounted; when the staging
\* path cannot be created it is unmounted once.
isAlreadyMounted(h) ==
    LET v == call[h].v IN
    /\ pc[h] = "check"
    /\ \/ isMounted(v) /\ Works /\ Ok(h) /\ UNCHANGED <<staging, stray>>
       \/ ~isMounted(v) /\ Works /\ Step(h, "mutex") /\ UNCHANGED <<staging, stray>>
       \/ /\ Fails /\ Step(h, "mutex") /\ UNCHANGED staging
          /\ stray' = IF isMounted(v) THEN stray \cup {v} ELSE stray
       \/ Fails /\ ~isMounted(v) /\ Step(h, "mutex") /\ staging' = Umount(v) /\ UNCHANGED stray
    /\ UNCHANGED <<bound, late, mountMutex>>

\* The mount commands of all volumes take turns.  None is started once the
\* context is done, and the call is tried again.
LockMount(h) ==
    /\ pc[h] = "mutex" /\ mountMutex = None
    /\ \/ h \notin gone /\ Step(h, "mount") /\ mountMutex' = h
       \/ h \in gone /\ Step(h, "service") /\ UNCHANGED mountMutex
    /\ UNCHANGED <<mountVars, stray, faults>>

\* The mount command ends while its handler waits for it.
MountEnds(h) ==
    /\ pc[h] = "mount" /\ mountMutex' = None
    /\ \/ Works /\ Ok(h) /\ staging' = [staging EXCEPT ![call[h].v] = @ + 1]
       \/ Fails /\ Error(h) /\ UNCHANGED staging
    /\ UNCHANGED <<bound, late, stray>>

\* The mount command is killed before it mounts, or while it may still do so.
MountOutlives(v, running) ==
    /\ late' = [late EXCEPT ![v] = IF running THEN @ + 1 ELSE @]
    /\ stray' = IF running THEN stray \cup {v} ELSE stray

MountTimeoutKeepsMutex(h) ==
    /\ pc[h] = "mount" /\ h \in gone
    /\ \E running \in BOOLEAN : MountOutlives(call[h].v, running)
    /\ Step(h, "service")
    /\ UNCHANGED <<staging, bound, mountMutex, faults>>

\* ctx.Done: the error says "timeout", so the call is tried again.
MountTimeout(h) ==
    /\ pc[h] = "mount" /\ h \in gone /\ mountMutex' = None
    /\ \E running \in BOOLEAN : MountOutlives(call[h].v, running)
    /\ Step(h, "service")
    /\ UNCHANGED <<staging, bound, faults>>

-----------------------------------------------------------------------------
(* NodeUnstageVolume, NodePublishVolume, NodeUnpublishVolume.  A command that is *)
(* given a context is not started once that is done; one that runs when the      *)
(* deadline passes is killed, with its effect or without.                        *)

\* Exit status 32 is taken for "not mounted"; it is also what a busy mount gives.
NodeUnstageVolume(h) ==
    LET v == call[h].v IN
    /\ pc[h] = "umount"
    /\ \/ h \notin gone /\ Works /\ Ok(h) /\ staging' = Umount(v) /\ UNCHANGED stray
       \/ h \notin gone /\ Works /\ Error(h) /\ staging' = Umount(v) /\ UNCHANGED stray
       \/ h \in gone /\ Works /\ Error(h) /\ UNCHANGED <<staging, stray>>
       \/ /\ h \notin gone /\ Fails /\ Ok(h) /\ UNCHANGED staging
          /\ stray' = stray \cup {v}
       \/ Fails /\ Error(h) /\ UNCHANGED <<staging, stray>>
    /\ UNCHANGED <<bound, late, mountMutex>>

\* mount --bind of the staging path over what the target path has: nothing looks
\* whether it is bound already.
Bind(v, p) == <<IF staging[v] > 0 THEN "nfs" ELSE "local">> \o bound[v][p]

\* The context is ignored: the bind happens also when kubelet has given up.
NodePublishVolume(h) ==
    LET v == call[h].v  p == call[h].p IN
    /\ pc[h] = "bind"
    /\ \/ /\ Works /\ Ok(h)
          /\ bound' = [bound EXCEPT ![v][p] = Bind(v, p)]
          /\ stray' = IF h \in gone THEN stray \cup {v} ELSE stray
       \/ Fails /\ Error(h) /\ UNCHANGED <<bound, stray>>
    /\ UNCHANGED <<staging, late, mountMutex>>

Unbind(v, p) == [bound EXCEPT ![v][p] = IF @ = <<>> THEN @ ELSE Tail(@)]

NodeUnpublishVolume(h) ==
    LET v == call[h].v  p == call[h].p IN
    /\ pc[h] = "unbind"
    /\ \/ h \notin gone /\ Works /\ Ok(h) /\ bound' = Unbind(v, p) /\ UNCHANGED stray
       \/ h \notin gone /\ Works /\ Error(h) /\ bound' = Unbind(v, p) /\ UNCHANGED stray
       \/ h \in gone /\ Works /\ Error(h) /\ UNCHANGED <<bound, stray>>
       \/ /\ h \notin gone /\ Fails /\ Ok(h) /\ UNCHANGED bound
          /\ stray' = stray \cup {v}
       \/ Fails /\ Error(h) /\ UNCHANGED <<bound, stray>>
    /\ UNCHANGED <<staging, late, mountMutex>>

-----------------------------------------------------------------------------

\* A mount command that outlived its handler mounts, or does not.
FinishMount(v) ==
    /\ late[v] > 0 /\ late' = [late EXCEPT ![v] = @ - 1]
    /\ staging' \in {staging, [staging EXCEPT ![v] = @ + 1]}
    /\ UNCHANGED <<bound, handlerVars, kubeletVars, stray, faults>>

\* The driver's container restarts: the locks and the handlers are gone, the
\* mounts stay.  A mount under way may still succeed, and the command of a bind
\* may have ended before its answer was sent.  (An unmount cut off from its
\* answer is the branch of the unmounts above that ends in Error.)
Restart ==
    LET mounting == {call[h].v : h \in {g \in Handlers : pc[g] = "mount"}}
        binding  == {call[h] : h \in {g \in Handlers : pc[g] = "bind"}} IN
    /\ Fails
    /\ PVLock' = [v \in Volumes |-> None] /\ mountMutex' = None
    /\ pc' = [h \in Handlers |-> "idle"] /\ call' = [h \in Handlers |-> NoCall]
    /\ gone' = {}
    /\ \E on \in SUBSET mounting, ended \in SUBSET binding :
           /\ late' = [v \in Volumes |-> IF v \in on THEN late[v] + 1 ELSE late[v]]
           /\ bound' = [v \in Volumes |-> [p \in Pods |->
                  IF [op |-> "publish", v |-> v, p |-> p] \in ended
                  THEN Bind(v, p) ELSE bound[v][p]]]
           /\ stray' = stray \cup on \cup {req.v : req \in ended}
    /\ UNCHANGED <<staging, kubeletVars>>

Handler(h) ==
    \/ LockPV(h) \/ GetService(h) \/ isAlreadyMounted(h) \/ LockMount(h)
    \/ MountEnds(h) \/ MountTimeout(h)
    \/ NodeUnstageVolume(h) \/ NodePublishVolume(h) \/ NodeUnpublishVolume(h)

Next ==
    \/ \E h \in Handlers : GiveUp(h) \/ Handler(h) \/ \E req \in Requests : Call(h, req)
    \/ \E v \in Volumes : FinishMount(v)
    \/ Restart

Spec == Init /\ [][Next]_vars

\* Every command but the mount of an NFS export ends, and every call has a
\* deadline; calls need not come, and a mount need not end.
Fairness ==
    \A h \in Handlers :
        /\ WF_vars(GiveUp(h)) /\ WF_vars(MountTimeout(h))
        /\ WF_vars(LockPV(h) \/ GetService(h) \/ isAlreadyMounted(h) \/ LockMount(h))
        /\ WF_vars(NodeUnstageVolume(h) \/ NodePublishVolume(h) \/ NodeUnpublishVolume(h))

FairSpec == Spec /\ Fairness

-----------------------------------------------------------------------------
(* Properties *)

\* A pod that kubelet holds to be published has the volume bound to its target
\* path, whatever calls were given up and made again, whatever failed and whenever
\* the driver restarted; and what it sees there is the shared volume and not a
\* directory of the node that happens to lie under the staging path, unless an
\* effect of a call came after it was over or was misreported, or a restart cut
\* off a bind or a mount from its answer: a bind left behind by those makes the
\* next stage skip its mount.
PublishedIsShared ==
    \A v \in Volumes, p \in Pods :
        target[v][p] = "done" =>
            bound[v][p] # <<>> /\ (v \notin stray => Head(bound[v][p]) = "nfs")

\* What kubelet knows to be unstaged or unpublished is not mounted, however many
\* calls of the same path were given up before, are still waiting for the lock,
\* or were cut off by a restart of the driver before their mount or bind was made
\* or after an unmount was.  A bind or a mount that was made and cut off from its
\* answer is excepted (stray): the repeated publish binds over it, and the one
\* unmount of an unpublish leaves the first bind.
ReleasedIsUnmounted ==
    \A v \in Volumes \ stray :
        /\ device[v] = "none" => staging[v] = 0
        /\ \A p \in Pods : target[v][p] = "none" => bound[v][p] = <<>>

\* Every handler ends, also when an NFS server never answers: one volume's mount
\* keeps neither its own lock nor the mutex all volumes share.
HandlersEnd == \A h \in Handlers : pc[h] # "idle" ~> pc[h] = "idle"
=============================================================================
