---------------------------- MODULE NodeRecovery ----------------------------
(***************************************************************************)
(* Recovery of the volumes of a node the pinger declared down              *)
(* (nfs/noderecovery.go): nodeRecovery lists the EndpointSlices that name  *)
(* the node, counts the exports of the other nodes, and runs               *)
(* reassignVolume for every slice in a goroutine of its own, twice if the  *)
(* first attempt fails.                                                    *)
(*                                                                         *)
(* A task <<r, v>> is the goroutine of recovery r for volume v.  A node    *)
(* that was declared down may be up all the same, and may answer pings     *)
(* again while its recovery runs: it is then asked to dump its exports,    *)
(* and a further outage starts another recovery of it beside the first.    *)
(***************************************************************************)
EXTENDS Cluster

CONSTANT Recoveries     \* the recoveries started in one behaviour

ASSUME RecoveriesAssumption == None \notin Recoveries

VARIABLES
    status,     \* [Nodes -> NodeStatuses]: what the pinger thinks of a node
    phase,      \* [Recoveries -> Phases]: where nodeRecovery is
    failed,     \* [Recoveries -> Nodes \cup {None}]: the node it recovers
    exportCounts, \* node -> number of exports and reserved slots (a Go map)
    step,       \* [Tasks -> Steps]: where reassignVolume is
    retried,    \* tasks in their second attempt
    selected,   \* [Tasks -> Nodes \cup {None}]: selectedNode, None: ""
    fresh,      \* tasks whose listed EndpointSlice is still the stored one
    cleanup,    \* tasks whose unexport goroutine has not called the node yet
    sent,       \* [Volumes -> SUBSET NodeCalls]: calls running on nodes unawaited
    arrayLock,  \* [Volumes -> Recoveries \cup {None}]: PVLock under the array volume ID
    reserved,   \* nodes selected since exportCounts was last replaced
    met         \* which of Mishaps have happened so far

hostVars == <<mounted, exported>>
taskVars == <<step, retried, selected, fresh, cleanup, arrayLock>>
countVars == <<exportCounts, reserved>>
vars == <<slice, service, published, hostVars, faults, status, phase, failed,
          countVars, taskVars, sent, met>>

Tasks == Recoveries \X Volumes
Rec(t) == t[1]
Vol(t) == t[2]

\* "recovery": inRecovery and dumpingExports are set; "dumping": only the latter.
NodeStatuses == {"up", "recovery", "dumping"}
Phases == {"idle", "list", "count", "moving", "over"}
Steps == {"none", "lock", "find", "unmap", "map", "export", "update",
          "done", "failed"}

\* "undone": an unexport or a dump reached the node a volume is, or is being
\* moved to; "overlap": two recoveries ran at the same time; "outdated": a
\* reassignVolume went on with a copy of a slice that was moved meanwhile, and
\* "returned": it did so when the slice was back at the node it unmaps;
\* "cornered": no node was left to move a volume to; "lost": the slices could
\* not be listed, a slice not be updated, or both attempts to move a volume
\* failed.
Mishaps == {"undone", "overlap", "outdated", "returned", "cornered", "lost"}

TypeOK ==
    /\ slice \in [Volumes -> Nodes \cup {None}]
    /\ service \in [Volumes -> [exists : BOOLEAN, clients : SUBSET Nodes]]
    /\ published \in [Volumes -> SUBSET Nodes]
    /\ mounted \in [Volumes -> SUBSET Nodes] /\ exported \in [Volumes -> SUBSET Nodes]
    /\ faults \in Nat
    /\ status \in [Nodes -> NodeStatuses] /\ phase \in [Recoveries -> Phases]
    /\ failed \in [Recoveries -> Nodes \cup {None}]
    /\ DOMAIN exportCounts \subseteq Nodes \cup {None}
    /\ \A n \in DOMAIN exportCounts : exportCounts[n] \in Nat
    /\ step \in [Tasks -> Steps] /\ selected \in [Tasks -> Nodes \cup {None}]
    /\ retried \subseteq Tasks /\ fresh \subseteq Tasks /\ cleanup \subseteq Tasks
    /\ sent \in [Volumes -> SUBSET NodeCalls]
    /\ arrayLock \in [Volumes -> Recoveries \cup {None}]
    /\ reserved \subseteq Nodes \cup {None} /\ met \subseteq Mishaps

\* The state of recovery in a controller that has just started.
InitRecovery ==
    /\ status = [n \in Nodes |-> "up"] /\ phase = [r \in Recoveries |-> "idle"]
    /\ failed = [r \in Recoveries |-> None]
    /\ exportCounts = [n \in {} |-> 0] /\ reserved = {}
    /\ step = [t \in Tasks |-> "none"] /\ selected = [t \in Tasks |-> None]
    /\ retried = {} /\ fresh = {} /\ cleanup = {}
    /\ sent = [v \in Volumes |-> {}]
    /\ arrayLock = [v \in Volumes |-> None]
    /\ met = {}

\* Every volume is served by some node, as ControllerPublishVolume leaves it.
Init ==
    /\ slice \in [Volumes -> Nodes]
    /\ service = [v \in Volumes |-> [exists |-> TRUE, clients |-> {slice[v]}]]
    /\ published = [v \in Volumes |-> {slice[v]}]
    /\ mounted = published /\ exported = published
    /\ faults = 0
    /\ InitRecovery

-----------------------------------------------------------------------------
(* The pinger's side *)

Running(r) == phase[r] \notin {"idle", "over"}
Active(t) == step[t] \notin {"none", "done", "failed"}

\* The nodes that serve a volume, or are to serve it.
Serving(v) == {slice[v]} \cup {selected[t] : t \in {u \in Tasks : Vol(u) = v /\ Active(u)}}

Note(mishap, happened) == met' = met \cup (IF happened THEN {mishap} ELSE {})

\* The pinger of node n starts nodeRecovery; n may be down, or only slow.
StartRecovery(r, n) ==
    /\ phase[r] = "idle" /\ status[n] # "recovery"
    /\ status' = [status EXCEPT ![n] = "recovery"]
    /\ phase' = [phase EXCEPT ![r] = "list"]
    /\ failed' = [failed EXCEPT ![r] = n]
    /\ Note("overlap", \E s \in Recoveries : Running(s))
    /\ UNCHANGED <<k8sVars, published, hostVars, faults, countVars, taskVars, sent>>

\* Volumes a dump of node n removes: those whose Service can be found.
Dumped(n) == {v \in Volumes : n \in exported[v] /\ service[v].exists}

Without(f, n, S) == [v \in Volumes |-> IF v \in S THEN f[v] \ {n} ELSE f[v]]

\* The node answers again: the first good ping ends inRecovery, the second one
\* in a row dumpingExports, and each of them dumps the node's exports.
GoodPing(n) ==
    /\ status[n] # "up"
    /\ \E s \in {"dumping"} \cup (IF status[n] = "dumping" THEN {"up"} ELSE {}) :
           status' = [status EXCEPT ![n] = s]
    /\ \/ /\ Works
          /\ exported' = Without(exported, n, Dumped(n))
          /\ mounted' = Without(mounted, n, Dumped(n))
          /\ Note("undone", \E v \in Dumped(n) : n \in Serving(v))
       \/ Fails /\ UNCHANGED <<hostVars, met>>
    /\ UNCHANGED <<k8sVars, published, phase, failed, countVars, taskVars, sent>>

-----------------------------------------------------------------------------
(* nodeRecovery *)

\* The slices whose label nodeIP names the failed node, as tasks.
GetEndpointSlices(r) == {<<r, v>> : v \in {w \in Volumes : slice[w] = failed[r]}}

\* An error ends the recovery.
ListSlices(r) ==
    /\ phase[r] = "list"
    /\ \/ /\ Works
          /\ step' = [t \in Tasks |-> IF t \in GetEndpointSlices(r) THEN "lock" ELSE step[t]]
          /\ fresh' = fresh \cup GetEndpointSlices(r)
          /\ phase' = [phase EXCEPT ![r] = "count"]
          /\ UNCHANGED met
       \/ /\ Fails /\ Note("lost", TRUE)
          /\ phase' = [phase EXCEPT ![r] = "over"]
          /\ UNCHANGED <<step, fresh>>
    /\ UNCHANGED <<k8sVars, published, hostVars, status, failed, countVars, retried,
                   selected, cleanup, arrayLock, sent>>

Exports(n) == Cardinality({v \in Volumes : n \in exported[v]})
OutOfRecoveryUnchecked == Nodes
OutOfRecovery == {n \in Nodes : status[n] # "recovery"}

\* getNodeExportCounts asks every node for its exports and replaces the map,
\* without exportCountsLock; a node that does not answer is left out.
CountExports(r) ==
    /\ phase[r] = "count"
    /\ \E answered \in SUBSET OutOfRecovery :
           /\ IF answered = OutOfRecovery THEN Works ELSE Fails
           /\ exportCounts' = [n \in answered |-> Exports(n)]
    /\ reserved' = {}
    /\ phase' = [phase EXCEPT ![r] = "moving"]
    /\ UNCHANGED <<k8sVars, published, hostVars, status, failed, taskVars, sent, met>>

\* All goroutines have reported on the channel done; failures are only logged.
EndRecovery(r) ==
    /\ phase[r] = "moving" /\ \A v \in Volumes : ~Active(<<r, v>>)
    /\ phase' = [phase EXCEPT ![r] = "over"]
    /\ step' = [t \in Tasks |-> IF Rec(t) = r THEN "none" ELSE step[t]]
    /\ selected' = [t \in Tasks |-> IF Rec(t) = r THEN None ELSE selected[t]]
    /\ retried' = {t \in retried : Rec(t) # r}
    /\ fresh' = {t \in fresh : Rec(t) # r}
    /\ Note("lost", \E v \in Volumes : step[<<r, v>>] = "failed")
    /\ UNCHANGED <<k8sVars, published, hostVars, faults, status, failed, countVars,
                   cleanup, arrayLock, sent>>

-----------------------------------------------------------------------------
(* reassignVolume *)

Goto(t, label) ==
    /\ step' = [step EXCEPT ![t] = label]
    /\ UNCHANGED <<retried, cleanup, arrayLock>>

UnlockPVForgotten(t) == UNCHANGED arrayLock
UnlockPV(t) == arrayLock' = [arrayLock EXCEPT ![Vol(t)] = None]

\* reassignVolume returns: UnlockPV and cancel are deferred, and an unexport
\* that was not sent yet fails with the cancelled context.
Return(t, label) ==
    /\ step' = [step EXCEPT ![t] = label]
    /\ UnlockPV(t)
    /\ cleanup' = cleanup \ {t}

Succeed(t) == Return(t, "done") /\ UNCHANGED retried

\* nodeRecovery calls reassignVolume once more after an error.
Error(t) ==
    /\ Return(t, IF t \in retried THEN "failed" ELSE "lock")
    /\ retried' = retried \cup {t}

\* The lock is taken under the array volume ID of the slice's annotation,
\* which is not the key the requests lock.
LockPV(t) ==
    /\ step[t] = "lock" /\ phase[Rec(t)] = "moving"
    /\ arrayLock[Vol(t)] = None
    /\ arrayLock' = [arrayLock EXCEPT ![Vol(t)] = Rec(t)]
    /\ step' = [step EXCEPT ![t] = "find"]
    /\ UNCHANGED <<k8sVars, published, hostVars, faults, status, phase, failed, countVars,
                   retried, selected, fresh, cleanup, sent, met>>

\* A node with the lowest count, or "" if the map is empty.
Lowest == {n \in DOMAIN exportCounts :
               \A m \in DOMAIN exportCounts : exportCounts[n] <= exportCounts[m]}
NextAvailable == IF DOMAIN exportCounts = {} THEN {None} ELSE Lowest

CountOf(n) == IF n \in DOMAIN exportCounts THEN exportCounts[n] ELSE 0

ReserveForgotten(n) == UNCHANGED exportCounts

\* Reserve a slot; also for "".
Reserve(n) ==
    exportCounts' = [m \in DOMAIN exportCounts \cup {n} |->
                         IF m = n THEN CountOf(n) + 1 ELSE exportCounts[m]]

\* The volume and its Service are read, findNextAvailableNode picks the new
\* server under exportCountsLock, and the unexport goroutine is started.
FindNextAvailableNode(t) ==
    /\ step[t] = "find"
    /\ \/ /\ Works /\ service[Vol(t)].exists
          /\ \E n \in NextAvailable :
                 /\ Reserve(n) /\ reserved' = reserved \cup {n}
                 /\ selected' = [selected EXCEPT ![t] = n]
                 /\ Note("cornered", n = None)
          /\ step' = [step EXCEPT ![t] = "unmap"]
          /\ cleanup' = cleanup \cup {t}
          /\ UNCHANGED <<retried, arrayLock>>
       \/ /\ (Works /\ ~service[Vol(t)].exists) \/ Fails
          /\ Error(t)
          /\ UNCHANGED <<countVars, selected, met>>
    /\ UNCHANGED <<k8sVars, published, hostVars, status, phase, failed, fresh, sent>>

UnexportCall(n) == [op |-> "unexport", node |-> n]

\* The goroutine calls UnexportNfsVolume at the address in slice.Labels, which
\* updateEndpointSlice overwrites; a node that cannot be reached is passed over.
SendUnexport(t) ==
    LET v == Vol(t) IN
    /\ t \in cleanup
    /\ cleanup' = cleanup \ {t}
    /\ \/ UNCHANGED sent
       \/ \E n \in {failed[Rec(t)]} \cup (IF step[t] = "update" THEN {selected[t]} ELSE {}) :
              sent' = [sent EXCEPT ![v] = @ \cup {UnexportCall(n)}]
    /\ UNCHANGED <<k8sVars, published, hostVars, faults, status, phase, failed, countVars,
                   step, retried, selected, fresh, arrayLock, met>>

NoteOutdated(t) ==
    met' = met \cup {mishap \in {"outdated", "returned"} :
                         /\ t \notin fresh
                         /\ mishap = "returned" => slice[Vol(t)] = failed[Rec(t)]}

UnmapSelectedNode(t) ==
    /\ step[t] = "unmap" /\ Works
    /\ UnmapFromHost(Vol(t), selected[t]) /\ Goto(t, "map")
    /\ UNCHANGED <<k8sVars, hostVars, status, phase, failed, countVars, selected, fresh,
                   sent, met>>

\* The array driver unmaps the volume from the failed node.  err is shared with
\* the unexport goroutine: its success at the wrong moment hides a failure, and
\* its failure makes an error of a success, here and in Map.  An unexport that
\* fails at such a moment is counted as the failure it is: these are the branches
\* in which the call has its effect and reassignVolume returns an error.
Unmap(t) ==
    LET v == Vol(t) n == failed[Rec(t)] IN
    /\ step[t] = "unmap"
    /\ \/ /\ Works /\ UnmapFromHost(v, n) /\ Goto(t, "map")
          /\ UNCHANGED <<hostVars, sent>>
       \/ /\ Fails /\ (UNCHANGED published \/ UnmapFromHost(v, n)) /\ Error(t)
          /\ UNCHANGED <<hostVars, sent>>
       \/ /\ Fails /\ UNCHANGED published /\ Goto(t, "map")
          /\ UnexportCall(n) \in sent[v]
          /\ sent' = [sent EXCEPT ![v] = @ \ {UnexportCall(n)}]
          /\ UnexportOn(v, n) /\ UnmountOn(v, n)
    /\ NoteOutdated(t)
    /\ UNCHANGED <<k8sVars, status, phase, failed, countVars, selected, fresh>>

MapUnchecked(t) ==
    /\ step[t] = "map" /\ Works
    /\ MapToHost(Vol(t), selected[t]) /\ Goto(t, "export")
    /\ UNCHANGED <<k8sVars, hostVars, status, phase, failed, countVars, selected, fresh,
                   sent, met>>

MapFailedNode(t) ==
    /\ step[t] = "map" /\ Works /\ selected[t] # None
    /\ MapToHost(Vol(t), failed[Rec(t)]) /\ Goto(t, "export")
    /\ UNCHANGED <<k8sVars, hostVars, status, phase, failed, countVars, selected, fresh,
                   sent, met>>

\* GetNode of the selected node, and the array driver maps the volume to it;
\* there is no node of the name "".  Either may also end in the error of the
\* unexport goroutine (see Unmap).
Map(t) ==
    LET v == Vol(t) n == selected[t] IN
    /\ step[t] = "map"
    /\ \/ Works /\ n # None /\ MapToHost(v, n) /\ Goto(t, "export")
       \/ Works /\ n = None /\ UNCHANGED published /\ Error(t)
       \/ Fails /\ n # None /\ (UNCHANGED published \/ MapToHost(v, n)) /\ Error(t)
    /\ UNCHANGED <<k8sVars, hostVars, status, phase, failed, countVars, selected, fresh,
                   sent, met>>

\* ExportNfsVolume on the selected node; it fails somewhere on its way, or its
\* context ends and it goes on at the node.
Export(t) ==
    LET v == Vol(t) n == selected[t] IN
    /\ step[t] = "export"
    /\ \/ Works /\ MountOn(v, n) /\ ExportOn(v, n) /\ Goto(t, "update") /\ UNCHANGED sent
       \/ Fails /\ ExportUpTo(v, n) /\ Error(t) /\ UNCHANGED sent
       \/ /\ Fails /\ Error(t)
          /\ sent' = [sent EXCEPT ![v] = @ \cup {[op |-> "export", node |-> n]}]
          /\ UNCHANGED hostVars
    /\ UNCHANGED <<k8sVars, published, status, phase, failed, countVars, selected, fresh, met>>

\* The other tasks that listed a slice which is changed now hold an old copy.
KeepFresh(S) == fresh' = {t \in S : slice'[Vol(t)] = slice[Vol(t)]}

\* updateEndpointSlice: Kubernetes refuses to store a copy that is out of date,
\* three times.  The failure is logged and reassignVolume succeeds.
UpdateEndpointSlice(t) ==
    /\ step[t] = "update"
    /\ \/ Works /\ t \in fresh /\ PutSlice(Vol(t), selected[t]) /\ UNCHANGED met
       \/ Works /\ t \notin fresh /\ UNCHANGED <<slice, met>>
       \/ Fails /\ UNCHANGED slice /\ Note("lost", TRUE)
    /\ Succeed(t)
    /\ KeepFresh(fresh \ {t})
    /\ UNCHANGED <<service, published, hostVars, status, phase, failed, countVars, selected,
                   sent>>

-----------------------------------------------------------------------------
(* Nodes and restarts *)

\* A call nobody waits for ends on the node.
FinishSent(v, call) ==
    /\ sent' = [sent EXCEPT ![v] = @ \ {call}]
    /\ NodeCallEnds(v, call)
    /\ Note("undone", call.op = "unexport" /\ call.node \in Serving(v))
    /\ UNCHANGED <<k8sVars, published, faults, status, phase, failed, countVars, taskVars>>

\* The controller restarts: recoveries, locks, counts and node states are gone;
\* an export under way goes on at the node.
Restart ==
    /\ Fails
    /\ status' = [n \in Nodes |-> "up"]
    /\ phase' = [r \in Recoveries |-> IF Running(r) THEN "over" ELSE phase[r]]
    /\ exportCounts' = [n \in {} |-> 0] /\ reserved' = {}
    /\ step' = [t \in Tasks |-> "none"] /\ selected' = [t \in Tasks |-> None]
    /\ retried' = {} /\ fresh' = {} /\ cleanup' = {}
    /\ arrayLock' = [v \in Volumes |-> None]
    /\ sent' = [v \in Volumes |-> sent[v] \cup
                   {[op |-> "export", node |-> selected[t]] :
                        t \in {u \in Tasks : Vol(u) = v /\ step[u] = "export"}}]
    /\ UNCHANGED <<k8sVars, published, hostVars, failed, met>>

Reassign(t) ==
    \/ LockPV(t) \/ FindNextAvailableNode(t) \/ Unmap(t) \/ Map(t)
    \/ Export(t) \/ UpdateEndpointSlice(t)

Recovery(r) == ListSlices(r) \/ CountExports(r) \/ EndRecovery(r)

Next ==
    \/ \E n \in Nodes : GoodPing(n) \/ \E r \in Recoveries : StartRecovery(r, n)
    \/ \E r \in Recoveries : Recovery(r)
    \/ \E t \in Tasks : Reassign(t) \/ SendUnexport(t)
    \/ \E v \in Volumes : \E call \in sent[v] : FinishSent(v, call)
    \/ Restart

Spec == Init /\ [][Next]_vars

\* Goroutines keep running and every call they make is answered or times out.
Fairness ==
    /\ \A r \in Recoveries : WF_vars(Recovery(r))
    /\ \A t \in Tasks : WF_vars(Reassign(t))

FairSpec == Spec /\ Fairness

-----------------------------------------------------------------------------
(* Properties *)

Untouched(v) == \A t \in Tasks : Vol(t) = v => ~Active(t)
NoneRunning == \A r \in Recoveries : ~Running(r)

\* A volume nobody is moving is mapped to exactly the node its slice names, and
\* mounted and exported there, after any number of moves of it and of others,
\* as long as no call failed, a node was left to move to, no unexport or dump
\* meant for the old server reached the new one, and no reassignVolume went on
\* with a slice that another one had moved before.
MovedIsServed ==
    faults = 0 /\ met \subseteq {"overlap"} =>
        \A v \in Volumes : Untouched(v) =>
            /\ published[v] = {slice[v]}
            /\ slice[v] \in mounted[v] \cap exported[v]

\* When a recovery is over, none of the nodes it moved volumes to has more
\* than one export over any other node it could have chosen: the concurrent
\* reassignVolume goroutines reserve their slots in exportCounts.
Spread ==
    faults = 0 /\ met = {} /\ NoneRunning =>
        \A n \in reserved, m \in DOMAIN exportCounts : Exports(n) <= Exports(m) + 1

\* A recovery comes to an end, also beside another one that moves the same
\* volume and when both attempts fail for want of a node: no reassignVolume waits
\* for a lock that is never released, and an attempt is repeated only once.
RecoveryEnds == \A r \in Recoveries : Running(r) ~> ~Running(r)

\* When no recovery runs any more, no slice names a node that is still down:
\* every volume of the node was listed, moved and its slice updated, and none
\* was moved to a node in recovery, also when several nodes fail in turn, when
\* a call of reassignVolume fails and its second attempt succeeds, and when the
\* controller restarts and begins again.
AllMoved ==
    met = {} /\ NoneRunning =>
        \A v \in Volumes : slice[v] # None => status[slice[v]] # "recovery"

\* However recoveries of a flapping node overlap, a volume nobody is moving is
\* mapped to the node its slice names: a reassignVolume that lost the slice to
\* another one unmaps a node the slice no longer names, unless a third one has
\* brought the slice back to it in between.
SliceNodeMapped ==
    faults = 0 /\ met \cap {"cornered", "returned"} = {} =>
        \A v \in Volumes : Untouched(v) => slice[v] \in published[v]
=============================================================================
