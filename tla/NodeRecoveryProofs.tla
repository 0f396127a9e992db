------------------------- MODULE NodeRecoveryProofs -------------------------
(***************************************************************************)
(* Proofs about NodeRecovery, for every set of nodes, volumes and          *)
(* recoveries and every number of failures and restarts: types and the     *)
(* exclusion of reassignVolume goroutines (RecoveryInv), the mapping of    *)
(* moved volumes (MappedInv), their service (MovedInv), that no volume is  *)
(* left behind (AllMovedInv), and that moves are spread over the nodes     *)
(* (BalancedInv).                                                          *)
(***************************************************************************)
EXTENDS NodeRecovery, FiniteSetTheorems, TLAPS

(* The inductive invariants behind these properties *)

\* Past LockPV, before the deferred UnlockPV.
Held(t) == step[t] \in {"find", "unmap", "map", "export", "update"}

\* A goroutine belongs to a recovery that was started for some node, works on a
\* slice of that node, holds the lock of its volume, and has a node to map to.
TaskAt(t) ==
    /\ phase[Rec(t)] \in {"idle", "list"} => step[t] = "none" /\ t \notin fresh \cup cleanup
    /\ t \in fresh => slice[Vol(t)] = failed[Rec(t)]
    /\ Held(t) => arrayLock[Vol(t)] = Rec(t)
    /\ step[t] \in {"export", "update"} => selected[t] # None

TaskInv == /\ \A r \in Recoveries : phase[r] # "idle" => failed[r] # None
           /\ \A t \in Tasks : TaskAt(t)

RecoveryInv == TypeOK /\ TaskInv

\* Behind SliceNodeMapped: a reassignVolume that unmaps the node of the slice
\* is the one that will update the slice, or else a node is mapped already.
MappedAt(t) ==
    LET v == Vol(t) IN
    /\ step[t] \in {"find", "unmap"} => slice[v] \in published[v]
    /\ step[t] \in {"map", "export", "update"} => t \in fresh \/ slice[v] \in published[v]
    /\ step[t] \in {"export", "update"} => selected[t] \in published[v]
    /\ step[t] = "unmap" \/ step[t] = "map" => selected[t] # None

Unheld(v) == \A t \in Tasks : Vol(t) = v => ~Held(t)

Mapped == /\ \A v \in Volumes : service[v].exists
          /\ \A t \in Tasks : MappedAt(t)
          /\ \A v \in Volumes : Unheld(v) => slice[v] \in published[v]

MappedInv == faults = 0 /\ met \cap {"cornered", "returned"} = {} => Mapped

\* Behind MovedIsServed: how far a move has come.
ServedBy(v, n) == published[v] = {n} /\ n \in mounted[v] \cap exported[v]

MovedAt(t) ==
    LET v == Vol(t) IN
    /\ step[t] \in {"find", "unmap"} => ServedBy(v, slice[v])
    /\ step[t] \in {"unmap", "map", "export", "update"} => selected[t] # None
    /\ step[t] \in {"map", "export", "update"} => t \in fresh
    /\ step[t] = "map" => published[v] = {}
    /\ step[t] = "export" => published[v] = {selected[t]}
    /\ step[t] = "update" => ServedBy(v, selected[t])

Moved == /\ \A v \in Volumes : service[v].exists
         /\ \A t \in Tasks : MovedAt(t)
         /\ \A v \in Volumes : Unheld(v) => ServedBy(v, slice[v])

MovedInv == faults = 0 /\ met \subseteq {"overlap"} => Moved

\* Behind AllMoved: as long as recoveries do not overlap, the volumes still on
\* a node in recovery are the ones its recovery has yet to list or to move, and
\* no volume is on its way to a node in recovery.
Pending(r, v) == phase[r] = "list" \/ Active(<<r, v>>) \/ step[<<r, v>>] = "failed"

OneRunning == \A r, s \in Recoveries : Running(r) /\ Running(s) => r = s

TrackedTask(t) ==
    /\ step[t] # "none" => Running(Rec(t))
    /\ Held(t) => phase[Rec(t)] = "moving"
    /\ Active(t) \/ step[t] = "failed" => t \in fresh
    /\ step[t] \in {"unmap", "map", "export", "update"} =>
           selected[t] # None /\ status[selected[t]] # "recovery"

TrackedVolume(v) ==
    slice[v] # None /\ status[slice[v]] = "recovery" =>
        \E r \in Recoveries : Running(r) /\ failed[r] = slice[v] /\ Pending(r, v)

Eligible == \A r \in Recoveries : phase[r] = "moving" =>
                \A n \in DOMAIN exportCounts : n # None /\ status[n] # "recovery"

Tracked == /\ OneRunning /\ Eligible
           /\ \A t \in Tasks : TrackedTask(t)
           /\ \A v \in Volumes : TrackedVolume(v)

AllMovedInv == met = {} => Tracked

\* Behind Spread: the volumes node n exports or is about to export.  As long as
\* nothing goes wrong, exportCounts is their number, also while the moves run.
Load(n) == {v \in Volumes : \/ n \in exported[v]
                            \/ \E t \in Tasks : /\ Vol(t) = v /\ selected[t] = n
                                                /\ step[t] \in {"unmap", "map", "export"}}

\* The server of a volume exports it; a node whose recovery runs and has volumes
\* left has not answered since; and only nodes in recovery have exports of
\* volumes that were moved away.
Exported ==
    /\ \A v \in Volumes : slice[v] \in mounted[v] \cap exported[v]
    /\ \A r \in Recoveries, v \in Volumes :
           Running(r) /\ slice[v] = failed[r] => status[failed[r]] = "recovery"
    /\ \A n \in Nodes, v \in Volumes : n \in exported[v] /\ status[n] # "recovery" =>
           n = slice[v] \/ \E t \in Tasks : Vol(t) = v /\ selected[t] = n /\ step[t] = "update"
    /\ \A v \in Volumes : \A call \in sent[v] : call.op = "unexport"

Counted ==
    /\ \A n \in DOMAIN exportCounts :
           n # None /\ status[n] # "recovery" /\ exportCounts[n] = Cardinality(Load(n))
    /\ \A n \in reserved : n \in DOMAIN exportCounts
    /\ \A n \in reserved, m \in DOMAIN exportCounts : exportCounts[n] <= exportCounts[m] + 1

\* Between the start of a recovery and its count the old counts are of no use.
CountsInUse == \A r \in Recoveries : phase[r] \notin {"list", "count"}

BalancedInv == faults = 0 /\ met = {} => Exported /\ (CountsInUse => Counted)

-----------------------------------------------------------------------------
(* Type correctness *)

\* The parts of a task are a recovery and a volume.
LEMMA TaskParts ==
    /\ \A t \in Tasks : Rec(t) \in Recoveries /\ Vol(t) \in Volumes
    /\ \A r \in Recoveries, v \in Volumes :
           <<r, v>> \in Tasks /\ Rec(<<r, v>>) = r /\ Vol(<<r, v>>) = v
    /\ \A t, u \in Tasks : Rec(t) = Rec(u) /\ Vol(t) = Vol(u) => t = u
BY DEF Tasks, Rec, Vol

\* A node exports a number of volumes.
LEMMA ExportsNat == \A n : Exports(n) \in Nat
<1> SUFFICES ASSUME NEW n PROVE Exports(n) \in Nat
    OBVIOUS
<1>1. IsFiniteSet({v \in Volumes : n \in exported[v]})
    BY VolumesAssumption, FS_Subset
<1> QED BY <1>1, FS_CardinalityType DEF Exports

\* The initial states are well typed, and no goroutine runs.
LEMMA InitRecoveryInv == Init => RecoveryInv
<1> SUFFICES ASSUME Init PROVE RecoveryInv
    OBVIOUS
<1>1. TypeOK
    <2>1. slice \in [Volumes -> Nodes]
        BY DEF Init
    <2>2. service \in [Volumes -> [exists : BOOLEAN, clients : SUBSET Nodes]]
        BY <2>1 DEF Init
    <2>3. /\ published \in [Volumes -> SUBSET Nodes]
          /\ mounted \in [Volumes -> SUBSET Nodes] /\ exported \in [Volumes -> SUBSET Nodes]
        BY <2>1 DEF Init
    <2> QED BY <2>1, <2>2, <2>3 DEF Init, InitRecovery, TypeOK, NodeStatuses, Phases, Steps
<1>2. TaskInv
    BY TaskParts DEF Init, InitRecovery, TaskInv, TaskAt, Held
<1> QED BY <1>1, <1>2 DEF RecoveryInv

\* Failure budget and mishaps.
LEMMA LedgerType ==
    ASSUME TypeOK
    PROVE  /\ Works \/ Fails => faults' \in Nat
           /\ \A m \in Mishaps, b \in BOOLEAN : Note(m, b) => met' \subseteq Mishaps
BY DEF TypeOK, Works, Fails, Note

\* Going on, and returning with the lock given back.
LEMMA GoroutineType ==
    ASSUME TypeOK, NEW t \in Tasks,
           (\E label \in Steps : Goto(t, label)) \/ Succeed(t) \/ Error(t)
    PROVE  /\ step' \in [Tasks -> Steps] /\ retried' \subseteq Tasks /\ cleanup' \subseteq Tasks
           /\ arrayLock' \in [Volumes -> Recoveries \cup {None}]
<1>0. Vol(t) \in Volumes
    BY TaskParts
<1>1. step' \in [Tasks -> Steps]
    BY DEF TypeOK, Steps, Goto, Succeed, Error, Return
<1>2. retried' \subseteq Tasks /\ cleanup' \subseteq Tasks
    BY DEF TypeOK, Goto, Succeed, Error, Return
<1>3. arrayLock' \in [Volumes -> Recoveries \cup {None}]
    BY <1>0 DEF TypeOK, Goto, Succeed, Error, Return, UnlockPV
<1> QED BY <1>1, <1>2, <1>3

\* What the calls to the array and to a node leave.
LEMMA HostsType ==
    ASSUME TypeOK, NEW v \in Volumes, NEW n \in Nodes
    PROVE  /\ MapToHost(v, n) => published' \in [Volumes -> SUBSET Nodes]
           /\ MountOn(v, n) \/ UnmountOn(v, n) => mounted' \in [Volumes -> SUBSET Nodes]
           /\ ExportOn(v, n) \/ UnexportOn(v, n) => exported' \in [Volumes -> SUBSET Nodes]
           /\ ExportUpTo(v, n) \/ UnexportUpTo(v, n) =>
                 /\ mounted' \in [Volumes -> SUBSET Nodes]
                 /\ exported' \in [Volumes -> SUBSET Nodes]
           /\ [op |-> "export", node |-> n] \in NodeCalls /\ UnexportCall(n) \in NodeCalls
<1>1. MapToHost(v, n) => published' \in [Volumes -> SUBSET Nodes]
    BY DEF TypeOK, MapToHost
<1>2. MountOn(v, n) \/ UnmountOn(v, n) => mounted' \in [Volumes -> SUBSET Nodes]
    BY DEF TypeOK, MountOn, UnmountOn
<1>3. ExportOn(v, n) \/ UnexportOn(v, n) => exported' \in [Volumes -> SUBSET Nodes]
    BY DEF TypeOK, ExportOn, UnexportOn
<1>4. ExportUpTo(v, n) \/ UnexportUpTo(v, n) =>
          mounted' \in [Volumes -> SUBSET Nodes] /\ exported' \in [Volumes -> SUBSET Nodes]
    BY <1>2, <1>3 DEF TypeOK, ExportUpTo, UnexportUpTo
<1>5. [op |-> "export", node |-> n] \in NodeCalls /\ UnexportCall(n) \in NodeCalls
    BY DEF NodeCalls, UnexportCall
<1> QED BY <1>1, <1>2, <1>3, <1>4, <1>5

\* A recovery that was started knows its node, also while its unexports are out.
LEMMA FailedKnown ==
    ASSUME RecoveryInv, NEW t \in Tasks, step[t] # "none" \/ t \in cleanup \cup fresh
    PROVE  failed[Rec(t)] \in Nodes /\ phase[Rec(t)] \notin {"idle", "list"}
BY TaskParts DEF RecoveryInv, TypeOK, TaskInv, TaskAt

\* The steps of the pinger and of nodeRecovery keep the types.
LEMMA RecoveryType ==
    ASSUME RecoveryInv,
           \/ \E n \in Nodes : GoodPing(n) \/ \E r \in Recoveries : StartRecovery(r, n)
           \/ \E r \in Recoveries : Recovery(r)
    PROVE  TypeOK'
<1>0. TypeOK
    BY DEF RecoveryInv
<1>1. ASSUME NEW n \in Nodes, NEW r \in Recoveries, StartRecovery(r, n) PROVE TypeOK'
    <2>1. met' \subseteq Mishaps
        BY <1>0, <1>1 DEF StartRecovery, Note, TypeOK, Mishaps
    <2> QED BY <1>0, <1>1, <2>1 DEF StartRecovery, TypeOK, NodeStatuses, Phases,
           k8sVars, hostVars, countVars, taskVars
<1>2. ASSUME NEW n \in Nodes, GoodPing(n) PROVE TypeOK'
    <2>1. met' \subseteq Mishaps
        BY <1>0, <1>2 DEF GoodPing, Note, TypeOK, Mishaps
    <2>2. /\ mounted' \in [Volumes -> SUBSET Nodes] /\ exported' \in [Volumes -> SUBSET Nodes]
          /\ faults' \in Nat
        <3>1. \A f \in [Volumes -> SUBSET Nodes] : \A S :
                  Without(f, n, S) \in [Volumes -> SUBSET Nodes]
            BY DEF Without
        <3>2. \/ UNCHANGED hostVars
              \/ /\ exported' = Without(exported, n, Dumped(n))
                 /\ mounted' = Without(mounted, n, Dumped(n))
            BY <1>2 DEF GoodPing
        <3>3. faults' \in Nat
            BY <1>0, <1>2, LedgerType DEF GoodPing
        <3> QED BY <1>0, <3>1, <3>2, <3>3 DEF TypeOK, hostVars
    <2>3. status' \in [Nodes -> NodeStatuses]
        BY <1>0, <1>2 DEF GoodPing, TypeOK, NodeStatuses
    <2> QED BY <1>0, <1>2, <2>1, <2>2, <2>3 DEF GoodPing, TypeOK, k8sVars, countVars, taskVars
<1>3. ASSUME NEW r \in Recoveries, ListSlices(r) PROVE TypeOK'
    <2>1. GetEndpointSlices(r) \subseteq Tasks
        BY TaskParts DEF GetEndpointSlices
    <2>2. met' \subseteq Mishaps /\ faults' \in Nat
        BY <1>0, <1>3, LedgerType DEF ListSlices, Note, TypeOK, Mishaps
    <2>3. step' \in [Tasks -> Steps] /\ fresh' \subseteq Tasks /\ phase' \in [Recoveries -> Phases]
        BY <1>0, <1>3, <2>1 DEF ListSlices, TypeOK, Steps, Phases
    <2> QED BY <1>0, <1>3, <2>2, <2>3 DEF ListSlices, TypeOK, k8sVars, hostVars, countVars
<1>4. ASSUME NEW r \in Recoveries, CountExports(r) PROVE TypeOK'
    <2>1. /\ DOMAIN exportCounts' \subseteq Nodes
          /\ \A n \in DOMAIN exportCounts' : exportCounts'[n] \in Nat
        BY <1>4, ExportsNat DEF CountExports, OutOfRecovery
    <2>2. faults' \in Nat
        BY <1>0, <1>4, LedgerType DEF CountExports
    <2>3. phase' \in [Recoveries -> Phases]
        BY <1>0, <1>4 DEF CountExports, TypeOK, Phases
    <2> QED BY <1>0, <1>4, <2>1, <2>2, <2>3 DEF CountExports, TypeOK, k8sVars, hostVars, taskVars
<1>5. ASSUME NEW r \in Recoveries, EndRecovery(r) PROVE TypeOK'
    <2>1. met' \subseteq Mishaps
        BY <1>0, <1>5 DEF EndRecovery, Note, TypeOK, Mishaps
    <2>2. step' \in [Tasks -> Steps] /\ selected' \in [Tasks -> Nodes \cup {None}]
        BY <1>0, <1>5 DEF EndRecovery, TypeOK, Steps
    <2>3. phase' \in [Recoveries -> Phases] /\ retried' \subseteq Tasks /\ fresh' \subseteq Tasks
        BY <1>0, <1>5 DEF EndRecovery, TypeOK, Phases
    <2> QED BY <1>0, <1>5, <2>1, <2>2, <2>3 DEF EndRecovery, TypeOK, k8sVars, hostVars, countVars
<1> QED BY <1>1, <1>2, <1>3, <1>4, <1>5 DEF Recovery

\* The steps of reassignVolume keep the types.
LEMMA ReassignType ==
    ASSUME RecoveryInv, NEW t \in Tasks, Reassign(t)
    PROVE  TypeOK'
<1>0. TypeOK /\ TaskInv /\ Vol(t) \in Volumes /\ Rec(t) \in Recoveries
    BY TaskParts DEF RecoveryInv
<1>1. CASE LockPV(t)
    BY <1>0, <1>1 DEF LockPV, TypeOK, Steps, k8sVars, hostVars, countVars
<1>2. CASE FindNextAvailableNode(t)
    <2>1. \A n \in NextAvailable : n \in Nodes \cup {None} /\ CountOf(n) \in Nat
        BY <1>0 DEF NextAvailable, Lowest, CountOf, TypeOK
    <2>2. /\ DOMAIN exportCounts' \subseteq Nodes \cup {None}
          /\ \A n \in DOMAIN exportCounts' : exportCounts'[n] \in Nat
          /\ selected' \in [Tasks -> Nodes \cup {None}]
          /\ reserved' \subseteq Nodes \cup {None}
        <3>1. CASE UNCHANGED <<countVars, selected>>
            BY <1>0, <3>1 DEF TypeOK, countVars
        <3>2. ASSUME NEW n \in NextAvailable, Reserve(n), reserved' = reserved \cup {n},
                     selected' = [selected EXCEPT ![t] = n]
              PROVE  /\ DOMAIN exportCounts' \subseteq Nodes \cup {None}
                     /\ \A m \in DOMAIN exportCounts' : exportCounts'[m] \in Nat
                     /\ selected' \in [Tasks -> Nodes \cup {None}]
                     /\ reserved' \subseteq Nodes \cup {None}
            BY <1>0, <2>1, <3>2 DEF Reserve, TypeOK
        <3> QED BY <1>2, <3>1, <3>2 DEF FindNextAvailableNode
    <2>3. faults' \in Nat /\ met' \subseteq Mishaps
        BY <1>0, <1>2, LedgerType DEF FindNextAvailableNode, Note, TypeOK, Mishaps
    <2>4. /\ step' \in [Tasks -> Steps] /\ retried' \subseteq Tasks /\ cleanup' \subseteq Tasks
          /\ arrayLock' \in [Volumes -> Recoveries \cup {None}]
        <3>1. CASE Error(t)
            BY <1>0, <3>1, GoroutineType
        <3>2. CASE /\ step' = [step EXCEPT ![t] = "unmap"] /\ cleanup' = cleanup \cup {t}
                   /\ UNCHANGED <<retried, arrayLock>>
            BY <1>0, <3>2 DEF TypeOK, Steps
        <3> QED BY <1>2, <3>1, <3>2 DEF FindNextAvailableNode
    <2> QED BY <1>0, <1>2, <2>2, <2>3, <2>4 DEF FindNextAvailableNode, TypeOK, k8sVars, hostVars
<1>3. CASE Unmap(t)
    <2>0. failed[Rec(t)] \in Nodes
        BY <1>3, FailedKnown DEF Unmap
    <2>1. /\ step' \in [Tasks -> Steps] /\ retried' \subseteq Tasks /\ cleanup' \subseteq Tasks
          /\ arrayLock' \in [Volumes -> Recoveries \cup {None}]
        <3>1. Goto(t, "map") \/ Error(t)
            BY <1>3 DEF Unmap
        <3> QED BY <1>0, <3>1, GoroutineType DEF Steps
    <2>2. faults' \in Nat /\ met' \subseteq Mishaps
        BY <1>0, <1>3, LedgerType DEF Unmap, NoteOutdated, TypeOK, Mishaps
    <2>3. published' \in [Volumes -> SUBSET Nodes]
        BY <1>0, <1>3 DEF Unmap, UnmapFromHost, TypeOK
    <2>4. mounted' \in [Volumes -> SUBSET Nodes] /\ exported' \in [Volumes -> SUBSET Nodes]
        BY <1>0, <1>3, <2>0, HostsType DEF Unmap, TypeOK, hostVars
    <2>5. sent' \in [Volumes -> SUBSET NodeCalls]
        BY <1>0, <1>3 DEF Unmap, TypeOK
    <2> QED BY <1>0, <1>3, <2>1, <2>2, <2>3, <2>4, <2>5 DEF Unmap, TypeOK, k8sVars, countVars
<1>4. CASE Map(t)
    <2>1. /\ step' \in [Tasks -> Steps] /\ retried' \subseteq Tasks /\ cleanup' \subseteq Tasks
          /\ arrayLock' \in [Volumes -> Recoveries \cup {None}]
        <3>1. Goto(t, "export") \/ Error(t)
            BY <1>4 DEF Map
        <3> QED BY <1>0, <3>1, GoroutineType DEF Steps
    <2>2. faults' \in Nat
        BY <1>0, <1>4, LedgerType DEF Map
    <2>3. published' \in [Volumes -> SUBSET Nodes]
        <3>1. published' = published \/ (selected[t] \in Nodes /\ MapToHost(Vol(t), selected[t]))
            BY <1>0, <1>4 DEF Map, TypeOK
        <3> QED BY <1>0, <3>1, HostsType DEF TypeOK
    <2> QED BY <1>0, <1>4, <2>1, <2>2, <2>3 DEF Map, TypeOK, k8sVars, hostVars, countVars
<1>5. CASE Export(t)
    <2>0. selected[t] \in Nodes
        BY <1>0, <1>5 DEF Export, TypeOK, TaskInv, TaskAt
    <2>1. /\ step' \in [Tasks -> Steps] /\ retried' \subseteq Tasks /\ cleanup' \subseteq Tasks
          /\ arrayLock' \in [Volumes -> Recoveries \cup {None}]
        <3>1. Goto(t, "update") \/ Error(t)
            BY <1>5 DEF Export
        <3> QED BY <1>0, <3>1, GoroutineType DEF Steps
    <2>2. faults' \in Nat
        BY <1>0, <1>5, LedgerType DEF Export
    <2>3. mounted' \in [Volumes -> SUBSET Nodes] /\ exported' \in [Volumes -> SUBSET Nodes]
        BY <1>0, <1>5, <2>0, HostsType DEF Export, TypeOK, hostVars
    <2>4. sent' \in [Volumes -> SUBSET NodeCalls]
        <3>1. [op |-> "export", node |-> selected[t]] \in NodeCalls
            BY <2>0 DEF NodeCalls
        <3>2. \/ UNCHANGED sent
              \/ sent' = [sent EXCEPT ![Vol(t)] = @ \cup {[op |-> "export", node |-> selected[t]]}]
            BY <1>5 DEF Export
        <3> QED BY <1>0, <3>1, <3>2 DEF TypeOK
    <2> QED BY <1>0, <1>5, <2>1, <2>2, <2>3, <2>4 DEF Export, TypeOK, k8sVars, countVars
<1>6. CASE UpdateEndpointSlice(t)
    <2>1. /\ step' \in [Tasks -> Steps] /\ retried' \subseteq Tasks /\ cleanup' \subseteq Tasks
          /\ arrayLock' \in [Volumes -> Recoveries \cup {None}]
        <3>1. Succeed(t)
            BY <1>6 DEF UpdateEndpointSlice
        <3> QED BY <1>0, <3>1, GoroutineType
    <2>2. faults' \in Nat /\ met' \subseteq Mishaps
        BY <1>0, <1>6, LedgerType DEF UpdateEndpointSlice, Note, TypeOK, Mishaps
    <2>3. slice' \in [Volumes -> Nodes \cup {None}]
        BY <1>0, <1>6 DEF UpdateEndpointSlice, PutSlice, TypeOK
    <2>4. fresh' \subseteq Tasks
        BY <1>0, <1>6 DEF UpdateEndpointSlice, KeepFresh, TypeOK
    <2> QED BY <1>0, <1>6, <2>1, <2>2, <2>3, <2>4 DEF UpdateEndpointSlice, TypeOK, hostVars, countVars
<1> QED BY <1>1, <1>2, <1>3, <1>4, <1>5, <1>6 DEF Reassign

\* The calls on the nodes, their end, and a restart keep the types.
LEMMA OutsideType ==
    ASSUME RecoveryInv,
           \/ \E t \in Tasks : SendUnexport(t)
           \/ \E v \in Volumes : \E call \in sent[v] : FinishSent(v, call)
           \/ Restart
    PROVE  TypeOK'
<1>0. TypeOK /\ TaskInv
    BY DEF RecoveryInv
<1>1. ASSUME NEW t \in Tasks, SendUnexport(t) PROVE TypeOK'
    <2>1. failed[Rec(t)] \in Nodes
        BY <1>1, FailedKnown DEF SendUnexport
    <2>2. sent' \in [Volumes -> SUBSET NodeCalls]
        <3>1. CASE UNCHANGED sent
            BY <1>0, <3>1 DEF TypeOK
        <3>2. ASSUME NEW n \in Nodes, sent' = [sent EXCEPT ![Vol(t)] = @ \cup {UnexportCall(n)}]
              PROVE  sent' \in [Volumes -> SUBSET NodeCalls]
            <4>1. UnexportCall(n) \in NodeCalls /\ Vol(t) \in Volumes
                BY TaskParts DEF UnexportCall, NodeCalls
            <4> QED BY <1>0, <3>2, <4>1 DEF TypeOK
        <3>3. step[t] = "update" => selected[t] \in Nodes
            BY <1>0 DEF TypeOK, TaskInv, TaskAt
        <3> QED BY <1>1, <2>1, <3>1, <3>2, <3>3 DEF SendUnexport
    <2> QED BY <1>0, <1>1, <2>2 DEF SendUnexport, TypeOK, k8sVars, hostVars, countVars
<1>2. ASSUME NEW v \in Volumes, NEW call \in sent[v], FinishSent(v, call) PROVE TypeOK'
    <2>1. call.node \in Nodes
        BY <1>0 DEF TypeOK, NodeCalls
    <2>2. mounted' \in [Volumes -> SUBSET Nodes] /\ exported' \in [Volumes -> SUBSET Nodes]
        BY <1>0, <1>2, <2>1, HostsType DEF FinishSent, NodeCallEnds
    <2>3. sent' \in [Volumes -> SUBSET NodeCalls]
        BY <1>0, <1>2 DEF FinishSent, TypeOK
    <2>4. met' \subseteq Mishaps
        BY <1>0, <1>2 DEF FinishSent, Note, TypeOK, Mishaps
    <2> QED BY <1>0, <1>2, <2>2, <2>3, <2>4 DEF FinishSent, TypeOK, k8sVars, countVars, taskVars
<1>3. ASSUME Restart PROVE TypeOK'
    <2>1. \A t \in Tasks : step[t] = "export" => [op |-> "export", node |-> selected[t]] \in NodeCalls
        BY <1>0 DEF TypeOK, TaskInv, TaskAt, NodeCalls
    <2>2. sent' \in [Volumes -> SUBSET NodeCalls]
        <3>1. ASSUME NEW v \in Volumes
              PROVE  {[op |-> "export", node |-> selected[t]] :
                        t \in {u \in Tasks : Vol(u) = v /\ step[u] = "export"}} \subseteq NodeCalls
            BY <2>1
        <3> QED BY <1>0, <1>3, <3>1 DEF Restart, TypeOK
    <2>3. phase' \in [Recoveries -> Phases] /\ faults' \in Nat
        BY <1>0, <1>3, LedgerType DEF Restart, TypeOK, Phases
    <2> QED BY <1>0, <1>3, <2>2, <2>3 DEF Restart, TypeOK, NodeStatuses, Steps, k8sVars, hostVars
<1> QED BY <1>1, <1>2, <1>3

-----------------------------------------------------------------------------
(* Goroutines *)

\* LockPV excludes the goroutines of different recoveries for one volume.
LEMMA Exclusive ==
    ASSUME RecoveryInv, NEW t \in Tasks, NEW u \in Tasks, Held(t), Held(u), Vol(t) = Vol(u)
    PROVE  t = u
BY TaskParts DEF RecoveryInv, TaskInv, TaskAt

\* A goroutine changes nothing of other goroutines, but may outdate the copies
\* of its slice, and nothing of other volumes; only its last step writes the
\* slice.
OtherTasks(t) ==
    /\ \A u \in Tasks : u # t =>
           /\ step'[u] = step[u] /\ selected'[u] = selected[u]
           /\ u \in cleanup' <=> u \in cleanup
           /\ u \in fresh' <=> u \in fresh /\ slice'[Vol(u)] = slice[Vol(u)]
    /\ UNCHANGED <<phase, failed, status, service>>

OtherVolumes(t) ==
    /\ \A v \in Volumes : v # Vol(t) =>
           /\ slice'[v] = slice[v] /\ published'[v] = published[v]
           /\ mounted'[v] = mounted[v] /\ exported'[v] = exported[v]
    /\ step[t] # "update" => UNCHANGED slice /\ (t \in fresh' <=> t \in fresh)

\* The control steps of a goroutine.
LEMMA ControlFrame ==
    ASSUME TypeOK, NEW t \in Tasks
    PROVE  /\ \A label : Goto(t, label) =>
                 /\ step'[t] = label /\ UNCHANGED <<arrayLock, cleanup, retried>>
                 /\ \A u \in Tasks : u # t => step'[u] = step[u]
           /\ Error(t) =>
                 /\ step'[t] \in {"failed", "lock"} /\ UnlockPV(t) /\ cleanup' = cleanup \ {t}
                 /\ \A u \in Tasks : u # t => step'[u] = step[u]
           /\ Succeed(t) =>
                 /\ step'[t] = "done" /\ UnlockPV(t) /\ cleanup' = cleanup \ {t}
                 /\ \A u \in Tasks : u # t => step'[u] = step[u]
BY DEF TypeOK, Goto, Error, Succeed, Return

\* The steps of reassignVolume leave the other goroutines and volumes alone.
LEMMA ReassignFrame ==
    ASSUME TypeOK, NEW t \in Tasks, Reassign(t)
    PROVE  OtherTasks(t) /\ OtherVolumes(t)
<1> USE TaskParts, ControlFrame DEF k8sVars, hostVars, countVars
<1>1. CASE LockPV(t)
    BY <1>1 DEF LockPV, TypeOK, OtherTasks, OtherVolumes
<1>2. CASE FindNextAvailableNode(t)
    <2>1. \A u \in Tasks : u # t => /\ step'[u] = step[u] /\ selected'[u] = selected[u]
                                    /\ u \in cleanup' <=> u \in cleanup
        BY <1>2 DEF FindNextAvailableNode, TypeOK
    <2>2. UNCHANGED <<slice, service, published, mounted, exported, status, phase, failed, fresh>>
        BY <1>2 DEF FindNextAvailableNode
    <2> QED BY <2>1, <2>2 DEF OtherTasks, OtherVolumes
<1>3. CASE Unmap(t)
    <2>1. \A u \in Tasks : u # t => step'[u] = step[u] /\ (u \in cleanup' <=> u \in cleanup)
        BY <1>3 DEF Unmap
    <2>2. UNCHANGED <<slice, service, status, phase, failed, selected, fresh>>
        BY <1>3 DEF Unmap
    <2>3. \A v \in Volumes : v # Vol(t) =>
              /\ published'[v] = published[v]
              /\ mounted'[v] = mounted[v] /\ exported'[v] = exported[v]
        BY <1>3 DEF Unmap, UnmapFromHost, UnexportOn, UnmountOn, TypeOK
    <2> QED BY <2>1, <2>2, <2>3 DEF OtherTasks, OtherVolumes
<1>4. CASE Map(t)
    <2>1. \A u \in Tasks : u # t => step'[u] = step[u] /\ (u \in cleanup' <=> u \in cleanup)
        BY <1>4 DEF Map
    <2>2. UNCHANGED <<slice, service, mounted, exported, status, phase, failed, selected, fresh>>
        BY <1>4 DEF Map
    <2>3. \A v \in Volumes : v # Vol(t) => published'[v] = published[v]
        BY <1>4 DEF Map, MapToHost, TypeOK
    <2> QED BY <2>1, <2>2, <2>3 DEF OtherTasks, OtherVolumes
<1>5. CASE Export(t)
    <2>1. \A u \in Tasks : u # t => step'[u] = step[u] /\ (u \in cleanup' <=> u \in cleanup)
        BY <1>5 DEF Export
    <2>2. UNCHANGED <<slice, service, published, status, phase, failed, selected, fresh>>
        BY <1>5 DEF Export
    <2>3. \A v \in Volumes : v # Vol(t) =>
              mounted'[v] = mounted[v] /\ exported'[v] = exported[v]
        BY <1>5 DEF Export, MountOn, ExportOn, ExportUpTo, TypeOK
    <2> QED BY <2>1, <2>2, <2>3 DEF OtherTasks, OtherVolumes
<1>6. CASE UpdateEndpointSlice(t)
    <2>1. \A u \in Tasks : u # t => step'[u] = step[u] /\ (u \in cleanup' <=> u \in cleanup)
        BY <1>6 DEF UpdateEndpointSlice
    <2>2. UNCHANGED <<service, published, mounted, exported, status, phase, failed, selected>>
        BY <1>6 DEF UpdateEndpointSlice
    <2>3. \A v \in Volumes : v # Vol(t) => slice'[v] = slice[v]
        BY <1>6 DEF UpdateEndpointSlice, PutSlice, TypeOK
    <2>4. \A u \in Tasks : u # t => (u \in fresh' <=> u \in fresh /\ slice'[Vol(u)] = slice[Vol(u)])
        BY <1>6 DEF UpdateEndpointSlice, KeepFresh
    <2>5. step[t] = "update"
        BY <1>6 DEF UpdateEndpointSlice
    <2> QED BY <2>1, <2>2, <2>3, <2>4, <2>5 DEF OtherTasks, OtherVolumes
<1> QED BY <1>1, <1>2, <1>3, <1>4, <1>5, <1>6 DEF Reassign

\* Where a goroutine goes, and what becomes of its lock.
LEMMA ReassignControl ==
    ASSUME RecoveryInv, NEW t \in Tasks, Reassign(t)
    PROVE  /\ step[t] # "none"
           /\ \/ /\ step[t] = "lock" /\ arrayLock[Vol(t)] = None /\ Held(t)'
                 /\ arrayLock' = [arrayLock EXCEPT ![Vol(t)] = Rec(t)]
              \/ Held(t) /\ Held(t)' /\ arrayLock' = arrayLock
              \/ /\ Held(t) /\ step'[t] \in {"failed", "lock", "done"}
                 /\ arrayLock' = [arrayLock EXCEPT ![Vol(t)] = None]
           /\ step'[t] \in {"export", "update"} => selected'[t] # None
<1>0. TypeOK /\ TaskInv
    BY DEF RecoveryInv
<1> USE TaskParts, ControlFrame, <1>0 DEF Held
<1>1. CASE LockPV(t)
    BY <1>1 DEF LockPV, TypeOK
<1>2. CASE FindNextAvailableNode(t)
    BY <1>2 DEF FindNextAvailableNode, TypeOK, UnlockPV
<1>3. CASE Unmap(t)
    BY <1>3 DEF Unmap, UnlockPV
<1>4. CASE Map(t)
    BY <1>4 DEF Map, UnlockPV
<1>5. CASE Export(t)
    BY <1>5 DEF Export, UnlockPV, TaskInv, TaskAt
<1>6. CASE UpdateEndpointSlice(t)
    BY <1>6 DEF UpdateEndpointSlice, UnlockPV
<1> QED BY <1>1, <1>2, <1>3, <1>4, <1>5, <1>6 DEF Reassign

\* A step of reassignVolume keeps the goroutines in order.
LEMMA ReassignTask ==
    ASSUME RecoveryInv, NEW t \in Tasks, Reassign(t)
    PROVE  TaskInv'
<1>0. TypeOK /\ TaskInv /\ OtherTasks(t) /\ OtherVolumes(t) /\ TypeOK'
    BY ReassignFrame, ReassignType DEF RecoveryInv
<1>1. step[t] # "none" /\ phase[Rec(t)] \notin {"idle", "list"}
    BY ReassignControl, FailedKnown
<1>2. \A r \in Recoveries : phase'[r] # "idle" => failed'[r] # None
    BY <1>0 DEF OtherTasks, TaskInv
<1>3. TaskAt(t)'
    <2>1. t \in fresh' => t \in fresh /\ slice'[Vol(t)] = slice[Vol(t)]
        <3>1. CASE step[t] = "update"
            BY <3>1 DEF Reassign, LockPV, FindNextAvailableNode, Unmap, Map, Export,
               UpdateEndpointSlice, KeepFresh
        <3> QED BY <1>0, <3>1 DEF OtherVolumes
    <2>2. Held(t)' => arrayLock'[Vol(t)] = Rec(t)
        <3>0. Vol(t) \in Volumes /\ arrayLock \in [Volumes -> Recoveries \cup {None}]
            BY <1>0, TaskParts DEF TypeOK
        <3>1. CASE arrayLock' = [arrayLock EXCEPT ![Vol(t)] = Rec(t)]
            BY <3>0, <3>1
        <3>2. CASE Held(t) /\ arrayLock' = arrayLock
            BY <1>0, <3>2 DEF TaskInv, TaskAt
        <3>3. CASE step'[t] \in {"failed", "lock", "done"}
            BY <3>3 DEF Held
        <3> QED BY <3>1, <3>2, <3>3, ReassignControl
    <2> QED BY <1>0, <1>1, <2>1, <2>2, ReassignControl DEF OtherTasks, TaskInv, TaskAt
<1>4. ASSUME NEW u \in Tasks, u # t PROVE TaskAt(u)'
    <2>0. TaskAt(u)
        BY <1>0 DEF TaskInv
    <2>1. Held(u)' => Held(u)
        BY <1>0, <1>4 DEF OtherTasks, Held
    <2>2. Held(u)' => arrayLock'[Vol(u)] = Rec(u)
        <3>1. CASE Vol(u) # Vol(t)
            <4>0. /\ arrayLock \in [Volumes -> Recoveries \cup {None}]
                  /\ Vol(u) \in Volumes /\ Vol(t) \in Volumes
                BY <1>0, TaskParts DEF TypeOK
            <4>1. arrayLock'[Vol(u)] = arrayLock[Vol(u)]
                BY <3>1, <4>0, ReassignControl
            <4> QED BY <2>0, <2>1, <4>1 DEF TaskAt
        <3>2. CASE Vol(u) = Vol(t) /\ Held(u)
            <4>1. ~Held(t) /\ arrayLock[Vol(t)] # None
                BY <1>4, <2>0, <3>2, Exclusive, TaskParts, RecoveriesAssumption DEF TaskAt
            <4> QED BY <4>1, ReassignControl
        <3> QED BY <2>1, <3>1, <3>2
    <2> QED BY <1>0, <1>4, <2>0, <2>2 DEF OtherTasks, TaskAt
<1> QED BY <1>2, <1>3, <1>4 DEF TaskInv

\* The steps of the pinger and of nodeRecovery keep the goroutines in order.
LEMMA RecoveryTask ==
    ASSUME RecoveryInv,
           \/ \E n \in Nodes : GoodPing(n) \/ \E r \in Recoveries : StartRecovery(r, n)
           \/ \E r \in Recoveries : Recovery(r)
    PROVE  TaskInv'
<1>0. TypeOK /\ TaskInv
    BY DEF RecoveryInv
<1> USE TaskParts DEF k8sVars, hostVars, countVars, taskVars
<1>1. ASSUME NEW n \in Nodes, NEW r \in Recoveries, StartRecovery(r, n) PROVE TaskInv'
    <2>1. \A s \in Recoveries : phase'[s] # "idle" => failed'[s] # None
        BY <1>0, <1>1, NoneAssumption DEF StartRecovery, TypeOK, TaskInv
    <2>2. ASSUME NEW t \in Tasks PROVE TaskAt(t)'
        <3>1. TaskAt(t) /\ UNCHANGED <<slice, step, fresh, cleanup, arrayLock, selected>>
            BY <1>0, <1>1 DEF StartRecovery, TaskInv
        <3>2. CASE Rec(t) = r
            BY <1>1, <3>1, <3>2 DEF StartRecovery, TaskAt, Held
        <3>3. CASE Rec(t) # r
            <4>1. phase'[Rec(t)] = phase[Rec(t)] /\ failed'[Rec(t)] = failed[Rec(t)]
                BY <1>0, <1>1, <3>3 DEF StartRecovery, TypeOK
            <4> QED BY <3>1, <4>1 DEF TaskAt, Held
        <3> QED BY <3>2, <3>3
    <2> QED BY <2>1, <2>2 DEF TaskInv
<1>2. ASSUME NEW n \in Nodes, GoodPing(n) PROVE TaskInv'
    BY <1>0, <1>2 DEF GoodPing, TaskInv, TaskAt, Held
<1>3. ASSUME NEW r \in Recoveries, Recovery(r) PROVE TaskInv'
    <2>0. /\ UNCHANGED <<slice, failed, arrayLock>> /\ cleanup' = cleanup
          /\ phase[r] # "idle" /\ \A s \in Recoveries : s # r => phase'[s] = phase[s]
          /\ phase'[r] \in {"count", "moving", "over"}
        <3>1. phase \in [Recoveries -> Phases]
            BY <1>0 DEF TypeOK
        <3>2. CASE ListSlices(r)
            BY <3>1, <3>2 DEF ListSlices
        <3>3. CASE CountExports(r)
            BY <3>1, <3>3 DEF CountExports
        <3>4. CASE EndRecovery(r)
            BY <3>1, <3>4 DEF EndRecovery
        <3> QED BY <1>3, <3>2, <3>3, <3>4 DEF Recovery
    <2>1. \A s \in Recoveries : phase'[s] # "idle" => failed'[s] # None
        BY <1>0, <2>0 DEF TaskInv
    <2>2. ASSUME NEW t \in Tasks PROVE TaskAt(t)'
        <3>0. TaskAt(t)
            BY <1>0 DEF TaskInv
        <3>1. CASE ListSlices(r)
            <4>1. /\ t \in GetEndpointSlices(r) => Rec(t) = r /\ slice[Vol(t)] = failed[r]
                BY DEF GetEndpointSlices
            <4>2. UNCHANGED selected
                BY <3>1 DEF ListSlices
            <4>3. CASE t \in GetEndpointSlices(r) /\ step'[t] = "lock"
                BY <2>0, <3>0, <4>1, <4>2, <4>3 DEF TaskAt, Held
            <4>4. CASE step'[t] = step[t] /\ (t \in fresh' <=> t \in fresh)
                BY <2>0, <3>0, <4>2, <4>4 DEF TaskAt, Held
            <4>5. CASE UNCHANGED <<step, fresh>>
                BY <4>4, <4>5
            <4>6. CASE /\ step' = [u \in Tasks |-> IF u \in GetEndpointSlices(r) THEN "lock" ELSE step[u]]
                       /\ fresh' = fresh \cup GetEndpointSlices(r)
                BY <4>3, <4>4, <4>6
            <4> QED BY <3>1, <4>5, <4>6 DEF ListSlices
        <3>2. CASE CountExports(r)
            BY <2>0, <3>0, <3>2 DEF CountExports, TaskAt, Held
        <3>3. CASE EndRecovery(r) /\ Rec(t) = r
            <4>1. step'[t] = "none" /\ t \notin fresh'
                BY <1>0, <3>3 DEF EndRecovery, TypeOK
            <4> QED BY <2>0, <3>3, <4>1 DEF TaskAt, Held
        <3>4. CASE EndRecovery(r) /\ Rec(t) # r
            <4>1. step'[t] = step[t] /\ selected'[t] = selected[t] /\ (t \in fresh' <=> t \in fresh)
                BY <1>0, <3>4 DEF EndRecovery, TypeOK
            <4> QED BY <2>0, <3>0, <3>4, <4>1 DEF TaskAt, Held
        <3> QED BY <1>3, <3>1, <3>2, <3>3, <3>4 DEF Recovery
    <2> QED BY <2>1, <2>2 DEF TaskInv
<1> QED BY <1>1, <1>2, <1>3

\* The calls on the nodes, their end, and a restart do so as well.
LEMMA OutsideTask ==
    ASSUME RecoveryInv,
           \/ \E t \in Tasks : SendUnexport(t)
           \/ \E v \in Volumes : \E call \in sent[v] : FinishSent(v, call)
           \/ Restart
    PROVE  TaskInv'
<1>0. TypeOK /\ TaskInv
    BY DEF RecoveryInv
<1> USE TaskParts DEF k8sVars, hostVars, countVars, taskVars
<1>1. ASSUME NEW t \in Tasks, SendUnexport(t) PROVE TaskInv'
    BY <1>0, <1>1 DEF SendUnexport, TaskInv, TaskAt, Held
<1>2. ASSUME NEW v \in Volumes, NEW call \in sent[v], FinishSent(v, call) PROVE TaskInv'
    BY <1>0, <1>2 DEF FinishSent, TaskInv, TaskAt, Held
<1>3. ASSUME Restart PROVE TaskInv'
    <2>1. \A r \in Recoveries : phase'[r] # "idle" => failed'[r] # None
        BY <1>0, <1>3 DEF Restart, Running, TaskInv
    <2>2. ASSUME NEW t \in Tasks PROVE TaskAt(t)'
        BY <1>3, <2>2 DEF Restart, TaskAt, Held
    <2> QED BY <2>1, <2>2 DEF TaskInv
<1> QED BY <1>1, <1>2, <1>3

\* Every step keeps the types and the goroutines in order.
LEMMA NextRecoveryInv == RecoveryInv /\ [Next]_vars => RecoveryInv'
<1> SUFFICES ASSUME RecoveryInv, [Next]_vars PROVE RecoveryInv'
    OBVIOUS
<1>1. CASE UNCHANGED vars
    BY <1>1 DEF RecoveryInv, TypeOK, TaskInv, TaskAt, Held, vars, hostVars, countVars, taskVars
<1>2. CASE Next
    BY <1>2, RecoveryType, RecoveryTask, ReassignType, ReassignTask, OutsideType, OutsideTask
       DEF Next, RecoveryInv
<1> QED BY <1>1, <1>2

\* The inductive invariant of recovery, for every number of recoveries, nodes,
\* volumes, failures and restarts.
THEOREM Inductive == Spec => []RecoveryInv
<1> QED BY InitRecoveryInv, NextRecoveryInv, PTL DEF Spec

\* Every variable of recovery keeps its type.
THEOREM TypeCorrect == Spec => []TypeOK
<1>1. RecoveryInv => TypeOK
    BY DEF RecoveryInv
<1> QED BY <1>1, Inductive, PTL

-----------------------------------------------------------------------------
(* Moved volumes are mapped *)

\* Failures and mishaps are never taken back.
LEMMA LedgerGrows ==
    ASSUME TypeOK, [Next]_vars
    PROVE  faults <= faults' /\ met \subseteq met'
<1>1. Works \/ Fails \/ UNCHANGED faults => faults <= faults'
    BY DEF TypeOK, Works, Fails
<1>2. \A m, b : Note(m, b) => met \subseteq met'
    BY DEF Note
<1>3. ASSUME NEW t \in Tasks, Reassign(t) PROVE faults <= faults' /\ met \subseteq met'
    BY <1>1, <1>2, <1>3 DEF Reassign, LockPV, FindNextAvailableNode, Unmap, Map, Export,
       UpdateEndpointSlice, NoteOutdated
<1>4. ASSUME NEW r \in Recoveries, Recovery(r) PROVE faults <= faults' /\ met \subseteq met'
    BY <1>1, <1>2, <1>4 DEF Recovery, ListSlices, CountExports, EndRecovery
<1>5. ASSUME NEW n \in Nodes, GoodPing(n) PROVE faults <= faults' /\ met \subseteq met'
    BY <1>1, <1>2, <1>5 DEF GoodPing
<1>6. ASSUME NEW n \in Nodes, NEW r \in Recoveries, StartRecovery(r, n)
      PROVE  faults <= faults' /\ met \subseteq met'
    BY <1>1, <1>2, <1>6 DEF StartRecovery
<1>7. ASSUME NEW t \in Tasks, SendUnexport(t) PROVE faults <= faults' /\ met \subseteq met'
    BY <1>1, <1>7 DEF SendUnexport
<1>8. ASSUME NEW v \in Volumes, NEW call \in sent[v], FinishSent(v, call)
      PROVE  faults <= faults' /\ met \subseteq met'
    BY <1>1, <1>2, <1>8 DEF FinishSent
<1>9. ASSUME Restart PROVE faults <= faults' /\ met \subseteq met'
    BY <1>1, <1>9 DEF Restart
<1>10. CASE UNCHANGED vars
    BY <1>1, <1>10 DEF vars
<1> QED BY <1>3, <1>4, <1>5, <1>6, <1>7, <1>8, <1>9, <1>10 DEF Next

\* While reassignVolume runs past LockPV for a volume, or takes its lock, no
\* other goroutine is past it.
LEMMA AloneOnVolume ==
    ASSUME RecoveryInv, NEW t \in Tasks, Reassign(t), NEW u \in Tasks, u # t, Vol(u) = Vol(t)
    PROVE  ~Held(u) /\ ~Held(u)'
<1>1. ~Held(u)
    <2>1. CASE Held(t)
        BY <2>1, Exclusive
    <2>2. CASE arrayLock[Vol(t)] = None
        BY <2>2, TaskParts, RecoveriesAssumption DEF RecoveryInv, TaskInv, TaskAt
    <2> QED BY <2>1, <2>2, ReassignControl
<1>2. step'[u] = step[u]
    BY ReassignFrame DEF RecoveryInv, OtherTasks
<1> QED BY <1>1, <1>2 DEF Held

\* A goroutine unmaps the slice's node only if it is going to replace it, and
\* the node it selected is mapped before it does.
LEMMA ReassignMaps ==
    ASSUME RecoveryInv, Mapped, NEW t \in Tasks, Reassign(t), ~Fails,
           met' \cap {"cornered", "returned"} = {}
    PROVE  MappedAt(t)' /\ (~Held(t)' => slice'[Vol(t)] \in published'[Vol(t)])
<1>0. /\ TypeOK /\ MappedAt(t) /\ TaskAt(t) /\ Vol(t) \in Volumes /\ service[Vol(t)].exists
    BY TaskParts DEF RecoveryInv, TaskInv, Mapped
<1> USE ControlFrame, <1>0 DEF MappedAt, Held
<1>1. CASE LockPV(t)
    <2>1. Unheld(Vol(t))
        BY <1>1, AloneOnVolume DEF LockPV, Unheld
    <2> QED BY <1>1, <2>1 DEF LockPV, TypeOK, Mapped, k8sVars
<1>2. CASE FindNextAvailableNode(t)
    BY <1>2 DEF FindNextAvailableNode, Note, TypeOK, k8sVars
<1>3. CASE Unmap(t)
    <2>1. t \in fresh \/ slice[Vol(t)] # failed[Rec(t)]
        BY <1>3 DEF Unmap, NoteOutdated
    <2> QED BY <1>3, <2>1 DEF Unmap, UnmapFromHost, TypeOK, k8sVars
<1>4. CASE Map(t)
    BY <1>4 DEF Map, MapToHost, TypeOK, k8sVars
<1>5. CASE Export(t)
    BY <1>5 DEF Export, k8sVars
<1>6. CASE UpdateEndpointSlice(t)
    BY <1>6 DEF UpdateEndpointSlice, PutSlice, TypeOK
<1> QED BY <1>1, <1>2, <1>3, <1>4, <1>5, <1>6 DEF Reassign

\* What a goroutine does to its own volume is all there is to show.
LEMMA ReassignMapped ==
    ASSUME RecoveryInv, Mapped, NEW t \in Tasks, Reassign(t),
           MappedAt(t)' /\ (~Held(t)' => slice'[Vol(t)] \in published'[Vol(t)])
    PROVE  Mapped'
<1>0. TypeOK /\ OtherTasks(t) /\ OtherVolumes(t)
    BY ReassignFrame DEF RecoveryInv
<1>1. ASSUME NEW u \in Tasks PROVE MappedAt(u)'
    <2>1. CASE u # t /\ Vol(u) = Vol(t)
        BY <2>1, AloneOnVolume DEF MappedAt, Held
    <2>2. CASE Vol(u) # Vol(t)
        BY <1>0, <2>2, TaskParts DEF OtherTasks, OtherVolumes, MappedAt, Mapped
    <2> QED BY <2>1, <2>2
<1>2. ASSUME NEW v \in Volumes, Unheld(v)' PROVE slice'[v] \in published'[v]
    <2>1. CASE v = Vol(t)
        BY <1>2, <2>1 DEF Unheld
    <2>2. CASE v # Vol(t)
        <3>1. Unheld(v)
            BY <1>0, <1>2, <2>2 DEF OtherTasks, Unheld, Held
        <3> QED BY <1>0, <2>2, <3>1 DEF OtherVolumes, Mapped
    <2> QED BY <2>1, <2>2
<1>3. \A v \in Volumes : service'[v].exists
    BY <1>0 DEF OtherTasks, Mapped
<1> QED BY <1>1, <1>2, <1>3 DEF Mapped

\* No other step moves, maps or unmaps a volume, and the goroutines past LockPV
\* go on undisturbed.
SameGoroutine(t) ==
    \/ step'[t] = step[t] /\ selected'[t] = selected[t] /\ (t \in fresh => t \in fresh')
    \/ ~Held(t) /\ ~Held(t)'

\* The steps beside reassignVolume are such steps, unless the controller restarts.
LEMMA ElsewhereTasks ==
    ASSUME RecoveryInv, Next, ~Fails, \A t \in Tasks : ~Reassign(t)
    PROVE  UNCHANGED <<slice, service, published>> /\ \A t \in Tasks : SameGoroutine(t)
<1> USE TaskParts DEF k8sVars, hostVars, countVars, taskVars
<1>0. TypeOK /\ TaskInv
    BY DEF RecoveryInv
<1>1. UNCHANGED <<slice, service, published>>
    BY DEF Next, GoodPing, StartRecovery, Recovery, ListSlices, CountExports, EndRecovery,
       SendUnexport, FinishSent, Restart
<1>2. ASSUME NEW t \in Tasks PROVE SameGoroutine(t)
    <2>1. ASSUME NEW r \in Recoveries, ListSlices(r) PROVE SameGoroutine(t)
        <3>1. t \in GetEndpointSlices(r) => step[t] = "none"
            BY <1>0, <2>1 DEF ListSlices, GetEndpointSlices, TaskInv, TaskAt
        <3>2. /\ step'[t] = IF t \in GetEndpointSlices(r) THEN "lock" ELSE step[t]
              /\ fresh \subseteq fresh' /\ UNCHANGED selected
            BY <2>1 DEF ListSlices
        <3> QED BY <3>1, <3>2 DEF SameGoroutine, Held
    <2>2. ASSUME NEW r \in Recoveries, EndRecovery(r) PROVE SameGoroutine(t)
        <3>1. CASE Rec(t) = r
            <4>1. t = <<r, Vol(t)>>
                BY <2>2, <3>1
            <4>2. ~Active(t)
                BY <2>2, <4>1 DEF EndRecovery
            <4> QED BY <2>2, <3>1, <4>2 DEF EndRecovery, Active, Held, SameGoroutine
        <3>2. CASE Rec(t) # r
            BY <1>0, <2>2, <3>2 DEF EndRecovery, TypeOK, SameGoroutine
        <3> QED BY <3>1, <3>2
    <2>3. CASE UNCHANGED <<step, selected, fresh>>
        BY <2>3 DEF SameGoroutine
    <2> QED BY <2>1, <2>2, <2>3 DEF Next, GoodPing, StartRecovery, Recovery, CountExports,
               SendUnexport, FinishSent, Restart
<1> QED BY <1>1, <1>2

\* So they keep the volumes mapped.
LEMMA ElsewhereMapped ==
    ASSUME RecoveryInv, Mapped, Next, ~Fails, \A t \in Tasks : ~Reassign(t)
    PROVE  Mapped'
<1>1. UNCHANGED <<slice, service, published>> /\ \A t \in Tasks : SameGoroutine(t)
    BY ElsewhereTasks
<1>2. \A t \in Tasks : MappedAt(t)'
    BY <1>1 DEF Mapped, MappedAt, Held, SameGoroutine
<1>3. ASSUME NEW v \in Volumes, Unheld(v)' PROVE Unheld(v)
    BY <1>1, <1>3 DEF Unheld, Held, SameGoroutine
<1> QED BY <1>1, <1>2, <1>3 DEF Mapped

\* A step in which nothing fails, no move was cornered and none went on with a
\* slice that had come back keeps the volumes mapped.
LEMMA NextMapped ==
    ASSUME RecoveryInv, MappedInv, [Next]_vars PROVE MappedInv'
<1> SUFFICES ASSUME faults' = 0, met' \cap {"cornered", "returned"} = {} PROVE Mapped'
    BY DEF MappedInv
<1>0. TypeOK /\ Mapped
    BY LedgerGrows DEF RecoveryInv, TypeOK, MappedInv
<1>1. ~Fails
    BY <1>0 DEF Fails, TypeOK
<1>2. CASE UNCHANGED vars
    BY <1>0, <1>2 DEF Mapped, MappedAt, Unheld, Held, vars, taskVars
<1>3. CASE Next /\ \A t \in Tasks : ~Reassign(t)
    BY <1>0, <1>1, <1>3, ElsewhereMapped
<1>4. CASE \E t \in Tasks : Reassign(t)
    BY <1>0, <1>1, <1>4, ReassignMaps, ReassignMapped
<1> QED BY <1>2, <1>3, <1>4

\* At the start every volume is mapped to its server.
LEMMA InitMapped == Init => MappedInv
BY DEF Init, InitRecovery, MappedInv, Mapped, MappedAt

\* However many recoveries of flapping nodes overlap, a volume nobody moves is
\* mapped to the node its slice names, unless a call failed, no node was left,
\* or a slice came back to a node while an outdated reassignVolume waited to
\* unmap it.
THEOREM MovesStayMapped == Spec => []SliceNodeMapped
<1>1. MappedInv => SliceNodeMapped
    BY DEF MappedInv, Mapped, SliceNodeMapped, Untouched, Active, Unheld, Held
<1>2. RecoveryInv /\ MappedInv /\ [Next]_vars => MappedInv'
    BY NextMapped
<1> QED BY <1>1, <1>2, InitMapped, Inductive, PTL DEF Spec

-----------------------------------------------------------------------------
(* Moved volumes are served *)

\* A goroutine takes its volume from one server to the next.
LEMMA ReassignMoves ==
    ASSUME RecoveryInv, Moved, NEW t \in Tasks, Reassign(t), ~Fails, met' \subseteq {"overlap"}
    PROVE  MovedAt(t)' /\ (~Held(t)' => ServedBy(Vol(t), slice[Vol(t)])')
<1>0. /\ TypeOK /\ MovedAt(t) /\ TaskAt(t) /\ Vol(t) \in Volumes /\ service[Vol(t)].exists
    BY TaskParts DEF RecoveryInv, TaskInv, Moved
<1> USE ControlFrame, <1>0 DEF MovedAt, Held, ServedBy
<1>1. CASE LockPV(t)
    <2>1. Unheld(Vol(t))
        BY <1>1, AloneOnVolume DEF LockPV, Unheld
    <2> QED BY <1>1, <2>1 DEF LockPV, TypeOK, Moved, k8sVars, hostVars
<1>2. CASE FindNextAvailableNode(t)
    BY <1>2 DEF FindNextAvailableNode, Note, TypeOK, k8sVars, hostVars
<1>3. CASE Unmap(t)
    <2>1. t \in fresh /\ slice[Vol(t)] = failed[Rec(t)]
        BY <1>3 DEF Unmap, NoteOutdated, TaskAt
    <2> QED BY <1>3, <2>1 DEF Unmap, UnmapFromHost, TypeOK, k8sVars, hostVars
<1>4. CASE Map(t)
    BY <1>4 DEF Map, MapToHost, TypeOK, k8sVars, hostVars
<1>5. CASE Export(t)
    BY <1>5 DEF Export, MountOn, ExportOn, TypeOK, k8sVars
<1>6. CASE UpdateEndpointSlice(t)
    BY <1>6 DEF UpdateEndpointSlice, PutSlice, TypeOK, hostVars
<1> QED BY <1>1, <1>2, <1>3, <1>4, <1>5, <1>6 DEF Reassign

\* What a goroutine does to its own volume is all there is to show.
LEMMA ReassignMoved ==
    ASSUME RecoveryInv, Moved, NEW t \in Tasks, Reassign(t),
           MovedAt(t)' /\ (~Held(t)' => ServedBy(Vol(t), slice[Vol(t)])')
    PROVE  Moved'
<1>0. TypeOK /\ OtherTasks(t) /\ OtherVolumes(t)
    BY ReassignFrame DEF RecoveryInv
<1>1. ASSUME NEW u \in Tasks PROVE MovedAt(u)'
    <2>1. CASE u # t /\ Vol(u) = Vol(t)
        BY <2>1, AloneOnVolume DEF MovedAt, Held
    <2>2. CASE Vol(u) # Vol(t)
        BY <1>0, <2>2, TaskParts DEF OtherTasks, OtherVolumes, MovedAt, ServedBy, Moved
    <2> QED BY <2>1, <2>2
<1>2. ASSUME NEW v \in Volumes, Unheld(v)' PROVE ServedBy(v, slice[v])'
    <2>1. CASE v = Vol(t)
        BY <1>2, <2>1 DEF Unheld
    <2>2. CASE v # Vol(t)
        <3>1. Unheld(v)
            BY <1>0, <1>2, <2>2 DEF OtherTasks, Unheld, Held
        <3> QED BY <1>0, <2>2, <3>1 DEF OtherVolumes, ServedBy, Moved
    <2> QED BY <2>1, <2>2
<1>3. \A v \in Volumes : service'[v].exists
    BY <1>0 DEF OtherTasks, Moved
<1> QED BY <1>1, <1>2, <1>3 DEF Moved

\* A dump, or an unexport that ends late, takes a mount or an export only from a
\* node that neither serves the volume nor is to serve it; else it is noted.
LEMMA ServingKeepsHosts ==
    ASSUME RecoveryInv, Next, ~Fails, \A t \in Tasks : ~Reassign(t), "undone" \notin met',
           NEW v \in Volumes, NEW n \in Serving(v), n \in mounted[v] \cap exported[v]
    PROVE  n \in mounted'[v] \cap exported'[v]
<1>0. TypeOK
    BY DEF RecoveryInv
<1>1. CASE UNCHANGED hostVars
    BY <1>1 DEF hostVars
<1>2. ASSUME NEW m \in Nodes, GoodPing(m) PROVE n \in mounted'[v] \cap exported'[v]
    <2>1. /\ exported' = Without(exported, m, Dumped(m)) /\ mounted' = Without(mounted, m, Dumped(m))
          /\ ~ \E w \in Dumped(m) : m \in Serving(w)
        BY <1>2 DEF GoodPing, Note
    <2>2. v \notin Dumped(m) \/ n # m
        BY <2>1
    <2> QED BY <2>1, <2>2 DEF Without
<1>3. ASSUME NEW w \in Volumes, NEW call \in sent[w], FinishSent(w, call)
      PROVE  n \in mounted'[v] \cap exported'[v]
    <2>1. NodeCallEnds(w, call) /\ ~(call.op = "unexport" /\ call.node \in Serving(w))
        BY <1>3 DEF FinishSent, Note
    <2>2. CASE ExportUpTo(w, call.node)
        BY <1>0, <2>2 DEF ExportUpTo, MountOn, ExportOn, TypeOK
    <2>3. CASE UnexportUpTo(w, call.node) /\ call.node \notin Serving(w)
        BY <1>0, <2>3 DEF UnexportUpTo, UnmountOn, UnexportOn, TypeOK
    <2> QED BY <2>1, <2>2, <2>3 DEF NodeCallEnds
<1> QED BY <1>1, <1>2, <1>3 DEF Next, StartRecovery, Recovery, ListSlices, CountExports,
           EndRecovery, SendUnexport, Restart

\* So the steps beside reassignVolume keep the volumes served.
LEMMA ElsewhereMoved ==
    ASSUME RecoveryInv, Moved, Next, ~Fails, \A t \in Tasks : ~Reassign(t), "undone" \notin met'
    PROVE  Moved'
<1>1. UNCHANGED <<slice, service, published>> /\ \A t \in Tasks : SameGoroutine(t)
    BY ElsewhereTasks
<1>2. ASSUME NEW v \in Volumes, ServedBy(v, slice[v]) PROVE ServedBy(v, slice[v])'
    BY <1>1, <1>2, ServingKeepsHosts DEF ServedBy, Serving
<1>3. ASSUME NEW t \in Tasks PROVE MovedAt(t)'
    <2>0. MovedAt(t) /\ Vol(t) \in Volumes
        BY TaskParts DEF Moved
    <2>1. CASE ~Held(t)'
        BY <2>1 DEF MovedAt, Held
    <2>2. CASE /\ step'[t] = step[t] /\ selected'[t] = selected[t] /\ (t \in fresh => t \in fresh')
        <3>1. step[t] = "update" => selected[t] \in Serving(Vol(t))
            BY DEF Serving, Active
        <3>2. step[t] = "update" => ServedBy(Vol(t), selected[t])'
            BY <1>1, <2>0, <2>2, <3>1, ServingKeepsHosts DEF MovedAt, ServedBy
        <3> QED BY <1>1, <1>2, <2>0, <2>2, <3>2 DEF MovedAt
    <2> QED BY <1>1, <2>1, <2>2 DEF SameGoroutine
<1>4. ASSUME NEW v \in Volumes, Unheld(v)' PROVE Unheld(v)
    BY <1>1, <1>4 DEF Unheld, Held, SameGoroutine
<1> QED BY <1>1, <1>2, <1>3, <1>4 DEF Moved

\* A step in which nothing fails and nothing goes wrong but an overlap keeps the
\* volumes served.
LEMMA NextMoved ==
    ASSUME RecoveryInv, MovedInv, [Next]_vars PROVE MovedInv'
<1> SUFFICES ASSUME faults' = 0, met' \subseteq {"overlap"} PROVE Moved'
    BY DEF MovedInv
<1>0. TypeOK /\ Moved
    <2>1. TypeOK
        BY DEF RecoveryInv
    <2>2. faults <= faults' /\ met \subseteq met'
        BY <2>1, LedgerGrows
    <2>3. faults = 0
        BY <2>1, <2>2 DEF TypeOK
    <2> QED BY <2>1, <2>2, <2>3 DEF MovedInv
<1>1. ~Fails
    BY <1>0 DEF Fails, TypeOK
<1>2. CASE UNCHANGED vars
    BY <1>0, <1>2 DEF Moved, MovedAt, ServedBy, Unheld, Held, vars, taskVars, hostVars
<1>3. CASE Next /\ \A t \in Tasks : ~Reassign(t)
    BY <1>0, <1>1, <1>3, ElsewhereMoved
<1>4. CASE \E t \in Tasks : Reassign(t)
    BY <1>0, <1>1, <1>4, ReassignMoves, ReassignMoved
<1> QED BY <1>2, <1>3, <1>4

\* At the start every volume is served.
LEMMA InitMoved == Init => MovedInv
BY DEF Init, InitRecovery, MovedInv, Moved, MovedAt, ServedBy

\* A volume nobody moves is mapped to exactly the node its slice names, and is
\* mounted and exported there, after any number of recoveries, also at the same
\* time, unless a call failed or one of the noted mishaps happened.
THEOREM MovesAreServed == Spec => []MovedIsServed
<1>1. MovedInv => MovedIsServed
    BY DEF MovedInv, Moved, MovedIsServed, ServedBy, Untouched, Active, Unheld, Held
<1>2. RecoveryInv /\ MovedInv /\ [Next]_vars => MovedInv'
    BY NextMoved
<1> QED BY <1>1, <1>2, InitMoved, Inductive, PTL DEF Spec

-----------------------------------------------------------------------------
(* No volume is left behind *)

\* A recovery that starts while no other runs finds nothing left to do.
LEMMA StartTracked ==
    ASSUME RecoveryInv, Tracked, NEW r \in Recoveries, NEW n \in Nodes, StartRecovery(r, n),
           met' = {}
    PROVE  Tracked'
<1> USE TaskParts DEF k8sVars, hostVars, countVars, taskVars
<1>0. TypeOK
    BY DEF RecoveryInv
<1>1. \A s \in Recoveries : ~Running(s)
    BY DEF StartRecovery, Note
<1>2. /\ UNCHANGED <<slice, step, fresh, selected, exportCounts>>
      /\ phase' = [phase EXCEPT ![r] = "list"] /\ failed' = [failed EXCEPT ![r] = n]
      /\ status' = [status EXCEPT ![n] = "recovery"]
    BY DEF StartRecovery
<1>3. \A s \in Recoveries : Running(s)' <=> s = r
    BY <1>0, <1>1, <1>2 DEF TypeOK, Running
<1>4. \A t \in Tasks : step[t] = "none"
    BY <1>1 DEF Tracked, TrackedTask
<1>5. \A t \in Tasks : TrackedTask(t)'
    BY <1>2, <1>4 DEF TrackedTask, Held, Active
<1>6. ASSUME NEW v \in Volumes PROVE TrackedVolume(v)'
    <2>1. slice[v] # None /\ slice[v] # n => status'[slice[v]] # "recovery"
        BY <1>0, <1>1, <1>2 DEF TypeOK, Tracked, TrackedVolume
    <2>2. phase'[r] = "list" /\ failed'[r] = n
        BY <1>0, <1>2 DEF TypeOK
    <2> QED BY <1>2, <1>3, <2>1, <2>2 DEF TrackedVolume, Pending
<1>7. Eligible'
    BY <1>0, <1>1, <1>2 DEF TypeOK, Eligible, Running
<1> QED BY <1>3, <1>5, <1>6, <1>7 DEF Tracked, OneRunning

\* A node that answers is no longer in recovery.
LEMMA GoodPingTracked ==
    ASSUME RecoveryInv, Tracked, NEW n \in Nodes, GoodPing(n)
    PROVE  Tracked'
<1>0. TypeOK
    BY DEF RecoveryInv
<1>1. UNCHANGED <<slice, step, fresh, selected, exportCounts, phase, failed>>
    BY DEF GoodPing, k8sVars, countVars, taskVars
<1>2. \A m \in Nodes : status'[m] = "recovery" => status[m] = "recovery"
    BY <1>0 DEF GoodPing, TypeOK
<1>3. \A t \in Tasks : TrackedTask(t)'
    BY <1>0, <1>1, <1>2 DEF TypeOK, Tracked, TrackedTask, Held, Active, Running
<1>4. \A v \in Volumes : TrackedVolume(v)'
    BY <1>0, <1>1, <1>2 DEF TypeOK, Tracked, TrackedVolume, Pending, Active, Running
<1>5. Eligible' /\ OneRunning'
    BY <1>0, <1>1, <1>2 DEF TypeOK, Tracked, Eligible, OneRunning, Running
<1> QED BY <1>3, <1>4, <1>5 DEF Tracked

\* Every slice that names the node becomes a goroutine.
LEMMA ListTracked ==
    ASSUME RecoveryInv, Tracked, NEW r \in Recoveries, ListSlices(r), met' = {}
    PROVE  Tracked'
<1> USE TaskParts DEF k8sVars, hostVars, countVars
<1>0. TypeOK /\ phase[r] = "list"
    BY DEF RecoveryInv, ListSlices
<1>1. /\ step' = [t \in Tasks |-> IF t \in GetEndpointSlices(r) THEN "lock" ELSE step[t]]
      /\ fresh' = fresh \cup GetEndpointSlices(r) /\ phase' = [phase EXCEPT ![r] = "count"]
      /\ UNCHANGED <<slice, selected, exportCounts, failed, status>>
    BY DEF ListSlices, Note
<1>2. \A s \in Recoveries : Running(s)' = Running(s)
    BY <1>0, <1>1 DEF TypeOK, Running
<1>3. \A s \in Recoveries : Running(s) => s = r
    BY <1>0 DEF Tracked, OneRunning, Running
<1>4. ASSUME NEW t \in Tasks PROVE TrackedTask(t)'
    <2>1. CASE t \in GetEndpointSlices(r)
        <3>1. Rec(t) = r /\ step'[t] = "lock" /\ t \in fresh'
            BY <1>1, <2>1 DEF GetEndpointSlices
        <3> QED BY <1>0, <1>2, <3>1 DEF TrackedTask, Held, Running
    <2>2. CASE t \notin GetEndpointSlices(r)
        <3>1. step'[t] = step[t] /\ (t \in fresh => t \in fresh') /\ TrackedTask(t)
            BY <1>1, <2>2 DEF Tracked
        <3>2. Held(t) => phase'[Rec(t)] = "moving"
            BY <1>0, <1>1, <3>1 DEF TrackedTask, TypeOK
        <3> QED BY <1>1, <1>2, <3>1, <3>2 DEF TrackedTask, Held, Active
    <2> QED BY <2>1, <2>2
<1>5. ASSUME NEW v \in Volumes PROVE TrackedVolume(v)'
    <2>1. slice[v] = failed[r] => Active(<<r, v>>)'
        BY <1>1 DEF GetEndpointSlices, Active
    <2>2. slice[v] # None /\ status[slice[v]] = "recovery" => Running(r) /\ failed[r] = slice[v]
        BY <1>3 DEF Tracked, TrackedVolume
    <2> QED BY <1>1, <1>2, <2>1, <2>2 DEF TrackedVolume, Pending
<1>6. Eligible'
    BY <1>0, <1>1 DEF TypeOK, Tracked, Eligible
<1> QED BY <1>2, <1>4, <1>5, <1>6 DEF Tracked, OneRunning

\* Only nodes out of recovery are counted.
LEMMA CountTracked ==
    ASSUME RecoveryInv, Tracked, NEW r \in Recoveries, CountExports(r)
    PROVE  Tracked'
<1> USE TaskParts DEF k8sVars, hostVars, taskVars
<1>0. TypeOK /\ phase[r] = "count"
    BY DEF RecoveryInv, CountExports
<1>1. /\ phase' = [phase EXCEPT ![r] = "moving"]
      /\ UNCHANGED <<slice, step, fresh, selected, failed, status>>
    BY DEF CountExports
<1>2. \A s \in Recoveries : Running(s)' = Running(s)
    BY <1>0, <1>1 DEF TypeOK, Running
<1>3. \A t \in Tasks : TrackedTask(t)'
    <2>1. \A t \in Tasks : Held(t) => phase'[Rec(t)] = "moving"
        BY <1>0, <1>1 DEF Tracked, TrackedTask, TypeOK
    <2> QED BY <1>1, <1>2, <2>1 DEF Tracked, TrackedTask, Held, Active
<1>4. \A v \in Volumes : TrackedVolume(v)'
    <2>1. \A s \in Recoveries : phase[s] = "list" => phase'[s] = "list"
        BY <1>0, <1>1 DEF TypeOK
    <2> QED BY <1>1, <1>2, <2>1 DEF Tracked, TrackedVolume, Pending, Active
<1>5. Eligible'
    <2>1. DOMAIN exportCounts' \subseteq OutOfRecovery
        BY DEF CountExports
    <2> QED BY <1>1, <2>1, NoneAssumption DEF Eligible, OutOfRecovery
<1> QED BY <1>2, <1>3, <1>4, <1>5 DEF Tracked, OneRunning

\* A recovery that ends without a failed move has moved everything.
LEMMA EndTracked ==
    ASSUME RecoveryInv, Tracked, NEW r \in Recoveries, EndRecovery(r), met' = {}
    PROVE  Tracked'
<1> USE TaskParts DEF k8sVars, hostVars, countVars
<1>0. TypeOK /\ phase[r] = "moving"
    BY DEF RecoveryInv, EndRecovery
<1>1. /\ \A v \in Volumes : ~Active(<<r, v>>) /\ step[<<r, v>>] # "failed"
      /\ phase' = [phase EXCEPT ![r] = "over"]
      /\ step' = [t \in Tasks |-> IF Rec(t) = r THEN "none" ELSE step[t]]
      /\ UNCHANGED <<slice, status, failed, exportCounts>>
    BY DEF EndRecovery, Note
<1>2. \A s \in Recoveries : Running(s) => s = r
    BY <1>0 DEF Tracked, OneRunning, Running
<1>3. \A s \in Recoveries : ~Running(s)'
    BY <1>0, <1>1, <1>2 DEF TypeOK, Running
<1>4. \A t \in Tasks : step'[t] = "none"
    BY <1>1, <1>2 DEF Tracked, TrackedTask
<1>5. \A t \in Tasks : TrackedTask(t)'
    BY <1>4 DEF TrackedTask, Held, Active
<1>6. \A v \in Volumes : TrackedVolume(v)'
    BY <1>0, <1>1, <1>2 DEF Tracked, TrackedVolume, Pending
<1>7. Eligible' /\ OneRunning'
    BY <1>3 DEF Eligible, OneRunning, Running
<1> QED BY <1>5, <1>6, <1>7 DEF Tracked

\* A goroutine selects a node out of recovery, and is done only when its slice
\* names that node.
LEMMA ReassignTracks ==
    ASSUME RecoveryInv, Tracked, NEW t \in Tasks, Reassign(t), met' = {}
    PROVE  /\ step'[t] \in {"unmap", "map", "export", "update"} =>
                  selected'[t] # None /\ status[selected'[t]] # "recovery"
           /\ Held(t)' => phase[Rec(t)] = "moving"
           /\ \/ Active(t)' \/ step'[t] = "failed"
              \/ step'[t] = "done" /\ status[slice'[Vol(t)]] # "recovery"
           /\ \A n \in DOMAIN exportCounts' : n \in DOMAIN exportCounts \/ n = selected'[t]
           /\ DOMAIN exportCounts' # DOMAIN exportCounts =>
                  selected'[t] # None /\ status[selected'[t]] # "recovery"
<1>0. /\ TypeOK /\ TrackedTask(t) /\ Vol(t) \in Volumes /\ Rec(t) \in Recoveries /\ Eligible
    BY TaskParts DEF RecoveryInv, Tracked
<1> USE ControlFrame, <1>0 DEF TrackedTask, Held, Active
<1>1. CASE LockPV(t)
    BY <1>1 DEF LockPV, TypeOK, countVars
<1>2. CASE FindNextAvailableNode(t)
    <2>1. CASE Error(t) /\ UNCHANGED <<countVars, selected>>
        BY <1>2, <2>1 DEF FindNextAvailableNode, countVars
    <2>2. ASSUME NEW n \in NextAvailable, Reserve(n), selected' = [selected EXCEPT ![t] = n],
                 Note("cornered", n = None), step' = [step EXCEPT ![t] = "unmap"]
          PROVE  /\ n \in DOMAIN exportCounts /\ n # None /\ status[n] # "recovery"
                 /\ selected'[t] = n /\ step'[t] = "unmap"
                 /\ DOMAIN exportCounts' = DOMAIN exportCounts \cup {n}
                 /\ phase[Rec(t)] = "moving"
        <3>1. n # None /\ n \in DOMAIN exportCounts
            BY <2>2 DEF Note, NextAvailable, Lowest
        <3>2. phase[Rec(t)] = "moving"
            BY <1>2 DEF FindNextAvailableNode
        <3> QED BY <2>2, <3>1, <3>2 DEF Eligible, Reserve, TypeOK
    <2> QED BY <1>2, <2>1, <2>2 DEF FindNextAvailableNode
<1>3. CASE Unmap(t)
    BY <1>3 DEF Unmap, countVars
<1>4. CASE Map(t)
    BY <1>4 DEF Map, countVars
<1>5. CASE Export(t)
    BY <1>5 DEF Export, countVars
<1>6. CASE UpdateEndpointSlice(t)
    <2>1. PutSlice(Vol(t), selected[t]) /\ UNCHANGED <<selected, exportCounts>> /\ step'[t] = "done"
        BY <1>6 DEF UpdateEndpointSlice, Note, countVars
    <2>2. slice'[Vol(t)] = selected[t] /\ step[t] = "update"
        BY <1>6, <2>1 DEF UpdateEndpointSlice, PutSlice, TypeOK
    <2> QED BY <2>1, <2>2
<1> QED BY <1>1, <1>2, <1>3, <1>4, <1>5, <1>6 DEF Reassign

\* So a step of reassignVolume loses no volume.
LEMMA ReassignTracked ==
    ASSUME RecoveryInv, Tracked, NEW t \in Tasks, Reassign(t), met' = {}
    PROVE  Tracked'
<1>0. /\ TypeOK /\ OtherTasks(t) /\ OtherVolumes(t) /\ Vol(t) \in Volumes /\ Rec(t) \in Recoveries
      /\ step[t] # "none" /\ TrackedTask(t)
    BY ReassignFrame, ReassignControl, TaskParts DEF RecoveryInv, Tracked
<1>1. UNCHANGED <<phase, failed, status>>
    BY <1>0 DEF OtherTasks
<1>2. OneRunning' /\ \A r \in Recoveries : Running(r)' = Running(r)
    BY <1>1 DEF Tracked, OneRunning, Running
<1>3. ASSUME NEW u \in Tasks, u # t PROVE TrackedTask(u)'
    <2>0. TrackedTask(u) /\ step'[u] = step[u] /\ selected'[u] = selected[u]
        BY <1>0, <1>3 DEF Tracked, OtherTasks
    <2>1. CASE step[u] = "none"
        BY <2>0, <2>1 DEF TrackedTask, Held, Active
    <2>2. CASE step[u] # "none"
        <3>1. Vol(u) # Vol(t)
            BY <1>0, <1>3, <2>0, <2>2, TaskParts DEF Tracked, OneRunning, TrackedTask
        <3>2. u \in fresh => u \in fresh'
            BY <1>0, <1>3, <3>1, TaskParts DEF OtherTasks, OtherVolumes
        <3> QED BY <1>1, <1>2, <2>0, <3>2, TaskParts DEF TrackedTask, Held, Active
    <2> QED BY <2>1, <2>2
<1>4. TrackedTask(t)'
    <2>1. Active(t)' \/ step'[t] = "failed" => t \in fresh'
        <3>1. step[t] = "update" => step'[t] = "done"
            BY <1>0, ControlFrame DEF Reassign, LockPV, FindNextAvailableNode, Unmap, Map, Export,
               UpdateEndpointSlice
        <3>2. t \in fresh
            BY <1>0, ReassignControl DEF TrackedTask, Held, Active
        <3> QED BY <1>0, <3>1, <3>2 DEF OtherVolumes, Active
    <2> QED BY <1>0, <1>1, <1>2, <2>1, ReassignTracks DEF TrackedTask
<1>5. ASSUME NEW v \in Volumes PROVE TrackedVolume(v)'
    <2>1. CASE v = Vol(t) /\ step'[t] = "done"
        BY <1>1, <2>1, ReassignTracks DEF TrackedVolume, Active
    <2>2. CASE v # Vol(t) \/ step'[t] # "done"
        <3>1. slice'[v] = slice[v]
            <4>1. step[t] = "update" => step'[t] = "done"
                BY <1>0, ControlFrame DEF Reassign, LockPV, FindNextAvailableNode, Unmap, Map,
                   Export, UpdateEndpointSlice
            <4> QED BY <1>0, <2>2, <4>1 DEF OtherVolumes
        <3>2. ASSUME NEW r \in Recoveries, Pending(r, v) PROVE Pending(r, v)'
            <4>1. CASE <<r, v>> = t
                <5>1. v = Vol(t)
                    BY <4>1, TaskParts
                <5> QED BY <2>2, <4>1, <5>1, ReassignTracks DEF Pending
            <4>2. CASE <<r, v>> # t
                BY <1>0, <1>1, <3>2, <4>2, TaskParts DEF Pending, OtherTasks, Active
            <4> QED BY <4>1, <4>2
        <3> QED BY <1>1, <1>2, <3>1, <3>2 DEF Tracked, TrackedVolume
    <2> QED BY <2>1, <2>2
<1>6. Eligible'
    BY <1>1, ReassignTracks DEF Tracked, Eligible
<1> QED BY <1>2, <1>3, <1>4, <1>5, <1>6 DEF Tracked

\* Calls on the nodes touch none of it, and a restart begins with all nodes up.
LEMMA OutsideTracked ==
    ASSUME RecoveryInv, Tracked,
           \/ \E t \in Tasks : SendUnexport(t)
           \/ \E v \in Volumes : \E call \in sent[v] : FinishSent(v, call)
           \/ Restart \/ UNCHANGED vars
    PROVE  Tracked'
<1> USE DEF k8sVars, countVars, taskVars
<1>0. TypeOK
    BY DEF RecoveryInv
<1>1. CASE UNCHANGED <<slice, status, phase, failed, exportCounts, step, selected, fresh>>
    BY <1>1 DEF Tracked, OneRunning, Eligible, TrackedTask, TrackedVolume, Pending, Held,
       Active, Running
<1>2. CASE Restart
    <2>1. \A r \in Recoveries : ~Running(r)'
        BY <1>2 DEF Restart, Running
    <2>2. \A t \in Tasks : TrackedTask(t)'
        BY <1>2 DEF Restart, TrackedTask, Held, Active
    <2>3. \A v \in Volumes : TrackedVolume(v)'
        BY <1>0, <1>2 DEF Restart, TrackedVolume, TypeOK
    <2> QED BY <2>1, <2>2, <2>3 DEF Tracked, OneRunning, Eligible, Running
<1> QED BY <1>1, <1>2 DEF SendUnexport, FinishSent, vars

\* As long as nothing goes wrong, no step leaves a volume behind.
LEMMA NextTracked ==
    ASSUME RecoveryInv, AllMovedInv, [Next]_vars PROVE AllMovedInv'
<1> SUFFICES ASSUME met' = {} PROVE Tracked'
    BY DEF AllMovedInv
<1>1. Tracked
    <2>1. met \subseteq met'
        BY LedgerGrows DEF RecoveryInv
    <2> QED BY <2>1 DEF AllMovedInv
<1> QED BY <1>1, StartTracked, GoodPingTracked, ListTracked, CountTracked, EndTracked,
           ReassignTracked, OutsideTracked DEF Next, Recovery

\* At the start every node is up.
LEMMA InitTracked == Init => AllMovedInv
<1> SUFFICES ASSUME Init PROVE Tracked
    BY DEF AllMovedInv
<1>1. \A v \in Volumes : TrackedVolume(v)
    BY DEF Init, InitRecovery, TrackedVolume
<1>2. \A t \in Tasks : TrackedTask(t)
    BY DEF Init, InitRecovery, TrackedTask, Held, Active
<1> QED BY <1>1, <1>2 DEF Init, InitRecovery, Tracked, OneRunning, Eligible, Running

\* When no recovery runs any more, no slice names a node that is still down, for
\* any number of nodes that fail one after the other, of failing calls that a
\* second attempt makes good, and of controller restarts.
THEOREM NothingLeftBehind == Spec => []AllMoved
<1>1. AllMovedInv => AllMoved
    BY DEF AllMovedInv, Tracked, TrackedVolume, AllMoved, NoneRunning
<1>2. RecoveryInv /\ AllMovedInv /\ [Next]_vars => AllMovedInv'
    BY NextTracked
<1> QED BY <1>1, <1>2, InitTracked, Inductive, PTL DEF Spec

-----------------------------------------------------------------------------
(* The moves are spread over the nodes *)

\* What a step of reassignVolume does when nothing fails: it goes on to the next
\* one; the export adds the selected node, the update makes it the server.
LEMMA ReassignEffect ==
    ASSUME RecoveryInv, Moved, NEW t \in Tasks, Reassign(t), ~Fails, met' \subseteq {"overlap"}
    PROVE  /\ UNCHANGED sent
           /\ \/ /\ UNCHANGED <<slice, mounted, exported, exportCounts, reserved>>
                 /\ \/ step[t] = "lock" /\ step'[t] = "find"
                    \/ step[t] = "unmap" /\ step'[t] = "map" /\ selected' = selected
                    \/ step[t] = "map" /\ step'[t] = "export" /\ selected' = selected
              \/ /\ step[t] = "find" /\ step'[t] = "unmap" /\ selected'[t] \in Lowest
                 /\ Reserve(selected'[t]) /\ reserved' = reserved \cup {selected'[t]}
                 /\ UNCHANGED <<slice, mounted, exported>>
              \/ /\ step[t] = "export" /\ step'[t] = "update"
                 /\ UNCHANGED <<slice, selected, exportCounts, reserved>>
                 /\ MountOn(Vol(t), selected[t]) /\ ExportOn(Vol(t), selected[t])
              \/ /\ step[t] = "update" /\ step'[t] = "done"
                 /\ UNCHANGED <<mounted, exported, selected, exportCounts, reserved>>
                 /\ PutSlice(Vol(t), selected[t])
<1>0. /\ TypeOK /\ MovedAt(t) /\ Vol(t) \in Volumes /\ service[Vol(t)].exists
    BY TaskParts DEF RecoveryInv, Moved
<1> USE ControlFrame, <1>0 DEF k8sVars, hostVars, countVars
<1>1. CASE LockPV(t)
    BY <1>1 DEF LockPV, TypeOK
<1>2. CASE FindNextAvailableNode(t)
    <2>1. PICK n \in NextAvailable : /\ Reserve(n) /\ reserved' = reserved \cup {n}
                                     /\ selected' = [selected EXCEPT ![t] = n]
                                     /\ Note("cornered", n = None)
        BY <1>2 DEF FindNextAvailableNode
    <2>2. n # None /\ selected'[t] = n
        BY <2>1 DEF Note, TypeOK
    <2>3. n \in Lowest
        BY <2>2 DEF NextAvailable
    <2>4. /\ step[t] = "find" /\ step'[t] = "unmap" /\ UNCHANGED <<slice, mounted, exported, sent>>
        BY <1>2 DEF FindNextAvailableNode, TypeOK
    <2> QED BY <2>1, <2>2, <2>3, <2>4
<1>3. CASE Unmap(t)
    BY <1>3 DEF Unmap
<1>4. CASE Map(t)
    BY <1>4 DEF Map, MovedAt
<1>5. CASE Export(t)
    BY <1>5 DEF Export
<1>6. CASE UpdateEndpointSlice(t)
    BY <1>6 DEF UpdateEndpointSlice, MovedAt
<1> QED BY <1>1, <1>2, <1>3, <1>4, <1>5, <1>6 DEF Reassign

\* While recoveries do not overlap, a volume has one goroutine.
LEMMA OnlyTask ==
    ASSUME Tracked, NEW t \in Tasks, NEW u \in Tasks, step[t] # "none", step[u] # "none",
           Vol(t) = Vol(u)
    PROVE  t = u
BY TaskParts DEF Tracked, TrackedTask, OneRunning

\* A goroutine leaves an export behind only on the failed node, which is in
\* recovery.
LEMMA ReassignExported ==
    ASSUME RecoveryInv, Moved, Tracked, Exported, NEW t \in Tasks, Reassign(t), ~Fails, met' = {}
    PROVE  Exported'
<1>0. /\ TypeOK /\ MovedAt(t) /\ TrackedTask(t) /\ TaskAt(t) /\ Vol(t) \in Volumes
      /\ Rec(t) \in Recoveries /\ OtherTasks(t) /\ OtherVolumes(t) /\ step[t] # "none"
    BY TaskParts, ReassignFrame, ReassignControl DEF RecoveryInv, TaskInv, Moved, Tracked
<1>1. UNCHANGED <<failed, status, phase, sent>>
    BY <1>0, ReassignEffect DEF OtherTasks
<1>2. ASSUME NEW v \in Volumes PROVE slice'[v] \in mounted'[v] \cap exported'[v]
    <2>1. CASE v # Vol(t)
        BY <1>0, <2>1 DEF OtherVolumes, Exported
    <2>2. CASE v = Vol(t) /\ step[t] = "update"
        BY <1>0, <2>2, ReassignEffect DEF PutSlice, TypeOK, MovedAt, ServedBy
    <2>3. CASE v = Vol(t) /\ step[t] # "update"
        <3>1. slice' = slice /\ mounted[v] \subseteq mounted'[v] /\ exported[v] \subseteq exported'[v]
            BY <1>0, <2>3, ReassignEffect DEF MountOn, ExportOn, TypeOK
        <3> QED BY <3>1 DEF Exported
    <2> QED BY <2>1, <2>2, <2>3
<1>3. step[t] = "update" =>
          /\ slice[Vol(t)] = failed[Rec(t)] /\ status[failed[Rec(t)]] = "recovery"
          /\ status[selected[t]] # "recovery" /\ selected'[t] = selected[t]
          /\ slice'[Vol(t)] = selected[t] /\ UNCHANGED exported
    BY <1>0, ReassignEffect DEF MovedAt, TaskAt, TrackedTask, Exported, PutSlice, TypeOK
<1>4. ASSUME NEW r \in Recoveries, NEW v \in Volumes, Running(r)', slice'[v] = failed'[r]
      PROVE  status'[failed'[r]] = "recovery"
    <2>0. Running(r) /\ failed'[r] = failed[r] /\ r = Rec(t)
        BY <1>0, <1>1, <1>4 DEF Running, Tracked, OneRunning, TrackedTask
    <2>1. CASE v = Vol(t) /\ step[t] = "update"
        BY <1>1, <1>3, <1>4, <2>0, <2>1
    <2>2. CASE slice'[v] = slice[v]
        BY <1>1, <1>4, <2>0, <2>2 DEF Exported
    <2> QED BY <1>0, <2>1, <2>2 DEF OtherVolumes
<1>5. ASSUME NEW n \in Nodes, NEW v \in Volumes, n \in exported'[v], status'[n] # "recovery"
      PROVE  \/ n = slice'[v]
             \/ \E u \in Tasks : Vol(u) = v /\ selected'[u] = n /\ step'[u] = "update"
    <2>1. CASE v # Vol(t)
        <3>1. n = slice[v] \/ \E u \in Tasks : Vol(u) = v /\ selected[u] = n /\ step[u] = "update"
            BY <1>0, <1>1, <1>5, <2>1 DEF OtherVolumes, Exported
        <3> QED BY <1>0, <2>1, <3>1 DEF OtherVolumes, OtherTasks
    <2>2. CASE v = Vol(t) /\ n \in exported[v]
        <3>1. n = slice[v] \/ \E u \in Tasks : Vol(u) = v /\ selected[u] = n /\ step[u] = "update"
            BY <1>1, <1>5, <2>2 DEF Exported
        <3>2. n = slice[v] \/ (selected[t] = n /\ step[t] = "update")
            BY <1>0, <2>2, <3>1, OnlyTask
        <3>3. step[t] # "update" => slice'[v] = slice[v]
            BY <1>0 DEF OtherVolumes
        <3> QED BY <1>1, <1>3, <1>5, <2>2, <3>2, <3>3
    <2>3. CASE v = Vol(t) /\ n \notin exported[v]
        <3>1. step[t] = "export" /\ step'[t] = "update" /\ selected'[t] = n
            BY <1>0, <1>5, <2>3, ReassignEffect DEF ExportOn, TypeOK
        <3> QED BY <2>3, <3>1
    <2> QED BY <2>1, <2>2, <2>3
<1> QED BY <1>1, <1>2, <1>4, <1>5 DEF Exported

\* The load of a node that may be selected counts each of its volumes once.
LEMMA LoadFinite == \A n : IsFiniteSet(Load(n)) /\ IsFiniteSet(Load(n)')
BY VolumesAssumption, FS_Subset DEF Load

\* The volume a goroutine is looking for a place for is on no node that may be
\* selected; it is counted from then on.
LEMMA ReassignCounted ==
    ASSUME RecoveryInv, Moved, Tracked, Exported, Counted, NEW t \in Tasks, Reassign(t), ~Fails,
           met' = {}
    PROVE  Counted'
<1>0. /\ TypeOK /\ MovedAt(t) /\ TrackedTask(t) /\ TaskAt(t) /\ Vol(t) \in Volumes
      /\ Rec(t) \in Recoveries /\ OtherTasks(t) /\ OtherVolumes(t) /\ step[t] # "none"
    BY TaskParts, ReassignFrame, ReassignControl DEF RecoveryInv, TaskInv, Moved, Tracked
<1>1. UNCHANGED status
    BY <1>0 DEF OtherTasks
<1>2. ASSUME NEW n, NEW v \in Volumes, v # Vol(t) PROVE v \in Load(n)' <=> v \in Load(n)
    <2>1. exported'[v] = exported[v]
        BY <1>0, <1>2 DEF OtherVolumes
    <2>2. \A u \in Tasks : Vol(u) = v => step'[u] = step[u] /\ selected'[u] = selected[u]
        BY <1>0, <1>2 DEF OtherTasks
    <2> QED BY <2>1, <2>2 DEF Load
<1>3. ASSUME NEW n
      PROVE  /\ Vol(t) \in Load(n) <=> \/ n \in exported[Vol(t)]
                                       \/ selected[t] = n /\ step[t] \in {"unmap", "map", "export"}
             /\ Vol(t) \in Load(n)' <=> \/ n \in exported'[Vol(t)]
                                        \/ selected'[t] = n /\ step'[t] \in {"unmap", "map", "export"}
    <2>1. \A u \in Tasks : Vol(u) = Vol(t) /\ u # t => step[u] = "none" /\ step'[u] = "none"
        BY <1>0, OnlyTask DEF OtherTasks
    <2> QED BY <1>0, <2>1 DEF Load
<1>4. CASE step[t] # "find"
    <2>1. UNCHANGED <<exportCounts, reserved>>
        BY <1>4, ReassignEffect
    <2>2. \A n : Vol(t) \in Load(n)' <=> Vol(t) \in Load(n)
        BY <1>0, <1>3, <1>4, ReassignEffect DEF ExportOn, TypeOK
    <2>3. \A n : Load(n)' = Load(n)
        BY <1>2, <2>2 DEF Load
    <2> QED BY <1>1, <2>1, <2>3 DEF Counted
<1>5. CASE step[t] = "find"
    <2>0. PICK n : n = selected'[t]
        OBVIOUS
    <2>1. /\ n \in Lowest /\ Reserve(n) /\ reserved' = reserved \cup {n} /\ step'[t] = "unmap"
          /\ UNCHANGED <<slice, exported>>
        BY <1>5, <2>0, ReassignEffect
    <2>2. /\ n \in DOMAIN exportCounts /\ n \in Nodes /\ status[n] # "recovery"
          /\ \A m \in DOMAIN exportCounts : exportCounts[n] <= exportCounts[m]
        BY <1>0, <2>1 DEF Lowest, Counted, TypeOK
    <2>3. n \notin exported[Vol(t)]
        <3>1. status[slice[Vol(t)]] = "recovery"
            BY <1>0, <1>5 DEF TrackedTask, Active, TaskAt, Exported
        <3>2. ~ \E u \in Tasks : Vol(u) = Vol(t) /\ step[u] = "update"
            BY <1>0, <1>5, OnlyTask
        <3> QED BY <1>0, <2>2, <3>1, <3>2 DEF Exported
    <2>4. Load(n)' = Load(n) \cup {Vol(t)} /\ Vol(t) \notin Load(n)
        <3>1. Vol(t) \in Load(n)' /\ Vol(t) \notin Load(n)
            BY <1>3, <1>5, <2>0, <2>1, <2>3
        <3> QED BY <1>0, <1>2, <3>1 DEF Load
    <2>5. Cardinality(Load(n)') = Cardinality(Load(n)) + 1
        BY <2>4, LoadFinite, FS_AddElement
    <2>6. ASSUME NEW m, m # n PROVE Load(m)' = Load(m)
        <3>1. Vol(t) \in Load(m)' <=> Vol(t) \in Load(m)
            BY <1>3, <1>5, <2>0, <2>1, <2>6
        <3> QED BY <1>2, <3>1 DEF Load
    <2>7. /\ DOMAIN exportCounts' = DOMAIN exportCounts
          /\ exportCounts'[n] = exportCounts[n] + 1
          /\ \A m \in DOMAIN exportCounts : m # n => exportCounts'[m] = exportCounts[m]
          /\ \A m \in DOMAIN exportCounts : exportCounts[m] \in Nat
        <3>1. exportCounts' = [m \in DOMAIN exportCounts \cup {n} |->
                                  IF m = n THEN exportCounts[n] + 1 ELSE exportCounts[m]]
            BY <2>1, <2>2 DEF Reserve, CountOf
        <3>2. DOMAIN exportCounts \cup {n} = DOMAIN exportCounts
            BY <2>2
        <3> QED BY <1>0, <2>2, <3>1, <3>2 DEF TypeOK
    <2>8. ASSUME NEW a \in reserved', NEW m \in DOMAIN exportCounts'
          PROVE  a \in DOMAIN exportCounts' /\ exportCounts'[a] <= exportCounts'[m] + 1
        <3>1. a \in DOMAIN exportCounts
            BY <2>1, <2>2 DEF Counted
        <3>2. exportCounts[m] <= exportCounts'[m]
            BY <2>7
        <3>3. CASE a = n
            BY <2>2, <2>7, <3>2, <3>3
        <3>4. CASE a # n
            <4>1. exportCounts'[a] = exportCounts[a] /\ a \in reserved
                BY <2>1, <2>7, <3>1, <3>4
            <4>2. exportCounts[a] <= exportCounts[m] + 1
                BY <2>7, <4>1 DEF Counted
            <4> QED BY <2>7, <3>1, <3>2, <4>1, <4>2
        <3> QED BY <2>7, <3>1, <3>3, <3>4
    <2>9. \A m \in DOMAIN exportCounts' :
              m # None /\ status'[m] # "recovery" /\ exportCounts'[m] = Cardinality(Load(m)')
        BY <1>1, <2>5, <2>6, <2>7 DEF Counted
    <2>10. \A a \in reserved' : a \in DOMAIN exportCounts'
        BY <2>1, <2>2, <2>7 DEF Counted
    <2> QED BY <2>8, <2>9, <2>10 DEF Counted
<1> QED BY <1>4, <1>5

\* The start of a recovery and its list make the old counts void.
LEMMA ListBalanced ==
    ASSUME RecoveryInv, Tracked, Exported, NEW r \in Recoveries, met' = {}, ~Fails,
           ListSlices(r) \/ \E n \in Nodes : StartRecovery(r, n)
    PROVE  Exported' /\ ~CountsInUse'
<1> USE TaskParts DEF k8sVars, hostVars, countVars, taskVars
<1>0. TypeOK /\ TaskInv
    BY DEF RecoveryInv
<1>1. ASSUME NEW n \in Nodes, StartRecovery(r, n) PROVE Exported' /\ ~CountsInUse'
    <2>1. /\ UNCHANGED <<slice, mounted, exported, sent, step, selected>> /\ phase'[r] = "list"
          /\ status' = [status EXCEPT ![n] = "recovery"] /\ failed'[r] = n
          /\ \A s \in Recoveries : ~Running(s)
          /\ \A s \in Recoveries : s # r => phase'[s] = phase[s]
        BY <1>0, <1>1 DEF StartRecovery, Note, TypeOK
    <2>2. \A s \in Recoveries : Running(s)' => s = r
        BY <2>1 DEF Running
    <2>3. \A m \in Nodes : status'[m] # "recovery" => status[m] # "recovery"
        BY <1>0, <2>1 DEF TypeOK
    <2>4. status'[n] = "recovery"
        BY <1>0, <2>1 DEF TypeOK
    <2> QED BY <2>1, <2>2, <2>3, <2>4 DEF Exported, CountsInUse
<1>2. ASSUME ListSlices(r) PROVE Exported' /\ ~CountsInUse'
    <2>1. /\ UNCHANGED <<slice, mounted, exported, sent, failed, status, selected>>
          /\ phase' = [phase EXCEPT ![r] = "count"] /\ phase[r] = "list"
          /\ step' = [t \in Tasks |-> IF t \in GetEndpointSlices(r) THEN "lock" ELSE step[t]]
        BY <1>2 DEF ListSlices
    <2>2. \A s \in Recoveries : Running(s)' = Running(s)
        BY <1>0, <2>1 DEF Running, TypeOK
    <2>3. \A t \in Tasks : step[t] = "update" => step'[t] = "update"
        BY <1>0, <2>1 DEF TaskInv, TaskAt, GetEndpointSlices
    <2>4. phase'[r] = "count"
        BY <1>0, <2>1 DEF TypeOK
    <2> QED BY <2>1, <2>2, <2>3, <2>4 DEF Exported, CountsInUse
<1> QED BY <1>1, <1>2

\* No goroutine is past LockPV when the exports are counted.
LEMMA CountBalanced ==
    ASSUME RecoveryInv, Tracked, Exported, NEW r \in Recoveries, CountExports(r)
    PROVE  Exported' /\ Counted'
<1> USE TaskParts DEF k8sVars, hostVars, taskVars
<1>0. TypeOK
    BY DEF RecoveryInv
<1>1. /\ UNCHANGED <<slice, mounted, exported, sent, failed, status, step, selected>>
      /\ phase' = [phase EXCEPT ![r] = "moving"] /\ phase[r] = "count" /\ reserved' = {}
    BY DEF CountExports
<1>2. \A s \in Recoveries : Running(s)' = Running(s)
    BY <1>0, <1>1 DEF Running, TypeOK
<1>3. Exported'
    BY <1>1, <1>2 DEF Exported
<1>4. ASSUME NEW t \in Tasks PROVE ~Held(t)
    BY <1>1 DEF Tracked, TrackedTask, OneRunning, Running, Held
<1>5. \A n : Load(n)' = {v \in Volumes : n \in exported[v]}
    BY <1>1, <1>4 DEF Load, Held
<1>6. /\ DOMAIN exportCounts' \subseteq OutOfRecovery
      /\ \A n \in DOMAIN exportCounts' : exportCounts'[n] = Exports(n)
    BY DEF CountExports
<1>7. \A n \in DOMAIN exportCounts' :
          n # None /\ status'[n] # "recovery" /\ exportCounts'[n] = Cardinality(Load(n)')
    BY <1>1, <1>5, <1>6, NoneAssumption DEF OutOfRecovery, Exports
<1> QED BY <1>1, <1>3, <1>7 DEF Counted

\* Every goroutine is done when a recovery ends.
LEMMA EndBalanced ==
    ASSUME RecoveryInv, Tracked, Exported, CountsInUse => Counted,
           NEW r \in Recoveries, EndRecovery(r)
    PROVE  Exported' /\ Counted'
<1> USE TaskParts DEF k8sVars, hostVars, countVars
<1>0. TypeOK
    BY DEF RecoveryInv
<1>1. /\ UNCHANGED <<slice, mounted, exported, sent, failed, status, exportCounts, reserved>>
      /\ phase' = [phase EXCEPT ![r] = "over"] /\ phase[r] = "moving"
      /\ step' = [t \in Tasks |-> IF Rec(t) = r THEN "none" ELSE step[t]]
      /\ \A v \in Volumes : ~Active(<<r, v>>)
    BY DEF EndRecovery
<1>2. \A s \in Recoveries : /\ Running(s) => s = r
                            /\ ~Running(s)'
    BY <1>0, <1>1 DEF Tracked, OneRunning, Running, TypeOK
<1>3. ASSUME NEW t \in Tasks PROVE ~Active(t) /\ step'[t] = "none"
    <2>1. CASE Rec(t) = r
        <3>1. t = <<r, Vol(t)>>
            BY <2>1
        <3> QED BY <1>1, <2>1, <3>1
    <2>2. CASE Rec(t) # r
        BY <1>1, <1>2, <2>2 DEF Tracked, TrackedTask, Active
    <2> QED BY <2>1, <2>2
<1>4. Exported'
    BY <1>1, <1>2, <1>3 DEF Exported, Active
<1>5. \A n : Load(n)' = Load(n)
    BY <1>1, <1>3 DEF Load, Active
<1>6. CountsInUse
    BY <1>1, <1>2 DEF CountsInUse, Running
<1> QED BY <1>1, <1>4, <1>5, <1>6 DEF Counted

\* What a node that may be selected exports, it serves: a dump or a late
\* unexport that takes it away would have been noted.
LEMMA HostsBalanced ==
    ASSUME RecoveryInv, Moved, Tracked, Exported, CountsInUse => Counted, Next, ~Fails, met' = {},
           \/ \E n \in Nodes : GoodPing(n)
           \/ \E v \in Volumes : \E call \in sent[v] : FinishSent(v, call)
    PROVE  Exported' /\ (CountsInUse' => Counted')
<1> USE DEF k8sVars, countVars, taskVars
<1>0. TypeOK
    BY DEF RecoveryInv
<1>1. UNCHANGED <<slice, step, selected, phase, failed, exportCounts, reserved>>
    BY DEF GoodPing, FinishSent
<1>2. \A t \in Tasks : ~Reassign(t)
    <2>1. ASSUME NEW t \in Tasks, Reassign(t) PROVE FALSE
        <3>1. step'[t] # step[t]
            BY <2>1, ReassignEffect
        <3> QED BY <1>1, <3>1
    <2> QED BY <2>1
<1>3. \A v \in Volumes : slice'[v] \in mounted'[v] \cap exported'[v]
    BY <1>1, <1>2, ServingKeepsHosts DEF Exported, Serving
<1>4. ASSUME NEW n \in Nodes, NEW v \in Volumes, n \in exported[v], status[n] # "recovery"
      PROVE  n \in Serving(v)
    BY <1>4 DEF Exported, Serving, Active
<1>5. ASSUME NEW n \in Nodes, GoodPing(n) PROVE Exported' /\ (CountsInUse' => Counted')
    <2>1. /\ exported' = Without(exported, n, Dumped(n)) /\ UNCHANGED sent
          /\ \A v \in Dumped(n) : n \notin Serving(v)
          /\ \A m \in Nodes : m # n => status'[m] = status[m]
          /\ status'[n] # "recovery"
        BY <1>0, <1>5 DEF GoodPing, Note, TypeOK
    <2>2. \A v \in Volumes : n \in exported[v] <=> v \in Dumped(n)
        BY DEF Dumped, Moved
    <2>3. \A v \in Volumes, m \in Nodes : m \in exported'[v] <=> m \in exported[v] /\ m # n
        BY <2>1, <2>2 DEF Without
    <2>4. \A v \in Volumes : slice[v] # n
        BY <2>1, <2>2 DEF Exported, Serving
    <2>5. ASSUME NEW r \in Recoveries, NEW v \in Volumes, Running(r)', slice'[v] = failed'[r]
          PROVE  status'[failed'[r]] = "recovery"
        <3>1. slice[v] \in Nodes
            BY <1>0 DEF TypeOK, Exported
        <3> QED BY <1>1, <2>1, <2>4, <2>5, <3>1 DEF Exported, Running
    <2>6. ASSUME NEW m \in Nodes, NEW v \in Volumes, m \in exported'[v], status'[m] # "recovery"
          PROVE  m = slice'[v] \/ \E t \in Tasks : Vol(t) = v /\ selected'[t] = m /\ step'[t] = "update"
        BY <1>1, <2>1, <2>3, <2>6 DEF Exported
    <2>7. Exported'
        BY <1>3, <2>1, <2>5, <2>6 DEF Exported
    <2>8. ASSUME CountsInUse' PROVE Counted'
        <3>1. Counted
            BY <1>1, <2>8 DEF CountsInUse
        <3>2. ASSUME NEW m \in DOMAIN exportCounts PROVE Load(m)' = Load(m) /\ status'[m] # "recovery"
            <4>1. m \in Nodes /\ status[m] # "recovery"
                BY <1>0, <3>1 DEF TypeOK, Counted
            <4>2. \A v \in Volumes : m \in exported'[v] <=> m \in exported[v]
                BY <1>4, <2>1, <2>2, <2>3, <4>1
            <4> QED BY <1>1, <2>1, <4>1, <4>2 DEF Load
        <3> QED BY <1>1, <3>1, <3>2 DEF Counted
    <2> QED BY <2>7, <2>8
<1>6. ASSUME NEW w \in Volumes, NEW call \in sent[w], FinishSent(w, call)
      PROVE  Exported' /\ (CountsInUse' => Counted')
    <2>1. /\ UnexportUpTo(w, call.node) /\ call.node \notin Serving(w) /\ UNCHANGED status
          /\ \A v \in Volumes : sent'[v] \subseteq sent[v]
        BY <1>0, <1>6 DEF FinishSent, NodeCallEnds, Note, Exported, TypeOK
    <2>2. \A v \in Volumes, m \in Nodes :
              /\ m \in exported'[v] => m \in exported[v]
              /\ m \in exported[v] => m \in exported'[v] \/ (v = w /\ m = call.node)
        BY <1>0, <2>1 DEF UnexportUpTo, UnexportOn, TypeOK
    <2>3. Exported'
        BY <1>1, <1>3, <2>1, <2>2 DEF Exported, Running
    <2>4. ASSUME CountsInUse' PROVE Counted'
        <3>1. Counted
            BY <1>1, <2>4 DEF CountsInUse
        <3>2. ASSUME NEW m \in DOMAIN exportCounts PROVE Load(m)' = Load(m)
            <4>1. m \in Nodes /\ status[m] # "recovery"
                BY <1>0, <3>1 DEF TypeOK, Counted
            <4>2. \A v \in Volumes : m \in exported'[v] <=> m \in exported[v]
                BY <1>4, <2>1, <2>2, <4>1
            <4> QED BY <1>1, <4>2 DEF Load
        <3> QED BY <1>1, <2>1, <3>1, <3>2 DEF Counted
    <2> QED BY <2>3, <2>4
<1> QED BY <1>5, <1>6

\* As long as nothing fails or goes wrong, the counts stay true.
LEMMA NextBalanced ==
    ASSUME RecoveryInv, MovedInv, AllMovedInv, BalancedInv, [Next]_vars PROVE BalancedInv'
<1> SUFFICES ASSUME faults' = 0, met' = {} PROVE Exported' /\ (CountsInUse' => Counted')
    BY DEF BalancedInv
<1>0. /\ TypeOK /\ Moved /\ Tracked /\ Exported /\ (CountsInUse => Counted)
    <2>1. TypeOK
        BY DEF RecoveryInv
    <2>2. faults <= faults' /\ met \subseteq met'
        BY <2>1, LedgerGrows
    <2>3. faults = 0 /\ met = {}
        BY <2>1, <2>2 DEF TypeOK
    <2> QED BY <2>1, <2>3 DEF MovedInv, AllMovedInv, BalancedInv
<1>1. ~Fails
    BY <1>0 DEF Fails, TypeOK
<1>2. ASSUME NEW t \in Tasks, Reassign(t) PROVE Exported' /\ (CountsInUse' => Counted')
    <2>1. CountsInUse' => CountsInUse
        BY <1>0, <1>2, ReassignFrame DEF OtherTasks, CountsInUse
    <2> QED BY <1>0, <1>1, <1>2, <2>1, ReassignExported, ReassignCounted
<1>3. CASE UNCHANGED vars
    BY <1>0, <1>3 DEF Exported, CountsInUse, Counted, Load, Running, vars, hostVars, countVars,
       taskVars
<1>4. ASSUME NEW t \in Tasks, SendUnexport(t) PROVE Exported' /\ (CountsInUse' => Counted')
    <2>1. UNCHANGED <<slice, mounted, exported, status, phase, failed, step, selected,
                      exportCounts, reserved>>
        BY <1>4 DEF SendUnexport, k8sVars, hostVars, countVars
    <2>2. \A v \in Volumes : \A call \in sent'[v] : call.op = "unexport"
        <3>1. \A n : UnexportCall(n).op = "unexport"
            BY DEF UnexportCall
        <3>2. \/ UNCHANGED sent
              \/ \E n : sent' = [sent EXCEPT ![Vol(t)] = @ \cup {UnexportCall(n)}]
            BY <1>4 DEF SendUnexport
        <3>3. ASSUME NEW v \in Volumes, NEW call \in sent'[v]
              PROVE  call \in sent[v] \/ \E n : call = UnexportCall(n)
            BY <1>0, <3>2, <3>3, TaskParts DEF TypeOK
        <3> QED BY <1>0, <3>1, <3>3 DEF Exported
    <2>3. Exported'
        BY <1>0, <2>1, <2>2 DEF Exported, Running
    <2>4. CountsInUse' = CountsInUse /\ \A n : Load(n)' = Load(n)
        BY <2>1 DEF CountsInUse, Load
    <2> QED BY <1>0, <2>1, <2>3, <2>4 DEF Counted
<1>5. ASSUME Restart PROVE FALSE
    BY <1>1, <1>5 DEF Restart
<1> QED BY <1>0, <1>1, <1>2, <1>3, <1>4, <1>5, ListBalanced, CountBalanced, EndBalanced,
           HostsBalanced DEF Next, Recovery

\* At the start nothing is counted.
LEMMA InitBalanced == Init => BalancedInv
<1> SUFFICES ASSUME Init PROVE Exported /\ Counted
    BY DEF BalancedInv
<1>1. Exported
    BY DEF Init, InitRecovery, Exported, Running
<1>2. Counted
    BY DEF Init, InitRecovery, Counted
<1> QED BY <1>1, <1>2

\* After a recovery none of the nodes it moved volumes to has more than one
\* export over any node it could have chosen, for any number of volumes, nodes
\* and recoveries one after the other: concurrent reassignVolume goroutines
\* select under exportCountsLock and reserve what they select.
THEOREM MovesAreSpread == Spec => []Spread
<1>1. ASSUME RecoveryInv, AllMovedInv, BalancedInv PROVE Spread
    <2> SUFFICES ASSUME faults = 0, met = {}, NoneRunning, NEW n \in reserved,
                        NEW m \in DOMAIN exportCounts
                 PROVE  Exports(n) <= Exports(m) + 1
        BY DEF Spread
    <2>1. CountsInUse /\ Tracked
        BY <1>1 DEF NoneRunning, CountsInUse, Running, AllMovedInv
    <2>2. Counted
        BY <1>1, <2>1 DEF BalancedInv
    <2>3. \A t \in Tasks : step[t] = "none"
        BY <2>1, TaskParts DEF Tracked, TrackedTask, NoneRunning
    <2>4. \A a : Load(a) = {v \in Volumes : a \in exported[v]}
        BY <2>3 DEF Load
    <2>5. Exports(n) = exportCounts[n] /\ Exports(m) = exportCounts[m]
        BY <2>2, <2>4 DEF Counted, Exports
    <2> QED BY <2>2, <2>5 DEF Counted
<1>2. RecoveryInv /\ MovedInv /\ AllMovedInv /\ BalancedInv /\ [Next]_vars => BalancedInv'
    BY NextBalanced
<1>3. RecoveryInv /\ MovedInv /\ [Next]_vars => MovedInv'
    BY NextMoved
<1>4. RecoveryInv /\ AllMovedInv /\ [Next]_vars => AllMovedInv'
    BY NextTracked
<1> QED BY <1>1, <1>2, <1>3, <1>4, InitMoved, InitTracked, InitBalanced, Inductive, PTL DEF Spec
=============================================================================
