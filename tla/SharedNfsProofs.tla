-------------------------- MODULE SharedNfsProofs ---------------------------
(***************************************************************************)
(* Proofs about SharedNfs, for every set of volumes, nodes and recoveries: *)
(* requests and recoveries that do not exclude each other implement        *)
(* VolumeAttachment together, an attached client keeps its label and an    *)
(* EndpointSlice, and, where they did not overlap, is served after any     *)
(* number of moves, and leaves nothing behind.                             *)
(*                                                                         *)
(* The argument.  ClientInv asks of a slice only that it is there, not     *)
(* which node it names.  Recovery writes one thing the requests read, the  *)
(* slice, and only over a listed copy that is still the stored one: such a *)
(* slice exists (fresh, in RecoveryKnown), and the node written over it is *)
(* one (selected).  So a recovery's step is a Move or nothing to the       *)
(* requests, and a request's step leaves RecoveryKnown standing.           *)
(*                                                                         *)
(* The second half proves SettledInv.  A volume outside raced has a        *)
(* handler at it, or a task, and never both: Undisturbed(v) says how far   *)
(* that one has come.  A handler's step has to fit its program point       *)
(* (Fits), a task's step its own (MoveAt), and what reaches the volume     *)
(* unasked, a dump or an unexport, must miss the node that serves it or is *)
(* to, or else it is a mishap.                                             *)
(***************************************************************************)
EXTENDS SharedNfs, AttachmentProofs

RecoveryTypes ==
    /\ phase \in [Recoveries -> R!Phases] /\ failed \in [Recoveries -> Nodes \cup {None}]
    /\ step \in [R!Tasks -> R!Steps] /\ selected \in [R!Tasks -> Nodes \cup {None}]
    /\ DOMAIN exportCounts \subseteq Nodes \cup {None}
    /\ fresh \subseteq R!Tasks /\ cleanup \subseteq R!Tasks
    /\ sent \in [Volumes -> SUBSET NodeCalls]

\* A recovery under way has a node, a task past findNextAvailableNode's guard has
\* selected one, and a slice whose listed copy is the stored one exists.
RecoveryKnown ==
    /\ RecoveryTypes
    /\ \A r \in Recoveries : phase[r] # "idle" => failed[r] # None
    /\ \A t \in R!Tasks : step[t] # "none" \/ t \in cleanup => phase[t[1]] # "idle"
    /\ \A t \in R!Tasks : step[t] \in {"export", "update"} => selected[t] # None
    /\ \A t \in fresh : slice[t[2]] # None

SharedInv == TypeOK /\ ClientInv /\ RecoveryKnown

\* The part of TypeOK that recovery writes.
ClusterTypes ==
    /\ slice \in [Volumes -> Nodes \cup {None}]
    /\ service \in [Volumes -> [exists : BOOLEAN, clients : SUBSET Nodes]]
    /\ published \in [Volumes -> SUBSET Nodes]
    /\ mounted \in [Volumes -> SUBSET Nodes] /\ exported \in [Volumes -> SUBSET Nodes]
    /\ faults \in Nat

\* What a step of recovery may do to the slices: move one that exists.
MovesOrKeeps ==
    \/ slice' = slice
    \/ \E v \in Volumes, n \in Nodes : slice[v] # None /\ slice' = [slice EXCEPT ![v] = n]

-----------------------------------------------------------------------------
(* Recovery *)

\* A task is a recovery and a volume.
LEMMA TaskParts ==
    ASSUME NEW t \in R!Tasks
    PROVE  t[1] \in Recoveries /\ t[2] \in Volumes /\ R!Rec(t) = t[1] /\ R!Vol(t) = t[2]
BY DEF R!Tasks, R!Rec, R!Vol

\* A failure is counted.
LEMMA CountType ==
    ASSUME faults \in Nat, R!Works \/ R!Fails
    PROVE  faults' \in Nat
BY DEF R!Works, R!Fails

\* A dump takes hosts away.
LEMMA DumpType ==
    ASSUME NEW f \in [Volumes -> SUBSET Nodes], NEW n, NEW S
    PROVE  R!Without(f, n, S) \in [Volumes -> SUBSET Nodes]
BY DEF R!Without

\* The pinger starts a recovery of a node.
LEMMA StartRecoveryKnown ==
    ASSUME SharedInv, NEW r \in Recoveries, NEW n \in Nodes, R!StartRecovery(r, n)
    PROVE  RecoveryKnown' /\ ClusterTypes' /\ UNCHANGED <<slice, service>>
<1>1. /\ phase' = [phase EXCEPT ![r] = "list"] /\ failed' = [failed EXCEPT ![r] = n]
      /\ UNCHANGED <<slice, service, published, mounted, exported, faults, exportCounts,
                     step, selected, fresh, cleanup, sent>>
  BY DEF R!StartRecovery, R!k8sVars, R!hostVars, R!countVars, R!taskVars
<1>2. RecoveryTypes'
  BY <1>1 DEF SharedInv, RecoveryKnown, RecoveryTypes, R!Phases
<1>3. /\ phase'[r] = "list" /\ failed'[r] = n
      /\ \A s \in Recoveries \ {r} : phase'[s] = phase[s] /\ failed'[s] = failed[s]
  BY <1>1 DEF SharedInv, RecoveryKnown, RecoveryTypes
<1>4. RecoveryKnown'
  BY <1>1, <1>2, <1>3, NoneAssumption, TaskParts DEF SharedInv, RecoveryKnown
<1>5. QED
  BY <1>1, <1>4 DEF SharedInv, TypeOK, ClusterTypes

\* A good ping dumps the exports of a node.
LEMMA GoodPingKnown ==
    ASSUME SharedInv, NEW n \in Nodes, R!GoodPing(n)
    PROVE  RecoveryKnown' /\ ClusterTypes' /\ UNCHANGED <<slice, service>>
<1>1. UNCHANGED <<slice, service, published, phase, failed, exportCounts, step, selected,
                  fresh, cleanup, sent>>
  BY DEF R!GoodPing, R!k8sVars, R!countVars, R!taskVars
<1>2. faults' \in Nat
  BY CountType DEF R!GoodPing, SharedInv, TypeOK
<1>3. mounted' \in [Volumes -> SUBSET Nodes] /\ exported' \in [Volumes -> SUBSET Nodes]
  <2>0. mounted \in [Volumes -> SUBSET Nodes] /\ exported \in [Volumes -> SUBSET Nodes]
    BY DEF SharedInv, TypeOK
  <2>1. \/ exported' = R!Without(exported, n, R!Dumped(n)) /\ mounted' = R!Without(mounted, n, R!Dumped(n))
        \/ UNCHANGED <<mounted, exported>>
    BY DEF R!GoodPing, R!hostVars
  <2>2. /\ R!Without(exported, n, R!Dumped(n)) \in [Volumes -> SUBSET Nodes]
        /\ R!Without(mounted, n, R!Dumped(n)) \in [Volumes -> SUBSET Nodes]
    BY <2>0, DumpType
  <2>3. QED BY <2>0, <2>1, <2>2
<1>4. RecoveryKnown'
  BY <1>1 DEF SharedInv, RecoveryKnown, RecoveryTypes
<1>5. QED
  BY <1>1, <1>2, <1>3, <1>4 DEF SharedInv, TypeOK, ClusterTypes

\* A listed slice names the failed node, so it exists.
LEMMA ListSlicesKnown ==
    ASSUME SharedInv, NEW r \in Recoveries, R!ListSlices(r)
    PROVE  RecoveryKnown' /\ ClusterTypes' /\ UNCHANGED <<slice, service>>
<1>0. RecoveryKnown /\ RecoveryTypes /\ phase[r] = "list" /\ failed[r] # None
  BY DEF SharedInv, RecoveryKnown, R!ListSlices
<1>1. UNCHANGED <<slice, service, published, mounted, exported, failed, exportCounts,
                  selected, cleanup, sent>>
  BY DEF R!ListSlices, R!k8sVars, R!hostVars, R!countVars
<1>2. faults' \in Nat
  BY CountType DEF R!ListSlices, SharedInv, TypeOK
<1>3. \A t \in R!Tasks : t \in R!GetEndpointSlices(r) => t[1] = r /\ slice[t[2]] # None
  BY <1>0 DEF R!GetEndpointSlices, R!Tasks
<1>4. \/ /\ step' = [t \in R!Tasks |-> IF t \in R!GetEndpointSlices(r) THEN "lock" ELSE step[t]]
         /\ fresh' = fresh \cup R!GetEndpointSlices(r)
         /\ phase' = [phase EXCEPT ![r] = "count"]
      \/ UNCHANGED <<step, fresh>> /\ phase' = [phase EXCEPT ![r] = "over"]
  BY DEF R!ListSlices
<1>5. R!GetEndpointSlices(r) \subseteq R!Tasks
  BY DEF R!GetEndpointSlices, R!Tasks
<1>6. step' \in [R!Tasks -> R!Steps] /\ fresh' \subseteq R!Tasks
  BY <1>0, <1>4, <1>5 DEF RecoveryTypes, R!Steps
<1>7. /\ phase' \in [Recoveries -> R!Phases] /\ phase'[r] # "idle"
      /\ \A s \in Recoveries \ {r} : phase'[s] = phase[s]
  BY <1>0, <1>4 DEF RecoveryTypes, R!Phases
<1>8. RecoveryTypes'
  BY <1>0, <1>1, <1>6, <1>7 DEF RecoveryTypes
<1>9. \A s \in Recoveries : phase'[s] # "idle" => failed'[s] # None
  BY <1>0, <1>1, <1>7 DEF RecoveryKnown
<1>10. \A t \in R!Tasks : step'[t] # "none" \/ t \in cleanup' => phase'[t[1]] # "idle"
  <2> SUFFICES ASSUME NEW t \in R!Tasks, step'[t] # "none" \/ t \in cleanup'
               PROVE  phase'[t[1]] # "idle"
    OBVIOUS
  <2>1. CASE t[1] = r
    BY <1>7, <2>1
  <2>2. CASE t[1] # r
    <3>1. step'[t] = step[t]
      BY <1>3, <1>4, <2>2
    <3>2. phase[t[1]] # "idle"
      BY <1>0, <1>1, <3>1 DEF RecoveryKnown
    <3>3. QED BY <1>7, <2>2, <3>2, TaskParts
  <2>3. QED BY <2>1, <2>2
<1>11. \A t \in R!Tasks : step'[t] \in {"export", "update"} => selected'[t] # None
  BY <1>0, <1>1, <1>4 DEF RecoveryKnown
<1>12. \A t \in fresh' : slice'[t[2]] # None
  BY <1>0, <1>1, <1>3, <1>4, <1>5 DEF RecoveryKnown
<1>13. RecoveryKnown'
  BY <1>8, <1>9, <1>10, <1>11, <1>12 DEF RecoveryKnown
<1>14. QED
  BY <1>1, <1>2, <1>13 DEF SharedInv, TypeOK, ClusterTypes

\* The counts are of nodes.
LEMMA CountExportsKnown ==
    ASSUME SharedInv, NEW r \in Recoveries, R!CountExports(r)
    PROVE  RecoveryKnown' /\ ClusterTypes' /\ UNCHANGED <<slice, service>>
<1>0. RecoveryKnown /\ RecoveryTypes /\ phase[r] = "count"
  BY DEF SharedInv, RecoveryKnown, R!CountExports
<1>1. /\ UNCHANGED <<slice, service, published, mounted, exported, failed, step,
                     selected, fresh, cleanup, sent>>
      /\ phase' = [phase EXCEPT ![r] = "moving"]
  BY DEF R!CountExports, R!k8sVars, R!hostVars, R!taskVars
<1>2. faults' \in Nat
  BY CountType DEF R!CountExports, SharedInv, TypeOK
<1>3. DOMAIN exportCounts' \subseteq Nodes \cup {None}
  <2>1. PICK answered \in SUBSET R!OutOfRecovery :
            exportCounts' = [n \in answered |-> R!Exports(n)]
    BY DEF R!CountExports
  <2>2. QED BY <2>1 DEF R!OutOfRecovery
<1>4. /\ phase' \in [Recoveries -> R!Phases] /\ phase'[r] # "idle"
      /\ \A s \in Recoveries : phase'[s] = "idle" <=> phase[s] = "idle"
  BY <1>0, <1>1 DEF RecoveryTypes, R!Phases
<1>5. RecoveryTypes'
  BY <1>0, <1>1, <1>3, <1>4 DEF RecoveryTypes
<1>6. RecoveryKnown'
  BY <1>0, <1>1, <1>4, <1>5, TaskParts DEF RecoveryKnown
<1>7. QED
  BY <1>1, <1>2, <1>6 DEF SharedInv, TypeOK, ClusterTypes

\* The end of a recovery forgets its tasks.
LEMMA EndRecoveryKnown ==
    ASSUME SharedInv, NEW r \in Recoveries, R!EndRecovery(r)
    PROVE  RecoveryKnown' /\ ClusterTypes' /\ UNCHANGED <<slice, service>>
<1>0. RecoveryKnown /\ RecoveryTypes /\ phase[r] = "moving"
  BY DEF SharedInv, RecoveryKnown, R!EndRecovery
<1>1. /\ UNCHANGED <<slice, service, published, mounted, exported, faults, failed,
                     exportCounts, cleanup, sent>>
      /\ phase' = [phase EXCEPT ![r] = "over"]
      /\ step' = [t \in R!Tasks |-> IF R!Rec(t) = r THEN "none" ELSE step[t]]
      /\ selected' = [t \in R!Tasks |-> IF R!Rec(t) = r THEN None ELSE selected[t]]
      /\ fresh' \subseteq fresh
  BY DEF R!EndRecovery, R!k8sVars, R!hostVars, R!countVars
<1>2. /\ phase' \in [Recoveries -> R!Phases]
      /\ \A s \in Recoveries : phase'[s] = "idle" <=> phase[s] = "idle"
  BY <1>0, <1>1 DEF RecoveryTypes, R!Phases
<1>3. RecoveryTypes'
  BY <1>0, <1>1, <1>2 DEF RecoveryTypes, R!Steps
<1>4. \A t \in R!Tasks : \/ step'[t] = "none"
                         \/ step'[t] = step[t] /\ selected'[t] = selected[t]
  BY <1>1
<1>5. RecoveryKnown'
  BY <1>0, <1>1, <1>2, <1>3, <1>4, TaskParts DEF RecoveryKnown
<1>6. QED
  BY <1>1, <1>5 DEF SharedInv, TypeOK, ClusterTypes
-----------------------------------------------------------------------------
(* reassignVolume *)

\* What a step of reassignVolume has to establish: a node is selected where it
\* is needed, and what is still fresh is of a slice that exists.
LEMMA TaskStep ==
    ASSUME RecoveryKnown, NEW t \in R!Tasks, step[t] # "none", NEW label \in R!Steps,
           step' = [step EXCEPT ![t] = label],
           selected' \in [R!Tasks -> Nodes \cup {None}],
           \A u \in R!Tasks \ {t} : selected'[u] = selected[u],
           label \in {"export", "update"} => selected'[t] # None,
           cleanup' \subseteq cleanup \cup {t}, UNCHANGED <<phase, failed>>,
           DOMAIN exportCounts' \subseteq Nodes \cup {None},
           fresh' \subseteq fresh, \A u \in fresh' : slice'[u[2]] # None,
           sent' \in [Volumes -> SUBSET NodeCalls]
    PROVE  RecoveryKnown'
<1>1. RecoveryTypes
  BY DEF RecoveryKnown
<1>2. step' \in [R!Tasks -> R!Steps] /\ step'[t] = label
  BY <1>1 DEF RecoveryTypes
<1>3. \A u \in R!Tasks \ {t} : step'[u] = step[u]
  BY <1>1 DEF RecoveryTypes
<1>4. RecoveryTypes'
  BY <1>1, <1>2 DEF RecoveryTypes
<1>5. \A u \in R!Tasks : step'[u] # "none" \/ u \in cleanup' => phase'[u[1]] # "idle"
  BY <1>3 DEF RecoveryKnown
<1>6. \A u \in R!Tasks : step'[u] \in {"export", "update"} => selected'[u] # None
  BY <1>2, <1>3 DEF RecoveryKnown
<1>7. QED
  BY <1>4, <1>5, <1>6 DEF RecoveryKnown

\* An attempt that goes on, and one that fails.
LEMMA TaskControl ==
    ASSUME NEW t \in R!Tasks
    PROVE  /\ \A label : R!Goto(t, label) =>
                  step' = [step EXCEPT ![t] = label] /\ cleanup' = cleanup
           /\ R!Error(t) => /\ cleanup' = cleanup \ {t}
                            /\ \E label \in {"failed", "lock"} : step' = [step EXCEPT ![t] = label]
           /\ R!Succeed(t) => step' = [step EXCEPT ![t] = "done"] /\ cleanup' = cleanup \ {t}
BY DEF R!Goto, R!Error, R!Return, R!Succeed

\* reassignVolume takes its lock.
LEMMA LockPVKnown ==
    ASSUME SharedInv, NEW t \in R!Tasks, R!LockPV(t)
    PROVE  RecoveryKnown' /\ ClusterTypes' /\ UNCHANGED <<slice, service>>
<1>1. /\ step[t] = "lock" /\ step' = [step EXCEPT ![t] = "find"]
      /\ UNCHANGED <<slice, service, published, mounted, exported, faults, phase, failed,
                     exportCounts, selected, fresh, cleanup, sent>>
  BY DEF R!LockPV, R!k8sVars, R!hostVars, R!countVars
<1>2. RecoveryKnown'
  BY <1>1, TaskStep DEF SharedInv, RecoveryKnown, RecoveryTypes, R!Steps
<1>3. QED
  BY <1>1, <1>2 DEF SharedInv, TypeOK, ClusterTypes

\* findNextAvailableNode picks a node of the counts, or none.
LEMMA FindNextAvailableNodeKnown ==
    ASSUME SharedInv, NEW t \in R!Tasks, R!FindNextAvailableNode(t)
    PROVE  RecoveryKnown' /\ ClusterTypes' /\ UNCHANGED <<slice, service>>
<1>0. RecoveryKnown /\ RecoveryTypes /\ step[t] = "find"
  BY DEF SharedInv, RecoveryKnown, R!FindNextAvailableNode
<1>1. UNCHANGED <<slice, service, published, mounted, exported, phase, failed, fresh, sent>>
  BY DEF R!FindNextAvailableNode, R!k8sVars, R!hostVars
<1>2. faults' \in Nat
  BY CountType DEF R!FindNextAvailableNode, SharedInv, TypeOK
<1>3. RecoveryKnown'
  <2>1. CASE R!Error(t) /\ UNCHANGED <<R!countVars, selected, met>>
    <3>1. PICK label \in {"failed", "lock"} : step' = [step EXCEPT ![t] = label]
      BY <2>1, TaskControl
    <3>2. cleanup' \subseteq cleanup \cup {t} /\ UNCHANGED <<exportCounts, selected>>
      BY <2>1, TaskControl DEF R!countVars
    <3>3. QED BY <1>0, <1>1, <3>1, <3>2, TaskStep DEF RecoveryKnown, RecoveryTypes, R!Steps
  <2>2. CASE /\ \E n \in R!NextAvailable : R!Reserve(n) /\ selected' = [selected EXCEPT ![t] = n]
             /\ step' = [step EXCEPT ![t] = "unmap"] /\ cleanup' = cleanup \cup {t}
    <3>1. PICK n \in R!NextAvailable : R!Reserve(n) /\ selected' = [selected EXCEPT ![t] = n]
      BY <2>2
    <3>2. n \in Nodes \cup {None}
      BY <1>0, <3>1 DEF R!NextAvailable, R!Lowest, RecoveryTypes
    <3>3. DOMAIN exportCounts' \subseteq Nodes \cup {None}
      BY <1>0, <3>1, <3>2 DEF R!Reserve, RecoveryTypes
    <3>4. selected' \in [R!Tasks -> Nodes \cup {None}] /\ \A u \in R!Tasks \ {t} : selected'[u] = selected[u]
      BY <1>0, <3>1, <3>2 DEF RecoveryTypes
    <3>5. QED BY <1>0, <1>1, <2>2, <3>3, <3>4, TaskStep DEF RecoveryKnown, RecoveryTypes, R!Steps
  <2>3. QED BY <2>1, <2>2 DEF R!FindNextAvailableNode
<1>4. QED
  BY <1>1, <1>2, <1>3 DEF SharedInv, TypeOK, ClusterTypes

\* The volume is unmapped from the failed node.
LEMMA UnmapKnown ==
    ASSUME SharedInv, NEW t \in R!Tasks, R!Unmap(t)
    PROVE  RecoveryKnown' /\ ClusterTypes' /\ UNCHANGED <<slice, service>>
<1>0. /\ RecoveryKnown /\ RecoveryTypes /\ step[t] = "unmap" /\ R!Vol(t) \in Volumes
      /\ published \in [Volumes -> SUBSET Nodes] /\ mounted \in [Volumes -> SUBSET Nodes]
      /\ exported \in [Volumes -> SUBSET Nodes]
  BY TaskParts DEF SharedInv, TypeOK, RecoveryKnown, R!Unmap
<1>1. UNCHANGED <<slice, service, phase, failed, fresh, exportCounts, selected>>
  BY DEF R!Unmap, R!k8sVars, R!countVars
<1>2. faults' \in Nat
  BY CountType DEF R!Unmap, SharedInv, TypeOK
<1>3. published' \in [Volumes -> SUBSET Nodes]
  <2>1. UNCHANGED published \/ R!UnmapFromHost(R!Vol(t), failed[R!Rec(t)])
    BY DEF R!Unmap
  <2>2. QED BY <1>0, <2>1 DEF R!UnmapFromHost
<1>4. mounted' \in [Volumes -> SUBSET Nodes] /\ exported' \in [Volumes -> SUBSET Nodes]
  <2>1. \/ UNCHANGED <<mounted, exported>>
        \/ R!UnexportOn(R!Vol(t), failed[R!Rec(t)]) /\ R!UnmountOn(R!Vol(t), failed[R!Rec(t)])
    BY DEF R!Unmap, R!hostVars
  <2>2. QED BY <1>0, <2>1 DEF R!UnexportOn, R!UnmountOn
<1>5. sent' \in [Volumes -> SUBSET NodeCalls]
  <2>1. UNCHANGED sent \/ sent' = [sent EXCEPT ![R!Vol(t)] = @ \ {R!UnexportCall(failed[R!Rec(t)])}]
    BY DEF R!Unmap
  <2>2. QED BY <1>0, <2>1 DEF RecoveryTypes
<1>6. R!Goto(t, "map") \/ R!Error(t)
  BY DEF R!Unmap
<1>7. PICK label \in {"map", "failed", "lock"} :
          step' = [step EXCEPT ![t] = label] /\ cleanup' \subseteq cleanup \cup {t}
  BY <1>6, TaskControl
<1>8. RecoveryKnown'
  BY <1>0, <1>1, <1>5, <1>7, TaskStep DEF RecoveryKnown, RecoveryTypes, R!Steps
<1>9. QED
  BY <1>1, <1>2, <1>3, <1>4, <1>8 DEF SharedInv, TypeOK, ClusterTypes

\* The volume is mapped to the selected node, if there is one.
LEMMA MapKnown ==
    ASSUME SharedInv, NEW t \in R!Tasks, R!Map(t)
    PROVE  RecoveryKnown' /\ ClusterTypes' /\ UNCHANGED <<slice, service>>
<1>0. /\ RecoveryKnown /\ RecoveryTypes /\ step[t] = "map" /\ R!Vol(t) \in Volumes
      /\ published \in [Volumes -> SUBSET Nodes] /\ selected[t] \in Nodes \cup {None}
  BY TaskParts DEF SharedInv, TypeOK, RecoveryKnown, RecoveryTypes, R!Map
<1>1. UNCHANGED <<slice, service, mounted, exported, phase, failed, fresh, exportCounts,
                  selected, sent>>
  BY DEF R!Map, R!k8sVars, R!countVars, R!hostVars
<1>2. faults' \in Nat
  BY CountType DEF R!Map, SharedInv, TypeOK
<1>3. published' \in [Volumes -> SUBSET Nodes]
  <2>1. UNCHANGED published \/ (selected[t] # None /\ R!MapToHost(R!Vol(t), selected[t]))
    BY DEF R!Map
  <2>2. QED BY <1>0, <2>1 DEF R!MapToHost
<1>4. (selected[t] # None /\ R!Goto(t, "export")) \/ R!Error(t)
  BY DEF R!Map
<1>5. PICK label \in {"export", "failed", "lock"} :
          /\ step' = [step EXCEPT ![t] = label] /\ cleanup' \subseteq cleanup \cup {t}
          /\ label = "export" => selected[t] # None
  BY <1>4, TaskControl
<1>6. RecoveryKnown'
  BY <1>0, <1>1, <1>5, TaskStep DEF RecoveryKnown, RecoveryTypes, R!Steps
<1>7. QED
  BY <1>1, <1>2, <1>3, <1>6 DEF SharedInv, TypeOK, ClusterTypes

\* How far an export or an unexport got, the hosts are nodes.
LEMMA CallType ==
    ASSUME NEW v \in Volumes, NEW n \in Nodes,
           mounted \in [Volumes -> SUBSET Nodes], exported \in [Volumes -> SUBSET Nodes],
           R!ExportUpTo(v, n) \/ R!UnexportUpTo(v, n)
    PROVE  mounted' \in [Volumes -> SUBSET Nodes] /\ exported' \in [Volumes -> SUBSET Nodes]
<1>1. \/ mounted' = mounted \/ mounted' = [mounted EXCEPT ![v] = @ \cup {n}]
      \/ mounted' = [mounted EXCEPT ![v] = @ \ {n}]
  BY DEF R!ExportUpTo, R!UnexportUpTo, R!MountOn, R!UnmountOn
<1>2. \/ exported' = exported \/ exported' = [exported EXCEPT ![v] = @ \cup {n}]
      \/ exported' = [exported EXCEPT ![v] = @ \ {n}]
  BY DEF R!ExportUpTo, R!UnexportUpTo, R!ExportOn, R!UnexportOn
<1>3. QED
  BY <1>1, <1>2

\* The selected node exports the volume, or is still at it.
LEMMA ExportKnown ==
    ASSUME SharedInv, NEW t \in R!Tasks, R!Export(t)
    PROVE  RecoveryKnown' /\ ClusterTypes' /\ UNCHANGED <<slice, service>>
<1>0. /\ RecoveryKnown /\ RecoveryTypes /\ step[t] = "export" /\ R!Vol(t) \in Volumes
      /\ mounted \in [Volumes -> SUBSET Nodes] /\ exported \in [Volumes -> SUBSET Nodes]
      /\ selected[t] \in Nodes
  BY TaskParts DEF SharedInv, TypeOK, RecoveryKnown, RecoveryTypes, R!Export
<1>1. UNCHANGED <<slice, service, published, phase, failed, fresh, exportCounts, selected>>
  BY DEF R!Export, R!k8sVars, R!countVars
<1>2. faults' \in Nat
  BY CountType DEF R!Export, SharedInv, TypeOK
<1>3. R!ExportUpTo(R!Vol(t), selected[t])
  BY DEF R!Export, R!ExportUpTo, R!hostVars
<1>4. mounted' \in [Volumes -> SUBSET Nodes] /\ exported' \in [Volumes -> SUBSET Nodes]
  BY <1>0, <1>3, CallType
<1>5. sent' \in [Volumes -> SUBSET NodeCalls]
  <2>1. \/ UNCHANGED sent
        \/ sent' = [sent EXCEPT ![R!Vol(t)] = @ \cup {[op |-> "export", node |-> selected[t]]}]
    BY DEF R!Export
  <2>2. [op |-> "export", node |-> selected[t]] \in NodeCalls
    BY <1>0 DEF NodeCalls
  <2>3. QED BY <1>0, <2>1, <2>2 DEF RecoveryTypes
<1>6. R!Goto(t, "update") \/ R!Error(t)
  BY DEF R!Export
<1>7. PICK label \in {"update", "failed", "lock"} :
          step' = [step EXCEPT ![t] = label] /\ cleanup' \subseteq cleanup \cup {t}
  BY <1>6, TaskControl
<1>8. RecoveryKnown'
  BY <1>0, <1>1, <1>5, <1>7, NoneAssumption, TaskStep DEF RecoveryKnown, RecoveryTypes, R!Steps
<1>9. QED
  BY <1>1, <1>2, <1>4, <1>8 DEF SharedInv, TypeOK, ClusterTypes
\* updateEndpointSlice moves a slice that exists to the selected node, or not.
LEMMA UpdateEndpointSliceKnown ==
    ASSUME SharedInv, NEW t \in R!Tasks, R!UpdateEndpointSlice(t)
    PROVE  RecoveryKnown' /\ ClusterTypes' /\ MovesOrKeeps /\ UNCHANGED service
<1>0. /\ RecoveryKnown /\ RecoveryTypes /\ step[t] = "update" /\ R!Vol(t) = t[2] /\ t[2] \in Volumes
      /\ selected[t] \in Nodes /\ slice \in [Volumes -> Nodes \cup {None}]
  BY TaskParts DEF SharedInv, TypeOK, RecoveryKnown, RecoveryTypes, R!UpdateEndpointSlice
<1>1. UNCHANGED <<service, published, mounted, exported, phase, failed, exportCounts,
                  selected, sent>>
  BY DEF R!UpdateEndpointSlice, R!countVars, R!hostVars
<1>2. faults' \in Nat
  BY CountType DEF R!UpdateEndpointSlice, SharedInv, TypeOK
<1>3. \/ t \in fresh /\ slice' = [slice EXCEPT ![t[2]] = selected[t]]
      \/ slice' = slice
  BY <1>0 DEF R!UpdateEndpointSlice, R!PutSlice
<1>4. MovesOrKeeps
  BY <1>0, <1>3 DEF MovesOrKeeps, RecoveryKnown
<1>5. slice' \in [Volumes -> Nodes \cup {None}]
  BY <1>0, <1>3
<1>6. fresh' \subseteq fresh /\ \A u \in fresh' : slice'[u[2]] = slice[u[2]]
  BY <1>0, TaskParts DEF R!UpdateEndpointSlice, R!KeepFresh, RecoveryTypes
<1>7. \A u \in fresh' : slice'[u[2]] # None
  BY <1>0, <1>6 DEF RecoveryKnown
<1>8. step' = [step EXCEPT ![t] = "done"] /\ cleanup' \subseteq cleanup \cup {t}
  BY TaskControl DEF R!UpdateEndpointSlice
<1>9. RecoveryKnown'
  BY <1>0, <1>1, <1>6, <1>7, <1>8, TaskStep DEF RecoveryKnown, RecoveryTypes, R!Steps
<1>10. QED
  BY <1>1, <1>2, <1>4, <1>5, <1>9 DEF SharedInv, TypeOK, ClusterTypes

\* The unexport goroutine calls the failed node, or the selected one.
LEMMA SendUnexportKnown ==
    ASSUME SharedInv, NEW t \in R!Tasks, R!SendUnexport(t)
    PROVE  RecoveryKnown' /\ ClusterTypes' /\ UNCHANGED <<slice, service>>
<1>0. /\ RecoveryKnown /\ RecoveryTypes /\ t \in cleanup
      /\ R!Rec(t) = t[1] /\ R!Vol(t) \in Volumes /\ t[1] \in Recoveries
  BY TaskParts DEF SharedInv, RecoveryKnown, R!SendUnexport
<1>1. /\ UNCHANGED <<slice, service, published, mounted, exported, faults, phase, failed,
                     exportCounts, step, selected, fresh>>
      /\ cleanup' \subseteq cleanup
  BY DEF R!SendUnexport, R!k8sVars, R!countVars, R!hostVars
<1>2. failed[R!Rec(t)] \in Nodes
  BY <1>0 DEF RecoveryKnown, RecoveryTypes
<1>3. step[t] = "update" => selected[t] \in Nodes
  BY <1>0 DEF RecoveryKnown, RecoveryTypes
<1>4. \/ UNCHANGED sent
      \/ \E n \in Nodes : sent' = [sent EXCEPT ![R!Vol(t)] = @ \cup {R!UnexportCall(n)}]
  BY <1>2, <1>3 DEF R!SendUnexport
<1>5. \A n \in Nodes : R!UnexportCall(n) \in NodeCalls
  BY DEF R!UnexportCall, NodeCalls
<1>6. sent' \in [Volumes -> SUBSET NodeCalls]
  BY <1>0, <1>4, <1>5 DEF RecoveryTypes
<1>7. RecoveryKnown'
  BY <1>0, <1>1, <1>6 DEF RecoveryKnown, RecoveryTypes
<1>8. QED
  BY <1>1, <1>7 DEF SharedInv, TypeOK, ClusterTypes

\* A call nobody waits for ends on its node.
LEMMA FinishSentKnown ==
    ASSUME SharedInv, NEW v \in Volumes, NEW call \in sent[v], R!FinishSent(v, call)
    PROVE  RecoveryKnown' /\ ClusterTypes' /\ UNCHANGED <<slice, service>>
<1>0. /\ RecoveryKnown /\ RecoveryTypes /\ call \in NodeCalls
      /\ mounted \in [Volumes -> SUBSET Nodes] /\ exported \in [Volumes -> SUBSET Nodes]
  BY DEF SharedInv, TypeOK, RecoveryKnown, RecoveryTypes
<1>1. /\ UNCHANGED <<slice, service, published, faults, phase, failed, exportCounts, step,
                     selected, fresh, cleanup>>
      /\ sent' = [sent EXCEPT ![v] = @ \ {call}]
  BY DEF R!FinishSent, R!k8sVars, R!countVars, R!taskVars
<1>2. call.node \in Nodes
  BY <1>0 DEF NodeCalls
<1>3. R!ExportUpTo(v, call.node) \/ R!UnexportUpTo(v, call.node)
  BY DEF R!FinishSent, R!NodeCallEnds
<1>4. mounted' \in [Volumes -> SUBSET Nodes] /\ exported' \in [Volumes -> SUBSET Nodes]
  BY <1>0, <1>2, <1>3, CallType
<1>5. sent' \in [Volumes -> SUBSET NodeCalls]
  BY <1>0, <1>1 DEF RecoveryTypes
<1>6. RecoveryKnown'
  BY <1>0, <1>1, <1>5 DEF RecoveryKnown, RecoveryTypes
<1>7. QED
  BY <1>1, <1>4, <1>6 DEF SharedInv, TypeOK, ClusterTypes

\* A restart forgets the recoveries, and leaves the exports they wait for.
LEMMA RestartKnown ==
    ASSUME SharedInv, R!Restart
    PROVE  RecoveryKnown' /\ ClusterTypes' /\ UNCHANGED <<slice, service>>
<1>0. RecoveryKnown /\ RecoveryTypes
  BY DEF SharedInv, RecoveryKnown
<1>1. /\ UNCHANGED <<slice, service, published, mounted, exported, failed>>
      /\ phase' = [r \in Recoveries |-> IF R!Running(r) THEN "over" ELSE phase[r]]
      /\ exportCounts' = [n \in {} |-> 0] /\ fresh' = {} /\ cleanup' = {}
      /\ step' = [t \in R!Tasks |-> "none"] /\ selected' = [t \in R!Tasks |-> None]
  BY DEF R!Restart, R!k8sVars, R!hostVars
<1>2. faults' \in Nat
  BY CountType DEF R!Restart, SharedInv, TypeOK
<1>3. \A r \in Recoveries : phase'[r] \in R!Phases /\ (phase'[r] = "idle" <=> phase[r] = "idle")
  BY <1>0, <1>1 DEF RecoveryTypes, R!Running, R!Phases
<1>4. ASSUME NEW t \in R!Tasks, step[t] = "export"
      PROVE  [op |-> "export", node |-> selected[t]] \in NodeCalls
  <2>1. selected[t] \in Nodes
    BY <1>0, <1>4 DEF RecoveryKnown, RecoveryTypes
  <2>2. QED BY <2>1 DEF NodeCalls
<1>5. sent' \in [Volumes -> SUBSET NodeCalls]
  <2> DEFINE going(v) == {[op |-> "export", node |-> selected[t]] :
                              t \in {u \in R!Tasks : R!Vol(u) = v /\ step[u] = "export"}}
  <2>1. \A v \in Volumes : going(v) \subseteq NodeCalls
    BY <1>4
  <2>2. sent' = [v \in Volumes |-> sent[v] \cup going(v)]
    BY DEF R!Restart
  <2> HIDE DEF going
  <2>3. QED BY <1>0, <2>1, <2>2 DEF RecoveryTypes
<1>6. RecoveryTypes'
  BY <1>0, <1>1, <1>3, <1>5 DEF RecoveryTypes, R!Steps
<1>7. RecoveryKnown'
  BY <1>0, <1>1, <1>3, <1>6 DEF RecoveryKnown
<1>8. QED
  BY <1>1, <1>2, <1>7 DEF SharedInv, TypeOK, ClusterTypes

-----------------------------------------------------------------------------
(* Requests and recoveries beside each other *)

\* The step of a request leaves a recovery only copies of slices it did not
\* write.
LEMMA BesideKnown ==
    ASSUME RecoveryKnown, R!KeepFresh(fresh), UNCHANGED recoveryVars
    PROVE  RecoveryKnown'
<1>1. /\ UNCHANGED <<phase, failed, exportCounts, step, selected, cleanup, sent>>
      /\ fresh' = {t \in fresh : slice'[R!Vol(t)] = slice[R!Vol(t)]}
  BY DEF recoveryVars, R!KeepFresh
<1>2. RecoveryTypes'
  BY <1>1 DEF RecoveryKnown, RecoveryTypes
<1>3. \A t \in fresh' : slice'[t[2]] # None
  BY <1>1, TaskParts DEF RecoveryKnown, RecoveryTypes
<1>4. QED
  BY <1>1, <1>2, <1>3 DEF RecoveryKnown

\* A request's step keeps SharedInv, and is what it is without recovery.
LEMMA BesideStep ==
    ASSUME SharedInv, [Next]_vars, R!KeepFresh(fresh), UNCHANGED recoveryVars
    PROVE  SharedInv' /\ [Attachment!Next]_attachmentVars
<1>1. ServerKnown
  BY DEF SharedInv, ClientInv, ClientStage, ServerKnown
<1>2. TypeOK'
  BY <1>1, NextType DEF SharedInv
<1>3. ClientInv' /\ [Attachment!Next]_attachmentVars
  BY RequestRefines DEF SharedInv
<1>4. RecoveryKnown'
  BY BesideKnown DEF SharedInv
<1>5. QED
  BY <1>2, <1>3, <1>4 DEF SharedInv

\* A slice that is moved under a client, or under a handler, is still there.
LEMMA MovedClients ==
    ASSUME TypeOK, ClientInv, MovesOrKeeps,
           UNCHANGED <<PVLock, pc, sliceRead, labelsRead, service, attached>>
    PROVE  ClientInv'
<1>1. \A v \in Volumes : slice[v] # None => slice'[v] # None
  BY NoneAssumption DEF MovesOrKeeps, TypeOK
<1>2. LockInv' /\ NoOrphanLabels'
  BY DEF ClientInv, LockInv, InCS, NoOrphanLabels
<1>3. AttachedHasServer'
  BY <1>1, RequestParts DEF ClientInv, AttachedHasServer, TypeOK
<1>4. \A r \in Requests : ClientStage(r)'
  BY <1>1, RequestParts DEF ClientInv, ClientStage, ServiceFresh
<1>5. QED
  BY <1>2, <1>3, <1>4 DEF ClientInv

\* A recovery's step keeps SharedInv, and moves one server or none.
LEMMA AloneStep ==
    ASSUME SharedInv, RecoveryKnown', ClusterTypes', MovesOrKeeps, UNCHANGED service,
           UNCHANGED requestVars
    PROVE  SharedInv' /\ [Attachment!Next]_attachmentVars
<1>1. UNCHANGED <<PVLock, pc, sliceRead, labelsRead, late, attached, detached>>
  BY DEF requestVars, localVars, callerVars
<1>2. TypeOK'
  BY <1>1 DEF SharedInv, TypeOK, ClusterTypes
<1>3. ClientInv'
  BY <1>1, MovedClients DEF SharedInv
<1>4. UNCHANGED Clients
  BY DEF Clients
<1>5. CASE slice' = slice
  BY <1>2, <1>3, <1>4, <1>5 DEF SharedInv, attachmentVars
<1>6. CASE \E v \in Volumes, n \in Nodes : slice[v] # None /\ slice' = [slice EXCEPT ![v] = n]
  <2>1. Attachment!Next
    BY <1>4, <1>6 DEF Attachment!Next, Attachment!Move, Clients
  <2>2. QED BY <1>2, <1>3, <2>1 DEF SharedInv
<1>7. QED
  BY <1>5, <1>6 DEF MovesOrKeeps

\* The controller restarts with a handler under way, or without.
LEMMA SharedCrashStep ==
    ASSUME SharedInv, SharedCrash
    PROVE  SharedInv' /\ [Attachment!Next]_attachmentVars
<1>1. RecoveryKnown' /\ ClusterTypes' /\ UNCHANGED <<slice, service>>
  BY RestartKnown DEF SharedCrash
<1>2. CASE UNCHANGED requestVars
  BY <1>1, <1>2, AloneStep DEF MovesOrKeeps
<1>3. CASE Crash
  <2>1. ServerKnown
    BY DEF SharedInv, ClientInv, ClientStage, ServerKnown
  <2>2. [Next]_vars
    BY <1>3 DEF Next
  <2>3. TypeOK' /\ ClientInv' /\ [Attachment!Next]_attachmentVars
    BY <2>1, <2>2, NextType, RequestRefines DEF SharedInv
  <2>4. QED BY <1>1, <2>3 DEF SharedInv
<1>4. QED
  BY <1>2, <1>3 DEF SharedCrash

\* Every step of the whole controller.
LEMMA SharedStep ==
    ASSUME SharedInv, [SharedNext]_sharedVars
    PROVE  SharedInv' /\ [Attachment!Next]_attachmentVars
<1>1. ASSUME NEW r \in Requests, Request(r) \/ Arrive(r)
      PROVE  SharedInv' /\ [Attachment!Next]_attachmentVars
  <2>1. Next /\ R!KeepFresh(fresh) /\ UNCHANGED recoveryVars
    BY <1>1 DEF Request, Arrive, Beside, Next
  <2>2. QED BY <2>1, BesideStep
<1>2. ASSUME NEW v \in Volumes, NEW call \in NodeCalls, Late(v, call)
      PROVE  SharedInv' /\ [Attachment!Next]_attachmentVars
  <2>1. Next /\ R!KeepFresh(fresh) /\ UNCHANGED recoveryVars
    BY <1>2 DEF Late, Beside, Next
  <2>2. QED BY <2>1, BesideStep
<1>3. ASSUME NEW t \in R!Tasks, Reassign(t)
      PROVE  SharedInv' /\ [Attachment!Next]_attachmentVars
  <2>1. R!Reassign(t) /\ UNCHANGED requestVars
    BY <1>3 DEF Reassign, Alone
  <2>2. RecoveryKnown' /\ ClusterTypes' /\ MovesOrKeeps /\ UNCHANGED service
    BY <2>1, LockPVKnown, FindNextAvailableNodeKnown, UnmapKnown, MapKnown, ExportKnown,
       UpdateEndpointSliceKnown DEF R!Reassign, MovesOrKeeps
  <2>3. QED BY <2>1, <2>2, AloneStep
<1>4. ASSUME NEW r \in Recoveries, Recover(r)
      PROVE  SharedInv' /\ [Attachment!Next]_attachmentVars
  <2>1. R!Recovery(r) /\ UNCHANGED requestVars
    BY <1>4 DEF Recover, Alone
  <2>2. RecoveryKnown' /\ ClusterTypes' /\ UNCHANGED <<slice, service>>
    BY <2>1, ListSlicesKnown, CountExportsKnown, EndRecoveryKnown DEF R!Recovery
  <2>3. QED BY <2>1, <2>2, AloneStep DEF MovesOrKeeps
<1>5. ASSUME NEW n \in Nodes, Answer(n)
      PROVE  SharedInv' /\ [Attachment!Next]_attachmentVars
  BY <1>5, GoodPingKnown, AloneStep DEF Answer, MovesOrKeeps
<1>6. CASE RecoveryBegins
  BY <1>6, StartRecoveryKnown, AloneStep DEF RecoveryBegins, Alone, MovesOrKeeps
<1>7. CASE Unexports
  BY <1>7, SendUnexportKnown, AloneStep DEF Unexports, Alone, MovesOrKeeps
<1>8. CASE SentEnds
  BY <1>8, FinishSentKnown, AloneStep DEF SentEnds, MovesOrKeeps
<1>9. CASE SharedCrash
  BY <1>9, SharedCrashStep
<1>10. CASE UNCHANGED sharedVars
  <2>1. UNCHANGED vars /\ UNCHANGED recoveryVars /\ fresh' = fresh /\ slice' = slice
    BY <1>10 DEF sharedVars, vars, k8sVars
  <2>2. R!KeepFresh(fresh)
    BY <2>1 DEF R!KeepFresh
  <2>3. QED BY <2>1, <2>2, BesideStep
<1>11. QED
  BY <1>1, <1>2, <1>3, <1>4, <1>5, <1>6, <1>7, <1>8, <1>9, <1>10 DEF SharedNext

\* A controller that has just started on a fresh cluster.
LEMMA SharedInitInv == SharedInit => SharedInv /\ Attachment!Init
<1> SUFFICES ASSUME SharedInit PROVE SharedInv /\ Attachment!Init
  OBVIOUS
<1>1. TypeOK /\ ClientInv /\ Attachment!Init
  BY InitRefines, InitType DEF SharedInit
<1>2. RecoveryKnown
  BY DEF SharedInit, R!InitRecovery, RecoveryKnown, RecoveryTypes, R!Phases, R!Steps
<1>3. QED
  BY <1>1, <1>2 DEF SharedInv

\* However requests and recoveries interleave, fail and restart, a client whose
\* publish succeeded keeps its label on an existing Service and an EndpointSlice
\* to mount from: reassignVolume overwrites a slice and never removes or
\* revives one, although it shares no lock with the requests.
THEOREM ClientsKeepServerThroughMoves == SharedSpec => []AttachedHasServer
<1>1. SharedInit => SharedInv
  BY SharedInitInv
<1>2. SharedInv /\ [SharedNext]_sharedVars => SharedInv'
  BY SharedStep
<1>3. SharedInv => AttachedHasServer
  BY DEF SharedInv, ClientInv
<1>4. QED
  BY <1>1, <1>2, <1>3, PTL DEF SharedSpec

\* Requests and recoveries together implement VolumeAttachment: recovery only
\* moves a server that runs, also when updateEndpointSlice comes after the
\* slice was deleted, or deleted and created again, by requests.
THEOREM SharedImplementsAttachment == SharedSpec => ImplementsAttachment
<1>1. SharedInit => SharedInv /\ Attachment!Init
  BY SharedInitInv
<1>2. SharedInv /\ [SharedNext]_sharedVars => SharedInv' /\ [Attachment!Next]_attachmentVars
  BY SharedStep
<1>3. QED
  BY <1>1, <1>2, PTL
     DEF SharedSpec, ImplementsAttachment, Attachment!Spec, Attachment!vars, attachmentVars, Clients

-----------------------------------------------------------------------------
(* Volumes that nobody raced for *)

\* Who is at a volume.
LEMMA AtVolume ==
    ASSUME NEW v \in Volumes
    PROVE  /\ v \in InRequest <=> \E n \in Nodes : InCS(<<v, n>>)
           /\ v \in InRequest' <=> \E n \in Nodes : InCS(<<v, n>>)'
           /\ v \in InRecovery <=> \E r \in Recoveries : R!Active(<<r, v>>)
           /\ v \in InRecovery' <=> \E r \in Recoveries : R!Active(<<r, v>>)'
           /\ \A n \in Nodes : /\ <<v, n>> \in Requests
                               /\ Vol(<<v, n>>) = v /\ Node(<<v, n>>) = n
           /\ \A r \in Recoveries : /\ <<r, v>> \in R!Tasks
                                    /\ <<r, v>>[1] = r /\ <<r, v>>[2] = v
<1>1. /\ \A n \in Nodes : /\ <<v, n>> \in Requests
                        /\ Vol(<<v, n>>) = v /\ Node(<<v, n>>) = n
      /\ \A r \in Recoveries : /\ <<r, v>> \in R!Tasks
                             /\ <<r, v>>[1] = r /\ <<r, v>>[2] = v
  BY DEF R!Tasks, Requests, Vol, Node
<1>2. \A t \in R!Tasks : R!Vol(t) = v => \E r \in Recoveries : t = <<r, v>>
  BY DEF R!Tasks, R!Vol
<1>3. \A r \in Recoveries : R!Vol(<<r, v>>) = v
  BY DEF R!Vol
<1>4. /\ v \in InRequest <=> \E n \in Nodes : InCS(<<v, n>>)
      /\ v \in InRequest' <=> \E n \in Nodes : InCS(<<v, n>>)'
  BY DEF InRequest
<1>5. v \in InRecovery <=> \E r \in Recoveries : R!Active(<<r, v>>)
  BY <1>1, <1>2, <1>3, Zenon DEF InRecovery, R!Untouched
<1>6. v \in InRecovery' <=> \E r \in Recoveries : R!Active(<<r, v>>)'
  BY <1>1, <1>2, <1>3, Zenon DEF InRecovery, R!Untouched
<1>7. QED
  BY <1>1, <1>4, <1>5, <1>6

\* A request and a task that a step leaves where they are.
RequestStays(r) ==
    /\ \/ pc'[r] = pc[r] /\ sliceRead'[r] = sliceRead[r]
       \/ ~InCS(r) /\ ~InCS(r)'
    /\ r \in detached' => r \in detached
    /\ pc'[r] = "pubLock" => pc[r] = "pubLock" \/ r \notin detached'

TaskStays(t) ==
    \/ /\ step'[t] = step[t] /\ selected'[t] = selected[t] /\ failed'[t[1]] = failed[t[1]]
       /\ t \in fresh => t \in fresh'
    \/ ~R!Active(t) /\ ~R!Active(t)'

\* Nothing new is under way on the nodes but unexports.
OnlyUnexports(v) ==
    late'[v] = late[v] /\ \A call \in sent'[v] : call \in sent[v] \/ call.op = "unexport"

\* A program point of a handler, or of a task, says nothing outside of it.
LEMMA NobodyAt ==
    ASSUME NEW x
    PROVE  /\ ~InCS(x) => RequestAt(x)
           /\ ~InCS(x)' => RequestAt(x)'
           /\ ~R!Active(x) => MoveAt(x)
           /\ ~R!Active(x)' => MoveAt(x)'
BY DEF InCS, PublishLabels, UnpublishLabels, RequestAt, R!Active, MoveAt

\* What is known of a volume depends on what a step leaves alone.
LEMMA Frame ==
    ASSUME NEW v \in Volumes, Undisturbed(v), VolumeState(v)' = VolumeState(v),
           OnlyUnexports(v),
           \A n \in Nodes : RequestStays(<<v, n>>),
           \A r \in Recoveries : TaskStays(<<r, v>>)
    PROVE  Undisturbed(v)'
<1>1. /\ slice'[v] = slice[v] /\ service'[v] = service[v] /\ published'[v] = published[v]
      /\ mounted'[v] = mounted[v] /\ exported'[v] = exported[v]
  BY DEF VolumeState
<1>2. Up(v)' = Up(v) /\ Down(v)' = Down(v)
  BY <1>1 DEF Up, Down, Objects, Serves, NoObjects
<1>3. ASSUME NEW n \in Nodes
      PROVE  /\ RequestAt(<<v, n>>)' /\ Told(<<v, n>>)'
             /\ InCS(<<v, n>>)' <=> InCS(<<v, n>>)
  <2>1. RequestAt(<<v, n>>) /\ Told(<<v, n>>) /\ RequestStays(<<v, n>>)
    BY <1>3 DEF Undisturbed
  <2>2. Vol(<<v, n>>) = v /\ Node(<<v, n>>) = n
    BY DEF Vol, Node
  <2>3. CASE pc'[<<v, n>>] = pc[<<v, n>>] /\ sliceRead'[<<v, n>>] = sliceRead[<<v, n>>]
    BY <1>1, <1>2, <2>1, <2>2, <2>3
       DEF RequestAt, Told, RequestStays, InCS, Serves, NoObjects
  <2>4. CASE ~InCS(<<v, n>>) /\ ~InCS(<<v, n>>)'
    <3>1. RequestAt(<<v, n>>)'
      BY <2>4, NobodyAt
    <3>2. QED BY <1>1, <2>1, <2>2, <2>4, <3>1 DEF Told, RequestStays, InCS
  <2>5. QED BY <2>1, <2>3, <2>4 DEF RequestStays
<1>4. ASSUME NEW r \in Recoveries
      PROVE  MoveAt(<<r, v>>)' /\ (R!Active(<<r, v>>)' <=> R!Active(<<r, v>>))
  <2>1. MoveAt(<<r, v>>) /\ TaskStays(<<r, v>>)
    BY <1>4 DEF Undisturbed
  <2>2. CASE ~R!Active(<<r, v>>) /\ ~R!Active(<<r, v>>)'
    BY <2>2, NobodyAt
  <2>3. CASE ~(~R!Active(<<r, v>>) /\ ~R!Active(<<r, v>>)')
    BY <1>1, <1>2, <2>1, <2>3 DEF MoveAt, TaskStays, R!Active, Objects, Serves
  <2>4. QED BY <2>2, <2>3
<1>5. \A call \in sent'[v] : call.op = "unexport"
  BY DEF OnlyUnexports, Undisturbed
<1>6. (v \in InRequest' <=> v \in InRequest) /\ (v \in InRecovery' <=> v \in InRecovery)
  BY <1>3, <1>4, AtVolume
<1>7. QED
  BY <1>2, <1>3, <1>4, <1>5, <1>6 DEF Undisturbed, OnlyUnexports

\* Nor does it depend on the nodes that are not to serve the volume.
LEMMA HostsFrame ==
    ASSUME NEW v \in Volumes, Undisturbed(v), v \notin InRequest, OnlyUnexports(v),
           UNCHANGED <<slice, service, published, pc, sliceRead, detached, step, selected,
                       fresh, failed>>,
           \A m \in R!Serving(v) : m \in mounted[v] \cap exported[v] =>
                                       m \in mounted'[v] \cap exported'[v]
    PROVE  Undisturbed(v)'
<1>1. Up(v) => Up(v)'
  BY DEF Up, Objects, Serves, R!Serving
<1>2. Down(v) => Down(v)'
  BY DEF Down, NoObjects
<1>3. \A n \in Nodes : InCS(<<v, n>>)' = InCS(<<v, n>>) /\ (Told(<<v, n>>) => Told(<<v, n>>)')
  BY DEF InCS, Told
<1>4. ASSUME NEW r \in Recoveries
      PROVE  MoveAt(<<r, v>>)' /\ R!Active(<<r, v>>)' = R!Active(<<r, v>>)
  <2>1. MoveAt(<<r, v>>) /\ <<r, v>> \in R!Tasks /\ R!Vol(<<r, v>>) = v /\ <<r, v>>[2] = v
    BY DEF Undisturbed, R!Tasks, R!Vol
  <2>2. R!Active(<<r, v>>) => selected[<<r, v>>] \in R!Serving(v)
    BY <2>1 DEF R!Serving
  <2>3. step[<<r, v>>] = "update" => R!Active(<<r, v>>)
    BY DEF R!Active
  <2>4. R!Active(<<r, v>>)' = R!Active(<<r, v>>)
    BY DEF R!Active
  <2>5. QED BY <1>1, <2>1, <2>2, <2>3, <2>4 DEF MoveAt, Objects, Serves
<1>5. \A call \in sent'[v] : call.op = "unexport"
  BY DEF OnlyUnexports, Undisturbed
<1>6. v \notin InRequest' /\ (v \in InRecovery' <=> v \in InRecovery)
  BY <1>3, <1>4, AtVolume
<1>7. \A n \in Nodes : RequestAt(<<v, n>>)'
  BY <1>6, AtVolume, NobodyAt
<1>8. QED
  BY <1>1, <1>2, <1>3, <1>4, <1>5, <1>6, <1>7 DEF Undisturbed, OnlyUnexports

-----------------------------------------------------------------------------
(* The requests' steps *)

\* What the step of a handler has to establish for its own volume.
Fits(r) ==
    /\ RequestAt(r)' /\ (InCS(r) \/ Up(Vol(r)) \/ Down(Vol(r)))'
    /\ DetachedUnlabelled(Vol(r))'
    /\ pc'[r] \in {"pubLock"} \cup PublishLabels => r \notin detached'

\* Such a step keeps the volume undisturbed.
LEMMA FitsUndisturbed ==
    ASSUME NEW r \in Requests, Undisturbed(Vol(r)), Vol(r) \notin InRecovery,
           \A n \in Nodes : <<Vol(r), n>> # r => ~InCS(<<Vol(r), n>>),
           OnlyBuilds(r), UNCHANGED <<step, sent>>, Fits(r)
    PROVE  Undisturbed(Vol(r))'
<1> DEFINE v == Vol(r)
<1>0. v \in Volumes /\ Node(r) \in Nodes /\ r = <<v, Node(r)>>
  BY RequestParts DEF Requests, Vol, Node
<1>1. \A s \in Recoveries : ~R!Active(<<s, v>>)'
  BY <1>0, AtVolume DEF R!Active
<1>2. \A s \in Recoveries : MoveAt(<<s, v>>)'
  BY <1>1, NobodyAt
<1>3. v \notin InRecovery'
  BY <1>0, <1>1, AtVolume
<1>4. ASSUME NEW n \in Nodes, <<v, n>> # r
      PROVE  RequestAt(<<v, n>>)' /\ ~InCS(<<v, n>>)'
  <2>1. <<v, n>> \in Requests /\ Vol(<<v, n>>) = v
    BY <1>0, AtVolume
  <2>2. ~InCS(<<v, n>>)'
    BY <1>4, <2>1 DEF OnlyBuilds, InCS
  <2>3. QED BY <2>2, NobodyAt
<1>5. ASSUME NEW n \in Nodes
      PROVE  Told(<<v, n>>)'
  <2>1. <<v, n>> \in Requests /\ Vol(<<v, n>>) = v /\ Node(<<v, n>>) = n /\ Told(<<v, n>>)
    BY <1>0, AtVolume DEF Undisturbed
  <2>2. <<v, n>> \in detached' => n \notin service'[v].clients
    BY <2>1 DEF Fits, DetachedUnlabelled
  <2>3. CASE <<v, n>> = r
    BY <2>1, <2>2, <2>3 DEF Told, Fits
  <2>4. CASE <<v, n>> # r
    BY <2>1, <2>2, <2>4 DEF Told, OnlyBuilds
  <2>5. QED BY <2>3, <2>4
<1>6. v \notin InRequest' => (Up(v) \/ Down(v))'
  BY <1>0, AtVolume DEF Fits
<1>7. late'[v] = {} /\ \A call \in sent'[v] : call.op = "unexport"
  BY DEF Undisturbed, OnlyBuilds
<1>8. \A n \in Nodes : RequestAt(<<v, n>>)'
  BY <1>4 DEF Fits
<1>9. QED
  BY <1>2, <1>3, <1>5, <1>6, <1>7, <1>8 DEF Undisturbed

\* A handler changes nothing of other volumes and other requests.
LEMMA HandlerBuilds ==
    ASSUME TypeOK, Works, NEW r \in Requests, Publish(r) \/ Unpublish(r)
    PROVE  InCS(r) /\ OnlyBuilds(r)
<1> USE DEF Publish, Unpublish, GetNode, PubGetSlice, PubGetService, AddNodeToNfsService,
            CheckNodeStatus, ArrayPublish, CallExport, CreateEndpointSlice, CreateService,
            UnpubGetSlice, UnpubGetService, RemoveNodeFromNfsService, CallUnexport,
            DeleteEndpointSlice, DeleteService, ArrayUnpublish
<1>0. Vol(r) \in Volumes /\ Node(r) \in Nodes /\ ~Fails
  BY RequestParts DEF Works, Fails, TypeOK
<1>1. InCS(r)
  BY DEF InCS, PublishLabels, UnpublishLabels
<1>2. Return(r) \/ \E label \in PublishLabels \cup UnpublishLabels : Goto(r, label)
  BY <1>0 DEF PublishLabels, UnpublishLabels
<1>3. \A s \in Requests \ {r} : pc'[s] = pc[s]
  BY <1>2, ControlFrame DEF Labels
<1>4. \A s \in Requests \ {r} : sliceRead'[s] = sliceRead[s] /\ (s \in detached' <=> s \in detached)
  BY DEF AnswerDetached, TypeOK, localVars, callerVars
<1>5. \A v \in Volumes \ {Vol(r)} : slice'[v] = slice[v] /\ service'[v] = service[v]
  BY <1>0 DEF PutSlice, PutService, DropService, TypeOK, k8sVars
<1>6. \A v \in Volumes \ {Vol(r)} : /\ published'[v] = published[v]
                                    /\ mounted'[v] = mounted[v] /\ exported'[v] = exported[v]
  BY <1>0 DEF MapToHost, UnmapFromHost, MountOn, ExportOn, UnmountOn, UnexportOn, TypeOK, nodeVars
<1>7. late' = late
  BY <1>0 DEF nodeVars
<1>8. QED
  BY <1>1, <1>3, <1>4, <1>5, <1>6, <1>7 DEF OnlyBuilds, VolumeState

\* What a handler at a volume that nobody races for knows.
AtPoint(r) ==
    /\ TypeOK /\ ClientInv /\ Works /\ ~Fails /\ Vol(r) \in Volumes /\ Node(r) \in Nodes
    /\ RequestAt(r) /\ DetachedUnlabelled(Vol(r))
    /\ pc[r] \in PublishLabels => r \notin detached

\* It follows for a handler of an undisturbed volume.
LEMMA PointKnown ==
    ASSUME TypeOK, ClientInv, Works, NEW r \in Requests, Undisturbed(Vol(r))
    PROVE  AtPoint(r)
<1>0. Vol(r) \in Volumes /\ Node(r) \in Nodes /\ r = <<Vol(r), Node(r)>> /\ ~Fails
  BY RequestParts DEF Requests, Vol, Node, Works, Fails, TypeOK
<1>1. RequestAt(r) /\ Told(r)
  BY <1>0 DEF Undisturbed
<1>2. ASSUME NEW s \in Requests, Vol(s) = Vol(r), s \in detached
      PROVE  Node(s) \notin service[Vol(r)].clients
  <2>1. s = <<Vol(r), Node(s)>> /\ Node(s) \in Nodes
    BY <1>2, RequestParts DEF Requests, Vol, Node
  <2>2. Told(s)
    BY <2>1 DEF Undisturbed
  <2>3. QED BY <1>2, <2>2 DEF Told
<1>3. QED
  BY <1>0, <1>1, <1>2 DEF AtPoint, Told, DetachedUnlabelled

\* Fewer labels, and nobody told more.
LEMMA FewerLabels ==
    ASSUME NEW r, AtPoint(r), detached' = detached,
           service'[Vol(r)].clients \subseteq service[Vol(r)].clients
    PROVE  DetachedUnlabelled(Vol(r))'
BY DEF AtPoint, DetachedUnlabelled

\* The steps that only read.
LEMMA ReadFits ==
    ASSUME NEW r \in Requests, AtPoint(r),
           \/ GetNode(r) \/ PubGetSlice(r) \/ PubGetService(r) \/ CheckNodeStatus(r)
           \/ UnpubGetSlice(r) \/ UnpubGetService(r)
    PROVE  Fits(r)
<1>0. TypeOK /\ ~Fails /\ Vol(r) \in Volumes
  BY DEF AtPoint
<1>1. UNCHANGED <<slice, service, published, mounted, exported>>
  BY DEF GetNode, PubGetSlice, PubGetService, CheckNodeStatus, UnpubGetSlice,
         UnpubGetService, k8sVars, nodeVars
<1>2. \/ pc[r] = "getNode" /\ pc'[r] = "pubGetSlice" /\ UNCHANGED detached
      \/ pc[r] = "pubGetSlice" /\ slice[Vol(r)] # None /\ pc'[r] = "pubGetService" /\ UNCHANGED detached
      \/ pc[r] = "pubGetSlice" /\ slice[Vol(r)] = None /\ pc'[r] = "checkStatus" /\ UNCHANGED detached
      \/ pc[r] = "pubGetService" /\ service[Vol(r)].exists /\ pc'[r] = "addNode" /\ UNCHANGED detached
      \/ pc[r] = "pubGetService" /\ ~service[Vol(r)].exists
      \/ pc[r] = "checkStatus" /\ pc'[r] \in {"arrayPublish", "idle"} /\ UNCHANGED detached
      \/ /\ pc[r] = "unpubGetSlice" /\ slice[Vol(r)] # None /\ pc'[r] = "unpubGetService"
         /\ sliceRead'[r] = slice[Vol(r)] /\ UNCHANGED detached
      \/ /\ pc[r] = "unpubGetSlice" /\ slice[Vol(r)] = None /\ pc'[r] = "idle"
         /\ detached' = detached \cup {r}
      \/ /\ pc[r] = "unpubGetService" /\ service[Vol(r)].exists /\ pc'[r] = "removeNode"
         /\ sliceRead'[r] = sliceRead[r] /\ UNCHANGED detached
      \/ pc[r] = "unpubGetService" /\ ~service[Vol(r)].exists
  <2>1. /\ \A label \in Labels : Goto(r, label) => pc'[r] = label
        /\ Return(r) => pc'[r] = "idle"
    BY <1>0, ControlFrame
  <2>2. QED
    BY <1>0, <2>1 DEF GetNode, PubGetSlice, PubGetService, CheckNodeStatus, UnpubGetSlice,
       UnpubGetService, AnswerDetached, callerVars, TypeOK, Labels, PublishLabels, UnpublishLabels
<1>3. Up(Vol(r))' = Up(Vol(r)) /\ Down(Vol(r))' = Down(Vol(r))
  BY <1>1 DEF Up, Down, Objects, Serves, NoObjects
<1>4. /\ Up(Vol(r)) => slice[Vol(r)] # None /\ service[Vol(r)].exists
      /\ Down(Vol(r)) => slice[Vol(r)] = None /\ ~service[Vol(r)].exists
  BY DEF Up, Down, Objects, NoObjects
<1>5. RequestAt(r)' /\ (InCS(r)' \/ Up(Vol(r)) \/ Down(Vol(r)))
  BY <1>1, <1>2, <1>3, <1>4 DEF AtPoint, RequestAt, InCS, PublishLabels, UnpublishLabels
<1>6. DetachedUnlabelled(Vol(r))'
  <2>1. CASE detached' = detached
    BY <1>1, <2>1, FewerLabels
  <2>2. CASE detached' # detached
    <3>1. Down(Vol(r))
      BY <1>2, <1>4, <2>2 DEF AtPoint, RequestAt
    <3>2. service[Vol(r)].clients = {}
      BY <1>0, <1>4, <3>1 DEF AtPoint, ClientInv, NoOrphanLabels
    <3>3. QED BY <1>1, <3>2 DEF DetachedUnlabelled
  <2>3. QED BY <2>1, <2>2
<1>7. pc'[r] \in {"pubLock"} \cup PublishLabels => r \notin detached'
  BY <1>2, <1>4 DEF AtPoint, RequestAt, PublishLabels
<1>8. QED
  BY <1>3, <1>5, <1>6, <1>7 DEF Fits

\* Joining a server leaves its volume served.
LEMMA AddNodeFits ==
    ASSUME NEW r \in Requests, AtPoint(r), AddNodeToNfsService(r)
    PROVE  Fits(r)
<1>1. /\ TypeOK /\ Vol(r) \in Volumes /\ ~Fails /\ Up(Vol(r)) /\ ServiceFresh(r)
      /\ r \notin detached
  BY DEF AtPoint, RequestAt, ClientInv, ClientStage, AddNodeToNfsService, PublishLabels
<1>2. /\ UNCHANGED <<slice, published, mounted, exported, detached>>
      /\ pc'[r] = "idle"
  BY <1>1, ControlFrame DEF AddNodeToNfsService, nodeVars
<1>3. \/ service' = service
      \/ /\ service'[Vol(r)].exists
         /\ service'[Vol(r)].clients = labelsRead[r] \cup {Node(r)}
  BY <1>1 DEF AddNodeToNfsService, PutService, TypeOK
<1>4. Up(Vol(r))'
  BY <1>1, <1>2, <1>3 DEF Up, Objects, Serves
<1>5. DetachedUnlabelled(Vol(r))'
  <2> SUFFICES ASSUME NEW s \in Requests, Vol(s) = Vol(r), s \in detached
               PROVE  Node(s) \notin service'[Vol(r)].clients
    BY <1>2 DEF DetachedUnlabelled
  <2>1. Node(s) # Node(r)
    BY <1>1, SameRequest
  <2>2. Node(s) \notin service[Vol(r)].clients
    BY DEF AtPoint, DetachedUnlabelled
  <2>3. QED BY <1>1, <1>3, <2>1, <2>2 DEF ServiceFresh
<1>6. QED
  BY <1>2, <1>4, <1>5 DEF Fits, RequestAt, PublishLabels

\* makeNfsService maps the volume to its node alone.
LEMMA ArrayPublishFits ==
    ASSUME NEW r \in Requests, AtPoint(r), ArrayPublish(r)
    PROVE  Fits(r)
<1>1. TypeOK /\ Vol(r) \in Volumes /\ ~Fails /\ Down(Vol(r)) /\ r \notin detached
  BY DEF AtPoint, RequestAt, ArrayPublish, PublishLabels
<1>2. /\ UNCHANGED <<slice, service, detached>> /\ pc'[r] = "export"
  BY <1>1, ControlFrame DEF ArrayPublish, k8sVars, callerVars, Labels, PublishLabels
<1>3. published'[Vol(r)] = {Node(r)}
  BY <1>1 DEF ArrayPublish, MapToHost, Down, TypeOK
<1>4. RequestAt(r)' /\ InCS(r)'
  BY <1>1, <1>2, <1>3 DEF Down, NoObjects, RequestAt, InCS, PublishLabels
<1>5. QED
  BY <1>1, <1>2, <1>4, FewerLabels DEF Fits

\* ExportNfsVolume mounts and exports on that node.
LEMMA CallExportFits ==
    ASSUME NEW r \in Requests, AtPoint(r), CallExport(r)
    PROVE  Fits(r)
<1>1. /\ TypeOK /\ Vol(r) \in Volumes /\ ~Fails /\ r \notin detached
      /\ NoObjects(Vol(r)) /\ published[Vol(r)] = {Node(r)}
  BY DEF AtPoint, RequestAt, CallExport, PublishLabels
<1>2. /\ UNCHANGED <<slice, service, published, detached>> /\ pc'[r] = "createSlice"
  BY <1>1, ControlFrame DEF CallExport, k8sVars, callerVars, Labels, PublishLabels
<1>3. Node(r) \in mounted'[Vol(r)] \cap exported'[Vol(r)]
  BY <1>1 DEF CallExport, MountOn, ExportOn, TypeOK
<1>4. RequestAt(r)' /\ InCS(r)'
  BY <1>1, <1>2, <1>3 DEF Serves, NoObjects, RequestAt, InCS, PublishLabels
<1>5. QED
  BY <1>1, <1>2, <1>4, FewerLabels DEF Fits

\* The slice is created, since none exists.
LEMMA CreateSliceFits ==
    ASSUME NEW r \in Requests, AtPoint(r), CreateEndpointSlice(r)
    PROVE  Fits(r)
<1>1. /\ TypeOK /\ Vol(r) \in Volumes /\ ~Fails /\ r \notin detached
      /\ NoObjects(Vol(r)) /\ Serves(Vol(r), Node(r))
  BY DEF AtPoint, RequestAt, CreateEndpointSlice, PublishLabels
<1>2. /\ UNCHANGED <<service, published, mounted, exported, detached>>
      /\ pc'[r] = "createService" /\ slice'[Vol(r)] = Node(r)
  BY <1>1, ControlFrame DEF CreateEndpointSlice, PutSlice, NoObjects, nodeVars, callerVars, TypeOK,
     Labels, PublishLabels
<1>3. RequestAt(r)' /\ InCS(r)'
  BY <1>1, <1>2 DEF Serves, NoObjects, RequestAt, InCS, PublishLabels
<1>4. QED
  BY <1>1, <1>2, <1>3, FewerLabels DEF Fits

\* The Service is created, since none exists, and the volume is served.
LEMMA CreateServiceFits ==
    ASSUME NEW r \in Requests, AtPoint(r), CreateService(r)
    PROVE  Fits(r)
<1>1. /\ TypeOK /\ Vol(r) \in Volumes /\ Node(r) \in Nodes /\ ~Fails /\ r \notin detached
      /\ slice[Vol(r)] = Node(r) /\ ~service[Vol(r)].exists /\ Serves(Vol(r), Node(r))
  BY DEF AtPoint, RequestAt, CreateService, PublishLabels
<1>2. /\ UNCHANGED <<slice, published, mounted, exported, detached>> /\ pc'[r] = "idle"
  BY <1>1, ControlFrame DEF CreateService, nodeVars
<1>3. service'[Vol(r)].exists /\ service'[Vol(r)].clients = {Node(r)}
  BY <1>1 DEF CreateService, PutService, TypeOK
<1>4. Up(Vol(r))'
  BY <1>1, <1>2, <1>3, NoneAssumption DEF Up, Objects, Serves
<1>5. DetachedUnlabelled(Vol(r))'
  BY <1>1, <1>2, <1>3, SameRequest DEF DetachedUnlabelled
<1>6. QED
  BY <1>2, <1>4, <1>5 DEF Fits, RequestAt, PublishLabels

\* A client leaves; the volume stays served while another one is left.
LEMMA RemoveNodeFits ==
    ASSUME NEW r \in Requests, AtPoint(r), RemoveNodeFromNfsService(r)
    PROVE  Fits(r)
<1>1. /\ TypeOK /\ Vol(r) \in Volumes /\ ~Fails /\ ServiceFresh(r)
      /\ Up(Vol(r)) /\ slice[Vol(r)] = sliceRead[r]
  BY DEF AtPoint, RequestAt, ClientInv, ClientStage, RemoveNodeFromNfsService
<1>2. UNCHANGED <<slice, sliceRead, published, mounted, exported>>
  BY DEF RemoveNodeFromNfsService, localVars, nodeVars
<1>3. service'[Vol(r)].exists /\ service'[Vol(r)].clients = labelsRead[r] \ {Node(r)}
  BY <1>1 DEF RemoveNodeFromNfsService, PutService, TypeOK
<1>4. \/ pc'[r] = "unexport" /\ UNCHANGED detached
      \/ labelsRead[r] \ {Node(r)} # {} /\ pc'[r] = "idle" /\ detached' = detached \cup {r}
  BY <1>1, ControlFrame
     DEF RemoveNodeFromNfsService, LastClient, AnswerDetached, Labels, UnpublishLabels
<1>5. RequestAt(r)' /\ (InCS(r) \/ Up(Vol(r)))'
  <2>1. CASE pc'[r] = "unexport"
    BY <1>1, <1>2, <1>3, <2>1 DEF RequestAt, Up, Serves, InCS, UnpublishLabels
  <2>2. CASE pc'[r] = "idle" /\ labelsRead[r] \ {Node(r)} # {}
    BY <1>1, <1>2, <1>3, <2>2 DEF RequestAt, Up, Objects, Serves
  <2>3. QED BY <1>4, <2>1, <2>2
<1>6. DetachedUnlabelled(Vol(r))'
  <2> SUFFICES ASSUME NEW s \in Requests, Vol(s) = Vol(r), s \in detached'
               PROVE  Node(s) \notin service'[Vol(r)].clients
    BY DEF DetachedUnlabelled
  <2>1. s = r \/ Node(s) \notin service[Vol(r)].clients
    BY <1>4 DEF AtPoint, DetachedUnlabelled
  <2>2. QED BY <1>1, <1>3, <2>1 DEF ServiceFresh
<1>7. QED
  BY <1>4, <1>5, <1>6 DEF Fits, PublishLabels

\* The teardown takes the server of the slice down, call by call.
LEMMA TeardownFits ==
    ASSUME NEW r \in Requests, AtPoint(r),
           CallUnexport(r) \/ DeleteEndpointSlice(r) \/ DeleteService(r)
    PROVE  Fits(r)
<1>0. TypeOK /\ Vol(r) \in Volumes /\ ~Fails /\ RequestAt(r)
  BY DEF AtPoint
<1>1. UNCHANGED <<sliceRead, published, detached>>
  BY DEF CallUnexport, DeleteEndpointSlice, DeleteService, localVars, callerVars
<1>2. \/ pc[r] = "unexport" /\ pc'[r] = "deleteSlice" /\ UNCHANGED service
      \/ pc[r] = "deleteSlice" /\ pc'[r] = "deleteService" /\ UNCHANGED service /\ slice'[Vol(r)] = None
      \/ pc[r] = "deleteService" /\ pc'[r] = "arrayUnpublish" /\ UNCHANGED slice /\ service'[Vol(r)] = NoService
  <2>1. \A label \in Labels : Goto(r, label) => pc'[r] = label
    BY <1>0, ControlFrame
  <2>2. QED
    BY <1>0, <2>1 DEF CallUnexport, DeleteEndpointSlice, DeleteService, PutSlice, DropService,
       k8sVars, TypeOK, Labels, UnpublishLabels
<1>3. RequestAt(r)' /\ InCS(r)'
  BY <1>0, <1>1, <1>2 DEF RequestAt, NoObjects, NoService, InCS, UnpublishLabels
<1>4. service'[Vol(r)].clients \subseteq service[Vol(r)].clients
  BY <1>2 DEF NoService
<1>5. QED
  BY <1>1, <1>2, <1>3, <1>4, FewerLabels DEF Fits, PublishLabels

\* The array mapping is removed and nothing is left.
LEMMA ArrayUnpublishFits ==
    ASSUME NEW r \in Requests, AtPoint(r), ArrayUnpublish(r)
    PROVE  Fits(r)
<1>1. /\ TypeOK /\ Vol(r) \in Volumes /\ ~Fails
      /\ NoObjects(Vol(r)) /\ published[Vol(r)] = {sliceRead[r]}
  BY DEF AtPoint, RequestAt, ArrayUnpublish
<1>2. UNCHANGED <<slice, service>> /\ pc'[r] = "idle"
  BY <1>1, ControlFrame DEF ArrayUnpublish, k8sVars
<1>3. published'[Vol(r)] = {}
  BY <1>1 DEF ArrayUnpublish, UnmapFromHost, TypeOK
<1>4. Down(Vol(r))' /\ RequestAt(r)'
  BY <1>1, <1>2, <1>3 DEF Down, NoObjects, RequestAt
<1>5. service[Vol(r)].clients = {}
  BY <1>1 DEF AtPoint, ClientInv, NoOrphanLabels, NoObjects
<1>6. QED
  BY <1>2, <1>4, <1>5 DEF Fits, DetachedUnlabelled, PublishLabels

\* A handler that has the volume for itself.
LEMMA HandlerFits ==
    ASSUME NEW r \in Requests, AtPoint(r), Publish(r) \/ Unpublish(r)
    PROVE  Fits(r)
BY ReadFits, AddNodeFits, ArrayPublishFits, CallExportFits, CreateSliceFits, CreateServiceFits,
   RemoveNodeFits, TeardownFits, ArrayUnpublishFits DEF Publish, Unpublish

-----------------------------------------------------------------------------
(* Requests beside recoveries *)

\* What a request leaves to the tasks at a volume whose slice it does not write.
LEMMA BesideTasks ==
    ASSUME SharedInv, R!KeepFresh(fresh), UNCHANGED recoveryVars,
           NEW v \in Volumes, slice'[v] = slice[v]
    PROVE  (\A r \in Recoveries : TaskStays(<<r, v>>)) /\ sent' = sent
<1>1. /\ UNCHANGED <<failed, step, selected, sent>>
      /\ fresh' = {t \in fresh : slice'[R!Vol(t)] = slice[R!Vol(t)]}
  BY DEF recoveryVars, R!KeepFresh
<1>2. \A r \in Recoveries : R!Vol(<<r, v>>) = v
  BY DEF R!Vol
<1>3. QED
  BY <1>1, <1>2 DEF TaskStays

\* A volume the step of r does not concern.
LEMMA BesideFrame ==
    ASSUME SharedInv, NEW r \in Requests, OnlyBuilds(r), R!KeepFresh(fresh),
           UNCHANGED recoveryVars, NEW v \in Volumes, v # Vol(r), Undisturbed(v)
    PROVE  Undisturbed(v)'
<1>1. VolumeState(v)' = VolumeState(v) /\ late' = late
  BY DEF OnlyBuilds
<1>2. (\A s \in Recoveries : TaskStays(<<s, v>>)) /\ sent' = sent
  BY <1>1, BesideTasks DEF VolumeState
<1>3. \A n \in Nodes : RequestStays(<<v, n>>)
  BY AtVolume DEF OnlyBuilds, RequestStays
<1>4. QED
  BY <1>1, <1>2, <1>3, Frame DEF OnlyUnexports

\* Recoveries are the pinger's business.
LEMMA BesideRecovery ==
    ASSUME OneRecovery, UNCHANGED recoveryVars
    PROVE  OneRecovery'
BY DEF OneRecovery, recoveryVars, R!Running

\* The step of a handler.
LEMMA RequestSettles ==
    ASSUME SharedInv, Turns, NEW r \in Requests, Works, Request(r)
    PROVE  Turns'
<1>0. TypeOK /\ ClientInv /\ LockInv /\ OneRecovery
  BY DEF SharedInv, ClientInv, Turns
<1>1. /\ Publish(r) \/ Unpublish(r)
      /\ R!KeepFresh(fresh) /\ UNCHANGED recoveryVars
      /\ raced \subseteq raced'
  BY DEF Request, Beside
<1>2. InCS(r) /\ OnlyBuilds(r)
  BY <1>0, <1>1, HandlerBuilds
<1>3. ASSUME NEW v \in Volumes \ raced'
      PROVE  Undisturbed(v)'
  <2>1. Undisturbed(v)
    BY <1>1, <1>3 DEF Turns
  <2>2. CASE v # Vol(r)
    BY <1>1, <1>2, <2>1, <2>2, BesideFrame
  <2>3. CASE v = Vol(r)
    <3>1. AtPoint(r)
      BY <1>0, <2>1, <2>3, PointKnown
    <3>2. Fits(r)
      BY <1>1, <3>1, HandlerFits
    <3>3. ASSUME NEW n \in Nodes, <<v, n>> # r PROVE ~InCS(<<v, n>>)
      BY <1>0, <1>2, <2>3, <3>3, AtVolume, Exclusive
    <3>4. v \in InRequest
      BY <1>2, <2>3, RequestParts, AtVolume DEF Requests, Vol, Node
    <3>5. v \notin InRecovery
      BY <2>1, <3>4 DEF Undisturbed
    <3>6. UNCHANGED <<step, sent>>
      BY <1>1 DEF recoveryVars
    <3>7. QED BY <1>2, <2>1, <2>3, <3>2, <3>3, <3>5, <3>6, FitsUndisturbed
  <2>4. QED BY <2>2, <2>3
<1>4. QED
  BY <1>0, <1>1, <1>3, BesideRecovery DEF Turns

\* A request that is called, or takes the lock.
LEMMA ArriveSettles ==
    ASSUME SharedInv, Turns, NEW r \in Requests, Arrive(r)
    PROVE  Turns'
<1>0. TypeOK /\ LockInv /\ OneRecovery /\ Vol(r) \in Volumes /\ Node(r) \in Nodes
  BY RequestParts DEF SharedInv, ClientInv, Turns
<1>1. /\ R!KeepFresh(fresh) /\ UNCHANGED recoveryVars
      /\ raced' = raced \cup {v \in InRequest' : v \in InRecovery}
      /\ CallPublish(r) \/ CallUnpublish(r) \/ LockPV(r)
  BY DEF Arrive, Beside
<1>2. UNCHANGED <<slice, service, sliceRead, published, mounted, exported, late>>
  BY <1>1 DEF CallPublish, CallUnpublish, LockPV, localVars, k8sVars, nodeVars
<1>3. /\ \A s \in Requests \ {r} : pc'[s] = pc[s] /\ (s \in detached' <=> s \in detached)
      /\ detached' \subseteq detached
  BY <1>0, <1>1 DEF CallPublish, CallUnpublish, LockPV, Goto, TypeOK, callerVars
<1>4. OnlyBuilds(r)
  BY <1>2, <1>3 DEF OnlyBuilds, VolumeState
<1>5. /\ pc[r] \in {"idle", "pubLock", "unpubLock"}
      /\ \/ pc'[r] = "pubLock" /\ r \notin detached'
         \/ pc'[r] = "unpubLock"
         \/ /\ pc'[r] \in {"getNode", "unpubGetSlice"} /\ LockFree(Vol(r))
            /\ pc'[r] = "getNode" => pc[r] = "pubLock" /\ UNCHANGED detached
  BY <1>0, <1>1 DEF CallPublish, CallUnpublish, LockPV, Goto, TypeOK, callerVars
<1>6. ASSUME NEW v \in Volumes \ raced'
      PROVE  Undisturbed(v)'
  <2>1. Undisturbed(v)
    BY <1>1, <1>6 DEF Turns
  <2>2. CASE v # Vol(r)
    BY <1>1, <1>4, <2>1, <2>2, BesideFrame
  <2>3. CASE v = Vol(r) /\ pc'[r] \in {"pubLock", "unpubLock"}
    <3>1. (\A s \in Recoveries : TaskStays(<<s, v>>)) /\ sent' = sent
      BY <1>1, <1>2, BesideTasks
    <3>2. ~InCS(r) /\ ~InCS(r)'
      BY <1>5, <2>3 DEF InCS, PublishLabels, UnpublishLabels
    <3>3. \A n \in Nodes : RequestStays(<<v, n>>)
      BY <1>2, <1>3, <1>5, <2>3, <3>2, AtVolume DEF RequestStays
    <3>4. QED BY <1>2, <2>1, <3>1, <3>3, Frame DEF OnlyUnexports, VolumeState
  <2>4. CASE v = Vol(r) /\ pc'[r] \in {"getNode", "unpubGetSlice"}
    <3>1. ASSUME NEW n \in Nodes PROVE ~InCS(<<v, n>>)
      BY <1>0, <1>5, <2>4, <3>1, AtVolume, NoneAssumption DEF LockInv, LockFree
    <3>2. r = <<v, Node(r)>> /\ InCS(r)'
      BY <2>4 DEF Requests, Vol, Node, InCS, PublishLabels, UnpublishLabels
    <3>3. v \in InRequest' /\ v \notin InRequest
      BY <1>0, <3>1, <3>2, AtVolume
    <3>4. v \notin InRecovery
      BY <1>1, <1>6, <3>3
    <3>5. Up(v) \/ Down(v)
      BY <2>1, <3>3, <3>4 DEF Undisturbed
    <3>6. RequestAt(r)'
      BY <1>2, <2>4, <3>5 DEF RequestAt, Up, Down, Objects, Serves, NoObjects
    <3>7. Told(r)
      BY <1>0, <2>1, <3>2 DEF Undisturbed
    <3>8. pc'[r] \in {"pubLock"} \cup PublishLabels => r \notin detached'
      BY <1>5, <2>4, <3>7 DEF Told, PublishLabels
    <3>9. DetachedUnlabelled(v)'
      <4> SUFFICES ASSUME NEW s \in Requests, Vol(s) = v, s \in detached'
                   PROVE  Node(s) \notin service[v].clients
        BY <1>2 DEF DetachedUnlabelled
      <4>1. s = <<v, Node(s)>> /\ Node(s) \in Nodes
        BY RequestParts DEF Requests, Vol, Node
      <4>2. Told(s)
        BY <2>1, <4>1 DEF Undisturbed
      <4>3. QED BY <1>3, <4>2 DEF Told
    <3>10. Fits(r)
      BY <2>4, <3>2, <3>6, <3>8, <3>9 DEF Fits
    <3>11. UNCHANGED <<step, sent>>
      BY <1>1 DEF recoveryVars
    <3>12. QED BY <1>4, <2>1, <2>4, <3>1, <3>4, <3>10, <3>11, FitsUndisturbed
  <2>5. QED BY <1>5, <2>2, <2>3, <2>4
<1>7. QED
  BY <1>0, <1>1, <1>6, BesideRecovery DEF Turns

\* No call is abandoned at a volume nobody raced for.
LEMMA LateSettles ==
    ASSUME SharedInv, Turns, NEW w \in Volumes, NEW call \in NodeCalls, Late(w, call)
    PROVE  Turns'
<1>0. TypeOK /\ OneRecovery
  BY DEF SharedInv, Turns
<1>1. /\ R!KeepFresh(fresh) /\ UNCHANGED recoveryVars /\ raced \subseteq raced'
      /\ call \in late[w] /\ FinishLate(w, call)
  BY DEF Late, Beside
<1>2. /\ UNCHANGED <<slice, service, published, pc, sliceRead, detached>>
      /\ \A v \in Volumes \ {w} : /\ late'[v] = late[v]
                                  /\ mounted'[v] = mounted[v] /\ exported'[v] = exported[v]
  BY <1>0, <1>1 DEF FinishLate, NodeCallEnds, ExportUpTo, UnexportUpTo, MountOn, ExportOn,
     UnmountOn, UnexportOn, TypeOK, k8sVars, localVars, callerVars
<1>3. ASSUME NEW v \in Volumes \ raced'
      PROVE  Undisturbed(v)'
  <2>1. Undisturbed(v)
    BY <1>1, <1>3 DEF Turns
  <2>2. v # w
    BY <1>1, <2>1 DEF Undisturbed
  <2>3. (\A s \in Recoveries : TaskStays(<<s, v>>)) /\ sent' = sent
    BY <1>1, <1>2, BesideTasks
  <2>4. \A n \in Nodes : RequestStays(<<v, n>>)
    BY <1>2 DEF RequestStays
  <2>5. QED BY <1>2, <2>1, <2>2, <2>3, <2>4, Frame DEF OnlyUnexports, VolumeState
<1>4. QED
  BY <1>0, <1>1, <1>3, BesideRecovery DEF Turns

-----------------------------------------------------------------------------
(* Recoveries beside requests *)

\* A volume that a recovery's step does not concern.
LEMMA AloneFrame ==
    ASSUME UNCHANGED requestVars, NEW v \in Volumes, Undisturbed(v),
           VolumeState(v)' = VolumeState(v),
           \A call \in sent'[v] : call \in sent[v] \/ call.op = "unexport",
           \A r \in Recoveries : TaskStays(<<r, v>>)
    PROVE  Undisturbed(v)'
<1>1. UNCHANGED <<pc, sliceRead, late, detached>>
  BY DEF requestVars, localVars, callerVars
<1>2. \A n \in Nodes : RequestStays(<<v, n>>)
  BY <1>1 DEF RequestStays
<1>3. QED
  BY <1>1, <1>2, Frame DEF OnlyUnexports

\* Only one task is at a volume.
LEMMA OneTask ==
    ASSUME OneRecovery, NEW t \in R!Tasks, R!Active(t), NEW s \in Recoveries, s # t[1]
    PROVE  \A v \in Volumes : step[<<s, v>>] = "none"
<1> SUFFICES ASSUME NEW v \in Volumes, step[<<s, v>>] # "none" PROVE FALSE
  OBVIOUS
<1>1. phase[t[1]] \in {"count", "moving"} /\ phase[s] \in {"count", "moving"}
  BY AtVolume DEF OneRecovery, R!Active
<1>2. R!Running(t[1]) /\ R!Running(s)
  BY <1>1 DEF R!Running
<1>3. QED
  BY <1>2, TaskParts DEF OneRecovery

\* What a step of reassignVolume leaves of other volumes and tasks.
OnlyMoves(t) ==
    /\ \A u \in R!Tasks \ {t} : step'[u] = step[u] /\ selected'[u] = selected[u]
    /\ \A u \in fresh \ {t} : u[2] # t[2] => u \in fresh'
    /\ \A v \in Volumes \ {t[2]} : VolumeState(v)' = VolumeState(v)
    /\ UNCHANGED <<service, sent, phase, failed>>

\* The step of a task keeps the turns if it fits the task's own volume.
LEMMA MoveStep ==
    ASSUME Turns, NEW t \in R!Tasks, R!Active(t), OnlyMoves(t), UNCHANGED requestVars,
           raced \subseteq raced',
           Undisturbed(t[2]) => MoveAt(t)' /\ (R!Active(t) \/ Up(t[2]))'
    PROVE  Turns'
<1>0. t[1] \in Recoveries /\ t[2] \in Volumes /\ t = <<t[1], t[2]>> /\ OneRecovery
  BY TaskParts DEF R!Tasks, Turns
<1>1. OneRecovery'
  <2>1. \A u \in R!Tasks : step'[u] # "none" => step[u] # "none"
    BY DEF OnlyMoves, R!Active
  <2>2. \A r \in Recoveries : R!Running(r)' = R!Running(r)
    BY DEF OnlyMoves, R!Running
  <2>3. QED BY <1>0, <2>1, <2>2 DEF OneRecovery, OnlyMoves
<1>2. ASSUME NEW v \in Volumes \ raced'
      PROVE  Undisturbed(v)'
  <2>0. Undisturbed(v)
    BY <1>2 DEF Turns
  <2>1. CASE v # t[2]
    <3>1. \A r \in Recoveries : TaskStays(<<r, v>>)
      BY <2>1, AtVolume DEF OnlyMoves, TaskStays
    <3>2. QED BY <2>0, <2>1, <3>1, AloneFrame DEF OnlyMoves
  <2>2. CASE v = t[2]
    <3>1. v \in InRecovery
      BY <1>0, <2>2, AtVolume
    <3>2. v \notin InRequest
      BY <2>0, <3>1 DEF Undisturbed
    <3>3. UNCHANGED <<pc, sliceRead, detached, late>>
      BY DEF requestVars, localVars, callerVars
    <3>4. \A n \in Nodes : ~InCS(<<v, n>>)'
      BY <3>2, <3>3, AtVolume DEF InCS
    <3>5. v \notin InRequest' /\ \A n \in Nodes : RequestAt(<<v, n>>)'
      BY <3>4, AtVolume, NobodyAt
    <3>6. \A n \in Nodes : Told(<<v, n>>)'
      BY <2>0, <3>3, AtVolume DEF Undisturbed, Told, OnlyMoves
    <3>7. MoveAt(t)' /\ (R!Active(t) \/ Up(v))'
      BY <2>0, <2>2
    <3>8. ASSUME NEW s \in Recoveries, s # t[1] PROVE MoveAt(<<s, v>>)'
      <4>1. step[<<s, v>>] = "none" /\ <<s, v>> \in R!Tasks /\ <<s, v>> # t
        BY <1>0, <3>8, OneTask, AtVolume
      <4>2. ~R!Active(<<s, v>>)'
        BY <4>1 DEF OnlyMoves, R!Active
      <4>3. QED BY <4>2, NobodyAt
    <3>9. v \notin InRecovery' => ~R!Active(t)'
      BY <1>0, <2>2, AtVolume
    <3>10. \A s \in Recoveries : MoveAt(<<s, v>>)'
      BY <1>0, <2>2, <3>7, <3>8
    <3>11. QED
      BY <2>0, <3>3, <3>5, <3>6, <3>7, <3>9, <3>10 DEF Undisturbed, OnlyMoves
  <2>3. QED BY <2>1, <2>2
<1>3. QED
  BY <1>1, <1>2 DEF Turns

\* A task at a volume that nobody races for, when nothing fails.
LEMMA TaskKnown ==
    ASSUME SharedInv, NEW t \in R!Tasks
    PROVE  /\ TypeOK /\ RecoveryTypes /\ t[1] \in Recoveries /\ t[2] \in Volumes
           /\ R!Vol(t) = t[2] /\ R!Rec(t) = t[1]
           /\ Undisturbed(t[2]) => MoveAt(t)
<1>1. t[1] \in Recoveries /\ t[2] \in Volumes /\ t = <<t[1], t[2]>>
  BY DEF R!Tasks
<1>2. Undisturbed(t[2]) => MoveAt(t)
  BY <1>1 DEF Undisturbed
<1>3. QED
  BY <1>1, <1>2, TaskParts DEF SharedInv, RecoveryKnown

\* reassignVolume takes its lock.
LEMMA LockPVMoves ==
    ASSUME SharedInv, NEW t \in R!Tasks, R!LockPV(t)
    PROVE  /\ R!Active(t) /\ OnlyMoves(t)
           /\ Undisturbed(t[2]) => MoveAt(t)' /\ R!Active(t)'
<1>0. TypeOK /\ RecoveryTypes /\ (Undisturbed(t[2]) => MoveAt(t))
  BY TaskKnown
<1>1. /\ step[t] = "lock" /\ step' = [step EXCEPT ![t] = "find"]
      /\ UNCHANGED <<slice, service, published, mounted, exported, phase, failed, selected,
                     fresh, sent>>
  BY DEF R!LockPV, R!k8sVars, R!hostVars
<1>2. step'[t] = "find" /\ \A u \in R!Tasks \ {t} : step'[u] = step[u]
  BY <1>0, <1>1 DEF RecoveryTypes
<1>3. R!Active(t) /\ R!Active(t)' /\ OnlyMoves(t)
  BY <1>1, <1>2 DEF R!Active, OnlyMoves, VolumeState
<1>4. MoveAt(t) => MoveAt(t)'
  BY <1>1, <1>2, <1>3 DEF MoveAt, Up, Objects, Serves
<1>5. QED
  BY <1>0, <1>3, <1>4

\* findNextAvailableNode finds the Service, and a node.
LEMMA FindMoves ==
    ASSUME SharedInv, NEW t \in R!Tasks, R!FindNextAvailableNode(t), ~R!Fails, met' = {}
    PROVE  /\ R!Active(t) /\ OnlyMoves(t)
           /\ Undisturbed(t[2]) => MoveAt(t)' /\ R!Active(t)'
<1>0. TypeOK /\ RecoveryTypes /\ R!Vol(t) = t[2] /\ (Undisturbed(t[2]) => MoveAt(t))
  BY TaskKnown
<1>1. /\ step[t] = "find" /\ R!Active(t)
      /\ UNCHANGED <<slice, service, published, mounted, exported, phase, failed, fresh, sent>>
  BY DEF R!FindNextAvailableNode, R!k8sVars, R!hostVars, R!Active
<1>2. /\ \A u \in R!Tasks \ {t} : step'[u] = step[u] /\ selected'[u] = selected[u]
      /\ service[t[2]].exists => step'[t] = "unmap" /\ selected'[t] # None
  <2>1. CASE /\ service[t[2]].exists /\ step' = [step EXCEPT ![t] = "unmap"]
             /\ \E n \in R!NextAvailable : /\ selected' = [selected EXCEPT ![t] = n]
                                           /\ R!Note("cornered", n = None)
    <3>1. PICK n \in R!NextAvailable : /\ selected' = [selected EXCEPT ![t] = n]
                                       /\ R!Note("cornered", n = None)
      BY <2>1
    <3>2. n # None
      BY <3>1 DEF R!Note
    <3>3. QED BY <1>0, <2>1, <3>1, <3>2 DEF RecoveryTypes
  <2>2. CASE ~service[t[2]].exists /\ R!Error(t) /\ UNCHANGED selected
    <3>1. PICK label \in {"failed", "lock"} : step' = [step EXCEPT ![t] = label]
      BY <2>2, TaskControl
    <3>2. QED BY <1>0, <2>2, <3>1 DEF RecoveryTypes
  <2>3. QED BY <1>0, <2>1, <2>2 DEF R!FindNextAvailableNode
<1>3. OnlyMoves(t)
  BY <1>1, <1>2 DEF OnlyMoves, VolumeState
<1>4. MoveAt(t) => MoveAt(t)' /\ R!Active(t)'
  BY <1>1, <1>2 DEF MoveAt, R!Active, Up, Objects, Serves
<1>5. QED
  BY <1>0, <1>1, <1>3, <1>4

\* The volume is unmapped from the failed node, the only one it is mapped to.
LEMMA UnmapMoves ==
    ASSUME SharedInv, NEW t \in R!Tasks, R!Unmap(t), ~R!Fails
    PROVE  /\ R!Active(t) /\ OnlyMoves(t)
           /\ Undisturbed(t[2]) => MoveAt(t)' /\ R!Active(t)'
<1>0. /\ TypeOK /\ RecoveryTypes /\ R!Vol(t) = t[2] /\ R!Rec(t) = t[1] /\ t[2] \in Volumes
      /\ Undisturbed(t[2]) => MoveAt(t)
  BY TaskKnown
<1>1. /\ step[t] = "unmap" /\ R!Active(t) /\ step' = [step EXCEPT ![t] = "map"]
      /\ UNCHANGED <<slice, service, mounted, exported, phase, failed, selected, fresh, sent>>
      /\ published' = [published EXCEPT ![t[2]] = @ \ {failed[t[1]]}]
  BY <1>0 DEF R!Unmap, R!UnmapFromHost, R!Goto, R!k8sVars, R!hostVars, R!Active
<1>2. /\ step'[t] = "map" /\ \A u \in R!Tasks \ {t} : step'[u] = step[u]
      /\ published'[t[2]] = published[t[2]] \ {failed[t[1]]}
      /\ \A v \in Volumes \ {t[2]} : published'[v] = published[v]
  BY <1>0, <1>1 DEF RecoveryTypes, TypeOK
<1>3. OnlyMoves(t)
  BY <1>1, <1>2 DEF OnlyMoves, VolumeState
<1>4. MoveAt(t) => MoveAt(t)' /\ R!Active(t)'
  BY <1>1, <1>2 DEF MoveAt, R!Active, Up, Objects, Serves
<1>5. QED
  BY <1>0, <1>1, <1>3, <1>4

\* The volume is mapped to the selected node alone.
LEMMA MapMoves ==
    ASSUME SharedInv, NEW t \in R!Tasks, R!Map(t), ~R!Fails
    PROVE  /\ R!Active(t) /\ OnlyMoves(t)
           /\ Undisturbed(t[2]) => MoveAt(t)' /\ R!Active(t)'
<1>0. /\ TypeOK /\ RecoveryTypes /\ R!Vol(t) = t[2] /\ t[2] \in Volumes
      /\ Undisturbed(t[2]) => MoveAt(t)
  BY TaskKnown
<1>1. /\ step[t] = "map" /\ R!Active(t)
      /\ UNCHANGED <<slice, service, mounted, exported, phase, failed, selected, fresh, sent>>
  BY DEF R!Map, R!k8sVars, R!hostVars, R!Active
<1>2. /\ \A u \in R!Tasks \ {t} : step'[u] = step[u]
      /\ \A v \in Volumes \ {t[2]} : published'[v] = published[v]
      /\ selected[t] # None =>
             /\ step'[t] = "export" /\ published'[t[2]] = published[t[2]] \cup {selected[t]}
  <2>1. CASE selected[t] # None /\ R!Goto(t, "export") /\ R!MapToHost(t[2], selected[t])
    BY <1>0, <2>1 DEF R!Goto, R!MapToHost, RecoveryTypes, TypeOK
  <2>2. CASE selected[t] = None /\ R!Error(t) /\ UNCHANGED published
    <3>1. PICK label \in {"failed", "lock"} : step' = [step EXCEPT ![t] = label]
      BY <2>2, TaskControl
    <3>2. QED BY <1>0, <2>2, <3>1 DEF RecoveryTypes
  <2>3. QED BY <1>0, <2>1, <2>2 DEF R!Map
<1>3. OnlyMoves(t)
  BY <1>1, <1>2 DEF OnlyMoves, VolumeState
<1>4. MoveAt(t) => MoveAt(t)' /\ R!Active(t)'
  BY <1>1, <1>2 DEF MoveAt, R!Active, Objects
<1>5. QED
  BY <1>0, <1>1, <1>3, <1>4

\* The selected node mounts and exports it.
LEMMA ExportMoves ==
    ASSUME SharedInv, NEW t \in R!Tasks, R!Export(t), ~R!Fails
    PROVE  /\ R!Active(t) /\ OnlyMoves(t)
           /\ Undisturbed(t[2]) => MoveAt(t)' /\ R!Active(t)'
<1>0. /\ TypeOK /\ RecoveryTypes /\ R!Vol(t) = t[2] /\ t[2] \in Volumes
      /\ Undisturbed(t[2]) => MoveAt(t)
  BY TaskKnown
<1>1. /\ step[t] = "export" /\ R!Active(t) /\ step' = [step EXCEPT ![t] = "update"]
      /\ UNCHANGED <<slice, service, published, phase, failed, selected, fresh, sent>>
      /\ R!MountOn(t[2], selected[t]) /\ R!ExportOn(t[2], selected[t])
  BY <1>0 DEF R!Export, R!Goto, R!k8sVars, R!Active
<1>2. /\ step'[t] = "update" /\ \A u \in R!Tasks \ {t} : step'[u] = step[u]
      /\ selected[t] \in mounted'[t[2]] \cap exported'[t[2]]
      /\ \A v \in Volumes \ {t[2]} : mounted'[v] = mounted[v] /\ exported'[v] = exported[v]
  BY <1>0, <1>1 DEF R!MountOn, R!ExportOn, RecoveryTypes, TypeOK
<1>3. OnlyMoves(t)
  BY <1>1, <1>2 DEF OnlyMoves, VolumeState
<1>4. MoveAt(t) => MoveAt(t)' /\ R!Active(t)'
  BY <1>1, <1>2 DEF MoveAt, R!Active, Objects, Serves
<1>5. QED
  BY <1>0, <1>1, <1>3, <1>4

\* The listed copy is the stored slice, so it is moved to where the volume is.
LEMMA UpdateMoves ==
    ASSUME SharedInv, NEW t \in R!Tasks, R!UpdateEndpointSlice(t), ~R!Fails
    PROVE  /\ R!Active(t) /\ OnlyMoves(t)
           /\ Undisturbed(t[2]) => MoveAt(t)' /\ Up(t[2])'
<1>0. /\ TypeOK /\ RecoveryTypes /\ R!Vol(t) = t[2] /\ t[2] \in Volumes
      /\ Undisturbed(t[2]) => MoveAt(t)
  BY TaskKnown
<1>1. /\ step[t] = "update" /\ R!Active(t) /\ step' = [step EXCEPT ![t] = "done"]
      /\ UNCHANGED <<service, published, mounted, exported, phase, failed, selected, sent>>
      /\ t \in fresh => slice' = [slice EXCEPT ![t[2]] = selected[t]]
      /\ t \notin fresh => slice' = slice
  BY <1>0, TaskControl DEF R!UpdateEndpointSlice, R!PutSlice, R!hostVars, R!Active
<1>2. /\ step'[t] = "done" /\ \A u \in R!Tasks \ {t} : step'[u] = step[u]
      /\ \A v \in Volumes \ {t[2]} : slice'[v] = slice[v]
      /\ t \in fresh => slice'[t[2]] = selected[t]
  BY <1>0, <1>1 DEF RecoveryTypes, TypeOK
<1>3. \A u \in fresh \ {t} : u[2] # t[2] => u \in fresh'
  <2>1. fresh' = {u \in fresh \ {t} : slice'[R!Vol(u)] = slice[R!Vol(u)]}
    BY DEF R!UpdateEndpointSlice, R!KeepFresh
  <2>2. \A u \in fresh : u[2] \in Volumes /\ R!Vol(u) = u[2]
    BY <1>0, TaskParts DEF RecoveryTypes
  <2>3. QED BY <1>2, <2>1, <2>2
<1>4. OnlyMoves(t)
  BY <1>1, <1>2, <1>3 DEF OnlyMoves, VolumeState
<1>5. MoveAt(t) => Up(t[2])'
  BY <1>1, <1>2 DEF MoveAt, Up, R!Active, Objects, Serves
<1>6. MoveAt(t)'
  BY <1>2, NobodyAt DEF R!Active
<1>7. QED
  BY <1>0, <1>1, <1>4, <1>5, <1>6

\* The step of a task.
LEMMA ReassignSettles ==
    ASSUME SharedInv, Turns, NEW t \in R!Tasks, Reassign(t), faults' = 0, met' = {}
    PROVE  Turns'
<1>1. R!Reassign(t) /\ UNCHANGED requestVars /\ raced \subseteq raced'
  BY DEF Reassign, Alone
<1>2. ~R!Fails
  BY DEF R!Fails, SharedInv, TypeOK
<1>3. /\ R!Active(t) /\ OnlyMoves(t)
      /\ Undisturbed(t[2]) => MoveAt(t)' /\ (R!Active(t)' \/ Up(t[2])')
  BY <1>1, <1>2, LockPVMoves, FindMoves, UnmapMoves, MapMoves, ExportMoves, UpdateMoves
     DEF R!Reassign
<1>4. QED
  BY <1>1, <1>3, MoveStep

\* A recovery lists slices of volumes that are up, and that nobody is moving.
LEMMA ListSlicesSettles ==
    ASSUME SharedInv, Turns, NEW r \in Recoveries, Alone(R!ListSlices(r)), ~R!Fails
    PROVE  Turns'
<1>0. /\ OneRecovery /\ phase[r] = "list" /\ failed[r] # None /\ R!Running(r)
      /\ phase \in [Recoveries -> R!Phases] /\ step \in [R!Tasks -> R!Steps]
  BY DEF SharedInv, RecoveryKnown, RecoveryTypes, Turns, Alone, R!ListSlices, R!Running
<1>1. /\ UNCHANGED <<slice, service, published, mounted, exported, failed, selected, sent>>
      /\ step' = [t \in R!Tasks |-> IF t \in R!GetEndpointSlices(r) THEN "lock" ELSE step[t]]
      /\ fresh' = fresh \cup R!GetEndpointSlices(r)
      /\ phase' = [phase EXCEPT ![r] = "count"]
      /\ UNCHANGED requestVars
      /\ raced' = raced \cup {v \in InRequest : v \in InRecovery'}
  BY DEF Alone, R!ListSlices, R!k8sVars, R!hostVars
<1>2. /\ phase'[r] = "count" /\ \A s \in Recoveries \ {r} : phase'[s] = phase[s]
      /\ \A s \in Recoveries : R!Running(s)' = R!Running(s)
  BY <1>0, <1>1 DEF R!Running
<1>3. \A t \in R!Tasks : step[t] = "none"
  BY <1>0, TaskParts DEF OneRecovery, R!Running
<1>4. \A s \in Recoveries, v \in Volumes :
          step'[<<s, v>>] = IF s = r /\ slice[v] = failed[r] THEN "lock" ELSE "none"
  <2>1. \A s \in Recoveries, v \in Volumes :
            <<s, v>> \in R!GetEndpointSlices(r) <=> s = r /\ slice[v] = failed[r]
    BY DEF R!GetEndpointSlices
  <2>2. QED BY <1>1, <1>3, <2>1, AtVolume
<1>5. OneRecovery'
  <2>1. \A t \in R!Tasks : step'[t] # "none" => t[1] = r
    BY <1>4 DEF R!Tasks
  <2>2. QED BY <1>0, <1>2, <2>1 DEF OneRecovery
<1>6. ASSUME NEW v \in Volumes \ raced'
      PROVE  Undisturbed(v)'
  <2>0. Undisturbed(v)
    BY <1>1, <1>6 DEF Turns
  <2>1. CASE slice[v] # failed[r]
    <3>1. \A s \in Recoveries : TaskStays(<<s, v>>)
      BY <1>3, <1>4, <2>1, AtVolume DEF TaskStays, R!Active
    <3>2. QED BY <1>1, <2>0, <3>1, AloneFrame DEF VolumeState
  <2>2. CASE slice[v] = failed[r]
    <3>1. R!Active(<<r, v>>)' /\ v \in InRecovery'
      BY <1>4, <2>2, AtVolume DEF R!Active
    <3>2. v \notin InRequest /\ v \notin InRecovery
      BY <1>1, <1>3, <1>6, <3>1, AtVolume DEF R!Active
    <3>3. Up(v)
      BY <1>0, <2>0, <2>2, <3>2 DEF Undisturbed, Down, NoObjects
    <3>4. Up(v)'
      BY <1>1, <3>3 DEF Up, Objects, Serves
    <3>5. UNCHANGED <<pc, sliceRead, detached, late>>
      BY <1>1 DEF requestVars, localVars, callerVars
    <3>6. \A n \in Nodes : ~InCS(<<v, n>>)'
      BY <3>2, <3>5, AtVolume DEF InCS
    <3>7. v \notin InRequest' /\ \A n \in Nodes : RequestAt(<<v, n>>)'
      BY <3>6, AtVolume, NobodyAt
    <3>8. \A n \in Nodes : Told(<<v, n>>)'
      BY <1>1, <2>0, <3>5 DEF Undisturbed, Told
    <3>9. MoveAt(<<r, v>>)'
      <4>1. <<r, v>> \in fresh' /\ step'[<<r, v>>] = "lock" /\ <<r, v>>[1] = r /\ <<r, v>>[2] = v
        BY <1>1, <1>4, <2>2 DEF R!GetEndpointSlices
      <4>2. QED BY <1>1, <2>2, <3>4, <4>1 DEF MoveAt
    <3>10. \A s \in Recoveries : MoveAt(<<s, v>>)'
      <4>1. \A s \in Recoveries : s # r => ~R!Active(<<s, v>>)'
        BY <1>4 DEF R!Active
      <4>2. QED BY <3>9, <4>1, NobodyAt
    <3>11. QED
      BY <1>1, <2>0, <3>1, <3>5, <3>7, <3>8, <3>10 DEF Undisturbed
  <2>3. QED BY <2>1, <2>2
<1>7. QED
  BY <1>5, <1>6 DEF Turns

\* A step of a recovery, or of the pinger, that moves nothing.
LEMMA QuietSettles ==
    ASSUME Turns, UNCHANGED requestVars, raced \subseteq raced', OneRecovery',
           UNCHANGED <<slice, service, published, mounted, exported>>,
           \A v \in Volumes : \A call \in sent'[v] : call \in sent[v] \/ call.op = "unexport",
           \A t \in R!Tasks : TaskStays(t)
    PROVE  Turns'
BY AloneFrame, AtVolume DEF Turns, VolumeState

\* The pinger starts a recovery, the only one.
LEMMA StartRecoverySettles ==
    ASSUME SharedInv, Turns, NEW r \in Recoveries, NEW n \in Nodes,
           Alone(R!StartRecovery(r, n)), met' = {}
    PROVE  Turns'
<1>0. OneRecovery /\ RecoveryTypes /\ phase[r] = "idle"
  BY DEF SharedInv, RecoveryKnown, Turns, Alone, R!StartRecovery
<1>1. /\ phase' = [phase EXCEPT ![r] = "list"] /\ failed' = [failed EXCEPT ![r] = n]
      /\ UNCHANGED <<slice, service, published, mounted, exported, step, selected, fresh, sent>>
      /\ R!Note("overlap", \E s \in Recoveries : R!Running(s))
      /\ UNCHANGED requestVars /\ raced \subseteq raced'
  BY DEF Alone, R!StartRecovery, R!k8sVars, R!hostVars, R!taskVars
<1>2. \A s \in Recoveries : ~R!Running(s)
  BY <1>1 DEF R!Note
<1>3. \A s \in Recoveries \ {r} : phase'[s] = phase[s] /\ failed'[s] = failed[s]
  BY <1>0, <1>1 DEF RecoveryTypes
<1>4. \A t \in R!Tasks : step[t] = "none"
  BY <1>0, <1>2, TaskParts DEF OneRecovery, R!Running
<1>5. OneRecovery'
  BY <1>1, <1>2, <1>3, <1>4 DEF OneRecovery, R!Running
<1>6. \A t \in R!Tasks : TaskStays(t)
  BY <1>1, <1>4 DEF TaskStays, R!Active
<1>7. QED
  BY <1>1, <1>5, <1>6, QuietSettles

\* The counts are of no consequence here.
LEMMA CountExportsSettles ==
    ASSUME SharedInv, Turns, NEW r \in Recoveries, Alone(R!CountExports(r))
    PROVE  Turns'
<1>0. OneRecovery /\ RecoveryTypes /\ phase[r] = "count"
  BY DEF SharedInv, RecoveryKnown, Turns, Alone, R!CountExports
<1>1. /\ phase' = [phase EXCEPT ![r] = "moving"]
      /\ UNCHANGED <<slice, service, published, mounted, exported, failed, step, selected,
                     fresh, sent>>
      /\ UNCHANGED requestVars /\ raced \subseteq raced'
  BY DEF Alone, R!CountExports, R!k8sVars, R!hostVars, R!taskVars
<1>2. phase'[r] = "moving" /\ \A s \in Recoveries \ {r} : phase'[s] = phase[s]
  BY <1>0, <1>1 DEF RecoveryTypes
<1>3. OneRecovery'
  BY <1>0, <1>1, <1>2, TaskParts DEF OneRecovery, R!Running
<1>4. \A t \in R!Tasks : TaskStays(t)
  BY <1>1 DEF TaskStays
<1>5. QED
  BY <1>1, <1>3, <1>4, QuietSettles

\* A recovery ends when its tasks have.
LEMMA EndRecoverySettles ==
    ASSUME SharedInv, Turns, NEW r \in Recoveries, Alone(R!EndRecovery(r))
    PROVE  Turns'
<1>0. OneRecovery /\ RecoveryTypes /\ \A v \in Volumes : ~R!Active(<<r, v>>)
  BY DEF SharedInv, RecoveryKnown, Turns, Alone, R!EndRecovery
<1>1. /\ phase' = [phase EXCEPT ![r] = "over"]
      /\ step' = [t \in R!Tasks |-> IF R!Rec(t) = r THEN "none" ELSE step[t]]
      /\ selected' = [t \in R!Tasks |-> IF R!Rec(t) = r THEN None ELSE selected[t]]
      /\ fresh' = {t \in fresh : R!Rec(t) # r}
      /\ UNCHANGED <<slice, service, published, mounted, exported, failed, sent>>
      /\ UNCHANGED requestVars /\ raced \subseteq raced'
  BY DEF Alone, R!EndRecovery, R!k8sVars, R!hostVars
<1>2. phase'[r] = "over" /\ \A s \in Recoveries \ {r} : phase'[s] = phase[s]
  BY <1>0, <1>1 DEF RecoveryTypes
<1>3. \A t \in R!Tasks : t[1] = r => step'[t] = "none" /\ ~R!Active(t)
  BY <1>0, <1>1, TaskParts DEF R!Tasks
<1>4. \A t \in R!Tasks : t[1] # r => /\ step'[t] = step[t] /\ selected'[t] = selected[t]
                                     /\ t \in fresh => t \in fresh'
  BY <1>1, TaskParts
<1>5. OneRecovery'
  BY <1>0, <1>2, <1>3, <1>4, TaskParts DEF OneRecovery, R!Running
<1>6. \A t \in R!Tasks : TaskStays(t)
  BY <1>1, <1>3, <1>4 DEF TaskStays, R!Active
<1>7. QED
  BY <1>1, <1>5, <1>6, QuietSettles

\* An unexport is sent; it is not done yet.
LEMMA SendUnexportSettles ==
    ASSUME SharedInv, Turns, NEW t \in R!Tasks, Alone(R!SendUnexport(t))
    PROVE  Turns'
<1>0. OneRecovery /\ RecoveryTypes /\ R!Vol(t) \in Volumes
  BY TaskParts DEF SharedInv, RecoveryKnown, Turns
<1>1. /\ UNCHANGED <<slice, service, published, mounted, exported, phase, failed, step,
                     selected, fresh>>
      /\ UNCHANGED requestVars /\ raced \subseteq raced'
  BY DEF Alone, R!SendUnexport, R!k8sVars, R!hostVars
<1>2. \/ UNCHANGED sent
      \/ \E n : sent' = [sent EXCEPT ![R!Vol(t)] = @ \cup {R!UnexportCall(n)}]
  BY DEF Alone, R!SendUnexport
<1>3. \A v \in Volumes : \A call \in sent'[v] : call \in sent[v] \/ call.op = "unexport"
  <2>1. \A n : R!UnexportCall(n).op = "unexport"
    BY DEF R!UnexportCall
  <2>2. QED BY <1>0, <1>2, <2>1 DEF RecoveryTypes
<1>4. OneRecovery'
  BY <1>0, <1>1 DEF OneRecovery, R!Running
<1>5. \A u \in R!Tasks : TaskStays(u)
  BY <1>1 DEF TaskStays
<1>6. QED
  BY <1>1, <1>3, <1>4, <1>5, QuietSettles

\* A step on the nodes that reaches no node a volume is, or is to be, served by.
LEMMA HostsSettle ==
    ASSUME Turns, UNCHANGED requestVars, raced \subseteq raced',
           UNCHANGED <<slice, service, published, phase, failed, step, selected, fresh>>,
           \A v \in Volumes : sent'[v] \subseteq sent[v],
           \A v \in Volumes \ raced' :
               \/ mounted'[v] = mounted[v] /\ exported'[v] = exported[v]
               \/ /\ v \notin InRequest
                  /\ Undisturbed(v) => \A m \in R!Serving(v) :
                         m \in mounted[v] \cap exported[v] => m \in mounted'[v] \cap exported'[v]
    PROVE  Turns'
<1>1. OneRecovery'
  BY DEF Turns, OneRecovery, R!Running
<1>2. ASSUME NEW v \in Volumes \ raced'
      PROVE  Undisturbed(v)'
  <2>0. Undisturbed(v) /\ sent'[v] \subseteq sent[v]
    BY <1>2 DEF Turns
  <2>1. CASE mounted'[v] = mounted[v] /\ exported'[v] = exported[v]
    <3>1. \A r \in Recoveries : TaskStays(<<r, v>>)
      BY DEF TaskStays
    <3>2. QED BY <2>0, <2>1, <3>1, AloneFrame DEF VolumeState
  <2>2. CASE /\ v \notin InRequest
             /\ \A m \in R!Serving(v) :
                    m \in mounted[v] \cap exported[v] => m \in mounted'[v] \cap exported'[v]
    <3>1. UNCHANGED <<pc, sliceRead, detached, late>>
      BY DEF requestVars, localVars, callerVars
    <3>2. OnlyUnexports(v)
      BY <2>0, <3>1 DEF OnlyUnexports
    <3>3. QED BY <2>0, <2>2, <3>1, <3>2, HostsFrame
  <2>3. QED BY <1>2, <2>0, <2>1, <2>2
<1>3. QED
  BY <1>1, <1>2 DEF Turns

\* A dump that reaches no server, and no handler's volume.
LEMMA AnswerSettles ==
    ASSUME SharedInv, Turns, NEW n \in Nodes, Answer(n), ~R!Fails, met' = {}
    PROVE  Turns'
<1>0. TypeOK
  BY DEF SharedInv
<1>1. /\ UNCHANGED <<slice, service, published, phase, failed, step, selected, fresh, sent>>
      /\ exported' = R!Without(exported, n, R!Dumped(n))
      /\ mounted' = R!Without(mounted, n, R!Dumped(n))
      /\ R!Note("undone", \E v \in R!Dumped(n) : n \in R!Serving(v))
      /\ UNCHANGED requestVars /\ raced' = raced \cup InRequest
  BY DEF Answer, R!GoodPing, R!k8sVars, R!taskVars
<1>2. \A v \in R!Dumped(n) : n \notin R!Serving(v)
  BY <1>1 DEF R!Note
<1>3. \A v \in Volumes : \A m \in R!Serving(v) :
          m \in mounted[v] \cap exported[v] => m \in mounted'[v] \cap exported'[v]
  BY <1>0, <1>1, <1>2 DEF R!Without, TypeOK
<1>4. QED
  BY <1>1, <1>3, HostsSettle

\* An unexport that reaches no server, and no handler's volume.
LEMMA FinishSentSettles ==
    ASSUME SharedInv, Turns, NEW w \in Volumes, NEW call \in sent[w], R!FinishSent(w, call),
           raced' = raced \cup {v \in InRequest : v = w}, UNCHANGED requestVars, met' = {}
    PROVE  Turns'
<1>0. TypeOK /\ RecoveryTypes
  BY DEF SharedInv, RecoveryKnown
<1>1. /\ UNCHANGED <<slice, service, published, phase, failed, step, selected, fresh>>
      /\ sent' = [sent EXCEPT ![w] = @ \ {call}]
      /\ R!NodeCallEnds(w, call)
      /\ R!Note("undone", call.op = "unexport" /\ call.node \in R!Serving(w))
  BY DEF R!FinishSent, R!k8sVars, R!taskVars
<1>2. \A v \in Volumes : sent'[v] \subseteq sent[v]
  BY <1>0, <1>1 DEF RecoveryTypes
<1>3. \A v \in Volumes \ {w} : mounted'[v] = mounted[v] /\ exported'[v] = exported[v]
  BY <1>0, <1>1 DEF R!NodeCallEnds, R!ExportUpTo, R!UnexportUpTo, R!MountOn, R!ExportOn,
     R!UnmountOn, R!UnexportOn, TypeOK
<1>4. ASSUME w \notin raced', Undisturbed(w)
      PROVE  \A m \in R!Serving(w) :
                 m \in mounted[w] \cap exported[w] => m \in mounted'[w] \cap exported'[w]
  <2>1. call.op = "unexport"
    BY <1>4 DEF Undisturbed
  <2>2. call.node \notin R!Serving(w)
    BY <1>1, <2>1 DEF R!Note
  <2>3. R!UnexportUpTo(w, call.node)
    BY <1>1, <2>1 DEF R!NodeCallEnds
  <2>4. QED BY <1>0, <2>2, <2>3 DEF R!UnexportUpTo, R!UnmountOn, R!UnexportOn, TypeOK
<1>5. QED
  BY <1>1, <1>2, <1>3, <1>4, HostsSettle

-----------------------------------------------------------------------------
(* All steps *)

\* Failures and mishaps are never forgotten.
LEMMA NothingForgotten ==
    ASSUME TypeOK, [SharedNext]_sharedVars, faults' = 0, met' = {}
    PROVE  faults = 0 /\ met = {}
<1>0. faults \in Nat /\ ~Fails /\ ~R!Fails
  BY DEF TypeOK, Fails, R!Fails
<1>1. ASSUME NEW r \in Requests, Request(r) \/ Arrive(r) PROVE faults' = faults /\ met' = met
  <2>1. /\ met' = met
        /\ \/ Publish(r) \/ Unpublish(r)
           \/ CallPublish(r) \/ CallUnpublish(r) \/ LockPV(r)
    BY <1>1 DEF Request, Arrive, Beside, recoveryVars
  <2>2. faults' = faults
    BY <1>0, <2>1 DEF CallPublish, CallUnpublish, LockPV, Publish, Unpublish, GetNode, PubGetSlice,
       PubGetService, AddNodeToNfsService, CheckNodeStatus, ArrayPublish, CallExport,
       CreateEndpointSlice, CreateService, UnpubGetSlice, UnpubGetService,
       RemoveNodeFromNfsService, CallUnexport, DeleteEndpointSlice, DeleteService,
       ArrayUnpublish, Works
  <2>3. QED BY <2>1, <2>2
<1>2. ASSUME NEW v \in Volumes, NEW call \in NodeCalls, Late(v, call)
      PROVE  faults' = faults /\ met' = met
  BY <1>2 DEF Late, Beside, FinishLate, recoveryVars
<1>3. ASSUME NEW t \in R!Tasks, Reassign(t) PROVE faults' = faults /\ met \subseteq met'
  BY <1>0, <1>3 DEF Reassign, Alone, R!Reassign, R!LockPV, R!FindNextAvailableNode, R!Unmap, R!Map,
     R!Export, R!UpdateEndpointSlice, R!Works, R!Note, R!NoteOutdated
<1>4. ASSUME NEW r \in Recoveries, Recover(r) PROVE faults' = faults /\ met \subseteq met'
  BY <1>0, <1>4 DEF Recover, Alone, R!Recovery, R!ListSlices, R!CountExports, R!EndRecovery,
     R!Works, R!Note
<1>5. ASSUME NEW n \in Nodes, Answer(n) PROVE faults' = faults /\ met \subseteq met'
  BY <1>0, <1>5 DEF Answer, R!GoodPing, R!Works, R!Note
<1>6. ASSUME RecoveryBegins \/ Unexports \/ SentEnds PROVE faults' = faults /\ met \subseteq met'
  BY <1>6 DEF RecoveryBegins, Unexports, SentEnds, Alone, R!StartRecovery, R!SendUnexport,
     R!FinishSent, R!Note
<1>7. ~SharedCrash
  BY <1>0 DEF SharedCrash, R!Restart
<1>8. CASE UNCHANGED sharedVars
  BY <1>8 DEF sharedVars, vars, recoveryVars
<1>9. QED
  BY <1>1, <1>2, <1>3, <1>4, <1>5, <1>6, <1>7, <1>8 DEF SharedNext

\* Requests and recoveries keep their turns.
LEMMA SettledStep ==
    ASSUME SharedInv, SettledInv, [SharedNext]_sharedVars
    PROVE  SettledInv'
<1> SUFFICES ASSUME faults' = 0, met' = {} PROVE Turns'
  BY DEF SettledInv
<1>0. TypeOK /\ faults = 0 /\ met = {} /\ Turns
  BY NothingForgotten DEF SharedInv, SettledInv
<1>1. ~Fails /\ ~R!Fails /\ Works
  BY <1>0 DEF Fails, R!Fails, Works
<1>2. ASSUME NEW r \in Requests, Request(r) \/ Arrive(r) PROVE Turns'
  BY <1>0, <1>1, <1>2, RequestSettles, ArriveSettles
<1>3. ASSUME NEW v \in Volumes, NEW call \in NodeCalls, Late(v, call) PROVE Turns'
  BY <1>0, <1>3, LateSettles
<1>4. ASSUME NEW t \in R!Tasks, Reassign(t) PROVE Turns'
  BY <1>0, <1>4, ReassignSettles
<1>5. ASSUME NEW r \in Recoveries, Recover(r) PROVE Turns'
  <2>1. \/ Alone(R!ListSlices(r)) \/ Alone(R!CountExports(r)) \/ Alone(R!EndRecovery(r))
    BY <1>5 DEF Recover, Alone, R!Recovery
  <2>2. QED BY <1>0, <1>1, <2>1, ListSlicesSettles, CountExportsSettles, EndRecoverySettles
<1>6. ASSUME NEW n \in Nodes, Answer(n) PROVE Turns'
  BY <1>0, <1>1, <1>6, AnswerSettles
<1>7. CASE RecoveryBegins
  BY <1>0, <1>7, StartRecoverySettles DEF RecoveryBegins
<1>8. CASE Unexports
  BY <1>0, <1>8, SendUnexportSettles DEF Unexports
<1>9. CASE SentEnds
  BY <1>0, <1>9, FinishSentSettles DEF SentEnds
<1>10. CASE SharedCrash
  BY <1>1, <1>10 DEF SharedCrash, R!Restart
<1>11. CASE UNCHANGED sharedVars
  <2>1. /\ UNCHANGED <<slice, service, published, mounted, exported, phase, failed, step, selected,
                       fresh, sent, raced>>
        /\ UNCHANGED requestVars
    BY <1>11 DEF sharedVars, vars, recoveryVars, requestVars, k8sVars, nodeVars
  <2>2. QED BY <1>0, <2>1, HostsSettle
<1>12. QED
  BY <1>2, <1>3, <1>4, <1>5, <1>6, <1>7, <1>8, <1>9, <1>10, <1>11 DEF SharedNext

\* On a fresh cluster every volume is down and nobody is at it.
LEMMA SettledInitially == SharedInit => SettledInv
<1> SUFFICES ASSUME SharedInit PROVE Turns
  BY DEF SettledInv
<1>1. /\ \A r \in Requests : pc[r] = "idle" /\ service[Vol(r)].clients = {}
      /\ \A t \in R!Tasks : step[t] = "none"
      /\ \A r \in Recoveries : phase[r] = "idle"
      /\ \A v \in Volumes : Down(v) /\ late[v] = {} /\ sent[v] = {}
  BY RequestParts DEF SharedInit, Init, R!InitRecovery, NoService, Down, NoObjects
<1>2. OneRecovery
  BY <1>1 DEF OneRecovery, R!Running
<1>3. ASSUME NEW v \in Volumes PROVE Undisturbed(v)
  <2>1. \A n \in Nodes : ~InCS(<<v, n>>) /\ RequestAt(<<v, n>>) /\ Told(<<v, n>>)
    BY <1>1, AtVolume, NobodyAt DEF InCS, Told, PublishLabels, UnpublishLabels
  <2>2. \A r \in Recoveries : MoveAt(<<r, v>>)
    BY <1>1, AtVolume, NobodyAt DEF R!Active
  <2>3. v \notin InRequest
    BY <2>1, AtVolume
  <2>4. QED BY <1>1, <2>1, <2>2, <2>3 DEF Undisturbed
<1>4. QED
  BY <1>2, <1>3 DEF Turns

\* Requests and recoveries share no lock; yet, while nothing fails and no mishap
\* happens, a volume where they did not overlap is as far built, taken down or
\* moved as the one that is at it has come, and served or gone between two.
THEOREM RequestsAndMovesTakeTurns == SharedSpec => []SettledInv
<1>1. SharedInit => SharedInv /\ SettledInv
  BY SharedInitInv, SettledInitially
<1>2. SharedInv /\ SettledInv /\ [SharedNext]_sharedVars => SharedInv' /\ SettledInv'
  BY SharedStep, SettledStep
<1>3. QED
  BY <1>1, <1>2, PTL DEF SharedSpec

\* A volume nobody is at is up or down.
LEMMA SettledUpOrDown ==
    ASSUME SettledInv, NEW v \in Volumes, Settled(v)
    PROVE  Undisturbed(v) /\ (Up(v) \/ Down(v))
<1>1. Undisturbed(v)
  BY DEF SettledInv, Turns, Settled
<1>2. v \notin InRequest
  BY AtVolume DEF Settled, Quiet, InCS, PublishLabels, UnpublishLabels
<1>3. QED
  BY <1>1, <1>2 DEF Settled, Undisturbed

\* When the last client leaves a volume, ControllerUnpublishVolume takes down
\* the server reassignVolume moved it to, not the one publish made: the slice,
\* the Service and the array mapping are gone, after any number of moves.
THEOREM MovedVolumesLeaveNothing == SharedSpec => []CleanAfterMove
<1>1. ASSUME TypeOK, SettledInv PROVE CleanAfterMove
  <2> SUFFICES ASSUME NEW v \in Volumes, Settled(v), \A n \in Nodes : <<v, n>> \in detached
               PROVE  Down(v)
    BY DEF CleanAfterMove, Down, NoObjects
  <2>1. Undisturbed(v) /\ (Up(v) \/ Down(v))
    BY <1>1, SettledUpOrDown
  <2>2. ASSUME NEW n \in Nodes PROVE n \notin service[v].clients
    <3>1. Told(<<v, n>>) /\ Vol(<<v, n>>) = v /\ Node(<<v, n>>) = n
      BY <2>1, AtVolume DEF Undisturbed
    <3>2. QED BY <3>1 DEF Told
  <2>3. service[v].clients \subseteq Nodes
    BY <1>1 DEF TypeOK
  <2>4. QED BY <2>1, <2>2, <2>3 DEF Up, Objects
<1>2. SharedInit => SharedInv
  BY SharedInitInv
<1>3. SharedInv /\ [SharedNext]_sharedVars => SharedInv'
  BY SharedStep
<1>4. SharedInv => TypeOK
  BY DEF SharedInv
<1>5. QED
  BY <1>1, <1>2, <1>3, <1>4, RequestsAndMovesTakeTurns, PTL DEF SharedSpec

\* An attached client is served by the node the slice names, the only one the
\* array maps the volume to, after any number of moves of the volume between
\* the requests of its clients.
THEOREM MovedClientsAreServed == SharedSpec => []AttachedStaysServed
<1>1. ASSUME SharedInv, SettledInv PROVE AttachedStaysServed
  <2> SUFFICES ASSUME NEW r \in attached, Settled(Vol(r)) PROVE Up(Vol(r))
    BY DEF AttachedStaysServed, Up, Serves
  <2>1. Vol(r) \in Volumes /\ slice[Vol(r)] # None
    BY <1>1, RequestParts DEF SharedInv, ClientInv, AttachedHasServer, TypeOK
  <2>2. Up(Vol(r)) \/ Down(Vol(r))
    BY <1>1, <2>1, SettledUpOrDown
  <2>3. QED BY <2>1, <2>2 DEF Down, NoObjects
<1>2. SharedInit => SharedInv
  BY SharedInitInv
<1>3. SharedInv /\ [SharedNext]_sharedVars => SharedInv'
  BY SharedStep
<1>4. QED
  BY <1>1, <1>2, <1>3, RequestsAndMovesTakeTurns, PTL DEF SharedSpec
=============================================================================
