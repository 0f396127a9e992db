----------------------------- MODULE NfsServer ------------------------------
(***************************************************************************)
(* The node half of csm-sharednfs: the gRPC handlers ExportNfsVolume,      *)
(* UnexportNfsVolume and Ping of nfs/nfs_service.go over /etc/exports and  *)
(* the kernel's export table (nfs/exports.go), on one node.                *)
(*                                                                         *)
(* AddExport, DeleteExport and ResyncNFSMountd hold exportsLock from start *)
(* to end, so each is one step.  What they return is a local variable of   *)
(* UnexportNfsVolume, but ExportNfsVolume and Ping assign it to the        *)
(* package variable generation, and read that back, outside the lock: the  *)
(* assignment and the read are steps of their own.                         *)
(***************************************************************************)
EXTENDS Naturals, FiniteSets

CONSTANTS
    Volumes,    \* volumes, standing for their export directories too
    Handlers,   \* gRPC handler goroutines
    Ops,        \* calls the node receives, a subset of AllOps
    Forms,      \* forms of volume ID in unexport calls, a subset of AllForms
    MaxCalls,   \* bound on calls received
    MaxFaults   \* bound on failures, timeouts and container restarts

AllOps == {"export", "unexport", "ping"}
AllForms == {"nfs", "array"}

ASSUME OpsAssumption == Ops \subseteq AllOps /\ Forms \subseteq AllForms
ASSUME BoundsAssumption == MaxCalls \in Nat /\ MaxFaults \in Nat

VARIABLES
    exports,    \* volumes with an entry in /etc/exports
    kernel,     \* volumes the kernel exports: /etc/exports at the last exportfs -r
    mounted,    \* volumes whose array device is mounted under NfsExportDirectory
    generation, \* number of the last change to /etc/exports
    syncedGeneration, \* generation of the last exportfs -r
    nfsPVLock,  \* keys held: <<volume, form of the ID in the request>>
    pc,         \* [Handlers -> Labels]
    vol,        \* [Handlers -> Volumes]: the volume the handler works on
    form,       \* [Handlers -> AllForms]: form of the ID in its request
    ret,        \* [Handlers -> Nat]: the generation it was returned, or read
    tries,      \* [Handlers -> 0..3]: unmount attempts of UnexportNfsVolume
    todo,       \* [Handlers -> SUBSET Volumes]: entries a Ping has yet to dump
    late,       \* volumes whose MountVolume outlived its ExportNfsVolume
    served,     \* volumes last exported successfully, no unexport since
    gone,       \* volumes last unexported successfully, no export since
    regressed,  \* an assignment has lowered generation
    calls, faults

hostVars   == <<exports, kernel, mounted>>
genVars    == <<generation, syncedGeneration, regressed>>
localVars  == <<vol, form, ret, tries, todo>>
callerVars == <<served, gone>>
boundVars  == <<calls, faults>>
vars == <<hostVars, genVars, nfsPVLock, pc, localVars, late, callerVars, boundVars>>

ExportLabels   == {"exLock", "exCheck", "mount", "addExport", "exStore",
                   "exStoreErr", "exLoad", "exResync"}
UnexportLabels == {"unLock", "delete", "unResync", "unmount", "unResyncAgain"}
PingLabels     == {"pingGet", "pingNext", "pingDelete", "pingStore", "pingStoreErr",
                   "pingLoad", "pingResync", "pingUnmount", "pingAdd",
                   "pingAddStore", "pingAddLoad", "pingAddResync"}
Labels == {"idle"} \cup ExportLabels \cup UnexportLabels \cup PingLabels

TypeOK ==
    /\ exports \in SUBSET Volumes /\ kernel \in SUBSET Volumes
    /\ mounted \in SUBSET Volumes /\ late \in SUBSET Volumes
    /\ generation \in Nat /\ syncedGeneration \in Nat /\ regressed \in BOOLEAN
    /\ nfsPVLock \in SUBSET (Volumes \X AllForms)
    /\ pc \in [Handlers -> Labels]
    /\ vol \in [Handlers -> Volumes]
    /\ form \in [Handlers -> AllForms]
    /\ ret \in [Handlers -> Nat]
    /\ tries \in [Handlers -> 0..3]
    /\ todo \in [Handlers -> SUBSET Volumes]
    /\ served \in SUBSET Volumes /\ gone \in SUBSET Volumes
    /\ calls \in Nat /\ faults \in Nat

\* The container has just started on a node where an earlier one left some
\* volumes exported.
Init ==
    /\ exports \in SUBSET Volumes
    /\ kernel = exports /\ mounted = exports
    /\ generation = 0 /\ syncedGeneration = 0 /\ regressed = FALSE
    /\ nfsPVLock = {}
    /\ pc = [h \in Handlers |-> "idle"]
    /\ vol \in {[h \in Handlers |-> v] : v \in Volumes}
    /\ form = [h \in Handlers |-> "nfs"]
    /\ ret = [h \in Handlers |-> 0]
    /\ tries = [h \in Handlers |-> 0]
    /\ todo = [h \in Handlers |-> {}]
    /\ late = {}
    /\ served = exports /\ gone = {}
    /\ calls = 0 /\ faults = 0

-----------------------------------------------------------------------------
(* Control *)

Works == faults' = faults
Fails == faults < MaxFaults /\ faults' = faults + 1

Goto(h, label) == pc' = [pc EXCEPT ![h] = label]
Key(h) == <<vol[h], form[h]>>
Return(h) == Goto(h, "idle") /\ nfsPVLock' = nfsPVLock \ {Key(h)}

\* Another handler has a call for volume v under way, at one of the labels.
Busy(h, v, labels) == \E g \in Handlers \ {h} : vol[g] = v /\ pc[g] \in labels
Pinging == \E g \in Handlers : pc[g] \in PingLabels

\* A call arrives and is given a free handler.
Accept(h, op, v, f) ==
    /\ pc[h] = "idle" /\ op \in Ops
    /\ calls < MaxCalls /\ calls' = calls + 1
    /\ vol' = [vol EXCEPT ![h] = v] /\ form' = [form EXCEPT ![h] = f]
    /\ UNCHANGED <<hostVars, genVars, nfsPVLock, ret, tries, todo, late, faults>>

CallExport(h) ==
    \E v \in Volumes :
        /\ Accept(h, "export", v, "nfs")
        /\ Goto(h, "exLock")
        /\ gone' = gone \ {v} /\ UNCHANGED served

\* ControllerUnpublishVolume sends the nfs form of the ID, reassignVolume the
\* array form, with the same ServiceName.
CallUnexport(h) ==
    \E v \in Volumes, f \in Forms :
        /\ Accept(h, "unexport", v, f)
        /\ Goto(h, "unLock")
        /\ served' = served \ {v} /\ UNCHANGED gone

\* Ping with DumpAllExports.
CallPing(h) ==
    /\ Accept(h, "ping", vol[h], form[h])
    /\ Goto(h, "pingGet")
    /\ served' = {} /\ UNCHANGED gone

\* One successful round of nfsLockPV's polling loop; the key is the volume ID
\* as the request spells it.
KeyFreeUnchecked(h) == TRUE
KeyFree(h) == Key(h) \notin nfsPVLock

NfsLockPV(h) ==
    /\ pc[h] \in {"exLock", "unLock"}
    /\ KeyFree(h)
    /\ nfsPVLock' = nfsPVLock \cup {Key(h)}
    /\ Goto(h, IF pc[h] = "exLock" THEN "exCheck" ELSE "delete")
    /\ UNCHANGED <<hostVars, genVars, localVars, late, callerVars, boundVars>>

-----------------------------------------------------------------------------
(* exports.go *)

\* The file has a line for the volume's directory.
CheckExport(v) == v \in exports

\* AddExport refuses an entry that exists; its error returns the current
\* generation.
AddExport(h, ok, failed) ==
    LET v == vol[h] IN
    \/ /\ Works /\ ~CheckExport(v)
       /\ exports' = exports \cup {v}
       /\ generation' = generation + 1
       /\ ret' = [ret EXCEPT ![h] = generation + 1]
       /\ Goto(h, ok)
    \/ /\ (Works /\ CheckExport(v)) \/ Fails
       /\ ret' = [ret EXCEPT ![h] = generation]
       /\ Goto(h, failed)
       /\ UNCHANGED <<exports, generation>>

\* DeleteExport truncates the file and writes the kept lines again.  A write
\* that fails leaves the lines written so far.
DeleteExportNoBump(h) ==
    /\ exports' = exports \ {vol[h]}
    /\ ret' = [ret EXCEPT ![h] = generation]
    /\ UNCHANGED generation
DeleteExport(h) ==
    /\ exports' = exports \ {vol[h]}
    /\ generation' = generation + 1
    /\ ret' = [ret EXCEPT ![h] = generation + 1]
DeleteExportFails(h) ==
    /\ \/ UNCHANGED exports
       \/ \E kept \in SUBSET (exports \ {vol[h]}) : exports' = kept
    /\ ret' = [ret EXCEPT ![h] = generation]
    /\ UNCHANGED generation

\* ResyncNFSMountd skips exportfs -r when a resync for this or a later
\* generation has been done.
AlreadySyncedOffByOne(g) == syncedGeneration + 1 >= g
AlreadySynced(g) == syncedGeneration >= g

ResyncNFSMountd(g) ==
    IF AlreadySynced(g)
    THEN UNCHANGED <<kernel, syncedGeneration>>
    ELSE kernel' = exports /\ syncedGeneration' = g

\* Both attempts of exportfs -r fail.
ResyncFails(g) == ~AlreadySynced(g) /\ Fails /\ UNCHANGED <<kernel, syncedGeneration>>

\* "generation, err = AddExport(...)" and its like: the package variable is
\* assigned what the call returned some time ago.
StoreGeneration(h) ==
    /\ generation' = ret[h]
    /\ regressed' = (regressed \/ ret[h] < generation)
LoadGeneration(h) == ret' = [ret EXCEPT ![h] = generation]

-----------------------------------------------------------------------------
(* ExportNfsVolume *)

AnswerServed(h) ==
    served' = IF Busy(h, vol[h], UnexportLabels) \/ Pinging
              THEN served ELSE served \cup {vol[h]}

\* The idempotent answer needs the entry and the staging directory; a
\* directory may be left behind when nothing is mounted on it, and an error
\* of either check counts as no.
ExCheck(h) ==
    LET v == vol[h] IN
    /\ pc[h] = "exCheck"
    /\ \/ Works /\ CheckExport(v) /\ Return(h) /\ AnswerServed(h)
       \/ /\ (Works /\ ~(CheckExport(v) /\ v \in mounted)) \/ Fails
          /\ Goto(h, "mount") /\ UNCHANGED <<nfsPVLock, served>>
    /\ UNCHANGED <<hostVars, genVars, localVars, late, gone, calls>>

\* MountVolume and the chown, chmod and ls that follow it.  When the context
\* ends first the handler returns and the mount goes on.
Mount(h) ==
    LET v == vol[h] IN
    /\ pc[h] = "mount"
    /\ \/ /\ Works /\ mounted' = mounted \cup {v}
          /\ Goto(h, "addExport") /\ UNCHANGED <<nfsPVLock, late>>
       \/ /\ Fails
          /\ UNCHANGED mounted \/ mounted' = mounted \cup {v}
          /\ Return(h) /\ UNCHANGED late
       \/ /\ Fails
          /\ late' = late \cup {v}
          /\ Return(h) /\ UNCHANGED mounted
    /\ UNCHANGED <<exports, kernel, genVars, localVars, callerVars, calls>>

ExAdd(h) ==
    /\ pc[h] = "addExport"
    /\ AddExport(h, "exStore", "exStoreErr")
    /\ UNCHANGED <<kernel, mounted, syncedGeneration, regressed, nfsPVLock, vol, form,
                   tries, todo, late, callerVars, calls>>

ExStore(h) ==
    /\ \/ pc[h] = "exStore" /\ Goto(h, "exLoad") /\ UNCHANGED nfsPVLock
       \/ pc[h] = "exStoreErr" /\ Return(h)
    /\ StoreGeneration(h)
    /\ UNCHANGED <<hostVars, syncedGeneration, localVars, late, callerVars, boundVars>>

ExLoad(h) ==
    /\ pc[h] = "exLoad"
    /\ LoadGeneration(h) /\ Goto(h, "exResync")
    /\ UNCHANGED <<hostVars, genVars, nfsPVLock, vol, form, tries, todo, late,
                   callerVars, boundVars>>

ExResync(h) ==
    /\ pc[h] = "exResync"
    /\ \/ Works /\ ResyncNFSMountd(ret[h]) /\ AnswerServed(h)
       \/ ResyncFails(ret[h]) /\ UNCHANGED served
    /\ Return(h)
    /\ UNCHANGED <<exports, mounted, generation, regressed, localVars, late, gone, calls>>

\* A MountVolume whose handler has returned ends.
LateMount(v) ==
    /\ late' = late \ {v}
    /\ UNCHANGED mounted \/ mounted' = mounted \cup {v}
    /\ UNCHANGED <<exports, kernel, genVars, nfsPVLock, pc, localVars, callerVars, boundVars>>

-----------------------------------------------------------------------------
(* UnexportNfsVolume *)

AnswerGone(h) ==
    gone' = IF Busy(h, vol[h], ExportLabels) THEN gone ELSE gone \cup {vol[h]}

UnDelete(h) ==
    /\ pc[h] = "delete"
    /\ \/ /\ Works /\ DeleteExport(h)
          /\ Goto(h, "unResync") /\ UNCHANGED nfsPVLock
       \/ /\ Fails /\ DeleteExportFails(h)
          /\ Return(h)
    /\ tries' = [tries EXCEPT ![h] = 0]
    /\ UNCHANGED <<kernel, mounted, syncedGeneration, regressed, vol, form, todo, late,
                   callerVars, calls>>

UnResyncOffByOne(h) ==
    /\ pc[h] \in {"unResync", "unResyncAgain"} /\ Works
    /\ ResyncNFSMountd(ret[h])
    /\ IF tries[h] = 4 THEN Return(h)
                       ELSE Goto(h, "unmount") /\ UNCHANGED nfsPVLock
    /\ UNCHANGED <<exports, mounted, generation, regressed, localVars, late,
                   callerVars, calls>>

\* The first resync, and the one after each failed unmount; after the third
\* the request fails.
UnResync(h) ==
    /\ pc[h] \in {"unResync", "unResyncAgain"}
    /\ \/ /\ Works /\ ResyncNFSMountd(ret[h])
          /\ IF tries[h] = 3 THEN Return(h)
                             ELSE Goto(h, "unmount") /\ UNCHANGED nfsPVLock
       \/ ResyncFails(ret[h]) /\ Return(h)
    /\ UNCHANGED <<exports, mounted, generation, regressed, localVars, late,
                   callerVars, calls>>

UnmountVolumeAssumed(h) ==
    /\ pc[h] = "unmount" /\ Works
    /\ Return(h) /\ AnswerGone(h)
    /\ UNCHANGED <<hostVars, genVars, localVars, late, served, calls>>

\* One of at most three rounds; the error of nfs.UnmountVolume never says
\* "not mounted", so every error is retried.
UnmountVolume(h) ==
    /\ pc[h] = "unmount"
    /\ \/ /\ Works /\ mounted' = mounted \ {vol[h]}
          /\ Return(h) /\ AnswerGone(h)
          /\ UNCHANGED tries
       \/ /\ Fails /\ tries' = [tries EXCEPT ![h] = @ + 1]
          /\ Goto(h, "unResyncAgain")
          /\ UNCHANGED <<mounted, nfsPVLock, gone>>
    /\ UNCHANGED <<exports, kernel, genVars, vol, form, ret, todo, late, served, calls>>

-----------------------------------------------------------------------------
(* Ping with DumpAllExports; it takes no nfsPVLock *)

PingGet(h) ==
    /\ pc[h] = "pingGet"
    /\ \/ Works /\ todo' = [todo EXCEPT ![h] = exports] /\ Goto(h, "pingNext")
       \/ Fails /\ Goto(h, "idle") /\ UNCHANGED todo
    /\ UNCHANGED <<hostVars, genVars, nfsPVLock, vol, form, ret, tries, late,
                   callerVars, calls>>

\* The next entry.  Without a Service, or its driverVolumeID, it is left alone.
\* When the Service cannot be read GetServiceContent returns neither a Service
\* nor an error and Ping dies on a nil pointer: that is a Restart.
PingNext(h) ==
    /\ pc[h] = "pingNext"
    /\ \/ /\ todo[h] = {} /\ Goto(h, "idle") /\ UNCHANGED <<todo, vol>>
       \/ \E v \in todo[h] :
             /\ todo' = [todo EXCEPT ![h] = @ \ {v}]
             /\ vol' = [vol EXCEPT ![h] = v]
             /\ Goto(h, "pingDelete") \/ Goto(h, "pingNext")
    /\ UNCHANGED <<hostVars, genVars, nfsPVLock, form, ret, tries, late, callerVars, boundVars>>

PingDelete(h) ==
    /\ pc[h] = "pingDelete"
    /\ \/ Works /\ DeleteExport(h) /\ Goto(h, "pingStore")
       \/ Fails /\ DeleteExportFails(h) /\ Goto(h, "pingStoreErr")
    /\ UNCHANGED <<kernel, mounted, syncedGeneration, regressed, nfsPVLock, vol, form,
                   tries, todo, late, callerVars, calls>>

PingStore(h) ==
    /\ \/ pc[h] = "pingStore" /\ Goto(h, "pingLoad")
       \/ pc[h] = "pingStoreErr" /\ Goto(h, "pingNext")
       \/ pc[h] = "pingAddStore" /\ Goto(h, "pingAddLoad")
    /\ StoreGeneration(h)
    /\ UNCHANGED <<hostVars, syncedGeneration, nfsPVLock, localVars, late, callerVars, boundVars>>

PingLoad(h) ==
    /\ \/ pc[h] = "pingLoad" /\ Goto(h, "pingResync")
       \/ pc[h] = "pingAddLoad" /\ Goto(h, "pingAddResync")
    /\ LoadGeneration(h)
    /\ UNCHANGED <<hostVars, genVars, nfsPVLock, vol, form, tries, todo, late,
                   callerVars, boundVars>>

\* A failed resync ends the Ping with the entry deleted; after the entry was
\* put back a failed resync is only logged.
PingResync(h) ==
    /\ \/ /\ pc[h] = "pingResync"
          /\ \/ Works /\ ResyncNFSMountd(ret[h]) /\ Goto(h, "pingUnmount")
             \/ ResyncFails(ret[h]) /\ Goto(h, "idle")
       \/ /\ pc[h] = "pingAddResync"
          /\ (Works /\ ResyncNFSMountd(ret[h])) \/ ResyncFails(ret[h])
          /\ Goto(h, "pingNext")
    /\ UNCHANGED <<exports, mounted, generation, regressed, nfsPVLock, localVars, late,
                   callerVars, calls>>

PingUnmount(h) ==
    /\ pc[h] = "pingUnmount"
    /\ \/ Works /\ mounted' = mounted \ {vol[h]} /\ Goto(h, "pingNext")
       \/ Fails /\ Goto(h, "pingAdd") /\ UNCHANGED mounted
    /\ UNCHANGED <<exports, kernel, genVars, nfsPVLock, localVars, late, callerVars, calls>>

\* The entry is put back to be tried again later.
PingAdd(h) ==
    /\ pc[h] = "pingAdd"
    /\ AddExport(h, "pingAddStore", "pingAddStore")
    /\ UNCHANGED <<kernel, mounted, syncedGeneration, regressed, nfsPVLock, vol, form,
                   tries, todo, late, callerVars, calls>>

-----------------------------------------------------------------------------
(* The container restarts: handlers, locks and generations are lost, the host *)
(* keeps /etc/exports, the kernel's table and the mounts.  A DeleteExport     *)
(* between truncation and rewrite leaves a part of the file.                  *)

Restart ==
    /\ Fails
    /\ \E h \in Handlers : pc[h] # "idle"
    /\ \/ UNCHANGED exports
       \/ \E h \in Handlers :
             /\ pc[h] \in {"delete", "pingDelete"}
             /\ \E kept \in SUBSET (exports \ {vol[h]}) : exports' = kept
    /\ generation' = 0 /\ syncedGeneration' = 0
    /\ nfsPVLock' = {}
    /\ pc' = [h \in Handlers |-> "idle"]
    /\ late' = {}
    /\ UNCHANGED <<kernel, mounted, regressed, localVars, callerVars, calls>>

Export(h) ==
    ExCheck(h) \/ Mount(h) \/ ExAdd(h) \/ ExStore(h) \/ ExLoad(h) \/ ExResync(h)
Unexport(h) == UnDelete(h) \/ UnResync(h) \/ UnmountVolume(h)
Ping(h) ==
    \/ PingGet(h) \/ PingNext(h) \/ PingDelete(h) \/ PingStore(h) \/ PingLoad(h)
    \/ PingResync(h) \/ PingUnmount(h) \/ PingAdd(h)

\* The calls of this bounded model are all answered.
Terminated ==
    /\ calls = MaxCalls /\ \A h \in Handlers : pc[h] = "idle"
    /\ UNCHANGED vars

Next ==
    \/ \E h \in Handlers :
           \/ CallExport(h) \/ CallUnexport(h) \/ CallPing(h) \/ NfsLockPV(h)
           \/ Export(h) \/ Unexport(h) \/ Ping(h)
    \/ \E v \in late : LateMount(v)
    \/ Restart
    \/ Terminated

Spec == Init /\ [][Next]_vars

-----------------------------------------------------------------------------
(* Properties *)

\* While nothing failed: a volume whose ExportNfsVolume was answered with
\* success, and which nothing was asked to unexport since, is mounted, in
\* /etc/exports and exported by the kernel: the resync that made it so was not
\* skipped.
ServedIsExported == faults = 0 => served \subseteq exports \cap kernel \cap mounted

\* Of handlers at work side by side, only such a store as lowers generation can
\* take that away: as long as none has, a resync of ExportNfsVolume that is
\* skipped is superfluous, an entry found by the idempotent answer is one the
\* kernel has, and no other volume's unexport takes an entry along.
ServedUnlessRegressed == ~regressed => ServedIsExported

\* As long as no assignment lowered generation: a volume whose
\* UnexportNfsVolume was answered with success, and which nothing was asked to
\* export since, is neither in /etc/exports nor exported by the kernel,
\* whatever fails or restarts between the steps.
UnexportedIsGone == ~regressed => gone \cap (exports \cup kernel) = {}

\* ... and, while nothing failed, its array device is no longer mounted on the
\* node.
UnexportedIsUnmounted == faults = 0 => gone \cap mounted = {}

-----------------------------------------------------------------------------
(* The inductive invariant behind UnexportedIsGone, for a node that receives  *)
(* export and unexport calls under one form of volume ID.                     *)

\* Past nfsLockPV, and before the return that unlocks.
InCS(h) == pc[h] \in (ExportLabels \cup UnexportLabels) \ {"exLock", "unLock"}

\* No Ping dumps exports, and every request spells the ID the same way.
OneForm == \A h \in Handlers : pc[h] \notin PingLabels /\ form[h] = "nfs"

\* nfsPVLock excludes the handlers of one volume.
LockInv ==
    /\ \A h \in Handlers : InCS(h) => Key(h) \in nfsPVLock
    /\ \A h, g \in Handlers : InCS(h) /\ InCS(g) /\ Key(h) = Key(g) => h = g

\* Points at which ret[h] is a generation the handler was returned or read.
HasGeneration(h) ==
    pc[h] \in {"exStore", "exStoreErr", "exLoad", "exResync",
               "unResync", "unmount", "unResyncAgain"}

\* No generation is ahead of the package variable.
GenInv ==
    /\ syncedGeneration <= generation
    /\ \A h \in Handlers : HasGeneration(h) => ret[h] <= generation

\* The entry an unexport has deleted stays deleted, and the kernel still has
\* it only while the resync of that deletion is not counted as done.
DeletedInv ==
    \A h \in Handlers :
        /\ pc[h] \in {"unResync", "unmount", "unResyncAgain"} => vol[h] \notin exports
        /\ pc[h] = "unResync" /\ vol[h] \in kernel => syncedGeneration < ret[h]
        /\ pc[h] \in {"unmount", "unResyncAgain"} => vol[h] \notin kernel

\* A third failed unmount is not followed by another.
TriesInv == \A h \in Handlers : pc[h] = "unmount" => tries[h] < 3

\* A volume last unexported is not about to be exported.
NotExporting ==
    \A h \in Handlers : pc[h] \in ExportLabels => vol[h] \notin gone

\* While generation was never lowered a skipped resync in UnexportNfsVolume is
\* superfluous: the kernel has already dropped the entry.
IndInv ==
    /\ TypeOK /\ OneForm /\ LockInv /\ TriesInv /\ NotExporting
    /\ ~regressed => GenInv /\ DeletedInv
    /\ UnexportedIsGone
=============================================================================
