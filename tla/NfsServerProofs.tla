-------------------------- MODULE NfsServerProofs ---------------------------
(***************************************************************************)
(* Proofs about NfsServer, for every set of volumes, every number of       *)
(* calls, failures and container restarts, in three parts.                 *)
(*                                                                         *)
(* A node that receives export and unexport calls under one form of the    *)
(* volume ID, with any handlers: IndInv is preserved by every action; what *)
(* carries the argument is that a generation a handler holds is never      *)
(* ahead of the package variable (GenInv), so the generation DeleteExport  *)
(* returns is ahead of every resync done so far and the resync it is       *)
(* passed to is not skipped, or a resync after the deletion has been done  *)
(* (DeletedInv).                                                           *)
(*                                                                         *)
(* Any node: NodeInv, for the types and UnexportedIsUnmounted.             *)
(*                                                                         *)
(* The first kind of node again: ServeInv, for ServedUnlessRegressed; the  *)
(* generation an entry was added with is ahead of syncedGeneration until a *)
(* resync has given the kernel the entry, and the value ExportNfsVolume    *)
(* reads back is not behind it, so a resync it skips is superfluous.       *)
(***************************************************************************)
EXTENDS NfsServer, TLAPS

\* CallExport preserves the invariant.
LEMMA CallExportStep ==
    ASSUME Forms \subseteq {"nfs"}, IndInv, NEW h \in Handlers, CallExport(h)
    PROVE  IndInv'
<1> USE DEF CallExport, Accept, Goto, Works, Fails, hostVars, genVars, localVars, callerVars, boundVars
<1>0. TypeOK /\ OneForm /\ LockInv /\ TriesInv /\ NotExporting
    BY DEF IndInv
<1>1. TypeOK'
    BY <1>0, BoundsAssumption DEF TypeOK, Labels, ExportLabels, UnexportLabels, PingLabels, Key, AllForms
<1>2. OneForm'
    BY <1>0 DEF OneForm, TypeOK, ExportLabels, UnexportLabels, PingLabels
<1>3. LockInv'
    BY <1>0 DEF OneForm, LockInv, InCS, Key, TypeOK, ExportLabels, UnexportLabels, PingLabels
<1>4. NotExporting'
    BY <1>0 DEF NotExporting, TypeOK, ExportLabels, UnexportLabels, PingLabels
<1>5. TriesInv'
    BY <1>0 DEF TriesInv, TypeOK
<1>6. ASSUME ~regressed' PROVE GenInv' /\ DeletedInv' /\ UnexportedIsGone'
    <2>1. ~regressed /\ GenInv /\ DeletedInv /\ gone \cap (exports \cup kernel) = {}
        BY <1>0, <1>6 DEF IndInv, UnexportedIsGone, TypeOK
    <2>2. GenInv'
        BY <1>0, <2>1 DEF GenInv, HasGeneration, TypeOK
    <2>3. DeletedInv'
        BY <1>0, <2>1 DEF DeletedInv, GenInv, HasGeneration, OneForm, LockInv, InCS, Key, TypeOK, ExportLabels, UnexportLabels, PingLabels
    <2>4. UnexportedIsGone'
        BY <1>0, <2>1 DEF UnexportedIsGone, DeletedInv, NotExporting, TypeOK, ExportLabels, UnexportLabels, PingLabels
    <2> QED BY <2>2, <2>3, <2>4
<1> QED BY <1>1, <1>2, <1>3, <1>4, <1>5, <1>6 DEF IndInv, UnexportedIsGone

\* CallUnexport preserves the invariant.
LEMMA CallUnexportStep ==
    ASSUME Forms \subseteq {"nfs"}, IndInv, NEW h \in Handlers, CallUnexport(h)
    PROVE  IndInv'
<1> USE DEF CallUnexport, Accept, Goto, Works, Fails, hostVars, genVars, localVars, callerVars, boundVars
<1>0. TypeOK /\ OneForm /\ LockInv /\ TriesInv /\ NotExporting
    BY DEF IndInv
<1>1. TypeOK'
    BY <1>0, BoundsAssumption DEF TypeOK, Labels, ExportLabels, UnexportLabels, PingLabels, Key, AllForms
<1>2. OneForm'
    BY <1>0 DEF OneForm, TypeOK, ExportLabels, UnexportLabels, PingLabels
<1>3. LockInv'
    BY <1>0 DEF OneForm, LockInv, InCS, Key, TypeOK, ExportLabels, UnexportLabels, PingLabels
<1>4. NotExporting'
    BY <1>0 DEF NotExporting, TypeOK, ExportLabels, UnexportLabels, PingLabels
<1>5. TriesInv'
    BY <1>0 DEF TriesInv, TypeOK
<1>6. ASSUME ~regressed' PROVE GenInv' /\ DeletedInv' /\ UnexportedIsGone'
    <2>1. ~regressed /\ GenInv /\ DeletedInv /\ gone \cap (exports \cup kernel) = {}
        BY <1>0, <1>6 DEF IndInv, UnexportedIsGone, TypeOK
    <2>2. GenInv'
        BY <1>0, <2>1 DEF GenInv, HasGeneration, TypeOK
    <2>3. DeletedInv'
        BY <1>0, <2>1 DEF DeletedInv, GenInv, HasGeneration, OneForm, LockInv, InCS, Key, TypeOK, ExportLabels, UnexportLabels, PingLabels
    <2>4. UnexportedIsGone'
        BY <1>0, <2>1 DEF UnexportedIsGone, DeletedInv, NotExporting, TypeOK, ExportLabels, UnexportLabels, PingLabels
    <2> QED BY <2>2, <2>3, <2>4
<1> QED BY <1>1, <1>2, <1>3, <1>4, <1>5, <1>6 DEF IndInv, UnexportedIsGone

\* NfsLockPV preserves the invariant.
LEMMA NfsLockPVStep ==
    ASSUME Forms \subseteq {"nfs"}, IndInv, NEW h \in Handlers, NfsLockPV(h)
    PROVE  IndInv'
<1> USE DEF NfsLockPV, KeyFree, Goto, Works, Fails, hostVars, genVars, localVars, callerVars, boundVars
<1>0. TypeOK /\ OneForm /\ LockInv /\ TriesInv /\ NotExporting
    BY DEF IndInv
<1>1. TypeOK'
    BY <1>0, BoundsAssumption DEF TypeOK, Labels, ExportLabels, UnexportLabels, PingLabels, Key, AllForms
<1>2. OneForm'
    BY <1>0 DEF OneForm, TypeOK, ExportLabels, UnexportLabels, PingLabels
<1>3. LockInv'
    BY <1>0 DEF OneForm, LockInv, InCS, Key, TypeOK, ExportLabels, UnexportLabels, PingLabels
<1>4. NotExporting'
    BY <1>0 DEF NotExporting, TypeOK, ExportLabels, UnexportLabels, PingLabels
<1>5. TriesInv'
    BY <1>0 DEF TriesInv, TypeOK
<1>6. ASSUME ~regressed' PROVE GenInv' /\ DeletedInv' /\ UnexportedIsGone'
    <2>1. ~regressed /\ GenInv /\ DeletedInv /\ gone \cap (exports \cup kernel) = {}
        BY <1>0, <1>6 DEF IndInv, UnexportedIsGone, TypeOK
    <2>2. GenInv'
        BY <1>0, <2>1 DEF GenInv, HasGeneration, TypeOK
    <2>3. DeletedInv'
        BY <1>0, <2>1 DEF DeletedInv, GenInv, HasGeneration, OneForm, LockInv, InCS, Key, TypeOK, ExportLabels, UnexportLabels, PingLabels
    <2>4. UnexportedIsGone'
        BY <1>0, <2>1 DEF UnexportedIsGone, DeletedInv, NotExporting, TypeOK, ExportLabels, UnexportLabels, PingLabels
    <2> QED BY <2>2, <2>3, <2>4
<1> QED BY <1>1, <1>2, <1>3, <1>4, <1>5, <1>6 DEF IndInv, UnexportedIsGone

\* ExCheck preserves the invariant.
LEMMA ExCheckStep ==
    ASSUME Forms \subseteq {"nfs"}, IndInv, NEW h \in Handlers, ExCheck(h)
    PROVE  IndInv'
<1> USE DEF ExCheck, CheckExport, Return, AnswerServed, Goto, Works, Fails, hostVars, genVars, localVars, callerVars, boundVars
<1>0. TypeOK /\ OneForm /\ LockInv /\ TriesInv /\ NotExporting
    BY DEF IndInv
<1>1. TypeOK'
    BY <1>0, BoundsAssumption DEF TypeOK, Labels, ExportLabels, UnexportLabels, PingLabels, Key, AllForms
<1>2. OneForm'
    BY <1>0 DEF OneForm, TypeOK, ExportLabels, UnexportLabels, PingLabels
<1>3. LockInv'
    BY <1>0 DEF OneForm, LockInv, InCS, Key, TypeOK, ExportLabels, UnexportLabels, PingLabels
<1>4. NotExporting'
    BY <1>0 DEF NotExporting, TypeOK, ExportLabels, UnexportLabels, PingLabels
<1>5. TriesInv'
    BY <1>0 DEF TriesInv, TypeOK
<1>6. ASSUME ~regressed' PROVE GenInv' /\ DeletedInv' /\ UnexportedIsGone'
    <2>1. ~regressed /\ GenInv /\ DeletedInv /\ gone \cap (exports \cup kernel) = {}
        BY <1>0, <1>6 DEF IndInv, UnexportedIsGone, TypeOK
    <2>2. GenInv'
        BY <1>0, <2>1 DEF GenInv, HasGeneration, TypeOK
    <2>3. DeletedInv'
        BY <1>0, <2>1 DEF DeletedInv, GenInv, HasGeneration, OneForm, LockInv, InCS, Key, TypeOK, ExportLabels, UnexportLabels, PingLabels
    <2>4. UnexportedIsGone'
        BY <1>0, <2>1 DEF UnexportedIsGone, DeletedInv, NotExporting, TypeOK, ExportLabels, UnexportLabels, PingLabels
    <2> QED BY <2>2, <2>3, <2>4
<1> QED BY <1>1, <1>2, <1>3, <1>4, <1>5, <1>6 DEF IndInv, UnexportedIsGone

\* Mount preserves the invariant.
LEMMA MountStep ==
    ASSUME Forms \subseteq {"nfs"}, IndInv, NEW h \in Handlers, Mount(h)
    PROVE  IndInv'
<1> USE DEF Mount, Return, Goto, Works, Fails, hostVars, genVars, localVars, callerVars, boundVars
<1>0. TypeOK /\ OneForm /\ LockInv /\ TriesInv /\ NotExporting
    BY DEF IndInv
<1>1. TypeOK'
    BY <1>0, BoundsAssumption DEF TypeOK, Labels, ExportLabels, UnexportLabels, PingLabels, Key, AllForms
<1>2. OneForm'
    BY <1>0 DEF OneForm, TypeOK, ExportLabels, UnexportLabels, PingLabels
<1>3. LockInv'
    BY <1>0 DEF OneForm, LockInv, InCS, Key, TypeOK, ExportLabels, UnexportLabels, PingLabels
<1>4. NotExporting'
    BY <1>0 DEF NotExporting, TypeOK, ExportLabels, UnexportLabels, PingLabels
<1>5. TriesInv'
    BY <1>0 DEF TriesInv, TypeOK
<1>6. ASSUME ~regressed' PROVE GenInv' /\ DeletedInv' /\ UnexportedIsGone'
    <2>1. ~regressed /\ GenInv /\ DeletedInv /\ gone \cap (exports \cup kernel) = {}
        BY <1>0, <1>6 DEF IndInv, UnexportedIsGone, TypeOK
    <2>2. GenInv'
        BY <1>0, <2>1 DEF GenInv, HasGeneration, TypeOK
    <2>3. DeletedInv'
        BY <1>0, <2>1 DEF DeletedInv, GenInv, HasGeneration, OneForm, LockInv, InCS, Key, TypeOK, ExportLabels, UnexportLabels, PingLabels
    <2>4. UnexportedIsGone'
        BY <1>0, <2>1 DEF UnexportedIsGone, DeletedInv, NotExporting, TypeOK, ExportLabels, UnexportLabels, PingLabels
    <2> QED BY <2>2, <2>3, <2>4
<1> QED BY <1>1, <1>2, <1>3, <1>4, <1>5, <1>6 DEF IndInv, UnexportedIsGone

\* ExAdd preserves the invariant.
LEMMA ExAddStep ==
    ASSUME Forms \subseteq {"nfs"}, IndInv, NEW h \in Handlers, ExAdd(h)
    PROVE  IndInv'
<1> USE DEF ExAdd, AddExport, CheckExport, Goto, Works, Fails, hostVars, genVars, localVars, callerVars, boundVars
<1>0. TypeOK /\ OneForm /\ LockInv /\ TriesInv /\ NotExporting
    BY DEF IndInv
<1>1. TypeOK'
    BY <1>0, BoundsAssumption DEF TypeOK, Labels, ExportLabels, UnexportLabels, PingLabels, Key, AllForms
<1>2. OneForm'
    BY <1>0 DEF OneForm, TypeOK, ExportLabels, UnexportLabels, PingLabels
<1>3. LockInv'
    BY <1>0 DEF OneForm, LockInv, InCS, Key, TypeOK, ExportLabels, UnexportLabels, PingLabels
<1>4. NotExporting'
    BY <1>0 DEF NotExporting, TypeOK, ExportLabels, UnexportLabels, PingLabels
<1>5. TriesInv'
    BY <1>0 DEF TriesInv, TypeOK
<1>6. ASSUME ~regressed' PROVE GenInv' /\ DeletedInv' /\ UnexportedIsGone'
    <2>1. ~regressed /\ GenInv /\ DeletedInv /\ gone \cap (exports \cup kernel) = {}
        BY <1>0, <1>6 DEF IndInv, UnexportedIsGone, TypeOK
    <2>2. GenInv'
        BY <1>0, <2>1 DEF GenInv, HasGeneration, TypeOK
    <2>3. DeletedInv'
        BY <1>0, <2>1 DEF DeletedInv, GenInv, HasGeneration, OneForm, LockInv, InCS, Key, TypeOK, ExportLabels, UnexportLabels, PingLabels
    <2>4. UnexportedIsGone'
        BY <1>0, <2>1 DEF UnexportedIsGone, DeletedInv, NotExporting, TypeOK, ExportLabels, UnexportLabels, PingLabels
    <2> QED BY <2>2, <2>3, <2>4
<1> QED BY <1>1, <1>2, <1>3, <1>4, <1>5, <1>6 DEF IndInv, UnexportedIsGone

\* ExStore preserves the invariant.
LEMMA ExStoreStep ==
    ASSUME Forms \subseteq {"nfs"}, IndInv, NEW h \in Handlers, ExStore(h)
    PROVE  IndInv'
<1> USE DEF ExStore, StoreGeneration, Return, Goto, Works, Fails, hostVars, genVars, localVars, callerVars, boundVars
<1>0. TypeOK /\ OneForm /\ LockInv /\ TriesInv /\ NotExporting
    BY DEF IndInv
<1>1. TypeOK'
    BY <1>0, BoundsAssumption DEF TypeOK, Labels, ExportLabels, UnexportLabels, PingLabels, Key, AllForms
<1>2. OneForm'
    BY <1>0 DEF OneForm, TypeOK, ExportLabels, UnexportLabels, PingLabels
<1>3. LockInv'
    BY <1>0 DEF OneForm, LockInv, InCS, Key, TypeOK, ExportLabels, UnexportLabels, PingLabels
<1>4. NotExporting'
    BY <1>0 DEF NotExporting, TypeOK, ExportLabels, UnexportLabels, PingLabels
<1>5. TriesInv'
    BY <1>0 DEF TriesInv, TypeOK
<1>6. ASSUME ~regressed' PROVE GenInv' /\ DeletedInv' /\ UnexportedIsGone'
    <2>1. ~regressed /\ GenInv /\ DeletedInv /\ gone \cap (exports \cup kernel) = {}
        BY <1>0, <1>6 DEF IndInv, UnexportedIsGone, TypeOK
    <2>0. generation' = generation
        <3>1. ret[h] <= generation
            BY <2>1 DEF GenInv, HasGeneration
        <3>2. ~(ret[h] < generation)
            BY <1>6
        <3> QED BY <1>0, <3>1, <3>2 DEF TypeOK
    <2>2. GenInv'
        BY <1>0, <2>0, <2>1 DEF GenInv, HasGeneration, TypeOK
    <2>3. DeletedInv'
        BY <1>0, <2>1 DEF DeletedInv, GenInv, HasGeneration, OneForm, LockInv, InCS, Key, TypeOK, ExportLabels, UnexportLabels, PingLabels
    <2>4. UnexportedIsGone'
        BY <1>0, <2>1 DEF UnexportedIsGone, DeletedInv, NotExporting, TypeOK, ExportLabels, UnexportLabels, PingLabels
    <2> QED BY <2>2, <2>3, <2>4
<1> QED BY <1>1, <1>2, <1>3, <1>4, <1>5, <1>6 DEF IndInv, UnexportedIsGone

\* ExLoad preserves the invariant.
LEMMA ExLoadStep ==
    ASSUME Forms \subseteq {"nfs"}, IndInv, NEW h \in Handlers, ExLoad(h)
    PROVE  IndInv'
<1> USE DEF ExLoad, LoadGeneration, Goto, Works, Fails, hostVars, genVars, localVars, callerVars, boundVars
<1>0. TypeOK /\ OneForm /\ LockInv /\ TriesInv /\ NotExporting
    BY DEF IndInv
<1>1. TypeOK'
    BY <1>0, BoundsAssumption DEF TypeOK, Labels, ExportLabels, UnexportLabels, PingLabels, Key, AllForms
<1>2. OneForm'
    BY <1>0 DEF OneForm, TypeOK, ExportLabels, UnexportLabels, PingLabels
<1>3. LockInv'
    BY <1>0 DEF OneForm, LockInv, InCS, Key, TypeOK, ExportLabels, UnexportLabels, PingLabels
<1>4. NotExporting'
    BY <1>0 DEF NotExporting, TypeOK, ExportLabels, UnexportLabels, PingLabels
<1>5. TriesInv'
    BY <1>0 DEF TriesInv, TypeOK
<1>6. ASSUME ~regressed' PROVE GenInv' /\ DeletedInv' /\ UnexportedIsGone'
    <2>1. ~regressed /\ GenInv /\ DeletedInv /\ gone \cap (exports \cup kernel) = {}
        BY <1>0, <1>6 DEF IndInv, UnexportedIsGone, TypeOK
    <2>2. GenInv'
        BY <1>0, <2>1 DEF GenInv, HasGeneration, TypeOK
    <2>3. DeletedInv'
        BY <1>0, <2>1 DEF DeletedInv, GenInv, HasGeneration, OneForm, LockInv, InCS, Key, TypeOK, ExportLabels, UnexportLabels, PingLabels
    <2>4. UnexportedIsGone'
        BY <1>0, <2>1 DEF UnexportedIsGone, DeletedInv, NotExporting, TypeOK, ExportLabels, UnexportLabels, PingLabels
    <2> QED BY <2>2, <2>3, <2>4
<1> QED BY <1>1, <1>2, <1>3, <1>4, <1>5, <1>6 DEF IndInv, UnexportedIsGone

\* ExResync preserves the invariant.
LEMMA ExResyncStep ==
    ASSUME Forms \subseteq {"nfs"}, IndInv, NEW h \in Handlers, ExResync(h)
    PROVE  IndInv'
<1> USE DEF ExResync, ResyncNFSMountd, ResyncFails, AlreadySynced, Return, AnswerServed, Goto, Works, Fails, hostVars, genVars, localVars, callerVars, boundVars
<1>0. TypeOK /\ OneForm /\ LockInv /\ TriesInv /\ NotExporting
    BY DEF IndInv
<1>1. TypeOK'
    BY <1>0, BoundsAssumption DEF TypeOK, Labels, ExportLabels, UnexportLabels, PingLabels, Key, AllForms
<1>2. OneForm'
    BY <1>0 DEF OneForm, TypeOK, ExportLabels, UnexportLabels, PingLabels
<1>3. LockInv'
    BY <1>0 DEF OneForm, LockInv, InCS, Key, TypeOK, ExportLabels, UnexportLabels, PingLabels
<1>4. NotExporting'
    BY <1>0 DEF NotExporting, TypeOK, ExportLabels, UnexportLabels, PingLabels
<1>5. TriesInv'
    BY <1>0 DEF TriesInv, TypeOK
<1>6. ASSUME ~regressed' PROVE GenInv' /\ DeletedInv' /\ UnexportedIsGone'
    <2>1. ~regressed /\ GenInv /\ DeletedInv /\ gone \cap (exports \cup kernel) = {}
        BY <1>0, <1>6 DEF IndInv, UnexportedIsGone, TypeOK
    <2>2. GenInv'
        BY <1>0, <2>1 DEF GenInv, HasGeneration, TypeOK
    <2>3. DeletedInv'
        BY <1>0, <2>1 DEF DeletedInv, GenInv, HasGeneration, OneForm, LockInv, InCS, Key, TypeOK, ExportLabels, UnexportLabels, PingLabels
    <2>4. UnexportedIsGone'
        BY <1>0, <2>1 DEF UnexportedIsGone, DeletedInv, NotExporting, TypeOK, ExportLabels, UnexportLabels, PingLabels
    <2> QED BY <2>2, <2>3, <2>4
<1> QED BY <1>1, <1>2, <1>3, <1>4, <1>5, <1>6 DEF IndInv, UnexportedIsGone

\* UnDelete preserves the invariant.
LEMMA UnDeleteStep ==
    ASSUME Forms \subseteq {"nfs"}, IndInv, NEW h \in Handlers, UnDelete(h)
    PROVE  IndInv'
<1> USE DEF UnDelete, DeleteExport, DeleteExportFails, Return, Goto, Works, Fails, hostVars, genVars, localVars, callerVars, boundVars
<1>0. TypeOK /\ OneForm /\ LockInv /\ TriesInv /\ NotExporting
    BY DEF IndInv
<1>1. TypeOK'
    BY <1>0, BoundsAssumption DEF TypeOK, Labels, ExportLabels, UnexportLabels, PingLabels, Key, AllForms
<1>2. OneForm'
    BY <1>0 DEF OneForm, TypeOK, ExportLabels, UnexportLabels, PingLabels
<1>3. LockInv'
    BY <1>0 DEF OneForm, LockInv, InCS, Key, TypeOK, ExportLabels, UnexportLabels, PingLabels
<1>4. NotExporting'
    BY <1>0 DEF NotExporting, TypeOK, ExportLabels, UnexportLabels, PingLabels
<1>5. TriesInv'
    BY <1>0 DEF TriesInv, TypeOK
<1>6. ASSUME ~regressed' PROVE GenInv' /\ DeletedInv' /\ UnexportedIsGone'
    <2>1. ~regressed /\ GenInv /\ DeletedInv /\ gone \cap (exports \cup kernel) = {}
        BY <1>0, <1>6 DEF IndInv, UnexportedIsGone, TypeOK
    <2>2. GenInv'
        BY <1>0, <2>1 DEF GenInv, HasGeneration, TypeOK
    <2>3. DeletedInv'
        BY <1>0, <2>1 DEF DeletedInv, GenInv, HasGeneration, OneForm, LockInv, InCS, Key, TypeOK, ExportLabels, UnexportLabels, PingLabels
    <2>4. UnexportedIsGone'
        BY <1>0, <2>1 DEF UnexportedIsGone, DeletedInv, NotExporting, TypeOK, ExportLabels, UnexportLabels, PingLabels
    <2> QED BY <2>2, <2>3, <2>4
<1> QED BY <1>1, <1>2, <1>3, <1>4, <1>5, <1>6 DEF IndInv, UnexportedIsGone

\* UnResync preserves the invariant.
LEMMA UnResyncStep ==
    ASSUME Forms \subseteq {"nfs"}, IndInv, NEW h \in Handlers, UnResync(h)
    PROVE  IndInv'
<1> USE DEF UnResync, ResyncNFSMountd, ResyncFails, AlreadySynced, Return, Goto, Works, Fails, hostVars, genVars, localVars, callerVars, boundVars
<1>0. TypeOK /\ OneForm /\ LockInv /\ TriesInv /\ NotExporting
    BY DEF IndInv
<1>1. TypeOK'
    BY <1>0, BoundsAssumption DEF TypeOK, Labels, ExportLabels, UnexportLabels, PingLabels, Key, AllForms
<1>2. OneForm'
    BY <1>0 DEF OneForm, TypeOK, ExportLabels, UnexportLabels, PingLabels
<1>3. LockInv'
    BY <1>0 DEF OneForm, LockInv, InCS, Key, TypeOK, ExportLabels, UnexportLabels, PingLabels
<1>4. NotExporting'
    BY <1>0 DEF NotExporting, TypeOK, ExportLabels, UnexportLabels, PingLabels
<1>5. TriesInv'
    BY <1>0 DEF TriesInv, TypeOK
<1>6. ASSUME ~regressed' PROVE GenInv' /\ DeletedInv' /\ UnexportedIsGone'
    <2>1. ~regressed /\ GenInv /\ DeletedInv /\ gone \cap (exports \cup kernel) = {}
        BY <1>0, <1>6 DEF IndInv, UnexportedIsGone, TypeOK
    <2>2. GenInv'
        BY <1>0, <2>1 DEF GenInv, HasGeneration, TypeOK
    <2>3. DeletedInv'
        BY <1>0, <2>1 DEF DeletedInv, GenInv, HasGeneration, OneForm, LockInv, InCS, Key, TypeOK, ExportLabels, UnexportLabels, PingLabels
    <2>4. UnexportedIsGone'
        BY <1>0, <2>1 DEF UnexportedIsGone, DeletedInv, NotExporting, TypeOK, ExportLabels, UnexportLabels, PingLabels
    <2> QED BY <2>2, <2>3, <2>4
<1> QED BY <1>1, <1>2, <1>3, <1>4, <1>5, <1>6 DEF IndInv, UnexportedIsGone

\* UnmountVolume preserves the invariant.
LEMMA UnmountVolumeStep ==
    ASSUME Forms \subseteq {"nfs"}, IndInv, NEW h \in Handlers, UnmountVolume(h)
    PROVE  IndInv'
<1> USE DEF UnmountVolume, Return, AnswerGone, Busy, Goto, Works, Fails, hostVars, genVars, localVars, callerVars, boundVars
<1>0. TypeOK /\ OneForm /\ LockInv /\ TriesInv /\ NotExporting
    BY DEF IndInv
<1>1. TypeOK'
    BY <1>0, BoundsAssumption DEF TriesInv, TypeOK, Labels, ExportLabels, UnexportLabels, PingLabels, Key, AllForms
<1>2. OneForm'
    BY <1>0 DEF OneForm, TypeOK, ExportLabels, UnexportLabels, PingLabels
<1>3. LockInv'
    BY <1>0 DEF OneForm, LockInv, InCS, Key, TypeOK, ExportLabels, UnexportLabels, PingLabels
<1>4. NotExporting'
    BY <1>0 DEF NotExporting, TypeOK, ExportLabels, UnexportLabels, PingLabels
<1>5. TriesInv'
    BY <1>0 DEF TriesInv, TypeOK
<1>6. ASSUME ~regressed' PROVE GenInv' /\ DeletedInv' /\ UnexportedIsGone'
    <2>1. ~regressed /\ GenInv /\ DeletedInv /\ gone \cap (exports \cup kernel) = {}
        BY <1>0, <1>6 DEF IndInv, UnexportedIsGone, TypeOK
    <2>2. GenInv'
        BY <1>0, <2>1 DEF GenInv, HasGeneration, TypeOK
    <2>3. DeletedInv'
        BY <1>0, <2>1 DEF DeletedInv, GenInv, HasGeneration, OneForm, LockInv, InCS, Key, TypeOK, ExportLabels, UnexportLabels, PingLabels
    <2>4. UnexportedIsGone'
        BY <1>0, <2>1 DEF UnexportedIsGone, DeletedInv, NotExporting, TypeOK, ExportLabels, UnexportLabels, PingLabels
    <2> QED BY <2>2, <2>3, <2>4
<1> QED BY <1>1, <1>2, <1>3, <1>4, <1>5, <1>6 DEF IndInv, UnexportedIsGone

\* A mount that outlives its handler touches nothing IndInv speaks of but mounted.
LEMMA LateMountStep ==
    ASSUME IndInv, NEW v \in late, LateMount(v)
    PROVE  IndInv'
<1> USE DEF LateMount, hostVars, genVars, localVars, callerVars, boundVars
<1>1. TypeOK' /\ OneForm' /\ LockInv' /\ TriesInv' /\ NotExporting'
    BY DEF IndInv, TypeOK, OneForm, LockInv, InCS, Key, TriesInv, NotExporting
<1>2. (~regressed => GenInv /\ DeletedInv)' /\ UnexportedIsGone'
    BY DEF IndInv, GenInv, HasGeneration, DeletedInv, UnexportedIsGone
<1> QED BY <1>1, <1>2 DEF IndInv

\* A restart leaves the kernel's table as it is and only loses entries.
LEMMA RestartStep ==
    ASSUME IndInv, Restart
    PROVE  IndInv'
<1> USE DEF Restart, Fails, hostVars, localVars, callerVars
<1>0. TypeOK /\ OneForm
    BY DEF IndInv
<1>1. TypeOK'
    BY <1>0, BoundsAssumption DEF TypeOK, Labels
<1>2. \A h \in Handlers : pc'[h] = "idle"
    OBVIOUS
<1>3. OneForm' /\ LockInv' /\ TriesInv' /\ NotExporting'
    BY <1>0, <1>2 DEF OneForm, LockInv, InCS, TriesInv, NotExporting,
       ExportLabels, UnexportLabels, PingLabels
<1>4. GenInv' /\ DeletedInv'
    BY <1>2 DEF GenInv, HasGeneration, DeletedInv
<1>5. UnexportedIsGone'
    BY DEF IndInv, UnexportedIsGone
<1> QED BY <1>1, <1>3, <1>4, <1>5 DEF IndInv

\* No Ping with DumpAllExports runs on this node.
LEMMA NoPingStep ==
    ASSUME "ping" \notin Ops, OneForm, NEW h \in Handlers
    PROVE  ~CallPing(h) /\ ~Ping(h)
BY DEF OneForm, PingLabels, CallPing, Accept, Ping, PingGet, PingNext, PingDelete,
       PingStore, PingLoad, PingResync, PingUnmount, PingAdd

\* A step that changes nothing preserves the invariant.
LEMMA StutterStep ==
    ASSUME IndInv, UNCHANGED vars
    PROVE  IndInv'
<1> USE DEF vars, hostVars, genVars, localVars, callerVars, boundVars
<1>1. TypeOK' /\ OneForm' /\ LockInv' /\ TriesInv' /\ NotExporting'
    BY DEF IndInv, TypeOK, OneForm, LockInv, InCS, Key, TriesInv, NotExporting
<1>2. (~regressed => GenInv /\ DeletedInv)' /\ UnexportedIsGone'
    BY DEF IndInv, GenInv, HasGeneration, DeletedInv, UnexportedIsGone
<1> QED BY <1>1, <1>2 DEF IndInv

\* The invariant holds initially.
LEMMA InitIndInv == Init => IndInv
<1> SUFFICES ASSUME Init PROVE IndInv
    OBVIOUS
<1>0. vol \in [Handlers -> Volumes]
    <2>1. PICK v \in Volumes : vol = [h \in Handlers |-> v]
        BY DEF Init
    <2> QED BY <2>1
<1>1. TypeOK
    <2>1. /\ pc \in [Handlers -> Labels] /\ form \in [Handlers -> AllForms]
          /\ ret \in [Handlers -> Nat] /\ tries \in [Handlers -> 0..3]
          /\ todo \in [Handlers -> SUBSET Volumes]
        BY DEF Init, Labels, AllForms
    <2>2. /\ exports \in SUBSET Volumes /\ kernel \in SUBSET Volumes
          /\ mounted \in SUBSET Volumes /\ late \in SUBSET Volumes
          /\ served \in SUBSET Volumes /\ gone \in SUBSET Volumes
          /\ nfsPVLock \in SUBSET (Volumes \X AllForms)
        BY DEF Init
    <2>3. /\ generation \in Nat /\ syncedGeneration \in Nat /\ regressed \in BOOLEAN
          /\ calls \in Nat /\ faults \in Nat
        BY DEF Init
    <2> QED BY <1>0, <2>1, <2>2, <2>3 DEF TypeOK
<1>2. OneForm /\ LockInv /\ TriesInv /\ NotExporting
    BY DEF Init, OneForm, LockInv, InCS, TriesInv, NotExporting,
           ExportLabels, UnexportLabels, PingLabels
<1>3. GenInv /\ DeletedInv /\ UnexportedIsGone
    BY DEF Init, GenInv, HasGeneration, DeletedInv, UnexportedIsGone
<1> QED BY <1>1, <1>2, <1>3 DEF IndInv

\* Every step preserves the invariant.
LEMMA NextIndInv ==
    ASSUME Forms \subseteq {"nfs"}, "ping" \notin Ops
    PROVE  IndInv /\ [Next]_vars => IndInv'
<1> SUFFICES ASSUME IndInv, [Next]_vars PROVE IndInv'
    OBVIOUS
<1>1. ASSUME NEW h \in Handlers, CallExport(h) \/ CallUnexport(h) \/ NfsLockPV(h)
      PROVE  IndInv'
    BY <1>1, CallExportStep, CallUnexportStep, NfsLockPVStep
<1>2. ASSUME NEW h \in Handlers, Export(h) PROVE IndInv'
    BY <1>2, ExCheckStep, MountStep, ExAddStep, ExStoreStep, ExLoadStep, ExResyncStep
       DEF Export
<1>3. ASSUME NEW h \in Handlers, Unexport(h) PROVE IndInv'
    BY <1>3, UnDeleteStep, UnResyncStep, UnmountVolumeStep DEF Unexport
<1>4. ASSUME NEW h \in Handlers, CallPing(h) \/ Ping(h) PROVE IndInv'
    BY <1>4, NoPingStep DEF IndInv
<1>5. ASSUME NEW v \in late, LateMount(v) PROVE IndInv'
    BY <1>5, LateMountStep
<1>6. CASE Restart
    BY <1>6, RestartStep
<1>7. CASE Terminated \/ UNCHANGED vars
    BY <1>7, StutterStep DEF Terminated
<1> QED BY <1>1, <1>2, <1>3, <1>4, <1>5, <1>6, <1>7 DEF Next

\* The invariant behind UnexportedIsGone holds on such a node in every reachable
\* state: as long as generation was never lowered, no handler holds a generation
\* ahead of it, and no resync of a deletion is skipped before it is superfluous.
THEOREM Inductive ==
    ASSUME Forms \subseteq {"nfs"}, "ping" \notin Ops
    PROVE  Spec => []IndInv
<1>1. IndInv /\ [Next]_vars => IndInv'
    BY NextIndInv
<1> QED BY <1>1, InitIndInv, PTL DEF Spec

\* On a node that receives export and unexport calls under one form of volume
\* ID, an UnexportNfsVolume answered with success has removed the entry from
\* /etc/exports and from the kernel, for all interleavings, failures and
\* restarts, as long as no assignment in ExportNfsVolume lowers generation.
THEOREM UnexportRemoves ==
    ASSUME Forms \subseteq {"nfs"}, "ping" \notin Ops
    PROVE  Spec => []UnexportedIsGone
<1>1. IndInv => UnexportedIsGone
    BY DEF IndInv
<1> QED BY <1>1, Inductive, PTL

-----------------------------------------------------------------------------
(* Any node *)

\* Without failures no mount is without a handler, and what is gone is unmounted.
UnmountedInv == faults = 0 => late = {} /\ gone \cap mounted = {}

\* What holds whatever calls a node receives, Pings and both forms of volume ID
\* included: AnswerGone and CallExport keep gone apart from what is exported.
NodeInv == TypeOK /\ TriesInv /\ NotExporting /\ UnmountedInv

\* A call to export takes its volume out of gone.
LEMMA CallExportNode ==
    ASSUME NodeInv, NEW h \in Handlers, CallExport(h)
    PROVE  NodeInv'
<1> USE DEF CallExport, Accept, Goto, hostVars, genVars, localVars, callerVars, boundVars
<1>0. TypeOK /\ TriesInv /\ NotExporting /\ UnmountedInv
    BY DEF NodeInv
<1>1. TypeOK'
    BY <1>0, BoundsAssumption, OpsAssumption DEF TypeOK, TriesInv, Labels, ExportLabels, UnexportLabels, PingLabels, AllForms
<1>2. TriesInv'
    BY <1>0 DEF TriesInv, TypeOK
<1>3. NotExporting'
    BY <1>0 DEF NotExporting, TypeOK, ExportLabels, UnexportLabels, PingLabels
<1>4. UnmountedInv'
    BY <1>0 DEF UnmountedInv, NotExporting, TypeOK, ExportLabels
<1> QED BY <1>1, <1>2, <1>3, <1>4 DEF NodeInv

\* A call to unexport takes its volume out of served.
LEMMA CallUnexportNode ==
    ASSUME NodeInv, NEW h \in Handlers, CallUnexport(h)
    PROVE  NodeInv'
<1> USE DEF CallUnexport, Accept, Goto, hostVars, genVars, localVars, callerVars, boundVars
<1>0. TypeOK /\ TriesInv /\ NotExporting /\ UnmountedInv
    BY DEF NodeInv
<1>1. TypeOK'
    BY <1>0, BoundsAssumption, OpsAssumption DEF TypeOK, TriesInv, Labels, ExportLabels, UnexportLabels, PingLabels, AllForms
<1>2. TriesInv'
    BY <1>0 DEF TriesInv, TypeOK
<1>3. NotExporting'
    BY <1>0 DEF NotExporting, TypeOK, ExportLabels, UnexportLabels, PingLabels
<1>4. UnmountedInv'
    BY <1>0 DEF UnmountedInv, NotExporting, TypeOK, ExportLabels
<1> QED BY <1>1, <1>2, <1>3, <1>4 DEF NodeInv

\* A Ping that dumps takes every volume out of served.
LEMMA CallPingNode ==
    ASSUME NodeInv, NEW h \in Handlers, CallPing(h)
    PROVE  NodeInv'
<1> USE DEF CallPing, Accept, Goto, hostVars, genVars, localVars, callerVars, boundVars
<1>0. TypeOK /\ TriesInv /\ NotExporting /\ UnmountedInv
    BY DEF NodeInv
<1>1. TypeOK'
    BY <1>0, BoundsAssumption, OpsAssumption DEF TypeOK, TriesInv, Labels, ExportLabels, UnexportLabels, PingLabels, AllForms
<1>2. TriesInv'
    BY <1>0 DEF TriesInv, TypeOK
<1>3. NotExporting'
    BY <1>0 DEF NotExporting, TypeOK, ExportLabels, UnexportLabels, PingLabels
<1>4. UnmountedInv'
    BY <1>0 DEF UnmountedInv, NotExporting, TypeOK, ExportLabels
<1> QED BY <1>1, <1>2, <1>3, <1>4 DEF NodeInv

\* Taking the lock changes no mount and no entry.
LEMMA NfsLockPVNode ==
    ASSUME NodeInv, NEW h \in Handlers, NfsLockPV(h)
    PROVE  NodeInv'
<1> USE DEF NfsLockPV, KeyFree, Key, Goto, hostVars, genVars, localVars, callerVars, boundVars
<1>0. TypeOK /\ TriesInv /\ NotExporting /\ UnmountedInv
    BY DEF NodeInv
<1>1. TypeOK'
    BY <1>0, BoundsAssumption, OpsAssumption DEF TypeOK, TriesInv, Labels, ExportLabels, UnexportLabels, PingLabels, AllForms
<1>2. TriesInv'
    BY <1>0 DEF TriesInv, TypeOK
<1>3. NotExporting'
    BY <1>0 DEF NotExporting, TypeOK, ExportLabels, UnexportLabels, PingLabels
<1>4. UnmountedInv'
    BY <1>0 DEF UnmountedInv, NotExporting, TypeOK, ExportLabels
<1> QED BY <1>1, <1>2, <1>3, <1>4 DEF NodeInv

\* The idempotent answer relies on the entry.
LEMMA ExCheckNode ==
    ASSUME NodeInv, NEW h \in Handlers, ExCheck(h)
    PROVE  NodeInv'
<1> USE DEF ExCheck, CheckExport, Return, Key, AnswerServed, Works, Fails, Goto, hostVars, genVars, localVars, callerVars, boundVars
<1>0. TypeOK /\ TriesInv /\ NotExporting /\ UnmountedInv
    BY DEF NodeInv
<1>1. TypeOK'
    BY <1>0, BoundsAssumption, OpsAssumption DEF TypeOK, TriesInv, Labels, ExportLabels, UnexportLabels, PingLabels, AllForms
<1>2. TriesInv'
    BY <1>0 DEF TriesInv, TypeOK
<1>3. NotExporting'
    BY <1>0 DEF NotExporting, TypeOK, ExportLabels, UnexportLabels, PingLabels
<1>4. UnmountedInv'
    BY <1>0 DEF UnmountedInv, NotExporting, TypeOK, ExportLabels
<1> QED BY <1>1, <1>2, <1>3, <1>4 DEF NodeInv

\* A mount is of a volume that is not gone.
LEMMA MountNode ==
    ASSUME NodeInv, NEW h \in Handlers, Mount(h)
    PROVE  NodeInv'
<1> USE DEF Mount, Return, Key, Works, Fails, Goto, hostVars, genVars, localVars, callerVars, boundVars
<1>0. TypeOK /\ TriesInv /\ NotExporting /\ UnmountedInv
    BY DEF NodeInv
<1>1. TypeOK'
    BY <1>0, BoundsAssumption, OpsAssumption DEF TypeOK, TriesInv, Labels, ExportLabels, UnexportLabels, PingLabels, AllForms
<1>2. TriesInv'
    BY <1>0 DEF TriesInv, TypeOK
<1>3. NotExporting'
    BY <1>0 DEF NotExporting, TypeOK, ExportLabels, UnexportLabels, PingLabels
<1>4. UnmountedInv'
    BY <1>0 DEF UnmountedInv, NotExporting, TypeOK, ExportLabels
<1> QED BY <1>1, <1>2, <1>3, <1>4 DEF NodeInv

\* AddExport gives the entry a generation of its own.
LEMMA ExAddNode ==
    ASSUME NodeInv, NEW h \in Handlers, ExAdd(h)
    PROVE  NodeInv'
<1> USE DEF ExAdd, AddExport, CheckExport, Works, Fails, Goto, hostVars, genVars, localVars, callerVars, boundVars
<1>0. TypeOK /\ TriesInv /\ NotExporting /\ UnmountedInv
    BY DEF NodeInv
<1>1. TypeOK'
    BY <1>0, BoundsAssumption, OpsAssumption DEF TypeOK, TriesInv, Labels, ExportLabels, UnexportLabels, PingLabels, AllForms
<1>2. TriesInv'
    BY <1>0 DEF TriesInv, TypeOK
<1>3. NotExporting'
    BY <1>0 DEF NotExporting, TypeOK, ExportLabels, UnexportLabels, PingLabels
<1>4. UnmountedInv'
    BY <1>0 DEF UnmountedInv, NotExporting, TypeOK, ExportLabels
<1> QED BY <1>1, <1>2, <1>3, <1>4 DEF NodeInv

\* One call at a time stores the generation it was just returned.
LEMMA ExStoreNode ==
    ASSUME NodeInv, NEW h \in Handlers, ExStore(h)
    PROVE  NodeInv'
<1> USE DEF ExStore, StoreGeneration, Return, Key, Goto, hostVars, genVars, localVars, callerVars, boundVars
<1>0. TypeOK /\ TriesInv /\ NotExporting /\ UnmountedInv
    BY DEF NodeInv
<1>1. TypeOK'
    BY <1>0, BoundsAssumption, OpsAssumption DEF TypeOK, TriesInv, Labels, ExportLabels, UnexportLabels, PingLabels, AllForms
<1>2. TriesInv'
    BY <1>0 DEF TriesInv, TypeOK
<1>3. NotExporting'
    BY <1>0 DEF NotExporting, TypeOK, ExportLabels, UnexportLabels, PingLabels
<1>4. UnmountedInv'
    BY <1>0 DEF UnmountedInv, NotExporting, TypeOK, ExportLabels
<1> QED BY <1>1, <1>2, <1>3, <1>4 DEF NodeInv

\* ... and loads the one it has just stored.
LEMMA ExLoadNode ==
    ASSUME NodeInv, NEW h \in Handlers, ExLoad(h)
    PROVE  NodeInv'
<1> USE DEF ExLoad, LoadGeneration, Goto, hostVars, genVars, localVars, callerVars, boundVars
<1>0. TypeOK /\ TriesInv /\ NotExporting /\ UnmountedInv
    BY DEF NodeInv
<1>1. TypeOK'
    BY <1>0, BoundsAssumption, OpsAssumption DEF TypeOK, TriesInv, Labels, ExportLabels, UnexportLabels, PingLabels, AllForms
<1>2. TriesInv'
    BY <1>0 DEF TriesInv, TypeOK
<1>3. NotExporting'
    BY <1>0 DEF NotExporting, TypeOK, ExportLabels, UnexportLabels, PingLabels
<1>4. UnmountedInv'
    BY <1>0 DEF UnmountedInv, NotExporting, TypeOK, ExportLabels
<1> QED BY <1>1, <1>2, <1>3, <1>4 DEF NodeInv

\* The resync of an added entry is not skipped.
LEMMA ExResyncNode ==
    ASSUME NodeInv, NEW h \in Handlers, ExResync(h)
    PROVE  NodeInv'
<1> USE DEF ExResync, ResyncNFSMountd, ResyncFails, AlreadySynced, Return, Key, AnswerServed, Works, Fails, Goto, hostVars, genVars, localVars, callerVars, boundVars
<1>0. TypeOK /\ TriesInv /\ NotExporting /\ UnmountedInv
    BY DEF NodeInv
<1>1. TypeOK'
    BY <1>0, BoundsAssumption, OpsAssumption DEF TypeOK, TriesInv, Labels, ExportLabels, UnexportLabels, PingLabels, AllForms
<1>2. TriesInv'
    BY <1>0 DEF TriesInv, TypeOK
<1>3. NotExporting'
    BY <1>0 DEF NotExporting, TypeOK, ExportLabels, UnexportLabels, PingLabels
<1>4. UnmountedInv'
    BY <1>0 DEF UnmountedInv, NotExporting, TypeOK, ExportLabels
<1> QED BY <1>1, <1>2, <1>3, <1>4 DEF NodeInv

\* DeleteExport gives the deletion a generation of its own.
LEMMA UnDeleteNode ==
    ASSUME NodeInv, NEW h \in Handlers, UnDelete(h)
    PROVE  NodeInv'
<1> USE DEF UnDelete, DeleteExport, DeleteExportFails, Return, Key, Works, Fails, Goto, hostVars, genVars, localVars, callerVars, boundVars
<1>0. TypeOK /\ TriesInv /\ NotExporting /\ UnmountedInv
    BY DEF NodeInv
<1>1. TypeOK'
    BY <1>0, BoundsAssumption, OpsAssumption DEF TypeOK, TriesInv, Labels, ExportLabels, UnexportLabels, PingLabels, AllForms
<1>2. TriesInv'
    BY <1>0 DEF TriesInv, TypeOK
<1>3. NotExporting'
    BY <1>0 DEF NotExporting, TypeOK, ExportLabels, UnexportLabels, PingLabels
<1>4. UnmountedInv'
    BY <1>0 DEF UnmountedInv, NotExporting, TypeOK, ExportLabels
<1> QED BY <1>1, <1>2, <1>3, <1>4 DEF NodeInv

\* The resync of a deletion leaves the other entries exported.
LEMMA UnResyncNode ==
    ASSUME NodeInv, NEW h \in Handlers, UnResync(h)
    PROVE  NodeInv'
<1> USE DEF UnResync, ResyncNFSMountd, ResyncFails, AlreadySynced, Return, Key, Works, Fails, Goto, hostVars, genVars, localVars, callerVars, boundVars
<1>0. TypeOK /\ TriesInv /\ NotExporting /\ UnmountedInv
    BY DEF NodeInv
<1>1. TypeOK'
    BY <1>0, BoundsAssumption, OpsAssumption DEF TypeOK, TriesInv, Labels, ExportLabels, UnexportLabels, PingLabels, AllForms
<1>2. TriesInv'
    BY <1>0 DEF TriesInv, TypeOK
<1>3. NotExporting'
    BY <1>0 DEF NotExporting, TypeOK, ExportLabels, UnexportLabels, PingLabels
<1>4. UnmountedInv'
    BY <1>0 DEF UnmountedInv, NotExporting, TypeOK, ExportLabels
<1> QED BY <1>1, <1>2, <1>3, <1>4 DEF NodeInv

\* A volume is gone when it is unmounted and no export of it is under way.
LEMMA UnmountVolumeNode ==
    ASSUME NodeInv, NEW h \in Handlers, UnmountVolume(h)
    PROVE  NodeInv'
<1> USE DEF UnmountVolume, Return, Key, AnswerGone, Busy, Works, Fails, Goto, hostVars, genVars, localVars, callerVars, boundVars
<1>0. TypeOK /\ TriesInv /\ NotExporting /\ UnmountedInv
    BY DEF NodeInv
<1>1. TypeOK'
    BY <1>0, BoundsAssumption, OpsAssumption DEF TypeOK, TriesInv, Labels, ExportLabels, UnexportLabels, PingLabels, AllForms
<1>2. TriesInv'
    BY <1>0 DEF TriesInv, TypeOK
<1>3. NotExporting'
    BY <1>0 DEF NotExporting, TypeOK, ExportLabels, UnexportLabels, PingLabels
<1>4. UnmountedInv'
    BY <1>0 DEF UnmountedInv, NotExporting, TypeOK, ExportLabels
<1> QED BY <1>1, <1>2, <1>3, <1>4 DEF NodeInv

\* Reading the entries changes none.
LEMMA PingGetNode ==
    ASSUME NodeInv, NEW h \in Handlers, PingGet(h)
    PROVE  NodeInv'
<1> USE DEF PingGet, Works, Fails, Goto, hostVars, genVars, localVars, callerVars, boundVars
<1>0. TypeOK /\ TriesInv /\ NotExporting /\ UnmountedInv
    BY DEF NodeInv
<1>1. TypeOK'
    BY <1>0, BoundsAssumption, OpsAssumption DEF TypeOK, TriesInv, Labels, ExportLabels, UnexportLabels, PingLabels, AllForms
<1>2. TriesInv'
    BY <1>0 DEF TriesInv, TypeOK
<1>3. NotExporting'
    BY <1>0 DEF NotExporting, TypeOK, ExportLabels, UnexportLabels, PingLabels
<1>4. UnmountedInv'
    BY <1>0 DEF UnmountedInv, NotExporting, TypeOK, ExportLabels
<1> QED BY <1>1, <1>2, <1>3, <1>4 DEF NodeInv

\* Taking the next entry changes none.
LEMMA PingNextNode ==
    ASSUME NodeInv, NEW h \in Handlers, PingNext(h)
    PROVE  NodeInv'
<1> USE DEF PingNext, Goto, hostVars, genVars, localVars, callerVars, boundVars
<1>0. TypeOK /\ TriesInv /\ NotExporting /\ UnmountedInv
    BY DEF NodeInv
<1>1. TypeOK'
    BY <1>0, BoundsAssumption, OpsAssumption DEF TypeOK, TriesInv, Labels, ExportLabels, UnexportLabels, PingLabels, AllForms
<1>2. TriesInv'
    BY <1>0 DEF TriesInv, TypeOK
<1>3. NotExporting'
    BY <1>0 DEF NotExporting, TypeOK, ExportLabels, UnexportLabels, PingLabels
<1>4. UnmountedInv'
    BY <1>0 DEF UnmountedInv, NotExporting, TypeOK, ExportLabels
<1> QED BY <1>1, <1>2, <1>3, <1>4 DEF NodeInv

\* A Ping deletes an entry like an unexport.
LEMMA PingDeleteNode ==
    ASSUME NodeInv, NEW h \in Handlers, PingDelete(h)
    PROVE  NodeInv'
<1> USE DEF PingDelete, DeleteExport, DeleteExportFails, Works, Fails, Goto, hostVars, genVars, localVars, callerVars, boundVars
<1>0. TypeOK /\ TriesInv /\ NotExporting /\ UnmountedInv
    BY DEF NodeInv
<1>1. TypeOK'
    BY <1>0, BoundsAssumption, OpsAssumption DEF TypeOK, TriesInv, Labels, ExportLabels, UnexportLabels, PingLabels, AllForms
<1>2. TriesInv'
    BY <1>0 DEF TriesInv, TypeOK
<1>3. NotExporting'
    BY <1>0 DEF NotExporting, TypeOK, ExportLabels, UnexportLabels, PingLabels
<1>4. UnmountedInv'
    BY <1>0 DEF UnmountedInv, NotExporting, TypeOK, ExportLabels
<1> QED BY <1>1, <1>2, <1>3, <1>4 DEF NodeInv

\* ... stores its generation,
LEMMA PingStoreNode ==
    ASSUME NodeInv, NEW h \in Handlers, PingStore(h)
    PROVE  NodeInv'
<1> USE DEF PingStore, StoreGeneration, Goto, hostVars, genVars, localVars, callerVars, boundVars
<1>0. TypeOK /\ TriesInv /\ NotExporting /\ UnmountedInv
    BY DEF NodeInv
<1>1. TypeOK'
    BY <1>0, BoundsAssumption, OpsAssumption DEF TypeOK, TriesInv, Labels, ExportLabels, UnexportLabels, PingLabels, AllForms
<1>2. TriesInv'
    BY <1>0 DEF TriesInv, TypeOK
<1>3. NotExporting'
    BY <1>0 DEF NotExporting, TypeOK, ExportLabels, UnexportLabels, PingLabels
<1>4. UnmountedInv'
    BY <1>0 DEF UnmountedInv, NotExporting, TypeOK, ExportLabels
<1> QED BY <1>1, <1>2, <1>3, <1>4 DEF NodeInv

\* ... loads it,
LEMMA PingLoadNode ==
    ASSUME NodeInv, NEW h \in Handlers, PingLoad(h)
    PROVE  NodeInv'
<1> USE DEF PingLoad, LoadGeneration, Goto, hostVars, genVars, localVars, callerVars, boundVars
<1>0. TypeOK /\ TriesInv /\ NotExporting /\ UnmountedInv
    BY DEF NodeInv
<1>1. TypeOK'
    BY <1>0, BoundsAssumption, OpsAssumption DEF TypeOK, TriesInv, Labels, ExportLabels, UnexportLabels, PingLabels, AllForms
<1>2. TriesInv'
    BY <1>0 DEF TriesInv, TypeOK
<1>3. NotExporting'
    BY <1>0 DEF NotExporting, TypeOK, ExportLabels, UnexportLabels, PingLabels
<1>4. UnmountedInv'
    BY <1>0 DEF UnmountedInv, NotExporting, TypeOK, ExportLabels
<1> QED BY <1>1, <1>2, <1>3, <1>4 DEF NodeInv

\* ... and resyncs.
LEMMA PingResyncNode ==
    ASSUME NodeInv, NEW h \in Handlers, PingResync(h)
    PROVE  NodeInv'
<1> USE DEF PingResync, ResyncNFSMountd, ResyncFails, AlreadySynced, Works, Fails, Goto, hostVars, genVars, localVars, callerVars, boundVars
<1>0. TypeOK /\ TriesInv /\ NotExporting /\ UnmountedInv
    BY DEF NodeInv
<1>1. TypeOK'
    BY <1>0, BoundsAssumption, OpsAssumption DEF TypeOK, TriesInv, Labels, ExportLabels, UnexportLabels, PingLabels, AllForms
<1>2. TriesInv'
    BY <1>0 DEF TriesInv, TypeOK
<1>3. NotExporting'
    BY <1>0 DEF NotExporting, TypeOK, ExportLabels, UnexportLabels, PingLabels
<1>4. UnmountedInv'
    BY <1>0 DEF UnmountedInv, NotExporting, TypeOK, ExportLabels
<1> QED BY <1>1, <1>2, <1>3, <1>4 DEF NodeInv

\* A Ping unmounts what it has deleted.
LEMMA PingUnmountNode ==
    ASSUME NodeInv, NEW h \in Handlers, PingUnmount(h)
    PROVE  NodeInv'
<1> USE DEF PingUnmount, Works, Fails, Goto, hostVars, genVars, localVars, callerVars, boundVars
<1>0. TypeOK /\ TriesInv /\ NotExporting /\ UnmountedInv
    BY DEF NodeInv
<1>1. TypeOK'
    BY <1>0, BoundsAssumption, OpsAssumption DEF TypeOK, TriesInv, Labels, ExportLabels, UnexportLabels, PingLabels, AllForms
<1>2. TriesInv'
    BY <1>0 DEF TriesInv, TypeOK
<1>3. NotExporting'
    BY <1>0 DEF NotExporting, TypeOK, ExportLabels, UnexportLabels, PingLabels
<1>4. UnmountedInv'
    BY <1>0 DEF UnmountedInv, NotExporting, TypeOK, ExportLabels
<1> QED BY <1>1, <1>2, <1>3, <1>4 DEF NodeInv

\* An entry that a Ping puts back is of a volume still mounted.
LEMMA PingAddNode ==
    ASSUME NodeInv, NEW h \in Handlers, PingAdd(h)
    PROVE  NodeInv'
<1> USE DEF PingAdd, AddExport, CheckExport, Works, Fails, Goto, hostVars, genVars, localVars, callerVars, boundVars
<1>0. TypeOK /\ TriesInv /\ NotExporting /\ UnmountedInv
    BY DEF NodeInv
<1>1. TypeOK'
    BY <1>0, BoundsAssumption, OpsAssumption DEF TypeOK, TriesInv, Labels, ExportLabels, UnexportLabels, PingLabels, AllForms
<1>2. TriesInv'
    BY <1>0 DEF TriesInv, TypeOK
<1>3. NotExporting'
    BY <1>0 DEF NotExporting, TypeOK, ExportLabels, UnexportLabels, PingLabels
<1>4. UnmountedInv'
    BY <1>0 DEF UnmountedInv, NotExporting, TypeOK, ExportLabels
<1> QED BY <1>1, <1>2, <1>3, <1>4 DEF NodeInv

\* A late mount needs a failure before it.
LEMMA LateMountNode ==
    ASSUME NodeInv, NEW v \in late, LateMount(v)
    PROVE  NodeInv'
<1> USE DEF LateMount, hostVars, genVars, localVars, callerVars, boundVars
<1>1. TypeOK'
    BY DEF NodeInv, TypeOK
<1>2. TriesInv' /\ NotExporting' /\ UnmountedInv'
    BY DEF NodeInv, TriesInv, NotExporting, UnmountedInv
<1> QED BY <1>1, <1>2 DEF NodeInv

\* A restart is a failure, and leaves no handler.
LEMMA RestartNode ==
    ASSUME NodeInv, Restart
    PROVE  NodeInv'
<1> USE DEF Restart, Fails, hostVars, localVars, callerVars
<1>1. TypeOK'
    BY BoundsAssumption DEF NodeInv, TypeOK, Labels
<1>2. TriesInv' /\ NotExporting'
    BY DEF TriesInv, NotExporting, ExportLabels
<1>3. UnmountedInv'
    BY DEF NodeInv, TypeOK, UnmountedInv
<1> QED BY <1>1, <1>2, <1>3 DEF NodeInv

\* A node starts with the volumes an earlier container exported mounted.
LEMMA InitNode == Init => NodeInv
<1> SUFFICES ASSUME Init PROVE NodeInv
    OBVIOUS
<1>1. TypeOK /\ TriesInv /\ NotExporting
    BY InitIndInv DEF IndInv
<1>2. UnmountedInv
    BY DEF Init, UnmountedInv
<1> QED BY <1>1, <1>2 DEF NodeInv

\* Every step keeps NodeInv.
LEMMA NextNode == NodeInv /\ [Next]_vars => NodeInv'
<1> SUFFICES ASSUME NodeInv, [Next]_vars PROVE NodeInv'
    OBVIOUS
<1>1. ASSUME NEW h \in Handlers, CallExport(h) \/ CallUnexport(h) \/ CallPing(h) \/ NfsLockPV(h)
      PROVE  NodeInv'
    BY <1>1, CallExportNode, CallUnexportNode, CallPingNode, NfsLockPVNode
<1>2. ASSUME NEW h \in Handlers, Export(h) PROVE NodeInv'
    BY <1>2, ExCheckNode, MountNode, ExAddNode, ExStoreNode, ExLoadNode, ExResyncNode
       DEF Export
<1>3. ASSUME NEW h \in Handlers, Unexport(h) PROVE NodeInv'
    BY <1>3, UnDeleteNode, UnResyncNode, UnmountVolumeNode DEF Unexport
<1>4. ASSUME NEW h \in Handlers, Ping(h) PROVE NodeInv'
    BY <1>4, PingGetNode, PingNextNode, PingDeleteNode, PingStoreNode, PingLoadNode,
       PingResyncNode, PingUnmountNode, PingAddNode DEF Ping
<1>5. ASSUME NEW v \in late, LateMount(v) PROVE NodeInv'
    BY <1>5, LateMountNode
<1>6. CASE Restart
    BY <1>6, RestartNode
<1>7. CASE Terminated \/ UNCHANGED vars
    <2>1. UNCHANGED vars
        BY <1>7 DEF Terminated
    <2>2. TypeOK'
        BY <2>1 DEF NodeInv, TypeOK, vars, hostVars, genVars, localVars, callerVars, boundVars
    <2>3. TriesInv' /\ NotExporting' /\ UnmountedInv'
        BY <2>1 DEF NodeInv, TriesInv, NotExporting, UnmountedInv, vars, hostVars, genVars,
                    localVars, callerVars, boundVars
    <2> QED BY <2>2, <2>3 DEF NodeInv
<1> QED BY <1>1, <1>2, <1>3, <1>4, <1>5, <1>6, <1>7 DEF Next

\* NodeInv holds on every node, whatever calls it receives.
LEMMA NodeAlways == Spec => []NodeInv
BY InitNode, NextNode, PTL DEF Spec

\* The files, tables and locks of a node have their types, with any calls, forms
\* of volume ID, failures and restarts: an unmount is tried at most three times.
THEOREM TypeCorrect == Spec => []TypeOK
<1>1. NodeInv => TypeOK
    BY DEF NodeInv
<1> QED BY <1>1, NodeAlways, PTL

\* While nothing failed, a volume whose UnexportNfsVolume was answered with success
\* is not mounted on the node, however its calls, and Pings, overlapped.
THEOREM UnexportUnmounts == Spec => []UnexportedIsUnmounted
<1>1. NodeInv => UnexportedIsUnmounted
    BY DEF NodeInv, UnmountedInv, UnexportedIsUnmounted
<1> QED BY <1>1, NodeAlways, PTL

-----------------------------------------------------------------------------
(* Exports and unexports side by side *)

\* Steps between an AddExport and its resync.
Adding == {"exStore", "exLoad", "exResync"}

\* Where a handler finds its volume: mounted when it is about to add the entry,
\* in the file once it has, and in the kernel as soon as the generation of the
\* entry counts as synced.
AddInv ==
    \A h \in Handlers :
        /\ pc[h] = "addExport" => vol[h] \in mounted
        /\ pc[h] \in Adding => vol[h] \in exports
        /\ pc[h] \in Adding /\ vol[h] \notin kernel => syncedGeneration < ret[h]
        /\ pc[h] \in UnexportLabels => vol[h] \notin served

\* An entry the kernel lacks belongs to a handler that will resync.
LackInv ==
    \A v \in exports \ kernel : \E h \in Handlers : pc[h] \in Adding /\ vol[h] = v

\* Without failures, and while generation was never lowered.
ServeInv ==
    ~regressed /\ faults = 0 =>
        /\ late = {} /\ exports \subseteq mounted /\ served \subseteq exports \cap kernel
        /\ AddInv /\ LackInv

\* What the steps below start from.
Undisturbed ==
    /\ TypeOK /\ OneForm /\ LockInv /\ GenInv /\ DeletedInv /\ AddInv /\ LackInv
    /\ late = {} /\ exports \subseteq mounted /\ served \subseteq exports \cap kernel
    /\ ~regressed /\ faults = 0

\* A call to export changes no file.
LEMMA CallExportServe ==
    ASSUME Undisturbed, ~regressed', faults' = 0, Forms \subseteq {"nfs"},
           NEW h \in Handlers, CallExport(h)
    PROVE  ServeInv'
<1> USE DEF CallExport, Accept, Goto, hostVars, genVars, localVars, callerVars, boundVars
<1>0. TypeOK /\ OneForm /\ LockInv /\ GenInv /\ DeletedInv /\ AddInv /\ LackInv
    BY DEF Undisturbed
<1>1. late = {} /\ exports \subseteq mounted /\ served \subseteq exports \cap kernel /\ faults = 0
    BY DEF Undisturbed
<1>2. late' = {} /\ exports' \subseteq mounted'
    BY <1>0, <1>1 DEF AddInv, DeletedInv, TypeOK
<1>3. served' \subseteq exports' \cap kernel'
    BY <1>0, <1>1 DEF AddInv, LackInv, LockInv, InCS, Key, OneForm, Adding, TypeOK,
       ExportLabels, UnexportLabels
<1>4. AddInv'
    BY <1>0, <1>1 DEF AddInv, GenInv, HasGeneration, LockInv, InCS, Key, OneForm, Adding, TypeOK,
       ExportLabels, UnexportLabels
<1>5. LackInv'
    BY <1>0, <1>1 DEF LackInv, AddInv, Adding, TypeOK
<1> QED BY <1>2, <1>3, <1>4, <1>5 DEF ServeInv

\* A call to unexport takes its volume out of served.
LEMMA CallUnexportServe ==
    ASSUME Undisturbed, ~regressed', faults' = 0, Forms \subseteq {"nfs"},
           NEW h \in Handlers, CallUnexport(h)
    PROVE  ServeInv'
<1> USE DEF CallUnexport, Accept, Goto, hostVars, genVars, localVars, callerVars, boundVars
<1>0. TypeOK /\ OneForm /\ LockInv /\ GenInv /\ DeletedInv /\ AddInv /\ LackInv
    BY DEF Undisturbed
<1>1. late = {} /\ exports \subseteq mounted /\ served \subseteq exports \cap kernel /\ faults = 0
    BY DEF Undisturbed
<1>2. late' = {} /\ exports' \subseteq mounted'
    BY <1>0, <1>1 DEF AddInv, DeletedInv, TypeOK
<1>3. served' \subseteq exports' \cap kernel'
    BY <1>0, <1>1 DEF AddInv, LackInv, LockInv, InCS, Key, OneForm, Adding, TypeOK,
       ExportLabels, UnexportLabels
<1>4. AddInv'
    BY <1>0, <1>1 DEF AddInv, GenInv, HasGeneration, LockInv, InCS, Key, OneForm, Adding, TypeOK,
       ExportLabels, UnexportLabels
<1>5. LackInv'
    BY <1>0, <1>1 DEF LackInv, AddInv, Adding, TypeOK
<1> QED BY <1>2, <1>3, <1>4, <1>5 DEF ServeInv

\* Taking the lock changes no file.
LEMMA NfsLockPVServe ==
    ASSUME Undisturbed, ~regressed', faults' = 0, Forms \subseteq {"nfs"},
           NEW h \in Handlers, NfsLockPV(h)
    PROVE  ServeInv'
<1> USE DEF NfsLockPV, KeyFree, Goto, hostVars, genVars, localVars, callerVars, boundVars
<1>0. TypeOK /\ OneForm /\ LockInv /\ GenInv /\ DeletedInv /\ AddInv /\ LackInv
    BY DEF Undisturbed
<1>1. late = {} /\ exports \subseteq mounted /\ served \subseteq exports \cap kernel /\ faults = 0
    BY DEF Undisturbed
<1>2. late' = {} /\ exports' \subseteq mounted'
    BY <1>0, <1>1 DEF AddInv, DeletedInv, TypeOK
<1>3. served' \subseteq exports' \cap kernel'
    BY <1>0, <1>1 DEF AddInv, LackInv, LockInv, InCS, Key, OneForm, Adding, TypeOK,
       ExportLabels, UnexportLabels
<1>4. AddInv'
    BY <1>0, <1>1 DEF AddInv, GenInv, HasGeneration, LockInv, InCS, Key, OneForm, Adding, TypeOK,
       ExportLabels, UnexportLabels
<1>5. LackInv'
    BY <1>0, <1>1 DEF LackInv, AddInv, Adding, TypeOK
<1> QED BY <1>2, <1>3, <1>4, <1>5 DEF ServeInv

\* The entry behind an idempotent answer is in the kernel: nobody else works on it.
LEMMA ExCheckServe ==
    ASSUME Undisturbed, ~regressed', faults' = 0, Forms \subseteq {"nfs"},
           NEW h \in Handlers, ExCheck(h)
    PROVE  ServeInv'
<1> USE DEF ExCheck, CheckExport, Return, AnswerServed, Busy, Goto, Works, Fails, hostVars, genVars, localVars, callerVars, boundVars
<1>0. TypeOK /\ OneForm /\ LockInv /\ GenInv /\ DeletedInv /\ AddInv /\ LackInv
    BY DEF Undisturbed
<1>1. late = {} /\ exports \subseteq mounted /\ served \subseteq exports \cap kernel /\ faults = 0
    BY DEF Undisturbed
<1>2. late' = {} /\ exports' \subseteq mounted'
    BY <1>0, <1>1 DEF AddInv, DeletedInv, TypeOK
<1>3. served' \subseteq exports' \cap kernel'
    BY <1>0, <1>1 DEF AddInv, LackInv, LockInv, InCS, Key, OneForm, Adding, TypeOK,
       ExportLabels, UnexportLabels
<1>4. AddInv'
    BY <1>0, <1>1 DEF AddInv, GenInv, HasGeneration, LockInv, InCS, Key, OneForm, Adding, TypeOK,
       ExportLabels, UnexportLabels
<1>5. LackInv'
    BY <1>0, <1>1 DEF LackInv, AddInv, Adding, TypeOK
<1> QED BY <1>2, <1>3, <1>4, <1>5 DEF ServeInv

\* The volume is mounted before its entry is added.
LEMMA MountServe ==
    ASSUME Undisturbed, ~regressed', faults' = 0, Forms \subseteq {"nfs"},
           NEW h \in Handlers, Mount(h)
    PROVE  ServeInv'
<1> USE DEF Mount, Return, Goto, Works, Fails, hostVars, genVars, localVars, callerVars, boundVars
<1>0. TypeOK /\ OneForm /\ LockInv /\ GenInv /\ DeletedInv /\ AddInv /\ LackInv
    BY DEF Undisturbed
<1>1. late = {} /\ exports \subseteq mounted /\ served \subseteq exports \cap kernel /\ faults = 0
    BY DEF Undisturbed
<1>2. late' = {} /\ exports' \subseteq mounted'
    BY <1>0, <1>1 DEF AddInv, DeletedInv, TypeOK
<1>3. served' \subseteq exports' \cap kernel'
    BY <1>0, <1>1 DEF AddInv, LackInv, LockInv, InCS, Key, OneForm, Adding, TypeOK,
       ExportLabels, UnexportLabels
<1>4. AddInv'
    BY <1>0, <1>1 DEF AddInv, GenInv, HasGeneration, LockInv, InCS, Key, OneForm, Adding, TypeOK,
       ExportLabels, UnexportLabels
<1>5. LackInv'
    BY <1>0, <1>1 DEF LackInv, AddInv, Adding, TypeOK
<1> QED BY <1>2, <1>3, <1>4, <1>5 DEF ServeInv

\* The generation of an added entry is ahead of every resync.
LEMMA ExAddServe ==
    ASSUME Undisturbed, ~regressed', faults' = 0, Forms \subseteq {"nfs"},
           NEW h \in Handlers, ExAdd(h)
    PROVE  ServeInv'
<1> USE DEF ExAdd, AddExport, CheckExport, Goto, Works, Fails, hostVars, genVars, localVars, callerVars, boundVars
<1>0. TypeOK /\ OneForm /\ LockInv /\ GenInv /\ DeletedInv /\ AddInv /\ LackInv
    BY DEF Undisturbed
<1>1. late = {} /\ exports \subseteq mounted /\ served \subseteq exports \cap kernel /\ faults = 0
    BY DEF Undisturbed
<1>2. late' = {} /\ exports' \subseteq mounted'
    BY <1>0, <1>1 DEF AddInv, DeletedInv, TypeOK
<1>3. served' \subseteq exports' \cap kernel'
    BY <1>0, <1>1 DEF AddInv, LackInv, LockInv, InCS, Key, OneForm, Adding, TypeOK,
       ExportLabels, UnexportLabels
<1>4. AddInv'
    BY <1>0, <1>1 DEF AddInv, GenInv, HasGeneration, LockInv, InCS, Key, OneForm, Adding, TypeOK,
       ExportLabels, UnexportLabels
<1>5. LackInv'
    BY <1>0, <1>1 DEF LackInv, AddInv, Adding, TypeOK
<1> QED BY <1>2, <1>3, <1>4, <1>5 DEF ServeInv

\* A store that does not lower generation leaves it as it is.
LEMMA ExStoreServe ==
    ASSUME Undisturbed, ~regressed', faults' = 0, Forms \subseteq {"nfs"},
           NEW h \in Handlers, ExStore(h)
    PROVE  ServeInv'
<1> USE DEF ExStore, StoreGeneration, Return, Goto, hostVars, genVars, localVars, callerVars, boundVars
<1>0. TypeOK /\ OneForm /\ LockInv /\ GenInv /\ DeletedInv /\ AddInv /\ LackInv
    BY DEF Undisturbed
<1>1. late = {} /\ exports \subseteq mounted /\ served \subseteq exports \cap kernel /\ faults = 0
    BY DEF Undisturbed
<1>2. late' = {} /\ exports' \subseteq mounted'
    BY <1>0, <1>1 DEF AddInv, DeletedInv, TypeOK
<1>3. served' \subseteq exports' \cap kernel'
    BY <1>0, <1>1 DEF AddInv, LackInv, LockInv, InCS, Key, OneForm, Adding, TypeOK,
       ExportLabels, UnexportLabels
<1>4. AddInv'
    BY <1>0, <1>1 DEF AddInv, GenInv, HasGeneration, LockInv, InCS, Key, OneForm, Adding, TypeOK,
       ExportLabels, UnexportLabels
<1>5. LackInv'
    BY <1>0, <1>1 DEF LackInv, AddInv, Adding, TypeOK
<1> QED BY <1>2, <1>3, <1>4, <1>5 DEF ServeInv

\* The generation read back is not behind the one the entry was added with.
LEMMA ExLoadServe ==
    ASSUME Undisturbed, ~regressed', faults' = 0, Forms \subseteq {"nfs"},
           NEW h \in Handlers, ExLoad(h)
    PROVE  ServeInv'
<1> USE DEF ExLoad, LoadGeneration, Goto, hostVars, genVars, localVars, callerVars, boundVars
<1>0. TypeOK /\ OneForm /\ LockInv /\ GenInv /\ DeletedInv /\ AddInv /\ LackInv
    BY DEF Undisturbed
<1>1. late = {} /\ exports \subseteq mounted /\ served \subseteq exports \cap kernel /\ faults = 0
    BY DEF Undisturbed
<1>2. late' = {} /\ exports' \subseteq mounted'
    BY <1>0, <1>1 DEF AddInv, DeletedInv, TypeOK
<1>3. served' \subseteq exports' \cap kernel'
    BY <1>0, <1>1 DEF AddInv, LackInv, LockInv, InCS, Key, OneForm, Adding, TypeOK,
       ExportLabels, UnexportLabels
<1>4. AddInv'
    BY <1>0, <1>1 DEF AddInv, GenInv, HasGeneration, LockInv, InCS, Key, OneForm, Adding, TypeOK,
       ExportLabels, UnexportLabels
<1>5. LackInv'
    BY <1>0, <1>1 DEF LackInv, AddInv, Adding, TypeOK
<1> QED BY <1>2, <1>3, <1>4, <1>5 DEF ServeInv

\* A skipped resync finds the entry in the kernel.
LEMMA ExResyncServe ==
    ASSUME Undisturbed, ~regressed', faults' = 0, Forms \subseteq {"nfs"},
           NEW h \in Handlers, ExResync(h)
    PROVE  ServeInv'
<1> USE DEF ExResync, ResyncNFSMountd, ResyncFails, AlreadySynced, Return, AnswerServed, Busy, Goto, Works, Fails, hostVars, genVars, localVars, callerVars, boundVars
<1>0. TypeOK /\ OneForm /\ LockInv /\ GenInv /\ DeletedInv /\ AddInv /\ LackInv
    BY DEF Undisturbed
<1>1. late = {} /\ exports \subseteq mounted /\ served \subseteq exports \cap kernel /\ faults = 0
    BY DEF Undisturbed
<1>2. late' = {} /\ exports' \subseteq mounted'
    BY <1>0, <1>1 DEF AddInv, DeletedInv, TypeOK
<1>3. served' \subseteq exports' \cap kernel'
    BY <1>0, <1>1 DEF AddInv, LackInv, LockInv, InCS, Key, OneForm, Adding, TypeOK,
       ExportLabels, UnexportLabels
<1>4. AddInv'
    BY <1>0, <1>1 DEF AddInv, GenInv, HasGeneration, LockInv, InCS, Key, OneForm, Adding, TypeOK,
       ExportLabels, UnexportLabels
<1>5. LackInv'
    BY <1>0, <1>1 DEF LackInv, AddInv, Adding, TypeOK
<1> QED BY <1>2, <1>3, <1>4, <1>5 DEF ServeInv

\* The deleted entry is not served, and is no other handler's.
LEMMA UnDeleteServe ==
    ASSUME Undisturbed, ~regressed', faults' = 0, Forms \subseteq {"nfs"},
           NEW h \in Handlers, UnDelete(h)
    PROVE  ServeInv'
<1> USE DEF UnDelete, DeleteExport, DeleteExportFails, Return, Goto, Works, Fails, hostVars, genVars, localVars, callerVars, boundVars
<1>0. TypeOK /\ OneForm /\ LockInv /\ GenInv /\ DeletedInv /\ AddInv /\ LackInv
    BY DEF Undisturbed
<1>1. late = {} /\ exports \subseteq mounted /\ served \subseteq exports \cap kernel /\ faults = 0
    BY DEF Undisturbed
<1>2. late' = {} /\ exports' \subseteq mounted'
    BY <1>0, <1>1 DEF AddInv, DeletedInv, TypeOK
<1>3. served' \subseteq exports' \cap kernel'
    BY <1>0, <1>1 DEF AddInv, LackInv, LockInv, InCS, Key, OneForm, Adding, TypeOK,
       ExportLabels, UnexportLabels
<1>4. AddInv'
    BY <1>0, <1>1 DEF AddInv, GenInv, HasGeneration, LockInv, InCS, Key, OneForm, Adding, TypeOK,
       ExportLabels, UnexportLabels
<1>5. LackInv'
    BY <1>0, <1>1 DEF LackInv, AddInv, Adding, TypeOK
<1> QED BY <1>2, <1>3, <1>4, <1>5 DEF ServeInv

\* A resync gives the kernel every entry.
LEMMA UnResyncServe ==
    ASSUME Undisturbed, ~regressed', faults' = 0, Forms \subseteq {"nfs"},
           NEW h \in Handlers, UnResync(h)
    PROVE  ServeInv'
<1> USE DEF UnResync, ResyncNFSMountd, ResyncFails, AlreadySynced, Return, Goto, Works, Fails, hostVars, genVars, localVars, callerVars, boundVars
<1>0. TypeOK /\ OneForm /\ LockInv /\ GenInv /\ DeletedInv /\ AddInv /\ LackInv
    BY DEF Undisturbed
<1>1. late = {} /\ exports \subseteq mounted /\ served \subseteq exports \cap kernel /\ faults = 0
    BY DEF Undisturbed
<1>2. late' = {} /\ exports' \subseteq mounted'
    BY <1>0, <1>1 DEF AddInv, DeletedInv, TypeOK
<1>3. served' \subseteq exports' \cap kernel'
    BY <1>0, <1>1 DEF AddInv, LackInv, LockInv, InCS, Key, OneForm, Adding, TypeOK,
       ExportLabels, UnexportLabels
<1>4. AddInv'
    BY <1>0, <1>1 DEF AddInv, GenInv, HasGeneration, LockInv, InCS, Key, OneForm, Adding, TypeOK,
       ExportLabels, UnexportLabels
<1>5. LackInv'
    BY <1>0, <1>1 DEF LackInv, AddInv, Adding, TypeOK
<1> QED BY <1>2, <1>3, <1>4, <1>5 DEF ServeInv

\* The unmounted volume has no entry.
LEMMA UnmountVolumeServe ==
    ASSUME Undisturbed, ~regressed', faults' = 0, Forms \subseteq {"nfs"},
           NEW h \in Handlers, UnmountVolume(h)
    PROVE  ServeInv'
<1> USE DEF UnmountVolume, Return, AnswerGone, Busy, Goto, Works, Fails, hostVars, genVars, localVars, callerVars, boundVars
<1>0. TypeOK /\ OneForm /\ LockInv /\ GenInv /\ DeletedInv /\ AddInv /\ LackInv
    BY DEF Undisturbed
<1>1. late = {} /\ exports \subseteq mounted /\ served \subseteq exports \cap kernel /\ faults = 0
    BY DEF Undisturbed
<1>2. late' = {} /\ exports' \subseteq mounted'
    BY <1>0, <1>1 DEF AddInv, DeletedInv, TypeOK
<1>3. served' \subseteq exports' \cap kernel'
    BY <1>0, <1>1 DEF AddInv, LackInv, LockInv, InCS, Key, OneForm, Adding, TypeOK,
       ExportLabels, UnexportLabels
<1>4. AddInv'
    BY <1>0, <1>1 DEF AddInv, GenInv, HasGeneration, LockInv, InCS, Key, OneForm, Adding, TypeOK,
       ExportLabels, UnexportLabels
<1>5. LackInv'
    BY <1>0, <1>1 DEF LackInv, AddInv, Adding, TypeOK
<1> QED BY <1>2, <1>3, <1>4, <1>5 DEF ServeInv

\* regressed is never taken back.
LEMMA NeverMended ==
    ASSUME TypeOK, ~regressed', NEW h \in Handlers,
           CallExport(h) \/ CallUnexport(h) \/ NfsLockPV(h) \/ Export(h) \/ Unexport(h)
    PROVE  ~regressed
BY DEF CallExport, CallUnexport, NfsLockPV, Accept, Export, Unexport, ExCheck, Mount, ExAdd,
       ExStore, StoreGeneration, ExLoad, ExResync, UnDelete, UnResync, UnmountVolume, genVars

\* No step takes a failure back.
LEMMA NeverForgotten ==
    ASSUME TypeOK, faults' = 0, NEW h \in Handlers,
           CallExport(h) \/ CallUnexport(h) \/ NfsLockPV(h) \/ Export(h) \/ Unexport(h)
    PROVE  faults = 0
BY DEF TypeOK, CallExport, CallUnexport, NfsLockPV, Accept, Export, Unexport, ExCheck, Mount, ExAdd,
       AddExport, ExStore, ExLoad, ExResync, ResyncFails, UnDelete, UnResync, UnmountVolume,
       Works, Fails, boundVars

\* The kernel exports what the file of an earlier container says.
LEMMA InitServe == Init => ServeInv
BY DEF Init, ServeInv, AddInv, LackInv, Adding, UnexportLabels

\* Every step without a failure keeps ServeInv, until one lowers generation.
LEMMA NextServe ==
    ASSUME Forms \subseteq {"nfs"}, "ping" \notin Ops
    PROVE  IndInv /\ ServeInv /\ [Next]_vars => ServeInv'
<1> SUFFICES ASSUME IndInv, ServeInv, [Next]_vars, ~regressed', faults' = 0
             PROVE  ServeInv'
    BY DEF ServeInv
<1>0. IndInv /\ TypeOK
    BY DEF IndInv
<1>1. CASE Terminated \/ UNCHANGED vars
    BY <1>1 DEF Terminated, ServeInv, AddInv, LackInv, vars, hostVars, genVars, localVars,
                callerVars, boundVars
<1>2. CASE Restart
    BY <1>0, <1>2 DEF TypeOK, Restart, Fails
<1>3. ASSUME NEW v \in late, LateMount(v) PROVE ServeInv'
    BY <1>3 DEF ServeInv, LateMount, genVars, boundVars
<1>4. ASSUME NEW h \in Handlers, CallPing(h) \/ Ping(h) PROVE ServeInv'
    BY <1>4, NoPingStep DEF IndInv
<1>5. ASSUME NEW h \in Handlers,
             CallExport(h) \/ CallUnexport(h) \/ NfsLockPV(h) \/ Export(h) \/ Unexport(h)
      PROVE  ServeInv'
    <2>1. ~regressed
        BY <1>0, <1>5, NeverMended
    <2>2. faults = 0
        BY <1>0, <1>5, NeverForgotten
    <2>3. Undisturbed
        BY <2>1, <2>2 DEF IndInv, ServeInv, Undisturbed
    <2>4. CASE CallExport(h) \/ CallUnexport(h) \/ NfsLockPV(h)
        BY <2>3, <2>4, CallExportServe, CallUnexportServe, NfsLockPVServe
    <2>5. CASE Export(h)
        BY <2>3, <2>5, ExCheckServe, MountServe, ExAddServe, ExStoreServe, ExLoadServe,
           ExResyncServe DEF Export
    <2>6. CASE Unexport(h)
        BY <2>3, <2>6, UnDeleteServe, UnResyncServe, UnmountVolumeServe DEF Unexport
    <2> QED BY <1>5, <2>4, <2>5, <2>6
<1> QED BY <1>1, <1>2, <1>3, <1>4, <1>5 DEF Next

\* On a node that receives export and unexport calls under one form of volume ID,
\* handled side by side in any number: while nothing failed, a volume whose
\* ExportNfsVolume was answered with success is mounted, in /etc/exports and in
\* the kernel's table, unless an assignment of ExportNfsVolume lowered generation.
\* That assignment is thus the only thing concurrency can break (it does:
\* ServedIsExported by itself is false with two handlers).
THEOREM ExportServes ==
    ASSUME Forms \subseteq {"nfs"}, "ping" \notin Ops
    PROVE  Spec => []ServedUnlessRegressed
<1>1. IndInv /\ ServeInv /\ [Next]_vars => ServeInv'
    BY NextServe
<1>2. ServeInv => ServedUnlessRegressed
    BY DEF ServeInv, ServedUnlessRegressed, ServedIsExported
<1> QED BY <1>1, <1>2, InitServe, Inductive, PTL DEF Spec
=============================================================================
