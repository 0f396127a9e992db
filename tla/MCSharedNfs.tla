---------------------------- MODULE MCSharedNfs -----------------------------
(* Instances of SharedNfs for TLC. *)
EXTENDS SharedNfs, TLC

\* Nodes are only compared.
NodeSymmetry == Permutations(Nodes)

\* States are compared by what can still matter.  What a handler read is dead
\* once it returned, the copies and choices of a task once it is done, the
\* counts once no task is left that may look for a node, in its first attempt or
\* in the one after a failure.
Pending == \E r \in Recoveries : phase[r] \in {"idle", "list", "count"}
Seeking ==
    \E t \in R!Tasks : R!Active(t) /\ (step[t] \in {"lock", "find"} \/ t \notin retried)

\* CleanAfterMove and AttachedStaysServed claim nothing any more of a volume
\* after a failure, a mishap or a race; which hosts have it is then of no
\* consequence, except for the counts of a recovery to come.
\* (detached = {} has TLC evaluate the set before it stores it.)
Lost(v) == faults > 0 \/ met # {} \/ v \in raced
Unless(P, x) == IF P THEN <<>> ELSE <<x>>

LiveState == <<PVLock, pc, slice, service, late, attached, faults, status, phase,
    step, retried, arrayLock,
    [r \in Requests |-> Unless(~InCS(r), <<sliceRead[r], labelsRead[r]>>)],
    [r \in Recoveries |-> Unless(~R!Running(r), failed[r])],
    [t \in R!Tasks |-> Unless(~R!Active(t), <<selected[t], t \in fresh>>)],
    Unless(~Seeking, exportCounts),
    [v \in Volumes |-> Unless(Lost(v), <<published[v], mounted[v], sent[v], cleanup>>)],
    detached = {}, [v \in Volumes |-> Unless(Lost(v), detached)],
    [v \in Volumes |-> Unless(Lost(v) /\ ~Pending, exported[v])]>>
=============================================================================
