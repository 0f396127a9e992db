-------------------------- MODULE NodeStageProofs ---------------------------
(***************************************************************************)
(* Proofs about NodeStage: what kubelet holds to be released is not        *)
(* mounted, and what it holds to be published is the shared volume, for    *)
(* any number of volumes, pods and handlers and any sequence of calls that *)
(* are given up and made again.                                            *)
(*                                                                         *)
(* The argument.  PVLock gives each volume's mounts to one handler at a    *)
(* time (LockInv), and kubelet has at most one call under way for a path,  *)
(* whose view it notes beforehand (KubeletInv).  A handler whose call was  *)
(* given up starts no command with that context, so it changes no mount,   *)
(* or its change makes the volume stray; so does a restart that comes      *)
(* between a mount or a bind and its answer.  What is left moves the       *)
(* mounts and kubelet's view together (MountInv, BindInv).                 *)
(***************************************************************************)
EXTENDS NodeStage, TLAPS

\* Past LockPV, and before the return that unlocks.
Holds(h) == pc[h] \notin {"idle", "lock"}

\* A handler that works has a request, and is at a step of that request.
CallInv ==
    \A h \in Handlers :
        /\ pc[h] # "idle" => call[h] \in Requests
        /\ pc[h] \in {"service", "check", "mutex", "mount"} => call[h].op = "stage"
        /\ pc[h] = "umount" => call[h].op = "unstage"
        /\ pc[h] = "bind"   => call[h].op = "publish"
        /\ pc[h] = "unbind" => call[h].op = "unpublish"

\* PVLock belongs to the handler that works on the volume.
LockInv == \A h \in Handlers : Holds(h) => PVLock[call[h].v] = h

\* kubelet waits for the call of handler h.
Awaited(h) == pc[h] # "idle" /\ h \notin gone

\* kubelet waits for at most one call of a path, and for no other call of the
\* volume while one of its staging path is under way; until that is answered its
\* view is the one it noted when it made the call.  It holds a pod's target path
\* to be in use only while the volume is staged.
KubeletInv ==
    /\ \A h, g \in Handlers :
           Awaited(h) /\ Awaited(g) /\ call[h].v = call[g].v /\ h # g =>
               call[h].p # None /\ call[g].p # None /\ call[h].p # call[g].p
    /\ \A h \in Handlers : Awaited(h) =>
           /\ call[h].p = None => device[call[h].v] = "uncertain"
           /\ call[h].op = "publish" => target[call[h].v][call[h].p] = "uncertain"
           /\ call[h].op = "unpublish" => target[call[h].v][call[h].p] = "leaving"
    /\ \A v \in Volumes, p \in Pods : target[v][p] # "none" => device[v] = "done"

\* A mount is under way only while kubelet does not know whether the volume is
\* staged.  Unless the volume is stray, no mount is without a handler, the staging
\* path has at most one mount, it has none once a handler has decided to mount, and
\* kubelet's view agrees with it.
MountInv ==
    /\ \A h \in Handlers : pc[h] = "mount" => device[call[h].v] = "uncertain"
    /\ \A v \in Volumes \ stray :
           /\ late[v] = 0 /\ staging[v] <= 1
           /\ device[v] = "none" => staging[v] = 0
           /\ device[v] = "done" => staging[v] = 1
           /\ \A h \in Handlers :
                  pc[h] \in {"mutex", "mount"} /\ call[h].v = v => staging[v] = 0

\* A target path that kubelet holds to be published has a bind.
KeptInv == \A v \in Volumes, p \in Pods : target[v][p] = "done" => bound[v][p] # <<>>

\* Unless the volume is stray, a target path has at most one bind, of the export,
\* and kubelet's view agrees with it.
AgreeInv ==
    \A v \in Volumes \ stray, p \in Pods :
        /\ target[v][p] \in {"none", "uncertain"} => bound[v][p] = <<>>
        /\ target[v][p] = "done" => bound[v][p] = <<"nfs">>
        /\ target[v][p] = "leaving" => bound[v][p] \in {<<>>, <<"nfs">>}

BindInv == KeptInv /\ AgreeInv

StageInv == TypeOK /\ CallInv /\ LockInv /\ KubeletInv /\ MountInv /\ BindInv

-----------------------------------------------------------------------------
(* What the shared parts of the actions do to one place *)

\* A request names a volume, and a pod exactly if it is about a target path.
LEMMA RequestParts ==
    ASSUME NEW req \in Requests
    PROVE  /\ req.v \in Volumes
           /\ \/ req.op \in {"stage", "unstage"} /\ req.p = None
              \/ req.op \in {"publish", "unpublish"} /\ req.p \in Pods /\ req.p # None
BY NodeStageAssumption DEF Requests

\* Learn changes kubelet's view of the request's path only.
LEMMA LearnPoint ==
    ASSUME NEW req \in Requests, NEW view \in View, Learn(req, view),
           device \in [Volumes -> View], target \in [Volumes -> [Pods -> View]]
    PROVE  /\ device' \in [Volumes -> View] /\ target' \in [Volumes -> [Pods -> View]]
           /\ \A v \in Volumes :
                  device'[v] = IF v = req.v /\ req.p = None THEN view ELSE device[v]
           /\ \A v \in Volumes, p \in Pods :
                  target'[v][p] = IF v = req.v /\ req.p = p THEN view ELSE target[v][p]
<1>0. req.v \in Volumes /\ (req.p = None \/ req.p \in Pods) /\ \A p \in Pods : p # None
  BY RequestParts, NodeStageAssumption
<1>1. CASE req.p = None
  <2>1. device' = [device EXCEPT ![req.v] = view] /\ target' = target
    BY <1>1 DEF Learn
  <2>2. QED BY <1>0, <1>1, <2>1
<1>2. CASE req.p # None
  <2>1. target' = [target EXCEPT ![req.v][req.p] = view] /\ device' = device
    BY <1>2 DEF Learn
  <2>2. [target[req.v] EXCEPT ![req.p] = view] \in [Pods -> View]
    BY <1>0, <1>2
  <2>3. target' \in [Volumes -> [Pods -> View]]
    BY <1>0, <2>1, <2>2
  <2>4. QED BY <1>0, <1>2, <2>1, <2>3
<1>3. QED BY <1>1, <1>2

\* The view kubelet has after an answer.
Answer(op) == IF op \in {"stage", "publish"} THEN "done" ELSE "none"

\* What Reply does, place by place.
LEMMA ReplyPoint ==
    ASSUME TypeOK, CallInv, NEW h \in Handlers, Holds(h), NEW ok \in BOOLEAN, Reply(h, ok)
    PROVE  /\ pc' \in [Handlers -> Labels] /\ call' \in [Handlers -> Requests \cup {NoCall}]
           /\ gone' \subseteq Handlers /\ PVLock' \in [Volumes -> Handlers \cup {None}]
           /\ device' \in [Volumes -> View] /\ target' \in [Volumes -> [Pods -> View]]
           /\ calls' = calls
           /\ pc'[h] = "idle" /\ \A g \in Handlers \ {h} :
                  pc'[g] = pc[g] /\ call'[g] = call[g] /\ (g \in gone' <=> g \in gone)
           /\ \A v \in Volumes : v # call[h].v => PVLock'[v] = PVLock[v]
           /\ \A v \in Volumes :
                  device'[v] = IF ok /\ h \notin gone /\ v = call[h].v /\ call[h].p = None
                               THEN Answer(call[h].op) ELSE device[v]
           /\ \A v \in Volumes, p \in Pods :
                  target'[v][p] = IF ok /\ h \notin gone /\ v = call[h].v /\ call[h].p = p
                                  THEN Answer(call[h].op) ELSE target[v][p]
<1>0. call[h] \in Requests
  BY DEF CallInv, Holds
<1>1. /\ pc' \in [Handlers -> Labels] /\ call' \in [Handlers -> Requests \cup {NoCall}]
      /\ gone' \subseteq Handlers /\ PVLock' \in [Volumes -> Handlers \cup {None}]
      /\ calls' = calls
      /\ pc'[h] = "idle" /\ \A g \in Handlers \ {h} :
             pc'[g] = pc[g] /\ call'[g] = call[g] /\ (g \in gone' <=> g \in gone)
      /\ \A v \in Volumes : v # call[h].v => PVLock'[v] = PVLock[v]
  BY <1>0, RequestParts DEF Reply, TypeOK, Labels
<1>2. CASE ok /\ h \notin gone
  <2>1. Answer(call[h].op) \in View /\ Learn(call[h], Answer(call[h].op))
    BY <1>2 DEF Reply, Answer, View
  <2>2. device \in [Volumes -> View] /\ target \in [Volumes -> [Pods -> View]]
    BY DEF TypeOK
  <2>3. /\ device' \in [Volumes -> View] /\ target' \in [Volumes -> [Pods -> View]]
        /\ \A v \in Volumes :
               device'[v] = IF v = call[h].v /\ call[h].p = None
                            THEN Answer(call[h].op) ELSE device[v]
        /\ \A v \in Volumes, p \in Pods :
               target'[v][p] = IF v = call[h].v /\ call[h].p = p
                               THEN Answer(call[h].op) ELSE target[v][p]
    BY <1>0, <2>1, <2>2, LearnPoint
  <2>4. QED
    BY <1>1, <1>2, <2>3
<1>3. CASE ~(ok /\ h \notin gone)
  BY <1>1, <1>3 DEF Reply, TypeOK
<1>4. QED
  BY <1>2, <1>3

\* The types of what a handler's step leaves to the rest of its action.
ControlType ==
    /\ pc \in [Handlers -> Labels] /\ call \in [Handlers -> Requests \cup {NoCall}]
    /\ gone \subseteq Handlers /\ PVLock \in [Volumes -> Handlers \cup {None}]
    /\ device \in [Volumes -> View] /\ target \in [Volumes -> [Pods -> View]]
    /\ calls \in [Volumes -> Nat]

Control == ControlType /\ CallInv /\ LockInv /\ KubeletInv

\* A return releases the lock, and the answer is about kubelet's own call.
LEMMA ReplyControl ==
    ASSUME StageInv, NEW h \in Handlers, Holds(h), NEW ok \in BOOLEAN, Reply(h, ok)
    PROVE  Control'
<1> USE DEF StageInv
<1>0. call[h] \in Requests /\ PVLock[call[h].v] = h
  BY DEF CallInv, LockInv, Holds
<1>1. ControlType'
  BY ReplyPoint DEF ControlType, TypeOK
<1>2. /\ pc'[h] = "idle"
      /\ \A g \in Handlers \ {h} :
             pc'[g] = pc[g] /\ call'[g] = call[g] /\ (g \in gone' <=> g \in gone)
      /\ \A v \in Volumes : v # call[h].v => PVLock'[v] = PVLock[v]
  BY ReplyPoint
<1>3. CallInv'
  BY <1>2 DEF CallInv
<1>4. LockInv'
  <2> SUFFICES ASSUME NEW g \in Handlers, Holds(g)' PROVE PVLock'[call'[g].v] = g
    BY DEF LockInv
  <2>1. g # h /\ Holds(g) /\ call'[g] = call[g]
    BY <1>2 DEF Holds
  <2>2. call[g] \in Requests /\ PVLock[call[g].v] = g
    BY <2>1 DEF CallInv, LockInv, Holds
  <2>3. call[g].v \in Volumes /\ call[g].v # call[h].v
    BY <1>0, <2>1, <2>2, RequestParts
  <2>4. QED
    BY <1>2, <2>1, <2>2, <2>3
<1>5. KubeletInv'
  <2>1. \A g \in Handlers : Awaited(g)' => g # h /\ Awaited(g) /\ call'[g] = call[g]
    BY <1>2 DEF Awaited
  <2>2. ASSUME NEW g \in Handlers, Awaited(g)'
        PROVE  /\ call'[g].p = None => device'[call'[g].v] = "uncertain"
               /\ call'[g].op = "publish" => target'[call'[g].v][call'[g].p] = "uncertain"
               /\ call'[g].op = "unpublish" => target'[call'[g].v][call'[g].p] = "leaving"
    <3>1. g # h /\ Awaited(g) /\ call'[g] = call[g] /\ call[g] \in Requests
      BY <2>1, <2>2 DEF CallInv, Awaited
    <3>2. /\ call[g].p = None => device[call[g].v] = "uncertain"
          /\ call[g].op = "publish" => target[call[g].v][call[g].p] = "uncertain"
          /\ call[g].op = "unpublish" => target[call[g].v][call[g].p] = "leaving"
      BY <3>1 DEF KubeletInv
    <3>3. h \notin gone /\ call[g].v = call[h].v =>
              call[h].p # None /\ call[g].p # None /\ call[h].p # call[g].p
      BY <3>1 DEF KubeletInv, Awaited, Holds
    <3>4. /\ call[g].v \in Volumes
          /\ call[g].op \in {"publish", "unpublish"} => call[g].p \in Pods
      BY <3>1, RequestParts
    <3>5. device'[call[g].v] = device[call[g].v] \/ call[g].p # None
      BY <3>3, <3>4, ReplyPoint
    <3>6. call[g].p \in Pods =>
              target'[call[g].v][call[g].p] = target[call[g].v][call[g].p]
      BY <3>3, <3>4, ReplyPoint
    <3>7. QED
      BY <3>1, <3>2, <3>4, <3>5, <3>6
  <2>3. ASSUME NEW v \in Volumes, NEW p \in Pods, target'[v][p] # "none"
        PROVE  device'[v] = "done"
    <3>1. CASE ok /\ h \notin gone /\ v = call[h].v
      <4>1. Awaited(h)
        BY <3>1 DEF Awaited, Holds
      <4>2. CASE call[h].p = None
        <5>1. device[v] = "uncertain" /\ target[v][p] = "none"
          BY <3>1, <4>1, <4>2 DEF KubeletInv
        <5>2. target'[v][p] = target[v][p]
          BY <4>2, ReplyPoint, NodeStageAssumption
        <5>3. QED BY <2>3, <5>1, <5>2
      <4>3. CASE call[h].p # None
        <5>1. call[h].p \in Pods /\ call[h].op \in {"publish", "unpublish"}
          BY <1>0, <4>3, RequestParts
        <5>2. target[v][call[h].p] # "none"
          BY <3>1, <4>1, <5>1 DEF KubeletInv
        <5>3. device[v] = "done"
          BY <5>1, <5>2 DEF KubeletInv
        <5>4. QED BY <4>3, <5>3, ReplyPoint
      <4>4. QED BY <4>2, <4>3
    <3>2. CASE ~(ok /\ h \notin gone /\ v = call[h].v)
      <4>1. device'[v] = device[v] /\ target'[v][p] = target[v][p]
        BY <3>2, ReplyPoint
      <4>2. QED BY <2>3, <4>1 DEF KubeletInv
    <3>3. QED BY <3>1, <3>2
  <2>4. \A i, g \in Handlers :
            Awaited(i)' /\ Awaited(g)' /\ call'[i].v = call'[g].v /\ i # g =>
                call'[i].p # None /\ call'[g].p # None /\ call'[i].p # call'[g].p
    BY <2>1 DEF KubeletInv
  <2>5. QED
    BY <2>2, <2>3, <2>4 DEF KubeletInv
<1>6. QED
  BY <1>1, <1>3, <1>4, <1>5 DEF Control

\* A step within a request keeps the lock and kubelet's view.
LEMMA StepControl ==
    ASSUME StageInv, NEW h \in Handlers, Holds(h), call[h].op = "stage",
           NEW label \in {"service", "check", "mutex", "mount"}, Step(h, label)
    PROVE  /\ Control'
           /\ pc'[h] = label /\ \A g \in Handlers \ {h} : pc'[g] = pc[g]
<1> USE DEF StageInv
<1>1. pc' = [pc EXCEPT ![h] = label] /\ UNCHANGED <<PVLock, call, gone, device, target, calls>>
  BY DEF Step, Goto, kubeletVars
<1>2. /\ pc' \in [Handlers -> Labels]
      /\ pc'[h] = label /\ \A g \in Handlers \ {h} : pc'[g] = pc[g]
  BY <1>1 DEF TypeOK, Labels
<1>3. ControlType'
  BY <1>1, <1>2 DEF ControlType, TypeOK
<1>4. CallInv'
  BY <1>1, <1>2 DEF CallInv, Holds
<1>5. LockInv'
  BY <1>1, <1>2 DEF LockInv, Holds
<1>6. \A g \in Handlers : Awaited(g)' <=> Awaited(g)
  BY <1>1, <1>2 DEF Awaited, Holds
<1>7. KubeletInv'
  BY <1>1, <1>6 DEF KubeletInv
<1>8. QED
  BY <1>2, <1>3, <1>4, <1>5, <1>7 DEF Control

\* Other handlers do not work on the volume of a handler that holds its lock.
LEMMA Alone ==
    ASSUME StageInv, NEW h \in Handlers, Holds(h), NEW g \in Handlers, Holds(g), g # h
    PROVE  call[g].v # call[h].v
BY DEF StageInv, LockInv

\* What a request does to the staging path, as its return leaves it: kubelet's
\* view and the mount agree.
LEMMA ReplyMount ==
    ASSUME StageInv, NEW h \in Handlers, Holds(h), NEW ok \in BOOLEAN, Reply(h, ok),
           late' = late, stray \subseteq stray',
           \A v \in Volumes : v # call[h].v => staging'[v] = staging[v],
           call[h].v \notin stray' =>
               /\ \/ staging'[call[h].v] = staging[call[h].v]
                  \/ device[call[h].v] = "uncertain" /\ staging'[call[h].v] \in {0, 1}
               /\ ok /\ h \notin gone /\ call[h].op = "stage" => staging'[call[h].v] = 1
               /\ ok /\ h \notin gone /\ call[h].op = "unstage" => staging'[call[h].v] = 0
    PROVE  MountInv'
<1> USE DEF StageInv
<1>0. call[h] \in Requests /\ call[h].v \in Volumes
  BY RequestParts DEF CallInv, Holds
<1>1. /\ pc'[h] = "idle"
      /\ \A g \in Handlers \ {h} : pc'[g] = pc[g] /\ call'[g] = call[g]
      /\ \A v \in Volumes :
             device'[v] = IF ok /\ h \notin gone /\ v = call[h].v /\ call[h].p = None
                          THEN Answer(call[h].op) ELSE device[v]
  BY ReplyPoint
<1>2. \A g \in Handlers : pc'[g] \in {"mutex", "mount"} =>
          /\ pc[g] = pc'[g] /\ call'[g] = call[g] /\ call[g].v \in Volumes
          /\ call[g].v # call[h].v
  BY <1>1, Alone, RequestParts DEF CallInv, Holds
<1>3. \A g \in Handlers : pc'[g] = "mount" => device'[call'[g].v] = "uncertain"
  BY <1>1, <1>2 DEF MountInv
<1>4. ASSUME NEW v \in Volumes \ stray'
      PROVE  /\ late'[v] = 0 /\ staging'[v] <= 1
             /\ device'[v] = "none" => staging'[v] = 0
             /\ device'[v] = "done" => staging'[v] = 1
             /\ \A g \in Handlers :
                    pc'[g] \in {"mutex", "mount"} /\ call'[g].v = v => staging'[v] = 0
  <2>1. /\ late[v] = 0 /\ staging[v] <= 1
        /\ device[v] = "none" => staging[v] = 0
        /\ device[v] = "done" => staging[v] = 1
        /\ \A g \in Handlers :
               pc[g] \in {"mutex", "mount"} /\ call[g].v = v => staging[v] = 0
    BY DEF MountInv
  <2>2. CASE v # call[h].v
    <3>1. device'[v] = device[v] /\ staging'[v] = staging[v]
      BY <1>1, <2>2
    <3>2. QED BY <1>2, <2>1, <3>1
  <2>3. CASE v = call[h].v
    <3>1. \A g \in Handlers : ~(pc'[g] \in {"mutex", "mount"} /\ call'[g].v = v)
      BY <1>2, <2>3
    <3>2. CASE ok /\ h \notin gone /\ call[h].p = None
      <4>1. call[h].op \in {"stage", "unstage"}
        BY <1>0, <3>2, RequestParts
      <4>2. QED BY <1>1, <2>1, <2>3, <3>1, <3>2, <4>1 DEF Answer
    <3>3. CASE ~(ok /\ h \notin gone /\ call[h].p = None)
      <4>1. device'[v] = device[v]
        BY <1>1, <3>3
      <4>2. QED BY <2>1, <2>3, <3>1, <4>1
    <3>4. QED BY <3>2, <3>3
  <2>4. QED BY <2>2, <2>3
<1>5. QED
  BY <1>3, <1>4 DEF MountInv

\* The return of a request about the staging path leaves the binds alone.
LEMMA ReplyBind ==
    ASSUME StageInv, NEW h \in Handlers, Holds(h), NEW ok \in BOOLEAN, Reply(h, ok),
           call[h].op \in {"stage", "unstage"}, bound' = bound, stray \subseteq stray'
    PROVE  BindInv'
<1> USE DEF StageInv
<1>1. call[h].p = None
  BY RequestParts DEF CallInv, Holds
<1>2. \A v \in Volumes, p \in Pods : target'[v][p] = target[v][p]
  BY <1>1, ReplyPoint, NodeStageAssumption
<1>3. QED
  BY <1>2 DEF BindInv, KeptInv, AgreeInv

\* A step that leaves mounts and binds alone, and starts no mount, keeps what is
\* known of them.
LEMMA StepMount ==
    ASSUME StageInv, NEW h \in Handlers, Holds(h), call[h].op = "stage",
           NEW label \in {"service", "check", "mutex", "mount"}, Step(h, label),
           UNCHANGED bound, stray \subseteq stray',
           \A v \in Volumes \ stray' : late'[v] = late[v] /\ staging'[v] = staging[v],
           label = "mount" => device[call[h].v] = "uncertain",
           label \in {"mutex", "mount"} /\ call[h].v \notin stray' => staging[call[h].v] = 0
    PROVE  MountInv' /\ BindInv'
<1> USE DEF StageInv
<1>1. UNCHANGED <<call, device, target>>
  BY DEF Step, kubeletVars
<1>2. pc'[h] = label /\ \A g \in Handlers \ {h} : pc'[g] = pc[g]
  BY StepControl
<1>3. BindInv'
  BY <1>1 DEF BindInv, KeptInv, AgreeInv
<1>4. \A g \in Handlers : pc'[g] = "mount" => device'[call'[g].v] = "uncertain"
  BY <1>1, <1>2 DEF MountInv
<1>5. ASSUME NEW v \in Volumes \ stray'
      PROVE  /\ late'[v] = 0 /\ staging'[v] <= 1
             /\ device'[v] = "none" => staging'[v] = 0
             /\ device'[v] = "done" => staging'[v] = 1
             /\ \A g \in Handlers :
                    pc'[g] \in {"mutex", "mount"} /\ call'[g].v = v => staging'[v] = 0
  BY <1>1, <1>2 DEF MountInv
<1>6. QED
  BY <1>3, <1>4, <1>5 DEF MountInv

-----------------------------------------------------------------------------
(* The actions *)

\* The types that Control leaves out.
LEMMA Types ==
    ASSUME Control', staging' \in [Volumes -> Nat], late' \in [Volumes -> Nat],
           bound' \in [Volumes -> [Pods -> Seq(Source)]], mountMutex' \in Handlers \cup {None},
           stray' \subseteq Volumes, faults' \in 0..MaxFaults, MountInv', BindInv'
    PROVE  StageInv'
BY DEF Control, ControlType, TypeOK, StageInv

\* A command or an API call that fails is counted within the bound.
LEMMA FaultsType ==
    ASSUME TypeOK, Works \/ Fails
    PROVE  faults' \in 0..MaxFaults
BY NodeStageAssumption DEF TypeOK, Works, Fails

\* What StageInv says of the handler that takes a step.
LEMMA Working ==
    ASSUME StageInv, NEW h \in Handlers, Holds(h)
    PROVE  /\ call[h] \in Requests /\ call[h].v \in Volumes
           /\ staging \in [Volumes -> Nat] /\ late \in [Volumes -> Nat]
           /\ bound \in [Volumes -> [Pods -> Seq(Source)]]
           /\ mountMutex \in Handlers \cup {None} /\ stray \subseteq Volumes
           /\ \A v \in Volumes \ stray : staging[v] \in {0, 1}
<1>1. TypeOK /\ CallInv /\ MountInv
  BY DEF StageInv
<1>2. \A v \in Volumes \ stray : staging[v] <= 1 /\ staging[v] \in Nat
  BY <1>1 DEF MountInv, TypeOK
<1>3. QED
  BY <1>1, <1>2, RequestParts DEF TypeOK, CallInv, Holds

\* GetService mounts nothing.
LEMMA GetServiceStep ==
    ASSUME StageInv, NEW h \in Handlers, GetService(h)
    PROVE  StageInv'
<1>0. /\ pc[h] = "service" /\ Holds(h) /\ call[h].op = "stage" /\ TypeOK
      /\ UNCHANGED <<staging, bound, late, mountMutex, stray>>
  BY DEF GetService, StageInv, CallInv, Holds, mountVars
<1>1. faults' \in 0..MaxFaults
  BY <1>0, FaultsType DEF GetService
<1>2. CASE Step(h, "check")
  <2>1. Control' BY <1>0, <1>2, StepControl
  <2>2. MountInv' /\ BindInv' BY <1>0, <1>2, StepMount
  <2>3. QED BY <1>0, <1>1, <2>1, <2>2, Types DEF TypeOK
<1>3. CASE Reply(h, FALSE)
  <2>1. Control' BY <1>0, <1>3, ReplyControl
  <2>2. MountInv' BY <1>0, <1>3, ReplyMount
  <2>3. BindInv' BY <1>0, <1>3, ReplyBind
  <2>4. QED BY <1>0, <1>1, <2>1, <2>2, <2>3, Types DEF TypeOK
<1>4. QED
  BY <1>2, <1>3 DEF GetService, Error

\* kubelet stages a volume only while no pod has it: when isMounted finds a
\* mount for a call kubelet waits for, that is the staging path's.
LEMMA FoundIsStaged ==
    ASSUME StageInv, NEW h \in Handlers, pc[h] = "check", h \notin gone,
           call[h].v \notin stray, isMounted(call[h].v)
    PROVE  staging[call[h].v] = 1
<1> DEFINE v == call[h].v
<1>0. Holds(h) /\ Awaited(h) /\ call[h].op = "stage" /\ KubeletInv /\ BindInv
  BY DEF StageInv, CallInv, Holds, Awaited
<1>1. v \in Volumes /\ call[h].p = None /\ staging[v] \in {0, 1}
  BY <1>0, Working, RequestParts
<1>2. device[v] = "uncertain"
  BY <1>0, <1>1 DEF KubeletInv
<1>3. \A p \in Pods : target[v][p] = "none"
  BY <1>0, <1>1, <1>2 DEF KubeletInv
<1>4. \A p \in Pods : bound[v][p] = <<>>
  BY <1>0, <1>1, <1>3 DEF BindInv, KeptInv, AgreeInv
<1>5. staging[v] > 0
  BY <1>4 DEF isMounted
<1>6. QED
  BY <1>1, <1>5

\* isAlreadyMounted decides to mount only where nothing is mounted, or makes the
\* volume stray.
LEMMA isAlreadyMountedStep ==
    ASSUME StageInv, NEW h \in Handlers, isAlreadyMounted(h)
    PROVE  StageInv'
<1> DEFINE v == call[h].v
<1>0. /\ pc[h] = "check" /\ Holds(h) /\ call[h].op = "stage" /\ TypeOK
      /\ UNCHANGED <<bound, late, mountMutex>>
  BY DEF isAlreadyMounted, StageInv, CallInv, Holds
<1>1. faults' \in 0..MaxFaults
  BY <1>0, FaultsType DEF isAlreadyMounted
<1>2. v \in Volumes /\ staging \in [Volumes -> Nat] /\ stray \subseteq Volumes
  BY <1>0, Working
<1>3. ~isMounted(v) => staging[v] = 0
  BY <1>2 DEF isMounted
<1>4. CASE isMounted(v) /\ Reply(h, TRUE) /\ UNCHANGED <<staging, stray>>
  <2>1. Control' BY <1>0, <1>4, ReplyControl
  <2>2. v \notin stray /\ h \notin gone => staging[v] = 1
    BY <1>0, <1>4, FoundIsStaged
  <2>3. MountInv' BY <1>0, <1>4, <2>2, ReplyMount
  <2>4. BindInv' BY <1>0, <1>4, ReplyBind
  <2>5. QED BY <1>0, <1>1, <1>4, <2>1, <2>3, <2>4, Types DEF TypeOK
<1>5. CASE /\ Step(h, "mutex") /\ UNCHANGED staging
           /\ stray' = IF isMounted(v) THEN stray \cup {v} ELSE stray
  <2>1. Control' BY <1>0, <1>5, StepControl
  <2>2. stray \subseteq stray' /\ stray' \subseteq Volumes
    BY <1>2, <1>5
  <2>3. v \notin stray' => staging[v] = 0
    BY <1>3, <1>5
  <2>4. MountInv' /\ BindInv' BY <1>0, <1>5, <2>2, <2>3, StepMount
  <2>5. QED BY <1>0, <1>1, <1>5, <2>1, <2>2, <2>4, Types DEF TypeOK
<1>6. CASE ~isMounted(v) /\ Step(h, "mutex") /\ staging' = Umount(v) /\ UNCHANGED stray
  <2>1. Control' BY <1>0, <1>6, StepControl
  <2>2. staging' = staging
    BY <1>2, <1>3, <1>6 DEF Umount
  <2>3. MountInv' /\ BindInv' BY <1>0, <1>3, <1>6, <2>2, StepMount
  <2>4. QED BY <1>0, <1>1, <1>6, <2>1, <2>2, <2>3, Types DEF TypeOK
<1>7. QED
  BY <1>4, <1>5, <1>6 DEF isAlreadyMounted, Ok

\* A mount is started for a call that kubelet waits for.
LEMMA LockMountStep ==
    ASSUME StageInv, NEW h \in Handlers, LockMount(h)
    PROVE  StageInv'
<1>0. /\ pc[h] = "mutex" /\ Holds(h) /\ call[h].op = "stage" /\ call[h] \in Requests
      /\ TypeOK /\ KubeletInv /\ MountInv
      /\ UNCHANGED <<staging, bound, late, stray, faults>>
  BY DEF LockMount, StageInv, CallInv, Holds, mountVars
<1>1. call[h].v \in Volumes /\ call[h].p = None
  BY <1>0, RequestParts
<1>2. CASE h \notin gone /\ Step(h, "mount") /\ mountMutex' = h
  <2>1. Control' BY <1>0, <1>2, StepControl
  <2>2. device[call[h].v] = "uncertain"
    BY <1>0, <1>1, <1>2 DEF KubeletInv, Awaited
  <2>3. call[h].v \notin stray => staging[call[h].v] = 0
    BY <1>0, <1>1 DEF MountInv
  <2>4. MountInv' /\ BindInv' BY <1>0, <1>2, <2>2, <2>3, StepMount
  <2>5. QED BY <1>0, <1>2, <2>1, <2>4, Types DEF TypeOK
<1>3. CASE Step(h, "service") /\ UNCHANGED mountMutex
  <2>1. Control' BY <1>0, <1>3, StepControl
  <2>2. MountInv' /\ BindInv' BY <1>0, <1>3, StepMount
  <2>3. QED BY <1>0, <1>3, <2>1, <2>2, Types DEF TypeOK
<1>4. QED
  BY <1>2, <1>3 DEF LockMount

\* A mount that ends under its handler finds the staging path free.
LEMMA MountEndsStep ==
    ASSUME StageInv, NEW h \in Handlers, MountEnds(h)
    PROVE  StageInv'
<1> DEFINE v == call[h].v
<1>0. /\ pc[h] = "mount" /\ Holds(h) /\ call[h].op = "stage" /\ TypeOK /\ MountInv
      /\ mountMutex' = None /\ UNCHANGED <<bound, late, stray>>
  BY DEF MountEnds, StageInv, CallInv, Holds
<1>1. faults' \in 0..MaxFaults
  BY <1>0, FaultsType DEF MountEnds
<1>2. v \in Volumes /\ staging \in [Volumes -> Nat]
  BY <1>0, Working
<1>3. device[v] = "uncertain" /\ (v \notin stray => staging[v] = 0)
  BY <1>0, <1>2 DEF MountInv
<1>4. CASE Reply(h, TRUE) /\ staging' = [staging EXCEPT ![v] = @ + 1]
  <2>1. Control' BY <1>0, <1>4, ReplyControl
  <2>2. /\ staging' \in [Volumes -> Nat] /\ staging'[v] = staging[v] + 1
        /\ \A w \in Volumes : w # v => staging'[w] = staging[w]
    BY <1>2, <1>4
  <2>3. v \notin stray' => staging'[v] = 1
    BY <1>0, <1>3, <2>2
  <2>4. MountInv' BY <1>0, <1>3, <1>4, <2>2, <2>3, ReplyMount
  <2>5. BindInv' BY <1>0, <1>4, ReplyBind
  <2>6. QED BY <1>0, <1>1, <2>1, <2>2, <2>4, <2>5, Types DEF TypeOK
<1>5. CASE Reply(h, FALSE) /\ UNCHANGED staging
  <2>1. Control' BY <1>0, <1>5, ReplyControl
  <2>2. MountInv' BY <1>0, <1>5, ReplyMount
  <2>3. BindInv' BY <1>0, <1>5, ReplyBind
  <2>4. QED BY <1>0, <1>1, <1>5, <2>1, <2>2, <2>3, Types DEF TypeOK
<1>6. QED
  BY <1>4, <1>5 DEF MountEnds, Ok, Error

\* A mount that outlives its handler makes the volume stray.
LEMMA MountTimeoutStep ==
    ASSUME StageInv, NEW h \in Handlers, MountTimeout(h)
    PROVE  StageInv'
<1> DEFINE v == call[h].v
<1>0. /\ pc[h] = "mount" /\ Holds(h) /\ call[h].op = "stage" /\ TypeOK
      /\ mountMutex' = None /\ Step(h, "service") /\ UNCHANGED <<staging, bound, faults>>
  BY DEF MountTimeout, StageInv, CallInv, Holds
<1>1. v \in Volumes /\ late \in [Volumes -> Nat] /\ stray \subseteq Volumes
  BY <1>0, Working
<1>2. PICK running \in BOOLEAN : MountOutlives(v, running)
  BY DEF MountTimeout
<1>3. /\ late' \in [Volumes -> Nat] /\ stray' \subseteq Volumes /\ stray \subseteq stray'
      /\ \A w \in Volumes \ stray' : late'[w] = late[w]
  BY <1>1, <1>2 DEF MountOutlives
<1>4. Control' BY <1>0, StepControl
<1>5. MountInv' /\ BindInv' BY <1>0, <1>3, StepMount
<1>6. QED BY <1>0, <1>3, <1>4, <1>5, Types DEF TypeOK

\* An unmount that succeeds leaves nothing on the staging path.
LEMMA NodeUnstageVolumeStep ==
    ASSUME StageInv, NEW h \in Handlers, NodeUnstageVolume(h)
    PROVE  StageInv'
<1> DEFINE v == call[h].v
<1>0. /\ pc[h] = "umount" /\ Holds(h) /\ call[h].op = "unstage" /\ call[h] \in Requests
      /\ TypeOK /\ KubeletInv /\ UNCHANGED <<bound, late, mountMutex>>
  BY DEF NodeUnstageVolume, StageInv, CallInv, Holds
<1>1. faults' \in 0..MaxFaults
  BY <1>0, FaultsType DEF NodeUnstageVolume
<1>2. /\ v \in Volumes /\ call[h].p = None /\ staging \in [Volumes -> Nat]
      /\ stray \subseteq Volumes /\ (v \notin stray => staging[v] \in {0, 1})
  BY <1>0, Working, RequestParts
<1>3. h \notin gone => device[v] = "uncertain"
  BY <1>0, <1>2 DEF KubeletInv, Awaited
<1>4. ASSUME NEW ok \in BOOLEAN, Reply(h, ok), h \notin gone,
             staging' = Umount(v), UNCHANGED stray
      PROVE  StageInv'
  <2>1. Control' BY <1>0, <1>4, ReplyControl
  <2>2. /\ staging' \in [Volumes -> Nat] /\ (v \notin stray => staging'[v] = 0)
        /\ \A w \in Volumes : w # v => staging'[w] = staging[w]
    BY <1>2, <1>4 DEF Umount
  <2>3. MountInv' BY <1>0, <1>3, <1>4, <2>2, ReplyMount
  <2>4. BindInv' BY <1>0, <1>4, ReplyBind
  <2>5. QED BY <1>0, <1>1, <1>4, <2>1, <2>2, <2>3, <2>4, Types DEF TypeOK
<1>5. ASSUME Reply(h, FALSE), UNCHANGED <<staging, stray>>
      PROVE  StageInv'
  <2>1. Control' BY <1>0, <1>5, ReplyControl
  <2>2. MountInv' BY <1>0, <1>5, ReplyMount
  <2>3. BindInv' BY <1>0, <1>5, ReplyBind
  <2>4. QED BY <1>0, <1>1, <1>5, <2>1, <2>2, <2>3, Types DEF TypeOK
<1>6. ASSUME Reply(h, TRUE), UNCHANGED staging, stray' = stray \cup {v}
      PROVE  StageInv'
  <2>1. Control' BY <1>0, <1>6, ReplyControl
  <2>2. MountInv' BY <1>0, <1>6, ReplyMount
  <2>3. BindInv' BY <1>0, <1>6, ReplyBind
  <2>4. QED BY <1>0, <1>1, <1>2, <1>6, <2>1, <2>2, <2>3, Types DEF TypeOK
<1>7. QED
  BY <1>4, <1>5, <1>6 DEF NodeUnstageVolume, Ok, Error

\* The return of a request about a target path: kubelet's view and the bind agree.
LEMMA ReplyTarget ==
    ASSUME StageInv, NEW h \in Handlers, Holds(h), NEW ok \in BOOLEAN, Reply(h, ok),
           call[h].op \in {"publish", "unpublish"}, stray \subseteq stray',
           \A v \in Volumes, p \in Pods :
               v # call[h].v \/ p # call[h].p => bound'[v][p] = bound[v][p],
           NEW new, bound'[call[h].v][call[h].p] = new,
           call[h].op = "publish" /\ (ok \/ new # bound[call[h].v][call[h].p]) => new # <<>>,
           call[h].op = "unpublish" /\ new # bound[call[h].v][call[h].p] => h \notin gone,
           call[h].v \notin stray' =>
               /\ \/ new = bound[call[h].v][call[h].p]
                  \/ h \notin gone /\ (ok \/ new = <<>>)
               /\ ok /\ h \notin gone =>
                      new = IF call[h].op = "publish" THEN <<"nfs">> ELSE <<>>
    PROVE  BindInv'
<1> USE DEF StageInv
<1>0. call[h] \in Requests /\ call[h].v \in Volumes /\ call[h].p \in Pods
  BY RequestParts DEF CallInv, Holds
<1>1. \A v \in Volumes, p \in Pods :
          target'[v][p] = IF ok /\ h \notin gone /\ v = call[h].v /\ call[h].p = p
                          THEN Answer(call[h].op) ELSE target[v][p]
  BY ReplyPoint
<1>2. h \notin gone => target[call[h].v][call[h].p] =
          IF call[h].op = "publish" THEN "uncertain" ELSE "leaving"
  BY DEF KubeletInv, Awaited, Holds
<1>3. ASSUME NEW v \in Volumes \ stray', NEW p \in Pods
      PROVE  /\ target'[v][p] \in {"none", "uncertain"} => bound'[v][p] = <<>>
             /\ target'[v][p] = "done" => bound'[v][p] = <<"nfs">>
             /\ target'[v][p] = "leaving" => bound'[v][p] \in {<<>>, <<"nfs">>}
  <2>1. /\ target[v][p] \in {"none", "uncertain"} => bound[v][p] = <<>>
        /\ target[v][p] = "done" => bound[v][p] = <<"nfs">>
        /\ target[v][p] = "leaving" => bound[v][p] \in {<<>>, <<"nfs">>}
    BY DEF BindInv, KeptInv, AgreeInv
  <2>2. CASE v # call[h].v \/ p # call[h].p
    BY <1>1, <2>1, <2>2
  <2>3. CASE v = call[h].v /\ p = call[h].p
    <3>1. CASE ok /\ h \notin gone
      BY <1>1, <2>3, <3>1 DEF Answer
    <3>2. CASE ~(ok /\ h \notin gone)
      BY <1>1, <1>2, <2>1, <2>3, <3>2
    <3>3. QED BY <3>1, <3>2
  <2>4. QED BY <2>2, <2>3
<1>4. ASSUME NEW v \in Volumes, NEW p \in Pods, target'[v][p] = "done"
      PROVE  bound'[v][p] # <<>>
  <2>1. target[v][p] = "done" => bound[v][p] # <<>>
    BY DEF BindInv, KeptInv
  <2>2. CASE v # call[h].v \/ p # call[h].p
    BY <1>1, <1>4, <2>1, <2>2
  <2>3. CASE v = call[h].v /\ p = call[h].p
    <3>1. CASE ok /\ h \notin gone
      BY <1>1, <1>4, <2>3, <3>1 DEF Answer
    <3>2. CASE ~(ok /\ h \notin gone)
      BY <1>1, <1>2, <1>4, <2>1, <2>3, <3>2
    <3>3. QED BY <3>1, <3>2
  <2>4. QED BY <2>2, <2>3
<1>5. QED
  BY <1>3, <1>4 DEF BindInv, KeptInv, AgreeInv

\* A bind puts one more mount on the target path.
LEMMA BindType ==
    ASSUME TypeOK, NEW v \in Volumes, NEW p \in Pods
    PROVE  Bind(v, p) \in Seq(Source) /\ Bind(v, p) # <<>>
<1>1. bound[v][p] \in Seq(Source)
  BY DEF TypeOK
<1>2. QED
  BY <1>1 DEF Bind, Source

\* A bind shows the export, and is the only one, or comes too late.
LEMMA NodePublishVolumeStep ==
    ASSUME StageInv, NEW h \in Handlers, NodePublishVolume(h)
    PROVE  StageInv'
<1> DEFINE v == call[h].v
<1> DEFINE p == call[h].p
<1>0. /\ pc[h] = "bind" /\ Holds(h) /\ call[h].op = "publish" /\ call[h] \in Requests
      /\ TypeOK /\ KubeletInv /\ MountInv /\ BindInv /\ UNCHANGED <<staging, late, mountMutex>>
  BY DEF NodePublishVolume, StageInv, CallInv, Holds
<1>1. faults' \in 0..MaxFaults
  BY <1>0, FaultsType DEF NodePublishVolume
<1>2. /\ v \in Volumes /\ p \in Pods /\ staging \in [Volumes -> Nat] /\ stray \subseteq Volumes
      /\ bound \in [Volumes -> [Pods -> Seq(Source)]]
  BY <1>0, Working, RequestParts
<1>3. CASE /\ Reply(h, TRUE)
           /\ bound' = [bound EXCEPT ![v][p] = Bind(v, p)]
           /\ stray' = IF h \in gone THEN stray \cup {v} ELSE stray
  <2> DEFINE new == Bind(v, p)
  <2>1. Control' BY <1>0, <1>3, ReplyControl
  <2>2. stray \subseteq stray' /\ stray' \subseteq Volumes
    BY <1>2, <1>3
  <2>3. MountInv' BY <1>0, <1>3, <2>2, ReplyMount
  <2>4. new \in Seq(Source) /\ new # <<>>
    BY <1>0, <1>2, BindType DEF StageInv
  <2>5. [bound[v] EXCEPT ![p] = new] \in [Pods -> Seq(Source)]
    BY <1>2, <2>4
  <2>6. /\ bound' \in [Volumes -> [Pods -> Seq(Source)]] /\ bound'[v][p] = new
        /\ \A w \in Volumes, q \in Pods : w # v \/ q # p => bound'[w][q] = bound[w][q]
    <3> HIDE DEF new
    <3>1. bound' = [bound EXCEPT ![v] = [bound[v] EXCEPT ![p] = new]]
      BY <1>3 DEF new
    <3>2. QED BY <1>2, <2>5, <3>1
  <2>7. v \notin stray' => h \notin gone /\ new = <<"nfs">>
    <3> SUFFICES ASSUME v \notin stray' PROVE h \notin gone /\ new = <<"nfs">>
      OBVIOUS
    <3>1. h \notin gone /\ v \notin stray
      BY <1>3
    <3>2. target[v][p] = "uncertain"
      BY <1>0, <3>1 DEF KubeletInv, Awaited
    <3>3. device[v] = "done" /\ bound[v][p] = <<>>
      BY <1>0, <1>2, <3>1, <3>2 DEF KubeletInv, BindInv, AgreeInv
    <3>4. staging[v] = 1
      BY <1>0, <1>2, <3>1, <3>3 DEF MountInv
    <3>5. QED BY <3>1, <3>3, <3>4 DEF Bind
  <2>8. BindInv'
    <3> HIDE DEF new
    <3>1. new # <<>>
      BY <2>4
    <3>2. Holds(h) /\ Reply(h, TRUE) /\ call[h].op = "publish" /\ stray \subseteq stray'
      BY <1>0, <1>3, <2>2
    <3>3. /\ bound'[call[h].v][call[h].p] = new
          /\ \A w \in Volumes, q \in Pods :
                 w # call[h].v \/ q # call[h].p => bound'[w][q] = bound[w][q]
      BY <2>6
    <3>4. call[h].v \notin stray' => h \notin gone /\ new = <<"nfs">>
      BY <2>7
    <3> HIDE DEF v, p
    <3>5. QED BY <3>1, <3>2, <3>3, <3>4, ReplyTarget
  <2>9. QED BY <1>0, <1>1, <2>1, <2>2, <2>3, <2>6, <2>8, Types DEF TypeOK
<1>4. CASE Reply(h, FALSE) /\ UNCHANGED <<bound, stray>>
  <2>1. Control' BY <1>0, <1>4, ReplyControl
  <2>2. MountInv' BY <1>0, <1>4, ReplyMount
  <2>3. BindInv'
    <3> DEFINE new == bound[v][p]
    <3>1. bound'[v][p] = new BY <1>4
    <3> HIDE DEF new
    <3>2. QED BY <1>0, <1>4, <3>1, ReplyTarget DEF new
  <2>4. QED BY <1>0, <1>1, <1>4, <2>1, <2>2, <2>3, Types DEF TypeOK
<1>5. QED
  BY <1>3, <1>4 DEF NodePublishVolume, Ok, Error

\* An unbind that succeeds leaves nothing on the target path.
LEMMA NodeUnpublishVolumeStep ==
    ASSUME StageInv, NEW h \in Handlers, NodeUnpublishVolume(h)
    PROVE  StageInv'
<1> DEFINE v == call[h].v
<1> DEFINE p == call[h].p
<1>0. /\ pc[h] = "unbind" /\ Holds(h) /\ call[h].op = "unpublish" /\ call[h] \in Requests
      /\ TypeOK /\ KubeletInv /\ BindInv /\ UNCHANGED <<staging, late, mountMutex>>
  BY DEF NodeUnpublishVolume, StageInv, CallInv, Holds
<1>1. faults' \in 0..MaxFaults
  BY <1>0, FaultsType DEF NodeUnpublishVolume
<1>2. /\ v \in Volumes /\ p \in Pods /\ stray \subseteq Volumes
      /\ bound \in [Volumes -> [Pods -> Seq(Source)]]
  BY <1>0, Working, RequestParts
<1>3. ASSUME NEW ok \in BOOLEAN, Reply(h, ok), h \notin gone,
             bound' = Unbind(v, p), UNCHANGED stray
      PROVE  StageInv'
  <2> DEFINE new == IF bound[v][p] = <<>> THEN bound[v][p] ELSE Tail(bound[v][p])
  <2>1. Control' BY <1>0, <1>3, ReplyControl
  <2>2. MountInv' BY <1>0, <1>3, ReplyMount
  <2>3. bound[v][p] \in Seq(Source) /\ new \in Seq(Source)
    BY <1>2
  <2>4. [bound[v] EXCEPT ![p] = new] \in [Pods -> Seq(Source)]
    BY <1>2, <2>3
  <2>5. /\ bound' \in [Volumes -> [Pods -> Seq(Source)]] /\ bound'[v][p] = new
        /\ \A w \in Volumes, q \in Pods : w # v \/ q # p => bound'[w][q] = bound[w][q]
    <3> HIDE DEF new
    <3>1. bound' = [bound EXCEPT ![v] = [bound[v] EXCEPT ![p] = new]]
      BY <1>3 DEF new, Unbind
    <3>2. QED BY <1>2, <2>4, <3>1
  <2>6. v \notin stray => new = <<>>
    <3> SUFFICES ASSUME v \notin stray PROVE new = <<>>
      OBVIOUS
    <3>1. target[v][p] = "leaving"
      BY <1>0, <1>3 DEF KubeletInv, Awaited
    <3>2. bound[v][p] \in {<<>>, <<"nfs">>}
      BY <1>0, <1>2, <3>1 DEF BindInv, KeptInv, AgreeInv
    <3>3. Tail(<<"nfs">>) = <<>>
      OBVIOUS
    <3>4. QED BY <3>2, <3>3
  <2>7. BindInv'
    <3> HIDE DEF new
    <3>1. QED BY <1>0, <1>3, <2>5, <2>6, ReplyTarget
  <2>8. QED BY <1>0, <1>1, <1>3, <2>1, <2>2, <2>5, <2>7, Types DEF TypeOK
<1>4. ASSUME Reply(h, FALSE), UNCHANGED <<bound, stray>>
      PROVE  StageInv'
  <2>1. Control' BY <1>0, <1>4, ReplyControl
  <2>2. MountInv' BY <1>0, <1>4, ReplyMount
  <2>3. BindInv'
    <3> DEFINE new == bound[v][p]
    <3>1. bound'[v][p] = new BY <1>4
    <3> HIDE DEF new
    <3>2. QED BY <1>0, <1>4, <3>1, ReplyTarget DEF new
  <2>4. QED BY <1>0, <1>1, <1>4, <2>1, <2>2, <2>3, Types DEF TypeOK
<1>5. ASSUME Reply(h, TRUE), UNCHANGED bound, stray' = stray \cup {v}
      PROVE  StageInv'
  <2>1. Control' BY <1>0, <1>5, ReplyControl
  <2>2. MountInv' BY <1>0, <1>5, ReplyMount
  <2>3. BindInv'
    <3> DEFINE new == bound[v][p]
    <3>1. bound'[v][p] = new BY <1>5
    <3> HIDE DEF new
    <3>2. QED BY <1>0, <1>5, <3>1, ReplyTarget DEF new
  <2>4. QED BY <1>0, <1>1, <1>2, <1>5, <2>1, <2>2, <2>3, Types DEF TypeOK
<1>6. QED
  BY <1>3, <1>4, <1>5 DEF NodeUnpublishVolume, Ok, Error

\* A step that is not a handler's at the staging path changes no mount and no
\* view, and starts no mount.
LEMMA MountsKept ==
    ASSUME StageInv, UNCHANGED <<mountVars, stray>>,
           \A v \in Volumes : device'[v] \in {device[v], "uncertain"},
           \A h \in Handlers : pc'[h] \in {"mutex", "mount"} =>
               pc[h] = pc'[h] /\ call'[h] = call[h] /\ call[h].v \in Volumes
    PROVE  MountInv'
<1>1. /\ \A h \in Handlers : pc[h] = "mount" => device[call[h].v] = "uncertain"
      /\ \A v \in Volumes \ stray :
             /\ late[v] = 0 /\ staging[v] <= 1
             /\ device[v] = "none" => staging[v] = 0
             /\ device[v] = "done" => staging[v] = 1
             /\ \A h \in Handlers :
                    pc[h] \in {"mutex", "mount"} /\ call[h].v = v => staging[v] = 0
  BY DEF StageInv, MountInv
<1>2. \A h \in Handlers : pc'[h] = "mount" => device'[call'[h].v] = "uncertain"
  BY <1>1
<1>3. staging' = staging /\ late' = late /\ stray' = stray
  BY DEF mountVars
<1>4. \A v \in Volumes \ stray' :
          /\ late'[v] = 0 /\ staging'[v] <= 1
          /\ device'[v] = "none" => staging'[v] = 0
          /\ device'[v] = "done" => staging'[v] = 1
          /\ \A h \in Handlers :
                 pc'[h] \in {"mutex", "mount"} /\ call'[h].v = v => staging'[v] = 0
  BY <1>1, <1>3
<1>5. QED
  BY <1>2, <1>4 DEF MountInv

\* LockPV gives the volume to one handler.
LEMMA LockPVStep ==
    ASSUME StageInv, NEW h \in Handlers, LockPV(h)
    PROVE  StageInv'
<1> USE DEF StageInv
<1> DEFINE v == call[h].v
<1> DEFINE label == FirstStep(call[h].op)
<1>0. /\ pc[h] = "lock" /\ PVLock[v] = None /\ PVLock' = [PVLock EXCEPT ![v] = h]
      /\ pc' = [pc EXCEPT ![h] = label]
      /\ UNCHANGED <<staging, bound, late, mountMutex, call, gone, device, target, calls, stray, faults>>
      /\ call[h] \in Requests
  BY DEF LockPV, Goto, mountVars, kubeletVars, CallInv
<1>1. v \in Volumes /\ call[h].op \in {"stage", "unstage", "publish", "unpublish"}
  BY <1>0, RequestParts
<1>2. /\ call[h].op = "stage" => label = "service"
      /\ call[h].op = "unstage" => label = "umount"
      /\ call[h].op = "publish" => label = "bind"
      /\ call[h].op = "unpublish" => label = "unbind"
  BY <1>1 DEF FirstStep
<1>3. label \in {"service", "umount", "bind", "unbind"}
  BY <1>1, <1>2
<1> HIDE DEF label
<1>4. /\ pc' \in [Handlers -> Labels] /\ PVLock' \in [Volumes -> Handlers \cup {None}]
      /\ pc'[h] = label /\ \A g \in Handlers \ {h} : pc'[g] = pc[g]
      /\ PVLock'[v] = h /\ \A w \in Volumes \ {v} : PVLock'[w] = PVLock[w]
  BY <1>0, <1>1, <1>3 DEF TypeOK, Labels
<1>5. TypeOK'
  BY <1>0, <1>4 DEF TypeOK
<1>6. CallInv'
  BY <1>0, <1>1, <1>2, <1>3, <1>4 DEF CallInv
<1>7. LockInv'
  <2> SUFFICES ASSUME NEW g \in Handlers, Holds(g)' PROVE PVLock'[call'[g].v] = g
    BY DEF LockInv
  <2>1. CASE g = h
    BY <1>0, <1>4, <2>1
  <2>2. CASE g # h
    <3>1. Holds(g) /\ PVLock[call[g].v] = g /\ call[g] \in Requests
      BY <1>4, <2>2 DEF Holds, LockInv, CallInv
    <3>2. call[g].v \in Volumes \ {v}
      BY <1>0, <3>1, RequestParts, NodeStageAssumption
    <3>3. QED BY <1>0, <1>4, <3>1, <3>2
  <2>3. QED BY <2>1, <2>2
<1>8. \A g \in Handlers : Awaited(g)' <=> Awaited(g)
  BY <1>0, <1>3, <1>4 DEF Awaited
<1>9. KubeletInv'
  BY <1>0, <1>8 DEF KubeletInv
<1>10. MountInv'
  <2>1. \A g \in Handlers : pc'[g] \in {"mutex", "mount"} =>
            pc[g] = pc'[g] /\ call'[g] = call[g] /\ call[g].v \in Volumes
    BY <1>0, <1>3, <1>4, RequestParts DEF CallInv
  <2>2. QED BY <1>0, <2>1, MountsKept DEF mountVars
<1>11. BindInv'
  BY <1>0 DEF BindInv, KeptInv, AgreeInv
<1>12. QED
  BY <1>5, <1>6, <1>7, <1>9, <1>10, <1>11

\* A deadline changes nothing but what kubelet waits for.
LEMMA GiveUpStep ==
    ASSUME StageInv, NEW h \in Handlers, GiveUp(h)
    PROVE  StageInv'
<1> USE DEF StageInv
<1>0. /\ gone' = gone \cup {h}
      /\ UNCHANGED <<staging, bound, late, PVLock, mountMutex, pc, call, device, target, calls,
                     stray, faults>>
  BY DEF GiveUp, mountVars, kubeletVars
<1>1. TypeOK' BY <1>0 DEF TypeOK
<1>2. CallInv' /\ LockInv' BY <1>0 DEF CallInv, LockInv, Holds
<1>3. KubeletInv'
  <2>1. \A g \in Handlers : Awaited(g)' => Awaited(g)
    BY <1>0 DEF Awaited
  <2>2. QED BY <1>0, <2>1 DEF KubeletInv
<1>4. MountInv' BY <1>0 DEF MountInv
<1>5. BindInv' BY <1>0 DEF BindInv, KeptInv, AgreeInv
<1>6. QED BY <1>1, <1>2, <1>3, <1>4, <1>5

\* kubelet calls for a path only when it waits for no other call of it, and notes
\* what it does not know.
LEMMA CallStep ==
    ASSUME StageInv, NEW h \in Handlers, NEW req \in Requests, Call(h, req)
    PROVE  StageInv'
<1> USE DEF StageInv
<1> DEFINE view == IF req.op = "unpublish" THEN "leaving" ELSE "uncertain"
<1>0. /\ pc[h] = "idle" /\ calls' = [calls EXCEPT ![req.v] = @ + 1] /\ Permitted(req)
      /\ pc' = [pc EXCEPT ![h] = "lock"] /\ call' = [call EXCEPT ![h] = req]
      /\ Learn(req, view)
      /\ UNCHANGED <<staging, bound, late, PVLock, mountMutex, gone, stray, faults>>
  BY DEF Call, mountVars
<1>1. /\ req.v \in Volumes /\ view \in View
      /\ \/ req.op \in {"stage", "unstage"} /\ req.p = None
         \/ req.op \in {"publish", "unpublish"} /\ req.p \in Pods /\ req.p # None
  BY RequestParts DEF View
<1>2. /\ device' \in [Volumes -> View] /\ target' \in [Volumes -> [Pods -> View]]
      /\ \A v \in Volumes :
             device'[v] = IF v = req.v /\ req.p = None THEN view ELSE device[v]
      /\ \A v \in Volumes, p \in Pods :
             target'[v][p] = IF v = req.v /\ req.p = p THEN view ELSE target[v][p]
  <2> HIDE DEF view
  <2>1. device \in [Volumes -> View] /\ target \in [Volumes -> [Pods -> View]]
    BY DEF TypeOK
  <2>2. QED BY <1>0, <1>1, <2>1, LearnPoint
<1>3. /\ pc'[h] = "lock" /\ call'[h] = req
      /\ \A g \in Handlers \ {h} : pc'[g] = pc[g] /\ call'[g] = call[g]
  BY <1>0 DEF TypeOK
<1>4. TypeOK'
  <2>1. calls \in [Volumes -> Nat] /\ pc \in [Handlers -> Labels]
    BY DEF TypeOK
  <2>2. calls' \in [Volumes -> Nat]
    BY <1>0, <1>1, <2>1
  <2>3. pc' \in [Handlers -> Labels]
    BY <1>0, <2>1 DEF Labels
  <2>4. call' \in [Handlers -> Requests \cup {NoCall}]
    BY <1>0 DEF TypeOK
  <2>5. QED BY <1>0, <1>2, <2>2, <2>3, <2>4 DEF TypeOK
<1>5. CallInv'
  BY <1>3 DEF CallInv
<1>6. LockInv'
  BY <1>0, <1>3 DEF LockInv, Holds
<1>7. \A g \in Handlers : g # h /\ Awaited(g)' =>
          /\ Awaited(g) /\ call'[g] = call[g] /\ call[g] \in Requests
          /\ call[g].v = req.v => call[g].p # None /\ req.p # None /\ call[g].p # req.p
  <2> SUFFICES ASSUME NEW g \in Handlers, g # h, Awaited(g)'
               PROVE  /\ Awaited(g) /\ call'[g] = call[g] /\ call[g] \in Requests
                      /\ call[g].v = req.v =>
                             call[g].p # None /\ req.p # None /\ call[g].p # req.p
    OBVIOUS
  <2>1. Awaited(g) /\ call'[g] = call[g] /\ call[g] \in Requests
    BY <1>0, <1>3 DEF Awaited, CallInv
  <2>2. call[g] \in Pending
    BY <2>1 DEF Pending, Awaited
  <2>3. QED
    BY <1>0, <2>1, <2>2 DEF Permitted
<1>8. /\ req.op \in {"stage", "unstage"} =>
             device[req.v] # "done" \/ \A p \in Pods : target[req.v][p] = "none"
      /\ req.op = "publish" =>
             device[req.v] = "done" /\ target[req.v][req.p] \in {"none", "uncertain"}
      /\ req.op = "unpublish" => target[req.v][req.p] # "none"
  BY <1>0, <1>1 DEF Permitted
<1>9. KubeletInv'
  <2>1. ASSUME NEW i \in Handlers, NEW g \in Handlers, Awaited(i)', Awaited(g)',
               call'[i].v = call'[g].v, i # g
        PROVE  call'[i].p # None /\ call'[g].p # None /\ call'[i].p # call'[g].p
    BY <1>3, <1>7, <2>1 DEF KubeletInv
  <2>2. ASSUME NEW g \in Handlers, Awaited(g)'
        PROVE  /\ call'[g].p = None => device'[call'[g].v] = "uncertain"
               /\ call'[g].op = "publish" => target'[call'[g].v][call'[g].p] = "uncertain"
               /\ call'[g].op = "unpublish" => target'[call'[g].v][call'[g].p] = "leaving"
    <3>1. CASE g = h
      BY <1>1, <1>2, <1>3, <3>1
    <3>2. CASE g # h
      <4>1. /\ Awaited(g) /\ call'[g] = call[g] /\ call[g].v \in Volumes
            /\ call[g].op \in {"publish", "unpublish"} => call[g].p \in Pods
            /\ call[g].v = req.v => call[g].p # None /\ req.p # None /\ call[g].p # req.p
        BY <1>7, <2>2, <3>2, RequestParts
      <4>2. /\ call[g].p = None => device[call[g].v] = "uncertain"
            /\ call[g].op = "publish" => target[call[g].v][call[g].p] = "uncertain"
            /\ call[g].op = "unpublish" => target[call[g].v][call[g].p] = "leaving"
        BY <4>1 DEF KubeletInv
      <4>3. QED BY <1>2, <4>1, <4>2
    <3>3. QED BY <3>1, <3>2
  <2>3. ASSUME NEW v \in Volumes, NEW p \in Pods, target'[v][p] # "none"
        PROVE  device'[v] = "done"
    <3>1. target[v][p] # "none" => device[v] = "done"
      BY DEF KubeletInv
    <3>2. CASE v # req.v
      BY <1>2, <2>3, <3>1, <3>2
    <3>3. CASE v = req.v /\ req.p = None
      <4>1. target'[v][p] = target[v][p]
        BY <1>2, <3>3, NodeStageAssumption
      <4>2. QED BY <1>1, <1>8, <2>3, <3>1, <3>3, <4>1
    <3>4. CASE v = req.v /\ req.p # None
      <4>1. device'[v] = device[v] /\ req.p \in Pods
        BY <1>1, <1>2, <3>4
      <4>2. target[v][req.p] # "none" => device[v] = "done"
        BY <4>1 DEF KubeletInv
      <4>3. device[v] = "done"
        BY <1>1, <1>8, <3>4, <4>2
      <4>4. QED BY <4>1, <4>3
    <3>5. QED BY <3>2, <3>3, <3>4
  <2>4. QED BY <2>1, <2>2, <2>3 DEF KubeletInv
<1>10. MountInv'
  <2>1. \A g \in Handlers : pc'[g] \in {"mutex", "mount"} =>
            pc[g] = pc'[g] /\ call'[g] = call[g] /\ call[g].v \in Volumes
    BY <1>3, RequestParts DEF CallInv
  <2>2. \A v \in Volumes : device'[v] \in {device[v], "uncertain"}
    BY <1>1, <1>2
  <2>3. QED BY <1>0, <2>1, <2>2, MountsKept DEF mountVars
<1>11. KeptInv'
  <2>1. \A v \in Volumes, p \in Pods : target'[v][p] = "done" => target[v][p] = "done"
    BY <1>2
  <2>2. QED BY <1>0, <2>1 DEF BindInv, KeptInv
<1>12. AgreeInv'
  <2> SUFFICES ASSUME NEW v \in Volumes \ stray, NEW p \in Pods
               PROVE  /\ target'[v][p] \in {"none", "uncertain"} => bound[v][p] = <<>>
                      /\ target'[v][p] = "done" => bound[v][p] = <<"nfs">>
                      /\ target'[v][p] = "leaving" => bound[v][p] \in {<<>>, <<"nfs">>}
    BY <1>0 DEF AgreeInv
  <2>1. /\ target[v][p] \in {"none", "uncertain"} => bound[v][p] = <<>>
        /\ target[v][p] = "done" => bound[v][p] = <<"nfs">>
        /\ target[v][p] = "leaving" => bound[v][p] \in {<<>>, <<"nfs">>}
        /\ target[v][p] \in View
    BY DEF BindInv, KeptInv, AgreeInv, TypeOK
  <2>2. CASE v = req.v /\ req.p = p
    <3>1. CASE req.op = "publish"
      BY <1>2, <1>8, <2>1, <2>2, <3>1
    <3>2. CASE req.op = "unpublish"
      BY <1>2, <1>8, <2>1, <2>2, <3>2 DEF View
    <3>3. QED BY <1>1, <2>2, <3>1, <3>2, NodeStageAssumption
  <2>3. CASE ~(v = req.v /\ req.p = p)
    BY <1>2, <2>1, <2>3
  <2>4. QED BY <2>2, <2>3
<1>13. QED
  BY <1>4, <1>5, <1>6, <1>9, <1>10, <1>11, <1>12 DEF BindInv

\* A mount without a handler belongs to a stray volume.
LEMMA FinishMountStep ==
    ASSUME StageInv, NEW v \in Volumes, FinishMount(v)
    PROVE  StageInv'
<1> USE DEF StageInv
<1>0. /\ late[v] > 0 /\ late' = [late EXCEPT ![v] = @ - 1]
      /\ staging' = staging \/ staging' = [staging EXCEPT ![v] = @ + 1]
      /\ UNCHANGED <<bound, PVLock, mountMutex, pc, call, gone, device, target, calls, stray, faults>>
  BY DEF FinishMount, handlerVars, kubeletVars
<1>1. staging \in [Volumes -> Nat] /\ late \in [Volumes -> Nat]
  BY DEF TypeOK
<1>2. v \in stray
  BY <1>0, <1>1 DEF MountInv
<1>3. /\ late' \in [Volumes -> Nat] /\ staging' \in [Volumes -> Nat]
      /\ \A w \in Volumes \ stray : late'[w] = late[w] /\ staging'[w] = staging[w]
  BY <1>0, <1>1, <1>2
<1>4. TypeOK' BY <1>0, <1>3 DEF TypeOK
<1>5. CallInv' /\ LockInv' BY <1>0 DEF CallInv, LockInv, Holds
<1>6. KubeletInv' BY <1>0 DEF KubeletInv, Awaited
<1>7. MountInv'
  BY <1>0, <1>3 DEF MountInv
<1>8. BindInv' BY <1>0 DEF BindInv, KeptInv, AgreeInv
<1>9. QED BY <1>4, <1>5, <1>6, <1>7, <1>8

\* A restart takes locks and handlers, and makes stray what still mounts and what
\* was bound without an answer.
LEMMA RestartStep ==
    ASSUME StageInv, Restart
    PROVE  StageInv'
<1> USE DEF StageInv
<1> DEFINE mounting == {call[h].v : h \in {g \in Handlers : pc[g] = "mount"}}
<1> DEFINE binding  == {call[h] : h \in {g \in Handlers : pc[g] = "bind"}}
<1>0. /\ PVLock' = [v \in Volumes |-> None] /\ mountMutex' = None
      /\ pc' = [h \in Handlers |-> "idle"] /\ call' = [h \in Handlers |-> NoCall]
      /\ gone' = {} /\ UNCHANGED <<staging, device, target, calls>>
      /\ Fails
  BY DEF Restart, kubeletVars
<1>1. PICK on \in SUBSET mounting, ended \in SUBSET binding :
          /\ late' = [v \in Volumes |-> IF v \in on THEN late[v] + 1 ELSE late[v]]
          /\ bound' = [v \in Volumes |-> [p \in Pods |->
                 IF [op |-> "publish", v |-> v, p |-> p] \in ended
                 THEN Bind(v, p) ELSE bound[v][p]]]
          /\ stray' = stray \cup on \cup {req.v : req \in ended}
  BY DEF Restart
<1>2. on \subseteq Volumes /\ \A req \in ended : req.v \in Volumes
  BY <1>1, RequestParts DEF CallInv
<1>3. faults' \in 0..MaxFaults
  BY <1>0, FaultsType
<1>4. late' \in [Volumes -> Nat] /\ stray' \subseteq Volumes
      /\ \A v \in Volumes \ stray' : v \notin stray /\ late'[v] = late[v]
  BY <1>1, <1>2 DEF TypeOK
<1>5. ASSUME NEW v \in Volumes, NEW p \in Pods
      PROVE  /\ bound'[v][p] \in Seq(Source)
             /\ \/ bound'[v][p] = bound[v][p]
                \/ v \in stray' /\ bound'[v][p] # <<>>
  <2>1. CASE [op |-> "publish", v |-> v, p |-> p] \in ended
    <3>1. v \in stray'
      BY <1>1, <2>1
    <3>2. bound'[v][p] = Bind(v, p)
      BY <1>1, <2>1
    <3>3. QED BY <3>1, <3>2, BindType
  <2>2. CASE [op |-> "publish", v |-> v, p |-> p] \notin ended
    <3>1. bound'[v][p] = bound[v][p]
      BY <1>1, <2>2
    <3>2. QED BY <3>1 DEF TypeOK
  <2>3. QED BY <2>1, <2>2
<1>6. bound' \in [Volumes -> [Pods -> Seq(Source)]]
  BY <1>1, <1>5
<1>7. TypeOK'
  BY <1>0, <1>3, <1>4, <1>6 DEF TypeOK, Labels
<1>8. CallInv' /\ LockInv'
  BY <1>0 DEF CallInv, LockInv, Holds
<1>9. KubeletInv'
  <2>1. \A h \in Handlers : ~Awaited(h)'
    BY <1>0 DEF Awaited
  <2>2. QED BY <1>0, <2>1 DEF KubeletInv
<1>10. MountInv'
  BY <1>0, <1>4 DEF MountInv
<1>11. KeptInv' /\ AgreeInv'
  BY <1>0, <1>4, <1>5 DEF BindInv, KeptInv, AgreeInv
<1>12. QED
  BY <1>7, <1>8, <1>9, <1>10, <1>11 DEF BindInv

-----------------------------------------------------------------------------
(* Theorems *)

\* Nothing is mounted, and kubelet knows it.
LEMMA InitStageInv == Init => StageInv
<1> SUFFICES ASSUME Init PROVE StageInv
  OBVIOUS
<1>1. TypeOK
  BY NodeStageAssumption DEF Init, TypeOK, Labels, View
<1>2. CallInv /\ LockInv /\ KubeletInv
  BY DEF Init, CallInv, LockInv, Holds, KubeletInv, Awaited
<1>3. MountInv /\ BindInv
  BY DEF Init, MountInv, BindInv, KeptInv, AgreeInv
<1>4. QED BY <1>1, <1>2, <1>3 DEF StageInv

\* Every step keeps the mounts and kubelet's view together.
LEMMA NextStageInv == StageInv /\ [Next]_vars => StageInv'
<1> SUFFICES ASSUME StageInv, [Next]_vars PROVE StageInv'
  OBVIOUS
<1>1. CASE \E h \in Handlers : Handler(h)
  BY <1>1, LockPVStep, GetServiceStep, isAlreadyMountedStep, LockMountStep, MountEndsStep,
     MountTimeoutStep, NodeUnstageVolumeStep, NodePublishVolumeStep, NodeUnpublishVolumeStep
     DEF Handler
<1>2. CASE \E h \in Handlers : GiveUp(h) \/ \E req \in Requests : Call(h, req)
  BY <1>2, GiveUpStep, CallStep
<1>3. CASE \E v \in Volumes : FinishMount(v)
  BY <1>3, FinishMountStep
<1>4. CASE Restart
  BY <1>4, RestartStep
<1>5. CASE UNCHANGED vars
  <2>1. UNCHANGED <<staging, bound, late, PVLock, mountMutex, pc, call, gone, device, target,
                    calls, stray, faults>>
    BY <1>5 DEF vars, mountVars, handlerVars, kubeletVars
  <2>2. TypeOK' /\ CallInv' /\ LockInv'
    BY <2>1 DEF StageInv, TypeOK, CallInv, LockInv, Holds
  <2>3. KubeletInv' /\ MountInv' /\ BindInv'
    BY <2>1 DEF StageInv, KubeletInv, Awaited, MountInv, BindInv, KeptInv, AgreeInv
  <2>4. QED BY <2>2, <2>3 DEF StageInv
<1>6. QED
  BY <1>1, <1>2, <1>3, <1>4, <1>5 DEF Next

\* In every reachable state the lock, kubelet's view and the mounts of a node are
\* related as StageInv says.
THEOREM Inductive == Spec => []StageInv
BY InitStageInv, NextStageInv, PTL DEF Spec

\* Mounts, locks and views have their types: no unmount takes a mount that is not
\* there.
THEOREM TypeCorrect == Spec => []TypeOK
<1>1. StageInv => TypeOK
  BY DEF StageInv
<1>2. QED BY <1>1, Inductive, PTL

\* What kubelet knows to be unstaged or unpublished is not mounted, for any number
\* of volumes, pods, restarts of the driver and calls that were given up and made
\* again, except where a command's effect is without its answer (stray).
THEOREM ReleaseUnmounts == Spec => []ReleasedIsUnmounted
<1>1. StageInv => ReleasedIsUnmounted
  BY DEF StageInv, MountInv, BindInv, AgreeInv, ReleasedIsUnmounted
<1>2. QED BY <1>1, Inductive, PTL

\* What kubelet holds to be published is bound, without exception, and shows the
\* shared volume and not a directory of the node unless the volume is stray.
THEOREM PublishShares == Spec => []PublishedIsShared
<1>1. StageInv => PublishedIsShared
  BY DEF StageInv, BindInv, KeptInv, AgreeInv, PublishedIsShared
<1>2. QED BY <1>1, Inductive, PTL
=============================================================================
