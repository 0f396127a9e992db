---------------------------- MODULE NodeMonitor -----------------------------
(***************************************************************************)
(* The controller's node monitor (nfs/nodemonitor.go): one pinger per      *)
(* worker node that was in the cluster when the controller started         *)
(* (BeforeServe), the NodeStatus it keeps, and the dump of all exports it  *)
(* asks of a node that was declared down.                                  *)
(*                                                                         *)
(* When a pinger starts a recovery, nodeRecovery moves the node's volumes  *)
(* to other nodes; what the node still exports is stale from then on.  The *)
(* node's handling of one Ping is one step here, its steps are those of    *)
(* NfsServer.  A Ping whose timeout has passed goes on at the node.        *)
(***************************************************************************)
EXTENDS Naturals

CONSTANTS
    Nodes,      \* worker nodes
    MaxBadPing, \* Pinger.maxBadPing
    MaxFaults   \* bound on outages, failed starts and dumps, timeouts and restarts

ASSUME MaxBadPingAssumption == MaxBadPing \in Nat \ {0}
ASSUME MaxFaultsAssumption == MaxFaults \in Nat

VARIABLES
    badPings, goodPings, inRecovery, online, dumpingExports, \* NodeStatus
    ready,      \* BeforeServe has returned without error: the controller serves
    member,     \* worker nodes in the cluster
    pc,         \* [Nodes -> PingerLabels]: the node's pinger
    dump,       \* [Nodes -> BOOLEAN]: DumpAllExports of the ping under way
    reach,      \* [Nodes -> Reach]: how the node answers a connection
    stale,      \* [Nodes -> BOOLEAN]: an export recovery took away is still there
    late,       \* [Nodes -> BOOLEAN]: an abandoned dump still runs on the node
    forgotten,  \* [Nodes -> BOOLEAN]: since the last recovery began a dump was
                \* abandoned or passed over an entry, or the controller restarted
    faults

statusVars == <<badPings, goodPings, inRecovery, online, dumpingExports>>
startVars  == <<ready, member>>
nodeVars   == <<reach, stale, late, forgotten>>
vars == <<statusVars, startVars, pc, dump, nodeVars, faults>>

PingerLabels == {"off", "starting", "sleep", "pinging"}

\* A node that is down refuses connections or is reported as unreachable at
\* once ("refusing"), or stays silent until the ping's own timeout ("silent").
Reach == {"up", "refusing", "silent"}

\* The counters are only compared with MaxBadPing and 2 and saturate there.
BadCap  == MaxBadPing + 1
GoodCap == 3

TypeOK ==
    /\ badPings \in [Nodes -> 0..BadCap] /\ goodPings \in [Nodes -> 0..GoodCap]
    /\ inRecovery \in [Nodes -> BOOLEAN] /\ online \in [Nodes -> BOOLEAN]
    /\ dumpingExports \in [Nodes -> BOOLEAN]
    /\ ready \in BOOLEAN /\ member \subseteq Nodes
    /\ pc \in [Nodes -> PingerLabels]
    /\ dump \in [Nodes -> BOOLEAN]
    /\ reach \in [Nodes -> Reach]
    /\ stale \in [Nodes -> BOOLEAN] /\ late \in [Nodes -> BOOLEAN]
    /\ forgotten \in [Nodes -> BOOLEAN]
    /\ faults \in Nat

\* The controller container has just started; nodes are up or not.
Init ==
    /\ ready = FALSE /\ member \in SUBSET Nodes
    /\ badPings = [n \in Nodes |-> 0] /\ goodPings = [n \in Nodes |-> 0]
    /\ inRecovery = [n \in Nodes |-> FALSE] /\ online = [n \in Nodes |-> FALSE]
    /\ dumpingExports = [n \in Nodes |-> FALSE]
    /\ pc = [n \in Nodes |-> "off"] /\ dump = [n \in Nodes |-> FALSE]
    /\ reach \in [Nodes -> Reach]
    /\ stale = [n \in Nodes |-> FALSE] /\ late = [n \in Nodes |-> FALSE]
    /\ forgotten = [n \in Nodes |-> FALSE]
    /\ faults = 0

-----------------------------------------------------------------------------
(* The pinger *)

Works == faults' = faults
Fails == faults < MaxFaults /\ faults' = faults + 1

Set(f, n, x) == [f EXCEPT ![n] = x]
CountUp(f, n, cap) == [f EXCEPT ![n] = IF @ < cap THEN @ + 1 ELSE cap]

\* The worker nodes there are; nodes of the control plane get no pinger.
GetAllNodes == member

startNodeMonitors == pc' = [n \in Nodes |-> IF n \in GetAllNodes THEN "starting" ELSE pc[n]]

\* BeforeServe in controller mode: what it checks and reads can fail, and the
\* container is then started again; else every worker node gets a pinger.
BeforeServe ==
    /\ ~ready
    /\ \/ /\ Works
          /\ ready' = TRUE
          /\ startNodeMonitors
       \/ Fails /\ UNCHANGED <<ready, pc>>
    /\ UNCHANGED <<statusVars, member, dump, nodeVars>>

\* A node that joins later gets no pinger until the controller restarts.
JoinCluster(n) ==
    /\ n \notin member /\ member' = member \cup {n}
    /\ UNCHANGED <<statusVars, ready, pc, dump, nodeVars, faults>>

\* The pinger puts the status into nodeIPAddress; until then GetNodeStatus
\* finds nothing.  It gives up on a Node that has no address yet.
StartPinger(n) ==
    /\ pc[n] = "starting"
    /\ \/ Works /\ pc' = Set(pc, n, "sleep")
       \/ Fails /\ pc' = Set(pc, n, "off")
    /\ UNCHANGED <<statusVars, startVars, dump, nodeVars>>

SendPingPlain(n) ==
    /\ pc[n] = "sleep"
    /\ pc' = Set(pc, n, "pinging")
    /\ dump' = Set(dump, n, dumpingExports[n] /\ ~inRecovery[n])
    /\ UNCHANGED <<statusVars, startVars, nodeVars, faults>>

\* DumpAllExports is the flag as it is when the ping is sent.
SendPing(n) ==
    /\ pc[n] = "sleep"
    /\ pc' = Set(pc, n, "pinging")
    /\ dump' = Set(dump, n, dumpingExports[n])
    /\ UNCHANGED <<statusVars, startVars, nodeVars, faults>>

\* Enough bad pings in a row, and no recovery under way.
NeedsRecoveryOnline(n) == online[n] /\ ~inRecovery[n] /\ badPings[n] + 1 >= MaxBadPing
NeedsRecovery(n) == ~inRecovery[n] /\ badPings[n] + 1 >= MaxBadPing

RecoverNoDump(n) ==
    /\ inRecovery' = Set(inRecovery, n, TRUE)
    /\ UNCHANGED dumpingExports

\* The pinger starts nodeRecovery and has every export dumped from now on.
Recover(n) ==
    /\ inRecovery' = Set(inRecovery, n, TRUE)
    /\ dumpingExports' = Set(dumpingExports, n, TRUE)

\* The ping failed with an error that counts; left says whether a stale
\* export is left, running whether a dump goes on unattended.
BadPing(n, left, running) ==
    /\ pc' = Set(pc, n, "sleep")
    /\ online' = Set(online, n, FALSE)
    /\ badPings' = CountUp(badPings, n, BadCap)
    /\ goodPings' = Set(goodPings, n, 0)
    /\ late' = Set(late, n, late[n] \/ running)
    /\ IF NeedsRecovery(n)
       THEN /\ Recover(n)
            /\ stale' = Set(stale, n, TRUE)
            /\ forgotten' = Set(forgotten, n, late[n] \/ running)
       ELSE /\ UNCHANGED <<inRecovery, dumpingExports>>
            /\ stale' = Set(stale, n, left)
            /\ forgotten' = Set(forgotten, n, forgotten[n] \/ running)
    /\ UNCHANGED <<startVars, dump, reach>>

GoodPingKeepsRecovery(n) ==
    /\ pc' = Set(pc, n, "sleep")
    /\ online' = Set(online, n, TRUE)
    /\ badPings' = Set(badPings, n, 0)
    /\ goodPings' = CountUp(goodPings, n, GoodCap)
    /\ dumpingExports' = Set(dumpingExports, n, dumpingExports[n] /\ goodPings'[n] < 2)
    /\ UNCHANGED inRecovery

\* The first good ping ends the recovery, the second the dumping.
GoodPing(n) ==
    /\ pc' = Set(pc, n, "sleep")
    /\ online' = Set(online, n, TRUE)
    /\ badPings' = Set(badPings, n, 0)
    /\ goodPings' = CountUp(goodPings, n, GoodCap)
    /\ dumpingExports' = Set(dumpingExports, n, dumpingExports[n] /\ goodPings'[n] < 2)
    /\ inRecovery' = Set(inRecovery, n, FALSE)

\* The node answers Ready.  If it was asked to dump, every export that has a
\* Service is gone.
PingReady(n) ==
    /\ pc[n] = "pinging" /\ reach[n] = "up"
    /\ GoodPing(n)
    /\ stale' = Set(stale, n, stale[n] /\ ~dump[n])
    /\ UNCHANGED <<startVars, dump, reach, late, forgotten, faults>>

\* A dump that cannot find the Service of an entry, or cannot delete the entry,
\* goes on to the next one, and the answer is Ready all the same.
PingPassedOver(n) ==
    /\ pc[n] = "pinging" /\ reach[n] = "up" /\ dump[n]
    /\ Fails
    /\ GoodPing(n)
    /\ forgotten' = Set(forgotten, n, TRUE)
    /\ UNCHANGED <<startVars, dump, reach, stale, late>>

\* The dump fails on the way, with the stale export removed or not.
PingNotReady(n) ==
    /\ pc[n] = "pinging" /\ reach[n] = "up" /\ dump[n]
    /\ Fails
    /\ \E left \in {stale[n], FALSE} : BadPing(n, left, FALSE)

\* The connection is refused, or there is no route to the node.
PingRefused(n) ==
    /\ pc[n] = "pinging" /\ reach[n] = "refusing"
    /\ BadPing(n, stale[n], FALSE)
    /\ UNCHANGED faults

\* The answer does not come within Pinger.timeout: a ping that counts as bad,
\* and a dump that goes on.
PingTimeout(n) ==
    /\ pc[n] = "pinging" /\ reach[n] = "up"
    /\ Fails
    /\ BadPing(n, stale[n], dump[n])

\* "network is unreachable" on the controller's side, or no connection within
\* the timeout: taken for a problem of the controller, nothing is counted.
PingIgnored(n) ==
    /\ pc[n] = "pinging"
    /\ (reach[n] = "silent" /\ Works) \/ Fails
    /\ pc' = Set(pc, n, "sleep")
    /\ UNCHANGED <<statusVars, startVars, dump, nodeVars>>

-----------------------------------------------------------------------------
(* Nodes and restarts *)

\* An abandoned dump ends: Ping may have put an entry back that it had
\* deleted, or removed it.
FinishLate(n) ==
    /\ late[n] /\ late' = Set(late, n, FALSE)
    /\ \E left \in BOOLEAN : stale' = Set(stale, n, left)
    /\ UNCHANGED <<statusVars, startVars, pc, dump, reach, forgotten, faults>>

\* The node, or the network to it, goes down; a dump under way is lost with
\* the node or goes on without its caller.
Outage(n) ==
    /\ reach[n] = "up" /\ Fails
    /\ \E how \in {"refusing", "silent"} : reach' = Set(reach, n, how)
    /\ \E running \in {FALSE, late[n] \/ (pc[n] = "pinging" /\ dump[n])} :
           /\ late' = Set(late, n, running)
           /\ forgotten' = Set(forgotten, n, forgotten[n] \/ running)
    /\ UNCHANGED <<statusVars, startVars, pc, dump, stale>>

Return(n) ==
    /\ reach[n] # "up" /\ reach' = Set(reach, n, "up")
    /\ UNCHANGED <<statusVars, startVars, pc, dump, stale, late, forgotten, faults>>

\* The controller restarts: every NodeStatus is lost.
Restart ==
    /\ Fails
    /\ ready /\ ready' = FALSE
    /\ badPings' = [n \in Nodes |-> 0] /\ goodPings' = [n \in Nodes |-> 0]
    /\ inRecovery' = [n \in Nodes |-> FALSE] /\ online' = [n \in Nodes |-> FALSE]
    /\ dumpingExports' = [n \in Nodes |-> FALSE]
    /\ pc' = [n \in Nodes |-> "off"] /\ dump' = [n \in Nodes |-> FALSE]
    /\ late' = [n \in Nodes |-> late[n] \/ (pc[n] = "pinging" /\ reach[n] = "up" /\ dump[n])]
    /\ forgotten' = [n \in Nodes |-> TRUE]
    /\ UNCHANGED <<member, reach, stale>>

Pinger(n) ==
    \/ StartPinger(n) \/ SendPing(n)
    \/ PingReady(n) \/ PingPassedOver(n) \/ PingNotReady(n) \/ PingRefused(n)
    \/ PingTimeout(n) \/ PingIgnored(n)

Next ==
    \/ BeforeServe \/ Restart
    \/ \E n \in Nodes :
           JoinCluster(n) \/ Pinger(n) \/ FinishLate(n) \/ Outage(n) \/ Return(n)

Spec == Init /\ [][Next]_vars

\* The pinger is an endless loop whose pings end by their timeout, and an
\* abandoned dump ends; Kubernetes starts the container again.  Nodes need not
\* return, nor stay up.
Fairness == WF_vars(BeforeServe) /\ \A n \in Nodes : WF_vars(Pinger(n)) /\ WF_vars(FinishLate(n))

FairSpec == Spec /\ Fairness

-----------------------------------------------------------------------------
(* Properties *)

\* What ControllerPublishVolume asks of GetNodeStatus before it makes the node
\* an NFS server.
Available(n) == pc[n] \in {"sleep", "pinging"} /\ online[n] /\ ~inRecovery[n]

\* The node has a pinger, or is about to.
Monitored(n) == pc[n] # "off"

\* A node that may become an NFS server again has dropped what it exported
\* before its volumes were moved, however bad and good pings, failed dumps and
\* outages alternate; only a dump the pinger gave up on or that passed over an
\* entry, or a restart of the controller (which forgets that a dump is due), can
\* leave a stale export on such a node, and only until its next recovery.
AvailableIsDumped ==
    \A n \in Nodes : Available(n) /\ stale[n] => forgotten[n]

\* A node that has a pinger and is up for good is in the end available for good,
\* and asked to dump its exports no longer, whatever happened to it and to the
\* controller before.
NodeComesBack ==
    \A n \in Nodes :
        <>[](reach[n] = "up" /\ Monitored(n)) => <>[](Available(n) /\ ~dumpingExports[n])

\* A node that was in the cluster from the start and refuses connections for good
\* is in the end offline and in recovery for good: its volumes are moved, also
\* when the controller restarts in the middle of the outage.
OutageIsRecovered ==
    \A n \in Nodes :
        <>[](reach[n] = "refusing" /\ Monitored(n)) => <>[](inRecovery[n] /\ ~online[n])

\* While a stale export is left on a node the pinger still has to have it
\* dumped: the node is in recovery and every ping sent since asks for the dump.
DumpPending ==
    \A n \in Nodes : stale[n] /\ ~forgotten[n] =>
        /\ pc[n] \in {"sleep", "pinging"} /\ inRecovery[n] /\ dumpingExports[n]
        /\ pc[n] = "pinging" => dump[n]

LateIsForgotten == \A n \in Nodes : late[n] => forgotten[n]

\* No pinger runs before startNodeMonitors.
OffUntilReady == ready \/ \A n \in Nodes : pc[n] = "off"

IndInv == TypeOK /\ DumpPending /\ LateIsForgotten /\ OffUntilReady
=============================================================================
