------------------------- MODULE NodeMonitorProofs --------------------------
(***************************************************************************)
(* For any nodes and any number of outages, failed dumps, timeouts and     *)
(* restarts: a node that may serve again has been dumped.                  *)
(***************************************************************************)
EXTENDS NodeMonitor, TLAPS

USE DEF Set, CountUp, BadCap, GoodCap

\* Init: no node has a stale export, and no dump was abandoned.
LEMMA InitIndInv == Init => IndInv
<1> SUFFICES ASSUME Init PROVE IndInv
  OBVIOUS
<1>1. member \subseteq Nodes
  BY DEF Init
<1>2. TypeOK
  <2>1. badPings \in [Nodes -> 0..BadCap] /\ goodPings \in [Nodes -> 0..GoodCap]
    BY MaxBadPingAssumption DEF Init
  <2>2. /\ inRecovery \in [Nodes -> BOOLEAN] /\ online \in [Nodes -> BOOLEAN]
        /\ dumpingExports \in [Nodes -> BOOLEAN]
        /\ pc \in [Nodes -> PingerLabels] /\ dump \in [Nodes -> BOOLEAN]
    BY DEF Init, PingerLabels
  <2>3. QED BY <1>1, <2>1, <2>2 DEF Init, TypeOK
<1>3. QED BY <1>2 DEF Init, IndInv, DumpPending, LateIsForgotten, OffUntilReady

\* A bad ping leaves a node's stale export only if it was there before, and
\* then its dump stays due; the bad ping that starts a recovery makes it due.
LEMMA BadPingIndInv ==
    ASSUME IndInv, NEW n \in Nodes, pc[n] = "pinging",
           NEW left \in BOOLEAN, left => stale[n], NEW running \in BOOLEAN,
           BadPing(n, left, running), faults' \in Nat
    PROVE  IndInv'
<1> USE DEF IndInv
<1>1. TypeOK'
  <2>1. badPings' \in [Nodes -> 0..BadCap] /\ goodPings' \in [Nodes -> 0..GoodCap]
    BY MaxBadPingAssumption DEF TypeOK, BadPing
  <2>2. /\ inRecovery' \in [Nodes -> BOOLEAN] /\ dumpingExports' \in [Nodes -> BOOLEAN]
        /\ online' \in [Nodes -> BOOLEAN]
    BY DEF TypeOK, BadPing, Recover
  <2>3. stale' \in [Nodes -> BOOLEAN]
    BY DEF TypeOK, BadPing
  <2>4. (late[n] \/ running) \in BOOLEAN /\ (forgotten[n] \/ running) \in BOOLEAN
    OBVIOUS
  <2>5. late' \in [Nodes -> BOOLEAN] /\ forgotten' \in [Nodes -> BOOLEAN]
    BY <2>4, Zenon DEF TypeOK, BadPing
  <2>6. pc' \in [Nodes -> PingerLabels]
    BY DEF TypeOK, BadPing, PingerLabels
  <2>7. QED BY <2>1, <2>2, <2>3, <2>5, <2>6 DEF TypeOK, BadPing, startVars
<1>2. DumpPending'
  <2> SUFFICES ASSUME NEW m \in Nodes, stale'[m] /\ ~forgotten'[m]
               PROVE  /\ pc'[m] \in {"sleep", "pinging"} /\ inRecovery'[m] /\ dumpingExports'[m]
                      /\ pc'[m] = "pinging" => dump'[m]
    BY DEF DumpPending
  <2>1. CASE m = n /\ NeedsRecovery(n)
    BY <2>1 DEF TypeOK, BadPing, Recover
  <2>2. CASE m = n /\ ~NeedsRecovery(n)
    BY <2>2 DEF TypeOK, BadPing, DumpPending
  <2>3. CASE m # n
    BY <2>3 DEF TypeOK, BadPing, Recover, DumpPending
  <2>4. QED BY <2>1, <2>2, <2>3
<1>3. LateIsForgotten'
  BY DEF TypeOK, BadPing, LateIsForgotten
<1>4. OffUntilReady'
  BY DEF BadPing, OffUntilReady, startVars
<1>5. QED BY <1>1, <1>2, <1>3, <1>4

\* A Ready answer ends the recovery; while a stale export was due to be
\* dumped, that ping was the one that asked for it.
LEMMA PingReadyIndInv ==
    ASSUME IndInv, NEW n \in Nodes, PingReady(n)
    PROVE  IndInv'
<1> USE DEF IndInv
<1>1. TypeOK'
  BY MaxBadPingAssumption DEF TypeOK, PingReady, GoodPing, Reach, startVars, PingerLabels
<1>2. DumpPending'
  <2> SUFFICES ASSUME NEW m \in Nodes, stale'[m] /\ ~forgotten'[m]
               PROVE  /\ pc'[m] \in {"sleep", "pinging"} /\ inRecovery'[m] /\ dumpingExports'[m]
                      /\ pc'[m] = "pinging" => dump'[m]
    BY DEF DumpPending
  <2>1. m # n
    BY DEF TypeOK, PingReady, DumpPending
  <2>2. QED BY <2>1 DEF TypeOK, PingReady, GoodPing, DumpPending
<1>3. LateIsForgotten'
  BY DEF PingReady, LateIsForgotten
<1>4. OffUntilReady'
  BY DEF PingReady, OffUntilReady, startVars
<1>5. QED BY <1>1, <1>2, <1>3, <1>4

\* A dump that passes over an entry ends the recovery too, and is remembered.
LEMMA PingPassedOverIndInv ==
    ASSUME IndInv, NEW n \in Nodes, PingPassedOver(n)
    PROVE  IndInv'
<1> USE DEF IndInv
<1>1. TypeOK'
  BY MaxBadPingAssumption
     DEF TypeOK, PingPassedOver, GoodPing, Fails, startVars, PingerLabels
<1>2. DumpPending'
  BY DEF TypeOK, PingPassedOver, GoodPing, DumpPending
<1>3. LateIsForgotten'
  BY DEF TypeOK, PingPassedOver, LateIsForgotten
<1>4. OffUntilReady'
  BY DEF PingPassedOver, OffUntilReady, startVars
<1>5. QED BY <1>1, <1>2, <1>3, <1>4

\* The other steps of the pinger change no flag; a ping that is sent takes
\* over the dump that is due.
LEMMA PingerIndInv ==
    ASSUME IndInv, NEW n \in Nodes, Pinger(n)
    PROVE  IndInv'
<1> USE DEF IndInv
<1>1. CASE StartPinger(n)
  <2>1. faults' \in Nat
    BY <1>1 DEF StartPinger, Works, Fails, TypeOK
  <2>2. QED
    BY <1>1, <2>1 DEF StartPinger, statusVars, startVars, nodeVars, PingerLabels,
                      TypeOK, DumpPending, LateIsForgotten, OffUntilReady
<1>2. CASE SendPing(n)
  BY <1>2 DEF SendPing, statusVars, startVars, nodeVars, PingerLabels, TypeOK,
              DumpPending, LateIsForgotten, OffUntilReady
<1>3. CASE PingReady(n)
  BY <1>3, PingReadyIndInv
<1>4. CASE PingNotReady(n)
  <2>1. PICK left \in {stale[n], FALSE} : BadPing(n, left, FALSE)
    BY <1>4 DEF PingNotReady
  <2>2. left \in BOOLEAN /\ (left => stale[n])
    BY <2>1, Zenon DEF TypeOK
  <2>3. pc[n] = "pinging" /\ faults' \in Nat
    BY <1>4 DEF TypeOK, PingNotReady, Fails
  <2>4. QED BY <2>1, <2>2, <2>3, BadPingIndInv
<1>5. CASE PingRefused(n)
  <2>1. stale[n] \in BOOLEAN /\ pc[n] = "pinging" /\ faults' \in Nat
    BY <1>5 DEF TypeOK, PingRefused
  <2>2. BadPing(n, stale[n], FALSE)
    BY <1>5 DEF PingRefused
  <2>3. QED BY <2>1, <2>2, BadPingIndInv
<1>6. CASE PingTimeout(n)
  <2>1. stale[n] \in BOOLEAN /\ dump[n] \in BOOLEAN /\ pc[n] = "pinging" /\ faults' \in Nat
    BY <1>6 DEF TypeOK, PingTimeout, Fails
  <2>2. BadPing(n, stale[n], dump[n])
    BY <1>6 DEF PingTimeout
  <2>3. QED BY <2>1, <2>2, BadPingIndInv
<1>7. CASE PingIgnored(n)
  <2>1. faults' \in Nat
    BY <1>7 DEF TypeOK, PingIgnored, Works, Fails
  <2>2. QED
    BY <1>7, <2>1 DEF PingIgnored, statusVars, startVars, nodeVars, PingerLabels,
                      TypeOK, DumpPending, LateIsForgotten, OffUntilReady
<1>8. CASE PingPassedOver(n)
  BY <1>8, PingPassedOverIndInv
<1>9. QED
  BY <1>1, <1>2, <1>3, <1>4, <1>5, <1>6, <1>7, <1>8 DEF Pinger

\* A node whose abandoned dump ends, that goes down or returns, has no flag of
\* its status changed.
LEMMA NodeIndInv ==
    ASSUME IndInv, NEW n \in Nodes, FinishLate(n) \/ Outage(n) \/ Return(n)
    PROVE  IndInv'
<1> USE DEF IndInv
<1>1. CASE FinishLate(n)
  <2>1. TypeOK'
    BY <1>1 DEF FinishLate, statusVars, startVars, TypeOK
  <2>2. forgotten[n]
    BY <1>1 DEF FinishLate, LateIsForgotten
  <2>3. DumpPending' /\ LateIsForgotten' /\ OffUntilReady'
    BY <1>1, <2>2 DEF FinishLate, statusVars, startVars, TypeOK, DumpPending,
                      LateIsForgotten, OffUntilReady
  <2>4. QED BY <2>1, <2>3
<1>2. CASE Outage(n)
  <2>1. PICK running \in {FALSE, late[n] \/ (pc[n] = "pinging" /\ dump[n])} :
            /\ late' = Set(late, n, running)
            /\ forgotten' = Set(forgotten, n, forgotten[n] \/ running)
    BY <1>2 DEF Outage
  <2>2. running \in BOOLEAN /\ faults' \in Nat
    <3>1. running \in BOOLEAN
      BY <2>1, Zenon
    <3>2. faults' \in Nat
      BY <1>2 DEF Outage, Fails, TypeOK
    <3>3. QED BY <3>1, <3>2
  <2>3. TypeOK'
    BY <1>2, <2>1, <2>2 DEF Outage, statusVars, startVars, TypeOK, Reach
  <2>4. DumpPending' /\ LateIsForgotten' /\ OffUntilReady'
    BY <1>2, <2>1, <2>2 DEF Outage, statusVars, startVars, TypeOK, DumpPending,
                            LateIsForgotten, OffUntilReady
  <2>5. QED BY <2>3, <2>4
<1>3. CASE Return(n)
  BY <1>3 DEF Return, statusVars, startVars, TypeOK, DumpPending, LateIsForgotten,
              OffUntilReady, Reach
<1>4. QED BY <1>1, <1>2, <1>3

\* A restart forgets every dump that was due.
LEMMA RestartIndInv ==
    ASSUME IndInv, Restart
    PROVE  IndInv'
<1> USE DEF IndInv
<1>1. faults' \in Nat
  BY DEF Restart, Fails, TypeOK
<1>2. late' \in [Nodes -> BOOLEAN]
  <2>1. \A n \in Nodes :
            (late[n] \/ (pc[n] = "pinging" /\ reach[n] = "up" /\ dump[n])) \in BOOLEAN
    OBVIOUS
  <2>2. QED BY <2>1, Zenon DEF Restart
<1>3. TypeOK'
  <2>1. badPings' \in [Nodes -> 0..BadCap] /\ goodPings' \in [Nodes -> 0..GoodCap]
    BY MaxBadPingAssumption DEF Restart
  <2>2. /\ inRecovery' \in [Nodes -> BOOLEAN] /\ online' \in [Nodes -> BOOLEAN]
        /\ dumpingExports' \in [Nodes -> BOOLEAN]
        /\ pc' \in [Nodes -> PingerLabels] /\ dump' \in [Nodes -> BOOLEAN]
    BY DEF Restart, PingerLabels
  <2>3. QED BY <1>1, <1>2, <2>1, <2>2 DEF Restart, TypeOK
<1>4. QED
  BY <1>3 DEF Restart, DumpPending, LateIsForgotten, OffUntilReady

\* Starting the controller gives pingers to nodes that had none, and so no dump
\* that is due; a node that joins changes no status.
LEMMA StartIndInv ==
    ASSUME IndInv, BeforeServe \/ \E n \in Nodes : JoinCluster(n)
    PROVE  IndInv'
<1> USE DEF IndInv
<1>1. CASE BeforeServe
  <2>1. faults' \in Nat
    BY <1>1 DEF BeforeServe, Works, Fails, TypeOK
  <2>2. TypeOK'
    BY <1>1, <2>1 DEF BeforeServe, startNodeMonitors, statusVars, nodeVars, PingerLabels, TypeOK
  <2>3. DumpPending' /\ LateIsForgotten' /\ OffUntilReady'
    BY <1>1 DEF BeforeServe, startNodeMonitors, statusVars, nodeVars, TypeOK, DumpPending,
                LateIsForgotten, OffUntilReady
  <2>4. QED BY <2>2, <2>3
<1>2. CASE \E n \in Nodes : JoinCluster(n)
  BY <1>2 DEF JoinCluster, statusVars, nodeVars, TypeOK, DumpPending, LateIsForgotten, OffUntilReady
<1>3. QED BY <1>1, <1>2

\* IndInv is inductive: in every reachable state a stale export is still due
\* to be dumped unless the pinger lost track of it.
THEOREM Inductive == Spec => []IndInv
<1>1. Init => IndInv
  BY InitIndInv
<1>2. IndInv /\ [Next]_vars => IndInv'
  <2> SUFFICES ASSUME IndInv, [Next]_vars PROVE IndInv'
    OBVIOUS
  <2>1. CASE \E n \in Nodes : Pinger(n)
    BY <2>1, PingerIndInv
  <2>2. CASE \E n \in Nodes : FinishLate(n) \/ Outage(n) \/ Return(n)
    BY <2>2, NodeIndInv
  <2>3. CASE Restart
    BY <2>3, RestartIndInv
  <2>4. CASE BeforeServe \/ \E n \in Nodes : JoinCluster(n)
    BY <2>4, StartIndInv
  <2>5. CASE UNCHANGED vars
    BY <2>5 DEF IndInv, TypeOK, DumpPending, LateIsForgotten, OffUntilReady, vars,
                statusVars, startVars, nodeVars
  <2>6. QED BY <2>1, <2>2, <2>3, <2>4, <2>5 DEF Next
<1>3. QED BY <1>1, <1>2, PTL DEF Spec

\* A node that ControllerPublishVolume may make a server again has dropped its
\* stale exports, unless a dump of it was abandoned or passed over an entry, or
\* the controller has restarted, since its last recovery began.
THEOREM DumpedBeforeServing == Spec => []AvailableIsDumped
<1>1. IndInv => AvailableIsDumped
  BY DEF IndInv, DumpPending, AvailableIsDumped, Available
<1>2. QED BY <1>1, Inductive, PTL
=============================================================================
