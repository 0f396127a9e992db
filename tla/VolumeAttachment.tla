-------------------------- MODULE VolumeAttachment --------------------------
(***************************************************************************)
(* What the attachment of shared-nfs volumes promises: clients join and    *)
(* leave the NFS server of a volume, the server may be moved to another    *)
(* node under them (node recovery), and it is stopped only when no client  *)
(* is left.  Controller, and SharedNfs with recovery beside it, are shown  *)
(* to implement this.                                                      *)
(***************************************************************************)
CONSTANTS Volumes, Nodes, None

VARIABLES
    server,     \* [Volumes -> Nodes \cup {None}]: the node clients are sent to
    clients     \* [Volumes -> SUBSET Nodes]: nodes entitled to use the volume

vars == <<server, clients>>

Init ==
    /\ server = [v \in Volumes |-> None]
    /\ clients = [v \in Volumes |-> {}]

StartServer(v, n) ==
    /\ server[v] = None
    /\ server' = [server EXCEPT ![v] = n]
    /\ UNCHANGED clients

Join(v, n) ==
    /\ server[v] # None
    /\ clients' = [clients EXCEPT ![v] = @ \cup {n}]
    /\ UNCHANGED server

Leave(v, n) ==
    /\ clients' = [clients EXCEPT ![v] = @ \ {n}]
    /\ UNCHANGED server

Move(v, n) ==
    /\ server[v] # None
    /\ server' = [server EXCEPT ![v] = n]
    /\ UNCHANGED clients

StopServer(v) ==
    /\ clients[v] = {}
    /\ server' = [server EXCEPT ![v] = None]
    /\ UNCHANGED clients

Next == \E v \in Volumes :
    \/ \E n \in Nodes : StartServer(v, n) \/ Join(v, n) \/ Leave(v, n) \/ Move(v, n)
    \/ StopServer(v)

Spec == Init /\ [][Next]_vars
=============================================================================
