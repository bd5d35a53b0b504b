-------------------------- MODULE MCHubConnections --------------------------
(* One user who opens two connections, so that a replacement meets inputs and *)
(* jobs of the connection it replaces.                                        *)
EXTENDS HubConnections
CONSTANTS u1, a1, a2, w1, w2

ReconnectOwner == [c \in {a1, a2} |-> u1]
ReconnectWorkerOf == [u \in {u1} |-> w1]
==============================================================================
