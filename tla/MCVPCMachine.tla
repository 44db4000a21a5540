---------------------------- MODULE MCVPCMachine -----------------------------
(***************************************************************************)
(* Instances of VPCMachine for TLC: a control plane machine of a cluster   *)
(* with one load balancer, one with pools of its own, a worker in a pool   *)
(* and a worker with additional volumes.                                   *)
(***************************************************************************)
EXTENDS VPCMachine

ControlPlane == [controlPlane |-> TRUE, pools |-> <<>>, volumes |-> 0]
Pooled == [controlPlane |-> TRUE, pools |-> <<"api", "extra">>, volumes |-> 0]
Worker == [controlPlane |-> FALSE, pools |-> <<"extra">>, volumes |-> 0]
Storage == [controlPlane |-> FALSE, pools |-> <<>>, volumes |-> 2]

AllSpecs == {ControlPlane, Pooled, Worker, Storage}
StorageOnly == {Storage}
PooledOnly == {Pooled}
=============================================================================
