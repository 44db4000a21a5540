---------------------------- MODULE MCVPCCluster -----------------------------
(***************************************************************************)
(* Instances of VPCCluster for TLC.                                        *)
(***************************************************************************)
EXTENDS VPCCluster

Managed == [lb |-> TRUE, host |-> NoLB]
Given == [lb |-> FALSE, host |-> "given"]
Both == [lb |-> TRUE, host |-> "given"]

ManagedOnly == {Managed}
GivenOnly == {Given}
AllSpecs == {Managed, Given, Both}
=============================================================================
