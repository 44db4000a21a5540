--------------------------- MODULE MCPowerVSMachine --------------------------
(***************************************************************************)
(* Instances of PowerVSMachine for TLC: a control plane machine, which the *)
(* API server pools of a public and an internal load balancer select.      *)
(***************************************************************************)
EXTENDS PowerVSMachine

TwoPools == <<[lb |-> "public", machines |-> {"cp"}], [lb |-> "internal", machines |-> {"cp"}]>>
=============================================================================
