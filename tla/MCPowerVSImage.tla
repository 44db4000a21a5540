---------------------------- MODULE MCPowerVSImage ---------------------------
(***************************************************************************)
(* Instances of PowerVSImage for TLC: two images, one of them created with *)
(* the label of the cluster and retained, so that their roles differ.      *)
(***************************************************************************)
EXTENDS PowerVSImage

TwoImages == {"a", "b"}
=============================================================================
