------------------------------ MODULE MCPaging ------------------------------
(***************************************************************************)
(* Instances of Paging: all the lookups, or those of the Resource          *)
(* Controller client.                                                      *)
(***************************************************************************)
EXTENDS Paging

AllLookups == URLLookups \cup TokenLookups
=============================================================================
