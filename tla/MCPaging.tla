------------------------------- MODULE MCPaging -------------------------------
(***************************************************************************)
(* Paging and AddressSpaces, for TLC.                                      *)
(***************************************************************************)
EXTENDS Paging
===============================================================================
