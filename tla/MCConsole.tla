------------------------------ MODULE MCConsole ------------------------------
(***************************************************************************)
(* Console, with Keyboard and Screens, for TLC.                            *)
(***************************************************************************)
EXTENDS Console
===============================================================================
