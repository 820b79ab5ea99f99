---------------------------- MODULE MCTerminalRead ----------------------------
(***************************************************************************)
(* TerminalRead with a small buffer; nbytes is zero, within the buffer,    *)
(* beyond it, and beyond what is served.                                   *)
(***************************************************************************)
EXTENDS TerminalRead

MCRequests == {0, 2, 4, 6}
===============================================================================
