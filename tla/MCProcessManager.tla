-------------------------- MODULE MCProcessManager --------------------------
(***************************************************************************)
(* ProcessManager with NoProc, the terminal and the snakes.                *)
(***************************************************************************)
EXTENDS ProcessManager

\* The terminal is the only process that creates others.
MCCreators == {Terminal}

\* The processes the terminal creates are snakes, and snakes exit.
MCExiters == 2 .. MaxPid
=============================================================================
