------------------------------ MODULE MCProviders ------------------------------
(***************************************************************************)
(* Providers for TLC.  The profiles and the record of Claude share no      *)
(* state: the run has two processes and one window, MCProvidersHealth two  *)
(* windows and one process.                                                *)
(***************************************************************************)
EXTENDS Providers

CONSTANTS p1, p2, w1, w2, n1

MCProc == {p1, p2}
MCProcAlone == {p1}
MCWindow == {w1, w2}
MCWindowAlone == {w1}
MCName == {n1}
=============================================================================
