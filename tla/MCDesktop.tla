----------------------------- MODULE MCDesktop -----------------------------
(***************************************************************************)
(* Desktop for TLC: two folders, and scans that find no product direction  *)
(* or two.                                                                 *)
(***************************************************************************)
EXTENDS Desktop

CONSTANTS t1, t2, o1, o2

MCTargets == {t1, t2}
MCAnswers == {<<>>, <<o1, o2>>}
AnyPage == FlowState
=============================================================================
