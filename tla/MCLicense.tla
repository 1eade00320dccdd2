----------------------------- MODULE MCLicense -----------------------------
(***************************************************************************)
(* License for TLC: one desktop window and one command-line run that may   *)
(* be started again and again, two installation ids so that two first      *)
(* starts can race, and production keys pinned so that the online commands *)
(* go all the way.                                                         *)
(***************************************************************************)
EXTENDS License

\* valid at once, valid from the next tick, and one whose window outlasts its term
MCTerms == {[delay |-> 0, window |-> 0, term |-> 1],
            [delay |-> 1, window |-> 1, term |-> 1],
            [delay |-> 0, window |-> 1, term |-> 0]}
=============================================================================
