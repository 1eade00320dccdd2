---------------------------- MODULE MCBuildPack ----------------------------
(***************************************************************************)
(* BuildPack for TLC: one window and one command line; two candidates that *)
(* claim one destination (their names differ in case), with one content or *)
(* with two; a licence that asks for a review; a user who ticks something. *)
(***************************************************************************)
EXTENDS BuildPack

CONSTANTS x, secret

MCRequested == <<"app.py", "APP.py">>
MCDest == [s \in {"app.py", "APP.py"} |-> "assets/app.py"]
MCContents == {x, secret}
MCSecret == {secret}
MCEstates == {[disk |-> [s \in {"app.py", "APP.py"} |-> x],
               licence |-> "unknown"]}
MCSelections == {{"app.py"}, {"APP.py"}, {"app.py", "APP.py"}}
MCAnySelection == SUBSET {"app.py", "APP.py"}
MCDocuments == {"BRIEF.md", "PLAN.md"}
=============================================================================
