----------------------------- MODULE MCUpdater -----------------------------
(***************************************************************************)
(* Updater for TLC: two windows, a version the publisher signed and one he *)
(* did not, installers of two blocks; a third window in MCUpdaterThree.    *)
(***************************************************************************)
EXTENDS Updater

CONSTANTS v1, v2

MCVersions == {v1, v2}
MCTrusted == {v1}
=============================================================================
