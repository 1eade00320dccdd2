--------------------------- MODULE MCSupervisor ---------------------------
(* Supervisor with one direct write, one network process and one process  *)
(* the execution policy refuses.                                          *)
EXTENDS Supervisor, TLC

CONSTANTS write, build, publish,     \* the proposals
          asset                      \* the one file of the pack

MCActions == {write, build, publish}
MCBase == {asset}
MCKind == write :> "write" @@ build :> "process" @@ publish :> "process"
MCCaps == write :> {"file_write"}
          @@ build :> {"file_write", "network"}
          @@ publish :> {"external_action"}
MCGrants == {{"file_write"}, {"file_write", "network"}, {"external_action"}}
MCPermitted == {write, build}
MCTimeout == [a \in MCActions |-> 1]
\* The last list repeats a proposal.
MCPlans == {<<write, build>>, <<publish>>, <<publish, publish>>}
\* The dialog plans one builder process per session.
MCDialogPlans == {<<build>>}
MCLimits == [actions |-> 2, files |-> 2, seconds |-> 1, network |-> 2, external |-> 1]
===========================================================================
