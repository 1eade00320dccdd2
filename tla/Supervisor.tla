---------------------------- MODULE Supervisor ----------------------------
(* The approval-gated build session of relic_auditor/supervisor: one      *)
(* managed session, its in-memory object, session.json, the ledger, the   *)
(* approval files, the checkpoints and the workspace.                     *)
(*                                                                        *)
(* Two threads use the session.  "desk" makes every call but execute: it  *)
(* is a CLI command or the dialog's UI thread.  "worker" is the thread    *)
(* execute runs in.  One call is made at a time, except that on the       *)
(* Desktop the Cancel button calls cancel while the worker runs.  A call  *)
(* changes memory first and then writes session.json and appends to the   *)
(* ledger: `due` holds the writes a thread still owes, so a crash, an I/O *)
(* error or the other thread can come between them.  A call that raises   *)
(* ends a CLI process; the dialog keeps its session object.               *)
(*                                                                        *)
(* A workspace is the set of its files; action a writes the file a.       *)
(* Written bytes are checked beside written files with the same guard and *)
(* are not counted apart; of the capabilities only those the service      *)
(* tells apart after the approval are kept.  Bounds: MaxStarts (runs of   *)
(* one action) and MaxFaults (crashes and I/O errors in a behaviour).     *)
EXTENDS Integers, Sequences, FiniteSets

CONSTANTS Actions,      \* proposals, identified by their content
          NoAction,
          Plans,        \* the proposal lists an adapter may return
          Grants,       \* the capability sets a reviewer may tick
          BaseFiles,    \* what create_session puts in the workspace
          Kind,         \* "write" or "process" for each action
          Caps,         \* the capabilities each action asks for
          Permitted,    \* the actions the execution policy lets run
          Timeout,      \* timeout_seconds of each process action
          PollSlack,    \* how long past its timeout a process may go unseen
          Limits,       \* BudgetLimits
          Desktop,      \* the dialog, not the command line
          MaxStarts, MaxFaults

Capability == {"file_write", "network", "external_action"}
Meters == {"actions", "files", "seconds", "network", "external"}
States == {"absent", "created", "waiting_approval", "running", "cancelling",
           "paused", "cancelled", "failed", "candidate_ready"}
RunEvents == {"action_started", "action_completed", "action_failed",
              "action_cancelled"}
SessionEvents == {"session_created", "session_cancelled", "candidate_ready"}
Threads == {"desk", "worker"}
Files == BaseFiles \cup Actions

ASSUME ConstantsAssumption ==
    /\ NoAction \notin Actions
    /\ IsFiniteSet(Actions) /\ IsFiniteSet(BaseFiles)
    /\ Plans \subseteq Seq(Actions)
    /\ Kind \in [Actions -> {"write", "process"}]
    /\ Caps \in [Actions -> SUBSET Capability]
    /\ Grants \subseteq SUBSET Capability
    /\ Permitted \subseteq Actions
    /\ Timeout \in [Actions -> Nat \ {0}]
    /\ PollSlack \in Nat
    /\ Limits \in [Meters -> Nat]
    /\ Desktop \in BOOLEAN
    /\ MaxStarts \in Nat /\ MaxFaults \in Nat

VARIABLES mem,          \* the SupervisorSession object of the process
          file,         \* control/session.json
          ledger,       \* control/ledger.jsonl, by event
          approvals,    \* control/approvals/<action>.json
          checkpoints,  \* checkpoints/<digest of base and action>/files
          workspace,
          due,          \* per thread: the writes its call still owes
          desk,         \* where the desk's call stands
          worker,       \* where execute stands
          cancelEvent,  \* _cancel_events[session]: "none", "clear" or "set"
          faults        \* how many crashes and I/O errors there were

vars == <<mem, file, ledger, approvals, checkpoints, workspace, due, desk,
          worker, cancelEvent, faults>>
disk == <<file, ledger, approvals, checkpoints, workspace>>

Elems(s) == {s[i] : i \in 1..Len(s)}

---------------------------------------------------------------------------
(* The session record and the writes a call owes                          *)

FreshSession ==
    [state |-> "created", queued |-> <<>>, completed |-> <<>>,
     failed |-> <<>>, cancelled |-> <<>>, usage |-> [m \in Meters |-> 0]]
NoSession == [FreshSession EXCEPT !.state = "absent"]

NoEntry == [event |-> "none", action |-> NoAction]
Entry(event, a) == [event |-> event, action |-> a]

\* `save` is "due" until public() is taken and "taken" until os.replace.
NothingDue == [save |-> "no", image |-> NoSession, entry |-> NoEntry]
SaveThen(event, a) == [NothingDue EXCEPT !.save = "due", !.entry = Entry(event, a)]
JustSave == [NothingDue EXCEPT !.save = "due"]
JustAppend(event, a) == [NothingDue EXCEPT !.entry = Entry(event, a)]

Quiet(t) == due[t] = NothingDue
Owes(t, writes) == due' = [due EXCEPT ![t] = writes]

Idle == [pc |-> "idle", rest |-> <<>>]
NoRun == [pc |-> "idle", action |-> NoAction, base |-> {}, out |-> "none"]

\* No call is in progress.
Free == desk = Idle /\ worker = NoRun /\ \A t \in Threads : Quiet(t)
Loaded == mem.state # "absent"

AfterRaise == IF Desktop THEN mem ELSE NoSession

---------------------------------------------------------------------------
(* The ledger, read by event                                              *)

EmptyLedger ==
    [marks |-> {}, queued |-> <<>>, run |-> NoAction,
     started |-> <<>>, completed |-> <<>>, failed |-> <<>>, cancelled |-> <<>>]

Recorded(l, e) ==
    CASE e.event \in SessionEvents -> [l EXCEPT !.marks = @ \cup {e.event}]
      [] e.event = "action_queued" -> [l EXCEPT !.queued = Append(@, e.action)]
      [] e.event = "action_started" ->
            [l EXCEPT !.started = Append(@, e.action), !.run = e.action]
      [] e.event = "action_completed" ->
            [l EXCEPT !.completed = Append(@, e.action), !.run = NoAction]
      [] e.event = "action_failed" ->
            [l EXCEPT !.failed = Append(@, e.action), !.run = NoAction]
      [] e.event = "action_cancelled" ->
            [l EXCEPT !.cancelled = Append(@, e.action), !.run = NoAction]
      [] OTHER -> l

\* load_session compares the four lists of session.json with the ledger.
ListsAgree(s, l) ==
    /\ s.queued = l.queued
    /\ s.completed = l.completed
    /\ s.failed = l.failed
    /\ s.cancelled = l.cancelled

Loadable == "session_created" \in ledger.marks /\ ListsAgree(file, ledger)

---------------------------------------------------------------------------
Init ==
    /\ mem = NoSession /\ file = NoSession
    /\ ledger = EmptyLedger
    /\ approvals = [a \in Actions |-> [caps |-> {}, recorded |-> FALSE]]
    /\ checkpoints = {}
    /\ workspace = {}
    /\ due = [t \in Threads |-> NothingDue]
    /\ desk = Idle /\ worker = NoRun
    /\ cancelEvent = "none"
    /\ faults = 0

---------------------------------------------------------------------------
(* The writes                                                             *)

TakeSnapshot(t) ==
    /\ due[t].save = "due"
    /\ Owes(t, [due[t] EXCEPT !.save = "taken", !.image = mem])
    /\ UNCHANGED <<mem, disk, desk, worker, cancelEvent, faults>>

ReplaceFile(t) ==
    /\ due[t].save = "taken"
    /\ file' = due[t].image
    /\ Owes(t, [due[t] EXCEPT !.save = "no", !.image = NoSession])
    /\ UNCHANGED <<mem, ledger, approvals, checkpoints, workspace, desk, worker,
                   cancelEvent, faults>>

AppendEntry(t) ==
    LET e == due[t].entry IN
    /\ due[t].save = "no"
    /\ e # NoEntry
    /\ ledger' = Recorded(ledger, e)
    /\ approvals' = IF e.event = "action_approved"
                    THEN [approvals EXCEPT ![e.action].recorded = TRUE]
                    ELSE approvals
    /\ Owes(t, NothingDue)
    /\ UNCHANGED <<mem, file, checkpoints, workspace, desk, worker, cancelEvent, faults>>

---------------------------------------------------------------------------
(* create_session, load_session and the end of a process                  *)

CreateSession ==
    /\ Free /\ ~Loaded
    /\ file.state = "absent"
    /\ mem' = FreshSession /\ file' = FreshSession
    /\ workspace' = BaseFiles
    /\ Owes("desk", JustAppend("session_created", NoAction))
    /\ UNCHANGED <<ledger, approvals, checkpoints, desk, worker, cancelEvent, faults>>

LoadSession ==
    /\ Free /\ ~Loaded
    /\ file.state # "absent"
    /\ Loadable
    /\ mem' = file
    /\ UNCHANGED <<disk, due, desk, worker, cancelEvent, faults>>

Exit ==
    /\ Free /\ Loaded
    /\ mem' = NoSession
    /\ cancelEvent' = "none"
    /\ UNCHANGED <<disk, due, desk, worker, faults>>

---------------------------------------------------------------------------
(* plan, approve, pause, resume, create_checkpoint, finalize_candidate    *)

\* Mutant: a cancelled session is still editable.
ActiveUnlessBusy == mem.state \in States \ {"absent", "candidate_ready",
                                            "running", "cancelling"}
Active == mem.state \in States \ {"absent", "cancelled", "candidate_ready",
                                  "running", "cancelling"}

Plan(p) ==
    /\ Free /\ Active
    /\ p # <<>>
    /\ Len(mem.queued) + Len(p) <= Limits["actions"]
    /\ desk' = [pc |-> "planning", rest |-> p]
    /\ UNCHANGED <<mem, disk, due, worker, cancelEvent, faults>>

PlanOne ==
    /\ desk.pc = "planning" /\ Quiet("desk") /\ desk.rest # <<>>
    /\ Head(desk.rest) \notin Elems(mem.queued)
    /\ mem' = [mem EXCEPT !.queued = Append(@, Head(desk.rest))]
    /\ Owes("desk", JustAppend("action_queued", Head(desk.rest)))
    /\ desk' = [desk EXCEPT !.rest = Tail(@)]
    /\ UNCHANGED <<disk, worker, cancelEvent, faults>>

\* A duplicate raises in mid-loop: what was queued before it stays.
PlanRejected ==
    /\ desk.pc = "planning" /\ Quiet("desk") /\ desk.rest # <<>>
    /\ Head(desk.rest) \in Elems(mem.queued)
    /\ mem' = AfterRaise
    /\ desk' = Idle
    /\ UNCHANGED <<disk, due, worker, cancelEvent, faults>>

\* Mutant: the session is left in the state nothing else knows.
PlanDoneAsPlanned ==
    /\ desk.pc = "planning" /\ Quiet("desk") /\ desk.rest = <<>>
    /\ mem' = [mem EXCEPT !.state = "planned"]
    /\ Owes("desk", JustSave)
    /\ desk' = Idle
    /\ UNCHANGED <<disk, worker, cancelEvent, faults>>

PlanDone ==
    /\ desk.pc = "planning" /\ Quiet("desk") /\ desk.rest = <<>>
    /\ mem' = [mem EXCEPT !.state = "waiting_approval"]
    /\ Owes("desk", JustSave)
    /\ desk' = Idle
    /\ UNCHANGED <<disk, worker, cancelEvent, faults>>

\* The grant file is written before its ledger entry.
Approve(a, C) ==
    /\ Free /\ Active
    /\ a \in Elems(mem.queued)
    /\ C \subseteq Caps[a]
    /\ approvals' = [approvals EXCEPT ![a] = [caps |-> C, recorded |-> FALSE]]
    /\ Owes("desk", JustAppend("action_approved", a))
    /\ UNCHANGED <<mem, file, ledger, checkpoints, workspace, desk, worker,
                   cancelEvent, faults>>

Pause ==
    /\ Free /\ Active
    /\ mem' = [mem EXCEPT !.state = "paused"]
    /\ Owes("desk", SaveThen("other", NoAction))
    /\ UNCHANGED <<disk, desk, worker, cancelEvent, faults>>

Resume ==
    /\ Free
    /\ mem.state \in {"paused", "failed"}
    /\ mem' = [mem EXCEPT !.state =
                  IF mem.queued # <<>> THEN "waiting_approval" ELSE "created"]
    /\ Owes("desk", SaveThen("other", NoAction))
    /\ UNCHANGED <<disk, desk, worker, cancelEvent, faults>>

\* A checkpoint taken by hand has a name no run restores from; all the model
\* keeps of it is its ledger entry.
ManualCheckpoint ==
    /\ Free /\ Loaded
    /\ Owes("desk", JustAppend("other", NoAction))
    /\ UNCHANGED <<mem, disk, desk, worker, cancelEvent, faults>>

\* Mutant: failed actions do not count as remaining.
ReadyButForFailed ==
    Elems(mem.queued) \ Elems(mem.failed) \subseteq Elems(mem.completed)
ReadyForReview == Elems(mem.queued) \subseteq Elems(mem.completed)

FinalizeCandidate ==
    /\ Free
    /\ mem.state \in States \ {"absent", "cancelled", "failed", "running", "cancelling"}
    /\ ReadyForReview
    /\ mem' = [mem EXCEPT !.state = "candidate_ready"]
    /\ Owes("desk", SaveThen("candidate_ready", NoAction))
    /\ UNCHANGED <<disk, desk, worker, cancelEvent, faults>>

---------------------------------------------------------------------------
(* cancel, from the desk                                                  *)

\* The state is read here; the thread may be preempted before it is changed.
CancelLook ==
    /\ desk = Idle /\ Quiet("desk") /\ Loaded
    /\ Desktop \/ Free
    /\ mem.state \notin {"candidate_ready", "cancelling"}
    /\ mem.state = "running" => cancelEvent # "none"
    /\ desk' = [Idle EXCEPT !.pc =
                   IF mem.state = "running" THEN "stop run" ELSE "close"]
    /\ UNCHANGED <<mem, disk, due, worker, cancelEvent, faults>>

CancelSession ==
    /\ desk.pc = "close"
    /\ mem' = [mem EXCEPT !.state = "cancelled"]
    /\ Owes("desk", SaveThen("session_cancelled", NoAction))
    /\ desk' = Idle
    /\ UNCHANGED <<disk, worker, cancelEvent, faults>>

RequestCancel ==
    /\ desk.pc = "stop run"
    /\ mem' = [mem EXCEPT !.state = "cancelling"]
    /\ Owes("desk", SaveThen("other", NoAction))
    /\ desk' = [desk EXCEPT !.pc = "signal"]
    /\ UNCHANGED <<disk, worker, cancelEvent, faults>>

\* event.set() comes last; after the run popped its event nobody reads it.
SignalCancel ==
    /\ desk.pc = "signal" /\ Quiet("desk")
    /\ cancelEvent' = IF cancelEvent = "clear" THEN "set" ELSE cancelEvent
    /\ desk' = Idle
    /\ UNCHANGED <<mem, disk, due, worker, faults>>

---------------------------------------------------------------------------
(* execute: the checks                                                    *)

Runs(a) == Cardinality({i \in 1..Len(ledger.started) : ledger.started[i] = a})

\* Mutant: any recorded grant will do.
GrantRecorded(a) == approvals[a].recorded
FullyApproved(a) == approvals[a].recorded /\ Caps[a] \subseteq approvals[a].caps

\* _check_budget_before: what each action is about to spend one of.
Spends(a) == {"actions"} \cup (Caps[a] \cap {"network", "external_action"})
Meter(c) == IF c = "external_action" THEN "external" ELSE c

WithinBudget(a) ==
    \A c \in Spends(a) : mem.usage[Meter(c)] < Limits[Meter(c)]

\* A refusal by the execution policy appends action_blocked and changes
\* nothing else.
\* Mutant: completed actions may run again.
ExecutableAgain(a) == a \in Elems(mem.queued)
Executable(a) == a \in Elems(mem.queued) \ Elems(mem.completed)

Execute(a) ==
    /\ Free /\ Active
    /\ Executable(a)
    /\ FullyApproved(a) /\ WithinBudget(a)
    /\ Runs(a) < MaxStarts
    /\ IF a \in Permitted
       THEN /\ worker' = [NoRun EXCEPT !.pc = "checkpoint", !.action = a]
            /\ UNCHANGED due
       ELSE /\ Owes("worker", JustAppend("other", a))
            /\ UNCHANGED worker
    /\ UNCHANGED <<mem, disk, desk, cancelEvent, faults>>

---------------------------------------------------------------------------
(* execute: the checkpoint, named by the digest of manifest and label      *)

SameCheckpoint(c) == c.base = workspace /\ c.action = worker.action

\* A directory of that name is taken for a whole checkpoint.
ReuseCheckpoint ==
    /\ worker.pc = "checkpoint"
    /\ \E c \in checkpoints : SameCheckpoint(c)
    /\ worker' = [worker EXCEPT !.pc = "register", !.base = workspace]
    /\ UNCHANGED <<mem, disk, due, desk, cancelEvent, faults>>

MakeCheckpoint ==
    /\ worker.pc = "checkpoint"
    /\ ~ \E c \in checkpoints : SameCheckpoint(c)
    /\ checkpoints' = checkpoints \cup
           {[base |-> workspace, action |-> worker.action, files |-> {}]}
    /\ worker' = [worker EXCEPT !.pc = "copying"]
    /\ UNCHANGED <<mem, file, ledger, approvals, workspace, due, desk, cancelEvent, faults>>

CopyFile ==
    /\ worker.pc = "copying"
    /\ \E c \in checkpoints, f \in workspace :
          /\ SameCheckpoint(c) /\ f \notin c.files
          /\ checkpoints' = (checkpoints \ {c}) \cup {[c EXCEPT !.files = @ \cup {f}]}
    /\ UNCHANGED <<mem, file, ledger, approvals, workspace, due, desk, worker,
                   cancelEvent, faults>>

CheckpointMade ==
    /\ worker.pc = "copying"
    /\ \E c \in checkpoints : SameCheckpoint(c) /\ c.files = workspace
    /\ worker' = [worker EXCEPT !.pc = "register", !.base = workspace]
    /\ UNCHANGED <<mem, disk, due, desk, cancelEvent, faults>>

\* Only a process can be cancelled; a write registers no event.
Register ==
    /\ worker.pc = "register"
    /\ cancelEvent' = IF Kind[worker.action] = "process" THEN "clear" ELSE cancelEvent
    /\ worker' = [worker EXCEPT !.pc = "announce"]
    /\ UNCHANGED <<mem, disk, due, desk, faults>>

Announce ==
    /\ worker.pc = "announce"
    /\ mem' = [mem EXCEPT !.state = "running"]
    /\ Owes("worker", SaveThen("action_started", worker.action))
    /\ worker' = [worker EXCEPT !.pc = "begin"]
    /\ UNCHANGED <<disk, desk, cancelEvent, faults>>

---------------------------------------------------------------------------
(* execute: the end of a run, in memory                                   *)

Remaining(s) == Elems(s.queued) \
                (Elems(s.completed) \cup Elems(s.failed) \cup Elems(s.cancelled))

AddOnce(s, a) == IF a \in Elems(s) THEN s ELSE Append(s, a)

Completed(s, a, usage) ==
    LET t == [s EXCEPT !.completed = Append(@, a), !.usage = usage] IN
    [t EXCEPT !.state = IF Remaining(t) # {} THEN "waiting_approval" ELSE "paused"]

\* Mutant: the completed run is logged but not saved.
EndsCompletedUnsaved(usage) ==
    /\ mem' = Completed(mem, worker.action, usage)
    /\ Owes("worker", JustAppend("action_completed", worker.action))
    /\ worker' = [worker EXCEPT !.pc = "finish", !.out = "completed"]
EndsCompleted(usage) ==
    /\ mem' = Completed(mem, worker.action, usage)
    /\ Owes("worker", SaveThen("action_completed", worker.action))
    /\ worker' = [worker EXCEPT !.pc = "finish", !.out = "completed"]

EndsFailedCharged(usage) ==
    /\ mem' = [mem EXCEPT !.failed = AddOnce(@, worker.action), !.state = "failed",
                          !.usage = usage]
    /\ Owes("worker", SaveThen("action_failed", worker.action))
    /\ worker' = [worker EXCEPT !.pc = "finish", !.out = "failed"]

EndsFailed == EndsFailedCharged(mem.usage)

\* execute's `except Exception` after the files themselves raised an error: the
\* action has failed as well, and nobody puts the workspace back.
EndsAbandoned(usage) ==
    /\ mem' = [mem EXCEPT !.failed = AddOnce(@, worker.action), !.state = "failed",
                          !.usage = usage]
    /\ Owes("worker", SaveThen("action_failed", worker.action))
    /\ worker' = [worker EXCEPT !.pc = "finish", !.out = "abandoned"]

EndsCancelled ==
    /\ mem' = [mem EXCEPT !.cancelled = AddOnce(@, worker.action), !.state = "cancelled"]
    /\ Owes("worker", SaveThen("action_cancelled", worker.action))
    /\ worker' = [worker EXCEPT !.pc = "finish", !.out = "cancelled"]

\* The finally clause: the event is popped and the call returns or raises.
Finish ==
    /\ worker.pc = "finish" /\ Quiet("worker")
    /\ cancelEvent' = "none"
    /\ worker' = NoRun
    /\ mem' = IF worker.out = "completed" THEN mem ELSE AfterRaise
    /\ UNCHANGED <<disk, due, desk, faults>>

---------------------------------------------------------------------------
(* execute: a direct write                                                *)

Begins(kind) == worker.pc = "begin" /\ Quiet("worker") /\ Kind[worker.action] = kind

WriteText ==
    /\ Begins("write")
    /\ mem.usage["files"] < Limits["files"]
    /\ workspace' = workspace \cup {worker.action}
    /\ EndsCompleted([mem.usage EXCEPT !["files"] = @ + 1, !["actions"] = @ + 1])
    /\ UNCHANGED <<file, ledger, approvals, checkpoints, desk, cancelEvent, faults>>

WriteOverBudget ==
    /\ Begins("write")
    /\ mem.usage["files"] >= Limits["files"]
    /\ EndsFailed
    /\ UNCHANGED <<disk, desk, cancelEvent, faults>>

---------------------------------------------------------------------------
(* execute: a process                                                     *)

\* Mutant: the coming run's timeout is left out of the sum.
InTimeSoFar(a) == mem.usage["seconds"] <= Limits["seconds"]
InTime(a) == mem.usage["seconds"] + Timeout[a] <= Limits["seconds"]

ProcessRefused ==
    /\ Begins("process")
    /\ ~InTime(worker.action)
    /\ EndsFailed
    /\ UNCHANGED <<disk, desk, cancelEvent, faults>>

ProcessStarts ==
    /\ Begins("process")
    /\ InTime(worker.action)
    /\ worker' = [worker EXCEPT !.pc = "process"]
    /\ UNCHANGED <<mem, disk, due, desk, cancelEvent, faults>>

\* The process adds its file or deletes any.
ProcessWrites ==
    /\ worker.pc = "process"
    /\ \E w \in SUBSET (workspace \cup {worker.action}) :
          w # workspace /\ workspace' = w
    /\ UNCHANGED <<mem, file, ledger, approvals, checkpoints, due, desk, worker,
                   cancelEvent, faults>>

ProcessExits ==
    /\ worker.pc = "process"
    /\ worker' = [worker EXCEPT !.pc = "exited"]
    /\ UNCHANGED <<mem, disk, due, desk, cancelEvent, faults>>

Restores(out) ==
    worker' = [worker EXCEPT !.pc = "wipe", !.out = out]

\* Timed out, or the runner raised: nothing is charged.
ProcessAborts ==
    /\ worker.pc = "process"
    /\ Restores("failed")
    /\ UNCHANGED <<mem, disk, due, desk, cancelEvent, faults>>

\* The poll loop sees the event, or the check after the runner returned does.
ProcessCancelled ==
    /\ worker.pc \in {"process", "exited"}
    /\ cancelEvent = "set"
    /\ Restores("cancelled")
    /\ UNCHANGED <<mem, disk, due, desk, cancelEvent, faults>>

\* Mutant: the event is not looked at after the process returned.
NeverChecked ==
    /\ worker.pc = "exited"
    /\ worker' = [worker EXCEPT !.pc = "judge"]
    /\ UNCHANGED <<mem, disk, due, desk, cancelEvent, faults>>

CheckedNoCancel ==
    /\ worker.pc = "exited"
    /\ cancelEvent # "set"
    /\ worker' = [worker EXCEPT !.pc = "judge"]
    /\ UNCHANGED <<mem, disk, due, desk, cancelEvent, faults>>

\* The poll loop looks every 0.05 s: a process that ends between its timeout
\* and the next look has ended by itself, later than its timeout.
Durations(a) == 0..(Timeout[a] + PollSlack)

Charged(a, elapsed) ==
    [mem.usage EXCEPT
        !["seconds"] = @ + elapsed,
        !["network"] = IF "network" \in Caps[a] THEN @ + 1 ELSE @,
        !["external"] = IF "external_action" \in Caps[a] THEN @ + 1 ELSE @]

ChangedFiles == (workspace \ worker.base) \cup (worker.base \ workspace)

\* The changes are declared and fit the file budget.
ChangesAccepted(a) ==
    /\ ChangedFiles # {} => "file_write" \in Caps[a]
    /\ mem.usage["files"] + Cardinality(ChangedFiles) <= Limits["files"]

\* The run is charged for its time and its external effects.  An unsafe or
\* oversized workspace, refused changes and a non-zero exit undo its changes;
\* a file that cannot be read (file_manifest raises an OSError) leaves them.
\* Only accepted changes are charged, those of a non-zero exit among them.
WithChanges(usage) == [usage EXCEPT !["files"] = @ + Cardinality(ChangedFiles)]
Counted(usage) == [usage EXCEPT !["actions"] = @ + 1]

Judge ==
    /\ worker.pc = "judge"
    /\ \E elapsed \in Durations(worker.action) :
          LET usage == Charged(worker.action, elapsed) IN
          \/ \* unsafe tree, undeclared changes, over budget
             /\ mem' = [mem EXCEPT !.usage = usage]
             /\ Restores("failed")
             /\ UNCHANGED due
          \/ \* non-zero exit
             /\ ChangesAccepted(worker.action)
             /\ mem' = [mem EXCEPT !.usage = WithChanges(usage)]
             /\ Restores("failed")
             /\ UNCHANGED due
          \/ \* a file that is there cannot be read
             /\ workspace # {}
             /\ EndsAbandoned(usage)
          \/ \* exit status 0
             /\ ChangesAccepted(worker.action)
             /\ EndsCompleted(Counted(WithChanges(usage)))
    /\ UNCHANGED <<disk, desk, cancelEvent, faults>>

---------------------------------------------------------------------------
(* _restore_checkpoint                                                    *)

\* The cancel outcome is settled by execute's handler once the files are back.
SettleAfterRestore ==
    IF worker.out = "cancelled" THEN EndsCancelled ELSE EndsFailed

\* Mutant: the outcome is settled without touching the files.
SkipRestore ==
    /\ worker.pc = "wipe"
    /\ SettleAfterRestore
    /\ UNCHANGED <<disk, desk, cancelEvent, faults>>

\* Mutant: the checkpoint is looked up by the workspace as it is now.
SourceByCurrentFiles(c) == c.base = workspace /\ c.action = worker.action

\* What execute restores from: the files directory exists once a file is in it.
RestoreSource(c) == c.base = worker.base /\ c.action = worker.action
HasFiles == \E c \in checkpoints : RestoreSource(c) /\ c.files # {}

\* "checkpoint files are missing" is raised before anything is deleted.
RestoreRefused ==
    /\ worker.pc = "wipe"
    /\ ~HasFiles
    /\ EndsFailed
    /\ UNCHANGED <<disk, desk, cancelEvent, faults>>

WipeWorkspace ==
    /\ worker.pc = "wipe"
    /\ HasFiles
    /\ workspace' = {}
    /\ worker' = [worker EXCEPT !.pc = "restore"]
    /\ UNCHANGED <<mem, file, ledger, approvals, checkpoints, due, desk,
                   cancelEvent, faults>>

\* What the process left cannot be deleted (a directory without permission, a
\* file still open on Windows), or a copy raises: the files stay half-way.
RestoreStopped ==
    /\ \/ worker.pc = "wipe" /\ HasFiles /\ workspace' \in SUBSET workspace
       \/ /\ worker.pc = "restore"
          /\ \E c \in checkpoints :
                /\ RestoreSource(c)
                /\ workspace' \in SUBSET c.files
    /\ EndsAbandoned(mem.usage)
    /\ UNCHANGED <<file, ledger, approvals, checkpoints, desk, cancelEvent, faults>>

RestoreCheckpoint ==
    /\ worker.pc = "restore"
    /\ \E c \in checkpoints :
          /\ RestoreSource(c)
          /\ workspace' = c.files
    /\ SettleAfterRestore
    /\ UNCHANGED <<file, ledger, approvals, checkpoints, desk, cancelEvent, faults>>

---------------------------------------------------------------------------
(* Faults                                                                 *)

Fault == faults < MaxFaults /\ faults' = faults + 1

\* The process dies; what is on disk stays.
Crash ==
    /\ Loaded /\ Fault
    /\ mem' = NoSession
    /\ due' = [t \in Threads |-> NothingDue]
    /\ desk' = Idle /\ worker' = NoRun
    /\ cancelEvent' = "none"
    /\ UNCHANGED disk

\* A write of the desk raises: the call ends there and memory keeps its
\* change, but create_session returns no session.
DeskWriteFails ==
    /\ ~Quiet("desk") /\ Fault
    /\ mem' = IF due["desk"].entry.event = "session_created" THEN NoSession ELSE AfterRaise
    /\ Owes("desk", NothingDue)
    /\ desk' = Idle
    /\ UNCHANGED <<disk, worker, cancelEvent>>

\* copy_verified_tree raises: the partial checkpoint directory stays.
CheckpointFails ==
    /\ worker.pc = "copying" /\ Fault
    /\ worker' = NoRun
    /\ mem' = AfterRaise
    /\ UNCHANGED <<disk, due, desk, cancelEvent>>

\* The save or the append before the try block raises: the state stays
\* running and the event stays registered.
AnnounceFails ==
    /\ worker.pc = "begin" /\ ~Quiet("worker") /\ Fault
    /\ Owes("worker", NothingDue)
    /\ worker' = NoRun
    /\ mem' = AfterRaise
    /\ cancelEvent' = IF Desktop THEN cancelEvent ELSE "none"
    /\ UNCHANGED <<disk, desk>>

\* Inside the try block an error of the direct write or of the writes that
\* record a completed run reaches `except Exception`.
RunFails ==
    /\ \/ Begins("write") /\ workspace' \in {workspace, workspace \cup {worker.action}}
       \/ worker.pc = "finish" /\ worker.out = "completed" /\ ~Quiet("worker")
             /\ UNCHANGED workspace
    /\ Fault
    /\ EndsFailed
    /\ UNCHANGED <<file, ledger, approvals, checkpoints, desk, cancelEvent>>

\* Writing the action log raises, after the run was charged: no restore.
LogFails ==
    /\ worker.pc = "judge" /\ Fault
    /\ ChangesAccepted(worker.action)
    /\ \E elapsed \in Durations(worker.action) :
          EndsFailedCharged(WithChanges(Charged(worker.action, elapsed)))
    /\ UNCHANGED <<disk, desk, cancelEvent>>

\* The writes of an except clause raise: the outcome stays in memory, if there.
HandlerFails ==
    /\ worker.pc = "finish" /\ worker.out # "completed" /\ ~Quiet("worker") /\ Fault
    /\ Owes("worker", NothingDue)
    /\ worker' = NoRun
    /\ mem' = AfterRaise
    /\ cancelEvent' = "none"
    /\ UNCHANGED <<disk, desk>>

---------------------------------------------------------------------------
Persist(t) == TakeSnapshot(t) \/ ReplaceFile(t) \/ AppendEntry(t)

DeskCall ==
    \/ CreateSession \/ LoadSession \/ Exit
    \/ \E p \in Plans : Plan(p)
    \/ \E a \in Actions, C \in Grants : Approve(a, C)
    \/ Pause \/ Resume \/ ManualCheckpoint \/ FinalizeCandidate
    \/ CancelLook

DeskStep ==
    \/ PlanOne \/ PlanRejected \/ PlanDone
    \/ CancelSession \/ RequestCancel \/ SignalCancel
    \/ Persist("desk")

WorkerStep ==
    \/ ReuseCheckpoint \/ MakeCheckpoint \/ CopyFile \/ CheckpointMade
    \/ Register \/ Announce
    \/ WriteText \/ WriteOverBudget
    \/ ProcessRefused \/ ProcessStarts
    \/ ProcessExits \/ ProcessAborts \/ ProcessCancelled
    \/ CheckedNoCancel \/ Judge
    \/ RestoreRefused \/ WipeWorkspace \/ RestoreStopped \/ RestoreCheckpoint
    \/ Finish
    \/ Persist("worker")

FaultStep ==
    \/ Crash \/ DeskWriteFails \/ CheckpointFails \/ AnnounceFails
    \/ RunFails \/ LogFails \/ HandlerFails

Next ==
    \/ DeskCall \/ DeskStep
    \/ (\E a \in Actions : Execute(a))
    \/ WorkerStep \/ ProcessWrites
    \/ FaultStep

Spec == Init /\ [][Next]_vars

\* A thread that can run does: the operating system schedules both.  The
\* process ends by itself or by its timeout (ProcessExits, ProcessAborts).
\* Nobody is made to call anything, and no fault has to happen.
FairSpec == Spec /\ WF_vars(WorkerStep) /\ WF_vars(DeskStep)

---------------------------------------------------------------------------
(* Properties                                                             *)

Lists == Seq(Actions)
UsageType == [Meters -> Nat]
Session == [state : States, queued : Lists, completed : Lists, failed : Lists,
            cancelled : Lists, usage : UsageType]
LedgerType == [marks : SUBSET SessionEvents, queued : Lists,
               run : Actions \cup {NoAction}, started : Lists,
               completed : Lists, failed : Lists, cancelled : Lists]
GrantType == [caps : SUBSET Capability, recorded : BOOLEAN]
CheckpointType == [base : SUBSET Files, action : Actions, files : SUBSET Files]
ActionEvents == RunEvents \cup {"action_queued", "action_approved"}
EntryType == [event : ActionEvents, action : Actions] \cup
             [event : SessionEvents \cup {"other", "none"},
              action : Actions \cup {NoAction}]
DueType == [save : {"no", "due", "taken"}, image : Session, entry : EntryType]
DeskType == [pc : {"idle", "planning", "close", "stop run", "signal"}, rest : Lists]
WorkerPc == {"idle", "checkpoint", "copying", "register", "announce", "begin",
             "process", "exited", "judge", "wipe", "restore", "finish"}
WorkerType == [pc : WorkerPc, action : Actions \cup {NoAction},
               base : SUBSET Files,
               out : {"none", "completed", "failed", "cancelled", "abandoned"}]

TypeOK ==
    /\ mem \in Session /\ file \in Session
    /\ ledger \in LedgerType
    /\ approvals \in [Actions -> GrantType]
    /\ checkpoints \subseteq CheckpointType
    /\ workspace \subseteq Files
    /\ due \in [Threads -> DueType]
    /\ desk \in DeskType
    /\ worker \in WorkerType
    /\ worker.pc # "idle" => worker.action \in Actions
    /\ cancelEvent \in {"none", "clear", "set"}
    /\ faults \in 0..MaxFaults

\* "Nothing is pre-approved": from the checkpoint to the end of its run an
\* action is queued, permitted by the execution policy and holds a recorded
\* grant of every capability it asks for, whatever was called, cancelled,
\* retried or lost before.
RunsOnlyApproved ==
    worker.action \in Actions =>
        /\ worker.action \in Elems(mem.queued) \cap Permitted
        /\ approvals[worker.action].recorded
        /\ Caps[worker.action] \subseteq approvals[worker.action].caps

\* An action is completed at most once: neither the session object, nor
\* session.json, nor the ledger ever lists it twice, across retries, crashes
\* and reloads.
NoRepeat(s) == \A i, j \in 1..Len(s) : s[i] = s[j] => i = j
CompletedOnce ==
    NoRepeat(mem.completed) /\ NoRepeat(file.completed) /\ NoRepeat(ledger.completed)

\* No charged meter passes its limit, in memory or in session.json; the time of
\* processes may pass it by what the last one ran past its timeout.
Ceiling(m) == IF m = "seconds" THEN Limits[m] + PollSlack ELSE Limits[m]
BudgetsHold ==
    \A m \in Meters : mem.usage[m] <= Ceiling(m) /\ file.usage[m] <= Ceiling(m)

\* A workspace handed over for review holds nothing but the pack's assets and
\* the output of actions that were completed: an action that only failed or was
\* cancelled left nothing behind.
CandidateHoldsCompletedWork ==
    "candidate_ready" \in {mem.state, file.state} =>
        /\ workspace \subseteq BaseFiles \cup Elems(ledger.completed)
        /\ Elems(ledger.queued) \subseteq Elems(ledger.completed)

\* When the service has given up a run (its time, its exit, its changes, or a
\* cancel) and no fault touched its checkpoint, the workspace is what it was
\* before the run, whatever the process did to it; only a run that left files
\* the service could not read or delete is abandoned as it is.  (A workspace
\* with no file at all has no checkpoint directory to restore from.)
FailedRunRestores ==
    (/\ worker.pc = "finish" /\ worker.out \in {"failed", "cancelled"}
     /\ faults = 0 /\ worker.base # {}) => workspace = worker.base

\* Between calls, with no fault, the session on disk passes load_session's
\* comparison with the ledger, unless an action failed twice or a plan was
\* refused half-way.
RestingSessionLoads ==
    (/\ Free /\ file.state # "absent" /\ faults = 0
     /\ NoRepeat(file.failed) /\ NoRepeat(ledger.failed)
     /\ file.queued = ledger.queued) => Loadable

\* A cancelled session stays cancelled, on disk and in memory.
CancelledIsFinal ==
    [][/\ mem.state = "cancelled" => mem'.state \in {"cancelled", "absent"}
       /\ file.state = "cancelled" => file'.state = "cancelled"]_vars

\* The audit trail is a legal story (module AuditTrail).
Trail == INSTANCE AuditTrail WITH
    opened <- "session_created" \in ledger.marks,
    queued <- Elems(ledger.queued),
    granted <- [a \in Actions |-> IF approvals[a].recorded THEN approvals[a].caps ELSE {}],
    running <- ledger.run,
    done <- Elems(ledger.completed),
    closing <- IF "candidate_ready" \in ledger.marks THEN "candidate"
               ELSE IF "session_cancelled" \in ledger.marks \/ ledger.cancelled # <<>>
                    THEN "cancelled" ELSE "open"
TellsLegalStory == Trail!TrailSpec

\* Every call of execute ends: no run hangs in its process, its restore or its
\* bookkeeping.
RunsEnd == (worker.pc # "idle") ~> (worker.pc = "idle")

\* A cancel that reaches the run while its process is up, or before the check
\* after it, stops it: the session ends cancelled or failed.
CancelStopsTheRun ==
    (worker.pc \in {"process", "exited"} /\ cancelEvent = "set")
        ~> (worker.pc = "finish" /\ worker.out # "completed")

\* "A failed or cancelled action never becomes a candidate": the ledger never
\* holds both a cancelled session and a candidate.
CancelledNeverCandidate ==
    ~ {"session_cancelled", "candidate_ready"} \subseteq ledger.marks

\* tests/test_supervisor_v011.py:167, "failed_process_always_restores_checkpoint": a run
\* that fails once its process has ended does not keep what the process did.  Violated:
\* MCSupervisorUnread.cfg (service.py:694).
EveryFailureRestores ==
    [][worker.pc = "judge" /\ worker'.pc = "finish" /\ worker'.out # "completed"
         => workspace' = worker.base]_vars

\* A session whose action failed can be loaded again between calls, with no
\* fault and every plan accepted: resume is offered to a failed session.
FailedSessionLoads ==
    (Free /\ faults = 0 /\ file.state = "failed" /\ file.queued = ledger.queued)
        => Loadable

\* A restore that runs to its end gives back the workspace the action started
\* from, even when an earlier process crashed.
RestoreGivesBack == [][RestoreCheckpoint => workspace' = worker.base]_vars
===========================================================================
